-------------------------- MODULE SaveStore_proofs --------------------------
(***************************************************************************)
(* What follows from the promises of SaveStore alone, for every set of     *)
(* files and every number of saves: saves survive whatever goes wrong, and *)
(* while nothing does every answer is right.                               *)
(***************************************************************************)
EXTENDS SaveStore, TLAPS

Results == {"BUSY", "OK", "NEW_GAME", "NO_MEMORY", "INTERNAL_ERROR", "READ_ERROR"}
TaskTypes == [operation : {"NO_OP", "SAVE", "LOAD"}, file : Files, save : Nat, result : Results]
AnswerTypes == [what : {"nothing", "done", "error", "no-save"},
                mode : {"save", "restore"}, file : Files]

(* Every variable keeps its type. *)
TypeOK ==
  /\ holds \in [Files -> SUBSET Nat]
  /\ newest \in [Files -> Nat]
  /\ issued \in Nat
  /\ task \in TaskTypes
  /\ waiting \in BOOLEAN
  /\ told \in AnswerTypes
  /\ buffer \in Nat
  /\ calm \in BOOLEAN

(* Who asked waits, and is told nothing, until there is a result.          *)
AskedInv ==
  /\ task.operation # "NO_OP" => waiting /\ task.result = "BUSY"
  /\ waiting =>
       /\ told.what = "nothing"
       /\ told.file = task.file
       /\ task.operation = "SAVE" => told.mode = "save"
       /\ task.operation = "LOAD" => told.mode = "restore"

(* While nothing went wrong the newest save is held, and the result of the *)
(* request is the right one.                                               *)
CalmInv ==
  calm => /\ \A f \in Files : newest[f] # 0 => newest[f] \in holds[f]
          /\ waiting => task.result \in {"BUSY", "OK"}
          /\ waiting /\ told.mode = "restore" /\ task.result = "OK" =>
               buffer = newest[task.file]

StoreInv == TypeOK /\ AskedInv /\ CalmInv /\ SavesSurvive /\ CalmAnswers

-----------------------------------------------------------------------------
LEMMA InitInv == Init => StoreInv
<1> SUFFICES ASSUME Init PROVE StoreInv
  OBVIOUS
<1>1. PICK f \in Files : /\ task = Nothing(f)
                         /\ told = [what |-> "nothing", mode |-> "save", file |-> f]
  BY DEF Init
<1>2. TypeOK
  BY <1>1 DEF Init, TypeOK, Nothing, TaskTypes, AnswerTypes, Results
<1>3. /\ waiting = FALSE /\ task.operation = "NO_OP" /\ told.what = "nothing"
      /\ \A g \in Files : newest[g] = 0
  BY <1>1 DEF Init, Nothing
<1> QED BY <1>2, <1>3 DEF StoreInv, AskedInv, CalmInv, SavesSurvive, CalmAnswers

(* What Finish does to the task. *)
LEMMA FinishTask ==
  ASSUME TypeOK, NEW r \in Results, Finish(r)
  PROVE  /\ task' \in TaskTypes
         /\ task'.operation = "NO_OP" /\ task'.file = task.file /\ task'.result = r
BY DEF TypeOK, TaskTypes, Finish

LEMMA AskSaveInv == ASSUME StoreInv, NEW f \in Files, AskSave(f) PROVE StoreInv'
<1>1. /\ task' = [operation |-> "SAVE", file |-> f, save |-> issued + 1, result |-> "BUSY"]
      /\ told' = [what |-> "nothing", mode |-> "save", file |-> f]
      /\ issued' = issued + 1 /\ waiting' = TRUE /\ calm' \in {calm, FALSE}
      /\ UNCHANGED <<holds, newest, buffer>>
  BY DEF AskSave
<1>2. /\ task'.operation = "SAVE" /\ task'.file = f /\ task'.result = "BUSY"
      /\ told'.what = "nothing" /\ told'.mode = "save" /\ told'.file = f
  BY <1>1
<1>3. task' \in TaskTypes /\ told' \in AnswerTypes
  BY <1>1 DEF StoreInv, TypeOK, TaskTypes, AnswerTypes, Results
<1>4. calm' \in BOOLEAN /\ (calm' => calm)
  <2>1. calm \in BOOLEAN
    BY DEF StoreInv, TypeOK
  <2>2. calm' = calm \/ calm' = FALSE
    BY <1>1
  <2>3. CASE calm' = calm
    BY <2>1, <2>3
  <2>4. CASE calm' = FALSE
    BY <2>4
  <2> QED BY <2>2, <2>3, <2>4
<1>5. TypeOK'
  BY <1>1, <1>3, <1>4 DEF StoreInv, TypeOK
<1>6. AskedInv' /\ CalmAnswers'
  BY <1>1, <1>2 DEF AskedInv, CalmAnswers
<1>7. CalmInv' /\ SavesSurvive'
  BY <1>1, <1>2, <1>4 DEF StoreInv, CalmInv, SavesSurvive
<1> QED BY <1>5, <1>6, <1>7 DEF StoreInv

LEMMA AskLoadInv == ASSUME StoreInv, NEW f \in Files, AskLoad(f) PROVE StoreInv'
<1>1. /\ task' = [operation |-> "LOAD", file |-> f, save |-> 0, result |-> "BUSY"]
      /\ told' = [what |-> "nothing", mode |-> "restore", file |-> f]
      /\ waiting' = TRUE /\ buffer' = 0
      /\ UNCHANGED <<holds, newest, issued, calm>>
  BY DEF AskLoad
<1>2. /\ task'.operation = "LOAD" /\ task'.file = f /\ task'.result = "BUSY"
      /\ told'.what = "nothing" /\ told'.mode = "restore" /\ told'.file = f
  BY <1>1
<1>3. task' \in TaskTypes /\ told' \in AnswerTypes
  BY <1>1 DEF TaskTypes, AnswerTypes, Results
<1>4. TypeOK'
  BY <1>1, <1>3 DEF StoreInv, TypeOK
<1>5. AskedInv' /\ CalmAnswers'
  BY <1>1, <1>2 DEF AskedInv, CalmAnswers
<1>6. CalmInv' /\ SavesSurvive'
  BY <1>1, <1>2 DEF StoreInv, CalmInv, SavesSurvive
<1> QED BY <1>4, <1>5, <1>6 DEF StoreInv

LEMMA NoSaveInv == ASSUME StoreInv, NEW f \in Files, NoSave(f) PROVE StoreInv'
<1>1. /\ ~waiting
      /\ calm => newest[f] = 0
      /\ told' = [what |-> "no-save", mode |-> "restore", file |-> f]
      /\ buffer' = 0
      /\ UNCHANGED <<holds, newest, issued, task, waiting, calm>>
  BY DEF NoSave
<1>2. told'.what = "no-save" /\ told'.file = f
  BY <1>1
<1>3. told' \in AnswerTypes
  BY <1>1 DEF AnswerTypes
<1>4. TypeOK'
  BY <1>1, <1>3 DEF StoreInv, TypeOK
<1>5. AskedInv' /\ CalmAnswers'
  BY <1>1, <1>2 DEF StoreInv, AskedInv, CalmAnswers
<1>6. CalmInv' /\ SavesSurvive'
  BY <1>1, <1>2 DEF StoreInv, CalmInv, SavesSurvive
<1> QED BY <1>4, <1>5, <1>6 DEF StoreInv

LEMMA AnswerInv == ASSUME StoreInv, Answer PROVE StoreInv'
<1>1. /\ waiting /\ waiting' = FALSE
      /\ task.result \in Results \ {"BUSY", "READ_ERROR"}
      /\ UNCHANGED <<holds, newest, issued, task, buffer, calm>>
  BY DEF Answer, StoreInv, TypeOK, TaskTypes
<1>2. /\ told' = [told EXCEPT !.what = AnswerTo(task.result)]
      /\ AnswerTo(task.result) \in {"done", "error", "no-save"}
      /\ calm => task.result = "OK" /\ AnswerTo(task.result) = "done"
  BY <1>1 DEF Answer, AnswerTo, Results, StoreInv, CalmInv
<1>3. /\ told' \in AnswerTypes /\ told'.what = AnswerTo(task.result)
      /\ told'.mode = told.mode /\ told'.file = told.file
  BY <1>2 DEF StoreInv, TypeOK, AnswerTypes
<1>4. TypeOK' /\ CalmInv' /\ SavesSurvive'
  BY <1>1, <1>3 DEF StoreInv, TypeOK, CalmInv, SavesSurvive
<1>5. AskedInv'
  BY <1>1 DEF StoreInv, AskedInv
<1>6. CalmAnswers'
  BY <1>1, <1>2, <1>3 DEF StoreInv, AskedInv, CalmInv, CalmAnswers
<1> QED BY <1>4, <1>5, <1>6 DEF StoreInv

(* Steps while a task is under way change no answer. *)
LEMMA TaskAnswers ==
  ASSUME StoreInv, task.operation # "NO_OP", told' = told
  PROVE  CalmAnswers'
BY DEF StoreInv, AskedInv, CalmAnswers

LEMMA MakeRoomInv == ASSUME StoreInv, MakeRoom PROVE StoreInv'
<1> SUFFICES ASSUME NEW f \in Files, f = task.file PROVE StoreInv'
  BY DEF StoreInv, TypeOK, TaskTypes
<1>1. /\ task.operation = "SAVE"
      /\ UNCHANGED <<newest, issued, task, waiting, told, buffer, calm>>
  BY DEF MakeRoom
<1>2. PICK kept \in Kept(f) : holds' = [holds EXCEPT ![f] = kept]
  BY DEF MakeRoom
<1>3. /\ kept \in SUBSET holds[f]
      /\ holds[f] # {} => kept # {}
      /\ calm /\ newest[f] # 0 => newest[f] \in kept
  BY <1>2 DEF Kept
<1>4. holds'[f] = kept /\ \A g \in Files : g # f => holds'[g] = holds[g]
  BY <1>2 DEF StoreInv, TypeOK
<1>5. TypeOK'
  BY <1>1, <1>2, <1>3 DEF StoreInv, TypeOK
<1>6. AskedInv' /\ CalmInv' /\ SavesSurvive'
  BY <1>1, <1>3, <1>4 DEF StoreInv, AskedInv, CalmInv, SavesSurvive
<1> QED BY <1>1, <1>5, <1>6, TaskAnswers DEF StoreInv

LEMMA StoredInv == ASSUME StoreInv, Stored PROVE StoreInv'
<1> SUFFICES ASSUME NEW f \in Files, f = task.file, NEW s \in Nat, s = task.save
             PROVE  StoreInv'
  BY DEF StoreInv, TypeOK, TaskTypes
<1>1. /\ task.operation = "SAVE" /\ Finish("OK")
      /\ holds' = [holds EXCEPT ![f] = holds[f] \cup {s}]
      /\ newest' = [newest EXCEPT ![f] = s]
      /\ UNCHANGED <<issued, waiting, told, buffer, calm>>
  BY DEF Stored
<1>2. /\ task' \in TaskTypes /\ task'.operation = "NO_OP" /\ task'.file = f
      /\ task'.result = "OK"
  BY <1>1, FinishTask DEF StoreInv, Results
<1>3. /\ holds'[f] = holds[f] \cup {s} /\ newest'[f] = s
      /\ \A g \in Files : g # f => holds'[g] = holds[g] /\ newest'[g] = newest[g]
  BY <1>1 DEF StoreInv, TypeOK
<1>4. TypeOK'
  BY <1>1, <1>2 DEF StoreInv, TypeOK
<1>5. waiting /\ told.mode = "save"
  BY <1>1 DEF StoreInv, AskedInv
<1>6. AskedInv' /\ CalmInv' /\ SavesSurvive'
  BY <1>1, <1>2, <1>3, <1>5 DEF StoreInv, AskedInv, CalmInv, SavesSurvive
<1> QED BY <1>1, <1>4, <1>6, TaskAnswers DEF StoreInv

LEMMA DeliveredInv == ASSUME StoreInv, Delivered PROVE StoreInv'
<1> SUFFICES ASSUME NEW f \in Files, f = task.file PROVE StoreInv'
  BY DEF StoreInv, TypeOK, TaskTypes
<1>1. /\ task.operation = "LOAD" /\ Finish("OK") /\ buffer' \in holds[f]
      /\ calm => buffer' = newest[f]
      /\ UNCHANGED <<holds, newest, issued, waiting, told, calm>>
  BY DEF Delivered
<1>2. /\ task' \in TaskTypes /\ task'.operation = "NO_OP" /\ task'.file = f
      /\ task'.result = "OK"
  BY <1>1, FinishTask DEF StoreInv, Results
<1>3. TypeOK'
  BY <1>1, <1>2 DEF StoreInv, TypeOK
<1>4. AskedInv' /\ CalmInv' /\ SavesSurvive'
  BY <1>1, <1>2 DEF StoreInv, AskedInv, CalmInv, SavesSurvive
<1> QED BY <1>1, <1>3, <1>4, TaskAnswers DEF StoreInv

LEMMA RefusedInv == ASSUME StoreInv, Refused PROVE StoreInv'
<1>1. /\ task.operation # "NO_OP" /\ calm' = FALSE
      /\ \E r \in Results : Finish(r)
      /\ UNCHANGED <<holds, newest, issued, waiting, told, buffer>>
  BY DEF Refused, Results
<1>2. task' \in TaskTypes /\ task'.operation = "NO_OP" /\ task'.file = task.file
  BY <1>1, FinishTask DEF StoreInv
<1>3. TypeOK'
  BY <1>1, <1>2 DEF StoreInv, TypeOK
<1>4. AskedInv' /\ CalmInv' /\ SavesSurvive'
  BY <1>1, <1>2 DEF StoreInv, AskedInv, CalmInv, SavesSurvive
<1> QED BY <1>1, <1>3, <1>4, TaskAnswers DEF StoreInv

LEMMA CrashInv == ASSUME StoreInv, Crash PROVE StoreInv'
<1> SUFFICES ASSUME NEW f \in Files, f = task.file, NEW s \in Nat, s = task.save
             PROVE  StoreInv'
  BY DEF StoreInv, TypeOK, TaskTypes
<1>1. /\ task' = Nothing(f)
      /\ told' = [what |-> "nothing", mode |-> "save", file |-> f]
      /\ waiting' = FALSE /\ buffer' = 0 /\ calm' = FALSE
      /\ UNCHANGED <<newest, issued>>
  BY DEF Crash
<1>2. \/ holds' = holds
      \/ holds' = [holds EXCEPT ![f] = holds[f] \cup {s}]
  BY DEF Crash
<1>3. holds' \in [Files -> SUBSET Nat] /\ \A g \in Files : holds[g] \subseteq holds'[g]
  BY <1>2 DEF StoreInv, TypeOK
<1>4. task' \in TaskTypes /\ told' \in AnswerTypes
  BY <1>1 DEF Nothing, TaskTypes, AnswerTypes, Results
<1>5. TypeOK'
  BY <1>1, <1>3, <1>4 DEF StoreInv, TypeOK
<1>6. SavesSurvive'
  BY <1>1, <1>3 DEF StoreInv, SavesSurvive
<1>7. task'.operation = "NO_OP"
  BY <1>1 DEF Nothing
<1> QED BY <1>1, <1>5, <1>6, <1>7 DEF StoreInv, AskedInv, CalmInv, CalmAnswers

LEMMA DeleteInv == ASSUME StoreInv, NEW f \in Files, Delete(f) PROVE StoreInv'
<1>1. /\ holds' = [holds EXCEPT ![f] = {}] /\ newest' = [newest EXCEPT ![f] = 0]
      /\ calm' = FALSE /\ UNCHANGED <<issued, task, waiting, told, buffer>>
  BY DEF Delete
<1>2. TypeOK'
  BY <1>1 DEF StoreInv, TypeOK
<1>3. /\ newest'[f] = 0
      /\ \A g \in Files : g # f => holds'[g] = holds[g] /\ newest'[g] = newest[g]
  BY <1>1 DEF StoreInv, TypeOK
<1>4. SavesSurvive'
  BY <1>3 DEF StoreInv, SavesSurvive
<1> QED BY <1>1, <1>2, <1>4 DEF StoreInv, AskedInv, CalmInv, CalmAnswers

LEMMA NextInv == StoreInv /\ [Next]_cvars => StoreInv'
<1> SUFFICES ASSUME StoreInv, [Next]_cvars PROVE StoreInv'
  OBVIOUS
<1>1. CASE UNCHANGED cvars
  BY <1>1 DEF cvars, StoreInv, TypeOK, AskedInv, CalmInv, SavesSurvive, CalmAnswers
<1>2. CASE \E f \in Files : AskSave(f) \/ AskLoad(f) \/ NoSave(f) \/ Delete(f)
  BY <1>2, AskSaveInv, AskLoadInv, NoSaveInv, DeleteInv
<1>3. CASE Answer \/ MakeRoom \/ Stored \/ Delivered \/ Refused \/ Crash
  BY <1>3, AnswerInv, MakeRoomInv, StoredInv, DeliveredInv, RefusedInv, CrashInv
<1> QED BY <1>1, <1>2, <1>3 DEF Next

(* What SaveStore promises keeps a whole save of every file that was saved *)
(* once, whatever is refused, cut short by a crash or pushed out.          *)
THEOREM StoreKeepsSaves == Spec => []SavesSurvive
<1>1. StoreInv => SavesSurvive
  BY DEF StoreInv
<1> QED BY <1>1, InitInv, NextInv, PTL DEF Spec

(* And while nothing goes wrong every answer to a request is right.        *)
THEOREM StoreAnswersRight == Spec => []CalmAnswers
<1>1. StoreInv => CalmAnswers
  BY DEF StoreInv
<1> QED BY <1>1, InitInv, NextInv, PTL DEF Spec
=============================================================================
