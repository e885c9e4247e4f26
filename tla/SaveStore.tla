----------------------------- MODULE SaveStore -----------------------------
(***************************************************************************)
(* What the memory card promises whoever saves and loads the game.  Each   *)
(* file holds some whole saves.  A save may push out older ones of its     *)
(* file, never the last one and, while nothing went wrong, never the       *)
(* newest; a crash may complete the save under way but not lose another    *)
(* one; a load delivers a save of its file and, while nothing went wrong,  *)
(* the newest; and a request is refused, or a file said to be empty, only  *)
(* if something went wrong or nothing was ever saved.  Nothing here knows  *)
(* of banks, save counts, headers or the menus; MemCard implements it.     *)
(***************************************************************************)
EXTENDS Naturals

CONSTANT Files

VARIABLES
  holds,    \* the whole saves of each file
  newest,   \* the last save of each file that was confirmed, 0 if none
  issued,   \* number of saves asked for; they are numbered in this order
  task,     \* the operation asked for and its result
  waiting,  \* somebody waits for the result
  told,     \* what was last answered
  buffer,   \* the save that was delivered, 0 if none
  calm      \* nothing failed, died or was deleted, and no count wrapped

cvars == <<holds, newest, issued, task, waiting, told, buffer, calm>>

Nothing(f) == [operation |-> "NO_OP", file |-> f, save |-> 0, result |-> "BUSY"]

Init ==
  /\ holds = [f \in Files |-> {}]
  /\ newest = [f \in Files |-> 0]
  /\ issued = 0
  /\ \E f \in Files : /\ task = Nothing(f)
                      /\ told = [what |-> "nothing", mode |-> "save", file |-> f]
  /\ waiting = FALSE
  /\ buffer = 0
  /\ calm = TRUE

-----------------------------------------------------------------------------
(* Requests.  There is one at a time. *)
AskSave(f) ==
  /\ ~waiting /\ task.operation = "NO_OP"
  /\ issued' = issued + 1
  /\ task' = [operation |-> "SAVE", file |-> f, save |-> issued + 1, result |-> "BUSY"]
  /\ told' = [what |-> "nothing", mode |-> "save", file |-> f]
  /\ waiting' = TRUE
  /\ calm' \in {calm, FALSE}
  /\ UNCHANGED <<holds, newest, buffer>>

AskLoad(f) ==
  /\ ~waiting /\ task.operation = "NO_OP"
  /\ task' = [operation |-> "LOAD", file |-> f, save |-> 0, result |-> "BUSY"]
  /\ told' = [what |-> "nothing", mode |-> "restore", file |-> f]
  /\ waiting' = TRUE
  /\ buffer' = 0
  /\ UNCHANGED <<holds, newest, issued, calm>>

(* The file is said to have no save. *)
NoSave(f) ==
  /\ ~waiting
  /\ calm => newest[f] = 0
  /\ told' = [what |-> "no-save", mode |-> "restore", file |-> f]
  /\ buffer' = 0
  /\ UNCHANGED <<holds, newest, issued, task, waiting, calm>>

AnswerTo(result) ==
  CASE result = "OK" -> "done"
    [] result = "NEW_GAME" -> "no-save"
    [] result \in {"NO_MEMORY", "INTERNAL_ERROR"} -> "error"

(* The result is passed on; a read error never is. *)
Answer ==
  /\ waiting
  /\ task.result \notin {"BUSY", "READ_ERROR"}
  /\ told' = [told EXCEPT !.what = AnswerTo(task.result)]
  /\ waiting' = FALSE
  /\ UNCHANGED <<holds, newest, issued, task, buffer, calm>>

-----------------------------------------------------------------------------
(* The card serves the request. *)
Finish(result) == task' = [task EXCEPT !.operation = "NO_OP", !.result = result]

(* What may be left of a file while a save of it is being written. *)
Kept(f) ==
  {kept \in SUBSET holds[f] : /\ holds[f] # {} => kept # {}
                              /\ calm /\ newest[f] # 0 => newest[f] \in kept}

MakeRoom ==
  /\ task.operation = "SAVE"
  /\ \E kept \in Kept(task.file) : holds' = [holds EXCEPT ![task.file] = kept]
  /\ UNCHANGED <<newest, issued, task, waiting, told, buffer, calm>>

Stored ==
  /\ task.operation = "SAVE"
  /\ holds' = [holds EXCEPT ![task.file] = @ \cup {task.save}]
  /\ newest' = [newest EXCEPT ![task.file] = task.save]
  /\ Finish("OK")
  /\ UNCHANGED <<issued, waiting, told, buffer, calm>>

Delivered ==
  /\ task.operation = "LOAD"
  /\ buffer' \in holds[task.file]
  /\ calm => buffer' = newest[task.file]
  /\ Finish("OK")
  /\ UNCHANGED <<holds, newest, issued, waiting, told, calm>>

Refused ==
  /\ task.operation # "NO_OP"
  /\ calm' = FALSE
  /\ \/ Finish("INTERNAL_ERROR")
     \/ task.operation = "LOAD" /\ Finish("NO_MEMORY")
     \/ /\ task.operation = "LOAD" /\ holds[task.file] = {}
        /\ Finish("NEW_GAME") \/ Finish("READ_ERROR")
  /\ UNCHANGED <<holds, newest, issued, waiting, told, buffer>>

-----------------------------------------------------------------------------
(* What can go wrong.  A crash ends the task, perhaps after it was done.   *)
Crash ==
  /\ \/ UNCHANGED holds
     \/ /\ task.operation = "SAVE"
        /\ holds' = [holds EXCEPT ![task.file] = @ \cup {task.save}]
  /\ task' = Nothing(task.file)
  /\ told' = [what |-> "nothing", mode |-> "save", file |-> task.file]
  /\ waiting' = FALSE
  /\ buffer' = 0
  /\ calm' = FALSE
  /\ UNCHANGED <<newest, issued>>

Delete(f) ==
  /\ holds' = [holds EXCEPT ![f] = {}]
  /\ newest' = [newest EXCEPT ![f] = 0]
  /\ calm' = FALSE
  /\ UNCHANGED <<issued, task, waiting, told, buffer>>

Next ==
  \/ \E f \in Files : AskSave(f) \/ AskLoad(f) \/ NoSave(f) \/ Delete(f)
  \/ Answer \/ MakeRoom \/ Stored \/ Delivered \/ Refused \/ Crash

Spec == Init /\ [][Next]_cvars

-----------------------------------------------------------------------------
(* A file that was saved once holds a whole save, whatever goes wrong      *)
(* (pc_game_save_synch writes the bank without the newest save).           *)
SavesSurvive == \A f \in Files : newest[f] # 0 => holds[f] # {}

(* While nothing went wrong every answer is right: there is no error, a    *)
(* file without a save was never saved, and a restore delivered the newest *)
(* save (the messages of the auto-save process of game-save.gc).           *)
CalmAnswers ==
  calm => /\ told.what # "error"
          /\ told.what = "no-save" => newest[told.file] = 0
          /\ told.what = "done" /\ told.mode = "restore" => buffer = newest[told.file]
=============================================================================
