-------------------------- MODULE IsoThread_proofs --------------------------
(***************************************************************************)
(* Proofs about IsoThread, for any number of loads, pages, messages and    *)
(* streams: its inductive invariant IInv, and from it that no buffer is    *)
(* ever lost or in two places, that the pool of four buffers is never      *)
(* empty when one is needed, that files are closed exactly once, that      *)
(* pages reach their callbacks in order, that the pause and continue       *)
(* commands never act on a stream that is gone, that no vag command is     *)
(* lost on its way to the thread, and that no stream is read past its end. *)
(***************************************************************************)
EXTENDS IsoThread, FiniteSetTheorems, TLAPS

-----------------------------------------------------------------------------
(* The priority stack. *)

(* A command is in the stack when it is at its own priority. *)
LEMMA InStack ==
  ASSUME NEW stack, StackOK(stack), NEW c
  PROVE  c \in In(stack) <=> \E p \in 0 .. 3 : \E i \in DOMAIN stack[p] : stack[p][i] = c
  BY DEF In, Elements

LEMMA PriorityRange == \A c : Priority(c) \in 0 .. 3
  BY DEF Priority

(* Unqueued takes out exactly the command it is given. *)
LEMMA UnqueuedSeq ==
  ASSUME NEW s \in Seq(Files), NEW c,
         \A i, j \in DOMAIN s : s[i] = s[j] => i = j
  PROVE  /\ Unqueued(s, c) \in Seq(Files)
         /\ Elements(Unqueued(s, c)) = Elements(s) \ {c}
         /\ \A i, j \in DOMAIN Unqueued(s, c) : Unqueued(s, c)[i] = Unqueued(s, c)[j] => i = j
<1>1. CASE c \notin Elements(s)
  BY <1>1 DEF Unqueued
<1>2. CASE c \in Elements(s)
  <2> DEFINE k == CHOOSE j \in DOMAIN s : s[j] = c
             r == [j \in 1 .. Len(s) - 1 |-> IF j < k THEN s[j] ELSE s[j + 1]]
  <2>1. k \in DOMAIN s /\ s[k] = c
    BY <1>2 DEF Elements
  <2>2. Unqueued(s, c) = r
    BY <1>2 DEF Unqueued
  <2> HIDE DEF k
  <2>3. Len(s) \in Nat /\ Len(s) >= 1 /\ DOMAIN s = 1 .. Len(s)
    BY <2>1
  <2>4. r \in Seq(Files) /\ DOMAIN r = 1 .. Len(s) - 1
    <3>1. \A j \in 1 .. Len(s) - 1 : r[j] \in Files
      BY <2>1, <2>3
    <3>2. Len(s) - 1 \in Nat
      BY <2>3
    <3> QED BY <3>1, <3>2
  <2>5. \A i, j \in DOMAIN r : r[i] = r[j] => i = j
    BY <2>1, <2>3, <2>4
  <2>6. \A j \in DOMAIN r : r[j] \in Elements(s) \ {c}
    BY <2>1, <2>3, <2>4 DEF Elements
  <2>7. \A x \in Elements(s) \ {c} : \E j \in DOMAIN r : r[j] = x
    <3> TAKE x \in Elements(s) \ {c}
    <3>1. PICK i \in DOMAIN s : s[i] = x
      BY DEF Elements
    <3>2. CASE i < k
      BY <3>1, <3>2, <2>1, <2>3, <2>4
    <3>3. CASE i > k
      <4>1. i - 1 \in DOMAIN r /\ r[i - 1] = x
        BY <3>1, <3>3, <2>1, <2>3, <2>4
      <4> QED BY <4>1
    <3>4. i # k
      BY <3>1, <2>1
    <3> QED BY <3>2, <3>3, <3>4, <2>1, <2>3
  <2> HIDE DEF r
  <2> QED BY <2>2, <2>4, <2>5, <2>6, <2>7 DEF Elements
<1> QED BY <1>1, <1>2

LEMMA Removed ==
  ASSUME NEW stack \in [0 .. 3 -> Seq(Files)], StackOK(stack), NEW c,
         NEW new, new = [stack EXCEPT ![Priority(c)] = Unqueued(@, c)]
  PROVE  /\ new \in [0 .. 3 -> Seq(Files)]
         /\ StackOK(new)
         /\ In(new) = In(stack) \ {c}
<1> DEFINE P == Priority(c)
<1>1. P \in 0 .. 3
  BY PriorityRange
<1> HIDE DEF P
<1>2. stack[P] \in Seq(Files) /\ \A i, j \in DOMAIN stack[P] : stack[P][i] = stack[P][j] => i = j
  BY <1>1 DEF StackOK
<1>3. /\ Unqueued(stack[P], c) \in Seq(Files)
      /\ Elements(Unqueued(stack[P], c)) = Elements(stack[P]) \ {c}
      /\ \A i, j \in DOMAIN Unqueued(stack[P], c) :
           Unqueued(stack[P], c)[i] = Unqueued(stack[P], c)[j] => i = j
  BY <1>2, UnqueuedSeq
<1>4. new[P] = Unqueued(stack[P], c) /\ \A p \in 0 .. 3 : p # P => new[p] = stack[p]
  BY <1>1 DEF P
<1>5. new \in [0 .. 3 -> Seq(Files)]
  BY <1>3, <1>4 DEF P
<1>6. \A p \in 0 .. 3 : p # P => c \notin Elements(stack[p])
  BY DEF StackOK, Elements, P
<1>7. ASSUME NEW p \in 0 .. 3 PROVE Elements(new[p]) = Elements(stack[p]) \ {c}
  <2>1. CASE p = P
    BY <1>3, <1>4, <2>1
  <2>2. CASE p # P
    BY <1>4, <1>6, <2>2
  <2> QED BY <2>1, <2>2
<1>8. In(new) = In(stack) \ {c}
  BY <1>7 DEF In
<1>9. StackOK(new)
  <2> SUFFICES ASSUME NEW p \in 0 .. 3, NEW i \in DOMAIN new[p]
      PROVE  /\ Priority(new[p][i]) = p
             /\ \A j \in DOMAIN new[p] : new[p][i] = new[p][j] => i = j
    BY DEF StackOK
  <2>1. new[p][i] \in Elements(stack[p])
    BY <1>7, ZenonT(60) DEF Elements
  <2>2. Priority(new[p][i]) = p
    BY <2>1 DEF StackOK, Elements
  <2>3. CASE p = P
    BY <2>2, <2>3, <1>3, <1>4
  <2>4. CASE p # P
    <3>1. new[p] = stack[p]
      BY <1>4, <2>4
    <3> QED BY <2>2, <3>1 DEF StackOK
  <2> QED BY <2>3, <2>4
<1> QED BY <1>5, <1>8, <1>9

LEMMA AppendElements ==
  ASSUME NEW S, NEW s \in Seq(S), NEW e \in S
  PROVE  /\ Append(s, e) \in Seq(S)
         /\ Elements(Append(s, e)) = Elements(s) \cup {e}
         /\ DOMAIN Append(s, e) = 1 .. Len(s) + 1
         /\ \A i \in DOMAIN s : Append(s, e)[i] = s[i]
         /\ Append(s, e)[Len(s) + 1] = e
<1>1. /\ Append(s, e) \in Seq(S) /\ DOMAIN Append(s, e) = 1 .. Len(s) + 1
      /\ DOMAIN s = 1 .. Len(s) /\ Len(s) \in Nat
      /\ \A i \in 1 .. Len(s) : Append(s, e)[i] = s[i]
      /\ Append(s, e)[Len(s) + 1] = e
  OBVIOUS
<1>2. Elements(Append(s, e)) = Elements(s) \cup {e}
  <2>1. \A x \in Elements(Append(s, e)) : x \in Elements(s) \cup {e}
    <3> TAKE x \in Elements(Append(s, e))
    <3>1. PICK i \in 1 .. Len(s) + 1 : x = Append(s, e)[i]
      BY <1>1 DEF Elements
    <3>2. i \in 1 .. Len(s) \/ i = Len(s) + 1
      BY <1>1
    <3> QED BY <3>1, <3>2, <1>1 DEF Elements
  <2>2. \A x \in Elements(s) : x \in Elements(Append(s, e))
    <3> TAKE x \in Elements(s)
    <3>1. PICK i \in 1 .. Len(s) : x = s[i]
      BY <1>1 DEF Elements
    <3>2. i \in 1 .. Len(s) + 1
      BY <1>1
    <3> QED BY <3>1, <3>2, <1>1 DEF Elements
  <2>3. e \in Elements(Append(s, e))
    <3>1. Len(s) + 1 \in 1 .. Len(s) + 1
      BY <1>1
    <3> QED BY <3>1, <1>1 DEF Elements
  <2> QED BY <2>1, <2>2, <2>3
<1> QED BY <1>1, <1>2

LEMMA Appended ==
  ASSUME NEW stack \in [0 .. 3 -> Seq(Files)], StackOK(stack), NEW c \in Files, c \notin In(stack),
         NEW new, new = QueueMessage(stack, c)
  PROVE  /\ new \in [0 .. 3 -> Seq(Files)]
         /\ StackOK(new)
         /\ In(new) = In(stack) \cup {c}
<1> DEFINE P == Priority(c)
<1>1. P \in 0 .. 3
  BY PriorityRange
<1>2. new = [stack EXCEPT ![P] = Append(stack[P], c)]
  BY DEF QueueMessage
<1>a. Priority(c) = P
  OBVIOUS
<1> HIDE DEF P
<1>3. /\ Append(stack[P], c) \in Seq(Files)
      /\ Elements(Append(stack[P], c)) = Elements(stack[P]) \cup {c}
  <2>1. stack[P] \in Seq(Files)
    BY <1>1
  <2> QED BY <2>1, AppendElements
<1>4. new[P] = Append(stack[P], c) /\ \A p \in 0 .. 3 : p # P => new[p] = stack[p]
  BY <1>1, <1>2
<1>5. new \in [0 .. 3 -> Seq(Files)]
  BY <1>1, <1>2, <1>3
<1>6. \A p \in 0 .. 3 : Elements(new[p]) = IF p = P THEN Elements(stack[p]) \cup {c}
                                           ELSE Elements(stack[p])
  BY <1>3, <1>4
<1>7. In(new) = In(stack) \cup {c}
  BY <1>1, <1>6 DEF In
<1>8. c \notin Elements(stack[P])
  BY <1>1 DEF In
<1>9. StackOK(new)
  <2> SUFFICES ASSUME NEW p \in 0 .. 3, NEW i \in DOMAIN new[p]
      PROVE  /\ Priority(new[p][i]) = p
             /\ \A j \in DOMAIN new[p] : new[p][i] = new[p][j] => i = j
    BY DEF StackOK
  <2>1. CASE p = P
    <3> DEFINE s == stack[P]
    <3>1. s \in Seq(Files) /\ c \notin Elements(s)
      BY <1>1, <1>8
    <3>2. \A k \in DOMAIN s : Priority(s[k]) = P /\ \A j \in DOMAIN s : s[k] = s[j] => k = j
      BY <1>1 DEF StackOK
    <3>3. new[p] = Append(s, c)
      BY <1>4, <2>1
    <3> HIDE DEF s
    <3>4. /\ DOMAIN new[p] = 1 .. Len(s) + 1 /\ DOMAIN s = 1 .. Len(s) /\ Len(s) \in Nat
          /\ \A k \in DOMAIN s : new[p][k] = s[k]
          /\ new[p][Len(s) + 1] = c
      BY <3>1, <3>3, AppendElements
    <3>5. \A k \in DOMAIN s : s[k] # c
      BY <3>1 DEF Elements
    <3>6. \A k \in DOMAIN new[p] : k \in DOMAIN s \/ k = Len(s) + 1
      BY <3>4
    <3>7. Priority(new[p][i]) = p
      BY <1>a, <2>1, <3>2, <3>4, <3>6
    <3>8. ASSUME NEW j \in DOMAIN new[p], new[p][i] = new[p][j] PROVE i = j
      <4>1. CASE i \in DOMAIN s /\ j \in DOMAIN s
        BY <4>1, <3>2, <3>4, <3>8
      <4>2. CASE i \notin DOMAIN s \/ j \notin DOMAIN s
        BY <4>2, <3>4, <3>5, <3>6, <3>8
      <4> QED BY <4>1, <4>2
    <3> QED BY <3>7, <3>8
  <2>2. CASE p # P
    BY <2>2, <1>4, SMTT(30) DEF StackOK
  <2> QED BY <2>1, <2>2
<1> QED BY <1>5, <1>7, <1>9

-----------------------------------------------------------------------------
(* The part of the invariant that is about commands, buffers and reads. *)

CoreType ==
  /\ pc \in {"delay", "poll", "progress", "begin", "reading", "process"}
  /\ gPriStack \in [0 .. 3 -> Seq(Files)] /\ todo \subseteq Files
  /\ free \subseteq Buffers
  /\ callback_buffer \in [Files -> Seq(Filled)]
  /\ location \in [Files -> Nat] /\ taken \in [Files -> Nat]
  /\ fd \in [Files -> {"null", "open", "closed"}]
  /\ cmd_to_process \in Files \cup {NoCmd} /\ read_buffer \in Buffers \cup {0}
  /\ sReadInfo \in {NoCmd, cmd_to_process}

Core == /\ CoreType /\ StackInv /\ ReadInv /\ CapacityInv /\ LocationInv
        /\ BuffersConserved /\ PagesInOrder

(* Where no read is under way. *)
Idle == {"delay", "poll", "progress", "begin"}

LEMMA IdleCore ==
  ASSUME Core, pc \in Idle
  PROVE  cmd_to_process = NoCmd /\ read_buffer = 0 /\ sReadInfo = NoCmd /\ todo = {}
  BY DEF Core, CoreType, ReadInv, Idle

LEMMA NoCmdIsNoFile == NoCmd \notin Files /\ DGO \in Files /\ VAG \in Files /\ DGO # VAG
                       /\ (\A c \in Singles : c \in Files /\ c # DGO /\ c # VAG)
                       /\ \A c \in Files : c \in Singles \/ c = DGO \/ c = VAG
  BY IsoAssumption DEF Files

LEMMA QueuedIsFile ==
  ASSUME CoreType
  PROVE  Queued \subseteq Files
<1>1. \A p \in 0 .. 3 : \A i \in DOMAIN gPriStack[p] : gPriStack[p][i] \in Files
  BY DEF CoreType
<1> QED BY <1>1 DEF Queued, In, Elements

LEMMA ListType ==
  ASSUME CoreType, NEW c \in Files
  PROVE  /\ callback_buffer[c] \in Seq(Filled)
         /\ Len(callback_buffer[c]) \in Nat
         /\ DOMAIN callback_buffer[c] = 1 .. Len(callback_buffer[c])
         /\ \A i \in DOMAIN callback_buffer[c] :
              callback_buffer[c][i].buffer \in Buffers /\ callback_buffer[c][i].page \in Nat
         /\ ReleasedBuffers(c) \subseteq Buffers
<1>1. /\ callback_buffer[c] \in Seq(Filled)
      /\ Len(callback_buffer[c]) \in Nat
      /\ DOMAIN callback_buffer[c] = 1 .. Len(callback_buffer[c])
  BY DEF CoreType
<1>2. \A i \in DOMAIN callback_buffer[c] : callback_buffer[c][i] \in Filled
  BY <1>1
<1>3. \A e \in Filled : e.buffer \in Buffers /\ e.page \in Nat
  BY DEF Filled
<1> QED BY <1>1, <1>2, <1>3 DEF ReleasedBuffers, Elements

LEMMA BufferNumbers ==
  Buffers = 1 .. 5 /\ PageBuffers = 1 .. 4 /\ StrBuffer = 5 /\ N_BUFFERS = 4
  BY DEF Buffers, PageBuffers, StrBuffer, N_BUFFERS

(* A command that is not queued has no buffers. *)
LEMMA UnqueuedHasNone ==
  ASSUME Core, NEW c \in Files, c \notin Queued
  PROVE  callback_buffer[c] = <<>>
<1>1. /\ callback_buffer[c] \in Seq(Filled)
      /\ Len(callback_buffer[c]) \in Nat
      /\ DOMAIN callback_buffer[c] = 1 .. Len(callback_buffer[c])
  BY ListType DEF Core
<1>2. \A i \in DOMAIN callback_buffer[c] : FALSE
  BY DEF Core, BuffersConserved
<1>3. Len(callback_buffer[c]) = 0
  <2>1. SUFFICES ASSUME Len(callback_buffer[c]) # 0 PROVE FALSE
    OBVIOUS
  <2>2. 1 \in 1 .. Len(callback_buffer[c])
    BY <1>1, <2>1
  <2> QED BY <1>1, <1>2, <2>2
<1> QED BY <1>1, <1>3

(* Steps that touch nothing of it. *)
LEMMA Frame ==
  ASSUME Core, UNCHANGED <<gPriStack, todo, bufferVars, fd, readVars>>,
         pc' = pc \/ (pc \in Idle /\ pc' \in Idle)
  PROVE  Core' /\ Queued' = Queued
<1>1. Queued' = Queued
  BY DEF Queued
<1>2. CoreType'
  BY DEF Core, CoreType, bufferVars, readVars, Idle
<1>3. StackInv'
  BY DEF Core, StackInv
<1>4. ReadInv'
  BY <1>1 DEF Core, ReadInv, bufferVars, readVars, Idle
<1>5. CapacityInv'
  BY IdleCore, NoCmdIsNoFile DEF Core, CapacityInv, Pending, bufferVars, readVars, Idle
<1>6. LocationInv' /\ PagesInOrder'
  BY <1>1 DEF Core, LocationInv, PagesInOrder, bufferVars, readVars
<1>7. BuffersConserved'
  BY <1>1 DEF Core, BuffersConserved, ReleasedBuffers, bufferVars, readVars
<1> QED BY <1>1, <1>2, <1>3, <1>4, <1>5, <1>6, <1>7 DEF Core

(* ReleaseMessage in the poll or progress part of a round, or on a command *)
(* ProcessMessageData is done with.                                        *)
LEMMA Release ==
  ASSUME Core, NEW c \in Files, ReleaseMessage(c),
         UNCHANGED <<cmd_to_process, read_buffer>>,
         \/ pc \in Idle /\ pc' \in Idle /\ todo' = {}
         \/ pc = "process" /\ pc' = pc /\ todo \ {c} \subseteq todo' /\ todo' \subseteq Queued \ {c}
  PROVE  Core' /\ Queued' = Queued \ {c}
<1> USE NoCmdIsNoFile
<1>0. CoreType /\ StackOK(gPriStack)
  BY DEF Core, StackInv
<1>1. /\ gPriStack' \in [0 .. 3 -> Seq(Files)]
      /\ StackOK(gPriStack')
      /\ Queued' = Queued \ {c}
  BY <1>0, Removed DEF CoreType, ReleaseMessage, Queued
<1>2. /\ callback_buffer' = [callback_buffer EXCEPT ![c] = <<>>]
      /\ location' = [location EXCEPT ![c] = 0] /\ taken' = [taken EXCEPT ![c] = 0]
      /\ free' = free \cup ReleasedBuffers(c)
      /\ fd' = [fd EXCEPT ![c] = IF @ = "open" THEN "closed" ELSE @]
      /\ sReadInfo' = IF sReadInfo = c THEN NoCmd ELSE sReadInfo
  BY DEF ReleaseMessage, FS_Close
<1>3. ReleasedBuffers(c) \subseteq Buffers
  BY <1>0, ListType
<1>4. CoreType'
  <2>1. callback_buffer' \in [Files -> Seq(Filled)]
    BY <1>0, <1>2 DEF CoreType
  <2>2. location' \in [Files -> Nat] /\ taken' \in [Files -> Nat]
    BY <1>0, <1>2 DEF CoreType
  <2>3. fd' \in [Files -> {"null", "open", "closed"}]
    BY <1>0, <1>2 DEF CoreType
  <2>4. free' \subseteq Buffers /\ sReadInfo' \in {NoCmd, cmd_to_process'}
    BY <1>0, <1>2, <1>3 DEF CoreType
  <2>5. todo' \subseteq Files
    BY <1>0, QueuedIsFile DEF CoreType
  <2> QED BY <1>0, <1>1, <2>1, <2>2, <2>3, <2>4, <2>5 DEF CoreType, Idle
<1>5. /\ \A d \in Files : callback_buffer'[d] = IF d = c THEN <<>> ELSE callback_buffer[d]
      /\ \A d \in Files : location'[d] = IF d = c THEN 0 ELSE location[d]
      /\ \A d \in Files : taken'[d] = IF d = c THEN 0 ELSE taken[d]
  BY <1>0, <1>2 DEF CoreType
<1>6. StackInv'
  BY <1>1 DEF StackInv
<1>7. ReadInv'
  BY <1>1, <1>2, <1>5, IdleCore DEF Core, ReadInv, Idle
<1>8. CapacityInv'
  <2>1. pc # "reading" /\ pc' # "reading" /\ (pc' = "process" => pc = "process")
    BY DEF Idle
  <2>2. \A d \in Files : Len(callback_buffer'[d]) <= Len(callback_buffer[d])
    <3> TAKE d \in Files
    <3>1. Len(callback_buffer[d]) \in Nat /\ Len(<<>>) = 0
      BY <1>0, ListType
    <3> QED BY <1>5, <3>1
  <2>3. \A d \in Files : d # c /\ Pending(d)' => Pending(d)
    BY <1>2, <2>1 DEF Pending
  <2>4. Len(callback_buffer'[DGO]) <= (IF Pending(DGO)' THEN 1 ELSE 2)
    <3>1. Len(callback_buffer'[DGO]) \in Nat /\ Len(callback_buffer[DGO]) \in Nat
      BY <1>0, <1>4, ListType, <1>5
    <3>2. CASE c = DGO
      BY <3>2, <1>5
    <3>3. CASE c # DGO
      BY <3>1, <3>3, <2>2, <2>3 DEF Core, CapacityInv
    <3> QED BY <3>2, <3>3
  <2>5. Len(callback_buffer'[VAG]) <= (IF Pending(VAG)' THEN 0 ELSE 1)
    <3>1. Len(callback_buffer'[VAG]) \in Nat /\ Len(callback_buffer[VAG]) \in Nat
      BY <1>0, <1>4, ListType, <1>5
    <3>2. CASE c = VAG
      BY <3>2, <1>5
    <3>3. CASE c # VAG
      BY <3>1, <3>3, <2>2, <2>3 DEF Core, CapacityInv
    <3> QED BY <3>2, <3>3
  <2>6. \A d \in Singles : callback_buffer'[d] # <<>> =>
          /\ d # c /\ callback_buffer'[d] = callback_buffer[d]
    BY <1>5
  <2>7. \A d \in Singles : callback_buffer'[d] # <<>> =>
          /\ Len(callback_buffer'[d]) = 1
          /\ \A e \in Singles : callback_buffer'[e] # <<>> => d = e
          /\ pc' = "process" => d \in todo'
    BY <2>1, <2>6 DEF Core, CapacityInv, Idle
  <2> QED BY <2>4, <2>5, <2>7 DEF CapacityInv
<1>9. LocationInv' /\ PagesInOrder'
  BY <1>0, <1>1, <1>2, <1>5, QueuedIsFile DEF Core, LocationInv, PagesInOrder
<1>10. BuffersConserved'
  <2>1. \A d \in Files : \A i \in DOMAIN callback_buffer'[d] :
          d # c /\ i \in DOMAIN callback_buffer[d] /\ callback_buffer'[d][i] = callback_buffer[d][i]
    BY <1>5
  <2>2. \A d \in Files : \A i \in DOMAIN callback_buffer'[d] : d \in Queued'
    BY <1>1, <2>1 DEF Core, BuffersConserved
  <2>3. \A d \in Files : \A i \in DOMAIN callback_buffer'[d] :
          callback_buffer'[d][i].buffer \notin free' \cup {read_buffer'}
    <3> TAKE d \in Files
    <3> TAKE i \in DOMAIN callback_buffer'[d]
    <3>1. callback_buffer[d][i].buffer \notin free \cup {read_buffer}
      BY <2>1 DEF Core, BuffersConserved
    <3>2. \A j \in DOMAIN callback_buffer[c] :
            callback_buffer[c][j].buffer # callback_buffer[d][i].buffer
      BY <2>1 DEF Core, BuffersConserved
    <3>3. callback_buffer[d][i].buffer \notin ReleasedBuffers(c)
      BY <3>2 DEF ReleasedBuffers, Elements
    <3> QED BY <2>1, <3>1, <3>3, <1>2
  <2>4. \A d \in Files : \A i \in DOMAIN callback_buffer'[d] :
          \A e \in Files : \A j \in DOMAIN callback_buffer'[e] :
            callback_buffer'[e][j].buffer = callback_buffer'[d][i].buffer => d = e /\ i = j
    BY <2>1 DEF Core, BuffersConserved
  <2>5. read_buffer' \notin free'
    <3>1. \A j \in DOMAIN callback_buffer[c] : callback_buffer[c][j].buffer # read_buffer
      BY DEF Core, BuffersConserved
    <3>2. read_buffer \notin ReleasedBuffers(c)
      BY <3>1 DEF ReleasedBuffers, Elements
    <3> QED BY <3>2, <1>2 DEF Core, BuffersConserved
  <2>6. \A d \in Files : d # c => ReleasedBuffers(d)' = ReleasedBuffers(d)
    BY <1>5 DEF ReleasedBuffers, Elements
  <2>7. \A b \in Buffers : b \in free' \/ b = read_buffer' \/ \E d \in Files : b \in ReleasedBuffers(d)'
    BY <2>6, <1>2 DEF Core, BuffersConserved
  <2> QED BY <2>2, <2>3, <2>4, <2>5, <2>7 DEF BuffersConserved
<1> QED BY <1>1, <1>4, <1>6, <1>7, <1>8, <1>9, <1>10 DEF Core

(* A command is queued and its file opened. *)
LEMMA Enqueue ==
  ASSUME Core, pc \in Idle, pc' \in Idle,
         NEW c \in Files, c \notin Queued,
         gPriStack' = QueueMessage(gPriStack, c),
         callback_buffer' = [callback_buffer EXCEPT ![c] = <<>>],
         OpenedFor(c),
         fd' \in [Files -> {"null", "open", "closed"}],
         UNCHANGED <<todo, free, readVars>>
  PROVE  Core' /\ Queued' = Queued \cup {c}
<1> USE NoCmdIsNoFile
<1>0. CoreType /\ StackOK(gPriStack)
  BY DEF Core, StackInv
<1>1. /\ gPriStack' \in [0 .. 3 -> Seq(Files)]
      /\ StackOK(gPriStack')
      /\ Queued' = Queued \cup {c}
  BY <1>0, Appended DEF CoreType, Queued
<1>2. callback_buffer[c] = <<>>
  BY UnqueuedHasNone
<1>3. callback_buffer' = callback_buffer
  BY <1>0, <1>2 DEF CoreType
<1>4. /\ \A d \in Files : location'[d] = IF d = c THEN 0 ELSE location[d]
      /\ \A d \in Files : taken'[d] = IF d = c THEN 0 ELSE taken[d]
      /\ location' \in [Files -> Nat] /\ taken' \in [Files -> Nat]
  BY <1>0 DEF CoreType, OpenedFor
<1>5. CoreType'
  BY <1>0, <1>1, <1>3, <1>4 DEF CoreType, Idle, readVars
<1>6. cmd_to_process = NoCmd /\ read_buffer = 0 /\ sReadInfo = NoCmd /\ todo = {}
  BY IdleCore
<1>7. ReadInv'
  BY <1>3, <1>6 DEF Core, ReadInv, Idle, readVars
<1>8. CapacityInv'
  BY <1>3, <1>6 DEF Core, CapacityInv, Pending, Idle, readVars
<1>9. LocationInv' /\ PagesInOrder'
  <2>1. LocationInv'
    <3> SUFFICES ASSUME NEW d \in Queued'
        PROVE  location'[d] = taken'[d] + Len(callback_buffer'[d]) + (IF sReadInfo' = d THEN 1 ELSE 0)
      BY DEF LocationInv
    <3>1. d \in Files /\ sReadInfo' # d
      BY <1>1, <1>0, <1>6, QueuedIsFile DEF readVars
    <3>2. CASE d = c
      BY <3>1, <3>2, <1>2, <1>3, <1>4
    <3>3. CASE d # c
      BY <3>1, <3>3, <1>1, <1>3, <1>4, <1>6 DEF Core, LocationInv
    <3> QED BY <3>2, <3>3
  <2>2. PagesInOrder'
    <3> SUFFICES ASSUME NEW d \in Queued', NEW i \in DOMAIN callback_buffer[d]
        PROVE  callback_buffer[d][i].page = taken'[d] + i
      BY <1>3 DEF PagesInOrder
    <3>1. d # c
      BY <1>2
    <3> QED BY <3>1, <1>0, <1>1, <1>4, QueuedIsFile DEF Core, PagesInOrder
  <2> QED BY <2>1, <2>2
<1>10. BuffersConserved'
  <2>1. free' = free /\ read_buffer' = read_buffer /\ Queued \subseteq Queued'
    BY <1>1 DEF readVars
  <2>2. \A d : ReleasedBuffers(d)' = ReleasedBuffers(d)
    BY <1>3 DEF ReleasedBuffers
  <2> QED BY <1>3, <2>1, <2>2 DEF Core, BuffersConserved
<1> QED BY <1>1, <1>5, <1>7, <1>8, <1>9, <1>10 DEF Core, StackInv

(* The beginning of a read. *)
LEMMA Allocate ==
  ASSUME Core, pc = "begin", pc' = "reading",
         NEW c \in Queued, Wants(c), NEW b \in BufferFor(c),
         read_buffer' = b, free' = free \ {b}, cmd_to_process' = c,
         UNCHANGED <<gPriStack, todo, callback_buffer, location, taken, fd, sReadInfo>>
  PROVE  Core' /\ Queued' = Queued
<1> USE NoCmdIsNoFile
<1>0. /\ CoreType /\ c \in Files /\ Queued' = Queued
      /\ cmd_to_process = NoCmd /\ read_buffer = 0 /\ sReadInfo = NoCmd /\ todo = {}
  BY QueuedIsFile, IdleCore DEF Core, Queued, Idle
<1>1. b \in free /\ b \in Buffers /\ b # 0 /\ Fits(c, b)
  BY <1>0, BufferNumbers, SMTT(30) DEF BufferFor, CoreType, Fits
<1>2. CoreType'
  BY <1>0, <1>1 DEF CoreType
<1>3. ReadInv'
  BY <1>0, <1>1 DEF Core, ReadInv
<1>4. CapacityInv'
  <2>1. Len(callback_buffer[c]) \in Nat
    BY <1>0, ListType
  <2>2. /\ c = DGO => Len(callback_buffer[DGO]) <= 1
        /\ c = VAG => Len(callback_buffer[VAG]) <= 0
    BY <2>1 DEF Wants
  <2>3. \A d \in Files : d # c => Pending(d)' = Pending(d)
    BY <1>0 DEF Pending
  <2> QED BY <1>0, <2>2, <2>3 DEF Core, CapacityInv, Pending
<1>5. LocationInv' /\ PagesInOrder'
  BY <1>0 DEF Core, LocationInv, PagesInOrder
<1>6. BuffersConserved'
  <2>1. \A d : ReleasedBuffers(d)' = ReleasedBuffers(d)
    BY DEF ReleasedBuffers
  <2>2. \A d \in Files : \A i \in DOMAIN callback_buffer[d] : callback_buffer[d][i].buffer # b
    BY <1>1 DEF Core, BuffersConserved
  <2>3. \A d \in Files : \A i \in DOMAIN callback_buffer[d] :
          callback_buffer[d][i].buffer \notin free' \cup {read_buffer'}
    BY <2>2 DEF Core, BuffersConserved
  <2>4. \A x \in Buffers : x \in free' \/ x = read_buffer' \/ \E d \in Files : x \in ReleasedBuffers(d)'
    BY <1>0, <1>1, <2>1, BufferNumbers DEF Core, BuffersConserved
  <2> QED BY <1>0, <2>3, <2>4 DEF Core, BuffersConserved
<1> QED BY <1>0, <1>2, <1>3, <1>4, <1>5, <1>6 DEF Core, StackInv

LEMMA ReadStep ==
  ASSUME Core, iso_read
  PROVE  Core' /\ Queued' = Queued
<1> USE NoCmdIsNoFile
<1>0. /\ CoreType /\ Queued' = Queued /\ cmd_to_process \in Queued /\ cmd_to_process \in Files
      /\ sReadInfo = NoCmd /\ sReadInfo' = cmd_to_process
      /\ pc = "reading" /\ pc' = "process" /\ todo' = Queued
      /\ UNCHANGED <<gPriStack, free, callback_buffer, taken, fd, cmd_to_process, read_buffer>>
      /\ location' = [location EXCEPT ![cmd_to_process] = @ + 1]
  BY QueuedIsFile DEF Core, Queued, iso_read, StartProcessing, ReadInv
<1>1. /\ location' \in [Files -> Nat]
      /\ \A d \in Files : location'[d] = IF d = cmd_to_process THEN location[d] + 1 ELSE location[d]
  BY <1>0, SMTT(30) DEF CoreType
<1>2. CoreType'
  BY <1>0, <1>1, QueuedIsFile DEF CoreType
<1>3. ReadInv'
  BY <1>0 DEF Core, ReadInv
<1>4. CapacityInv'
  <2>1. \A d \in Files : callback_buffer[d] # <<>> => d \in todo'
    BY <1>0, UnqueuedHasNone
  <2>2. \A d \in Files : Pending(d)' = Pending(d)
    BY <1>0 DEF Pending
  <2>3. DGO \in Files /\ VAG \in Files /\ Singles \subseteq Files
    BY NoCmdIsNoFile
  <2>4. callback_buffer' = callback_buffer
    BY <1>0
  <2>5. CapacityInv
    BY DEF Core
  <2> QED BY <2>1, <2>2, <2>3, <2>4, <2>5, Zenon DEF CapacityInv
<1>5. LocationInv'
  <2> SUFFICES ASSUME NEW d \in Queued
      PROVE  location'[d] = taken[d] + Len(callback_buffer[d]) + (IF cmd_to_process = d THEN 1 ELSE 0)
    BY <1>0 DEF LocationInv
  <2>1. d \in Files /\ Len(callback_buffer[d]) \in Nat /\ taken[d] \in Nat
    BY <1>0, QueuedIsFile, ListType DEF CoreType
  <2>2. location[d] = taken[d] + Len(callback_buffer[d]) + 0
    BY <1>0, <2>1 DEF Core, LocationInv
  <2> QED BY <2>1, <2>2, <1>1
<1>6. PagesInOrder'
  BY <1>0 DEF Core, PagesInOrder
<1>7. BuffersConserved'
  <2>1. \A d : ReleasedBuffers(d)' = ReleasedBuffers(d)
    BY <1>0 DEF ReleasedBuffers
  <2> QED BY <1>0, <2>1 DEF Core, BuffersConserved
<1> QED BY <1>0, <1>2, <1>3, <1>4, <1>5, <1>6, <1>7 DEF Core, StackInv

LEMMA NothingToRead ==
  ASSUME Core, iso_nothing_to_read
  PROVE  Core' /\ Queued' = Queued
<1> USE NoCmdIsNoFile
<1>0. /\ CoreType /\ Queued' = Queued
      /\ cmd_to_process = NoCmd /\ read_buffer = 0 /\ sReadInfo = NoCmd
      /\ pc = "begin" /\ pc' = "process" /\ todo' = Queued
      /\ UNCHANGED <<gPriStack, free, callback_buffer, taken, location, fd, cmd_to_process,
                     read_buffer, sReadInfo>>
  BY IdleCore DEF Core, Queued, iso_nothing_to_read, StartProcessing, Idle, bufferVars, readVars
<1>2. CoreType'
  BY <1>0, QueuedIsFile DEF CoreType
<1>3. ReadInv'
  BY <1>0 DEF Core, ReadInv
<1>4. CapacityInv'
  <2>1. \A d \in Files : callback_buffer[d] # <<>> => d \in Queued
    BY UnqueuedHasNone
  <2>2. \A d \in Files : Pending(d)' = Pending(d)
    BY <1>0 DEF Pending
  <2> QED BY <1>0, <2>1, <2>2 DEF Core, CapacityInv
<1>5. LocationInv' /\ PagesInOrder'
  BY <1>0 DEF Core, LocationInv, PagesInOrder
<1>7. BuffersConserved'
  <2>1. \A d : ReleasedBuffers(d)' = ReleasedBuffers(d)
    BY <1>0 DEF ReleasedBuffers
  <2> QED BY <1>0, <2>1 DEF Core, BuffersConserved
<1> QED BY <1>0, <1>2, <1>3, <1>4, <1>5, <1>7 DEF Core, StackInv

(* What the tail of a list of buffers is. *)
LEMMA TailList ==
  ASSUME NEW s \in Seq(Filled), s # <<>>
  PROVE  /\ Tail(s) \in Seq(Filled) /\ Len(Tail(s)) = Len(s) - 1 /\ Len(s) \in Nat /\ Len(s) >= 1
         /\ DOMAIN Tail(s) = 1 .. Len(s) - 1 /\ DOMAIN s = 1 .. Len(s)
         /\ \A i \in DOMAIN Tail(s) : i + 1 \in DOMAIN s /\ Tail(s)[i] = s[i + 1]
         /\ Head(s) = s[1] /\ 1 \in DOMAIN s /\ Head(s) \in Filled
  OBVIOUS

(* The callback consumes a buffer. *)
LEMMA Consumed ==
  ASSUME Core, NEW c \in Files, c \in todo, callback_buffer[c] # <<>>, Consume(c),
         pc = "process", pc' = pc, UNCHANGED <<cmd_to_process, read_buffer>>
  PROVE  Core' /\ Queued' = Queued
<1> USE NoCmdIsNoFile
<1> DEFINE s == callback_buffer[c]
           h == Head(s).buffer
<1>0. /\ CoreType /\ Queued' = Queued /\ c \in Queued
      /\ taken' = [taken EXCEPT ![c] = @ + 1]
      /\ free' = free \cup {h}
      /\ callback_buffer' = [callback_buffer EXCEPT ![c] = Tail(@)]
      /\ todo' = todo \ {c}
      /\ UNCHANGED <<location, fd, sReadInfo, gPriStack>>
  BY DEF Core, Queued, Consume, ReadInv
<1>1. s \in Seq(Filled) /\ s # <<>>
  BY <1>0, ListType
<1> HIDE DEF s
<1>2. /\ Tail(s) \in Seq(Filled) /\ Len(Tail(s)) = Len(s) - 1 /\ Len(s) \in Nat /\ Len(s) >= 1
      /\ DOMAIN Tail(s) = 1 .. Len(s) - 1 /\ DOMAIN s = 1 .. Len(s)
      /\ \A i \in DOMAIN Tail(s) : i + 1 \in DOMAIN s /\ Tail(s)[i] = s[i + 1]
      /\ Head(s) = s[1] /\ 1 \in DOMAIN s /\ Head(s) \in Filled
  BY <1>1, TailList
<1>3. h \in Buffers
  BY <1>2 DEF Filled
<1>4. /\ callback_buffer' \in [Files -> Seq(Filled)]
      /\ \A d \in Files : callback_buffer'[d] = IF d = c THEN Tail(s) ELSE callback_buffer[d]
  BY <1>0, <1>2 DEF CoreType, s
<1>5. /\ taken' \in [Files -> Nat]
      /\ \A d \in Files : taken'[d] = IF d = c THEN taken[d] + 1 ELSE taken[d]
  <2>1. taken \in [Files -> Nat] /\ taken' = [taken EXCEPT ![c] = taken[c] + 1]
    BY <1>0 DEF CoreType
  <2>2. taken[c] \in Nat
    BY <2>1
  <2> QED BY <2>1, <2>2
<1>6. CoreType'
  BY <1>0, <1>3, <1>4, <1>5 DEF CoreType
<1> HIDE DEF h
<1>7. ReadInv'
  <2>1. \A d \in Files : \A i \in DOMAIN callback_buffer'[d] : Fits(d, callback_buffer'[d][i].buffer)
    <3> TAKE d \in Files
    <3> TAKE i \in DOMAIN callback_buffer'[d]
    <3>1. CASE d = c
      <4>1. i \in DOMAIN Tail(s) /\ callback_buffer'[d][i] = Tail(s)[i]
        BY <3>1, <1>4
      <4>2. i + 1 \in DOMAIN s /\ callback_buffer'[d][i] = s[i + 1]
        BY <4>1, <1>2
      <4> QED BY <4>2, <3>1 DEF Core, ReadInv, s
    <3>2. CASE d # c
      BY <3>2, <1>4 DEF Core, ReadInv
    <3> QED BY <3>1, <3>2
  <2> QED BY <1>0, <2>1 DEF Core, ReadInv
<1>8. CapacityInv'
  <2>1. \A d \in Files : Pending(d)' = Pending(d)
    BY <1>0 DEF Pending
  <2>2. Len(callback_buffer'[DGO]) <= (IF Pending(DGO)' THEN 1 ELSE 2)
    BY <1>0, <1>2, <1>4, <2>1, ListType DEF Core, CapacityInv, s
  <2>3. Len(callback_buffer'[VAG]) <= (IF Pending(VAG)' THEN 0 ELSE 1)
    BY <1>0, <1>2, <1>4, <2>1, ListType DEF Core, CapacityInv, s
  <2>4. c \in Singles => callback_buffer'[c] = <<>>
    <3>1. c \in Singles => Len(s) = 1
      BY <1>1 DEF Core, CapacityInv, s
    <3>2. Len(s) = 1 => Tail(s) = <<>>
      BY <1>2
    <3> QED BY <3>1, <3>2, <1>4
  <2>5. \A d \in Singles : callback_buffer'[d] # <<>> =>
          d # c /\ callback_buffer'[d] = callback_buffer[d]
    BY <2>4, <1>4
  <2>6. \A d \in Singles : callback_buffer'[d] # <<>> =>
          /\ Len(callback_buffer'[d]) = 1
          /\ \A e \in Singles : callback_buffer'[e] # <<>> => d = e
          /\ pc' = "process" => d \in todo'
    BY <2>5, <1>0 DEF Core, CapacityInv
  <2> QED BY <2>2, <2>3, <2>6 DEF CapacityInv
<1>9. LocationInv'
  <2> SUFFICES ASSUME NEW d \in Queued
      PROVE  location[d] = taken'[d] + Len(callback_buffer'[d]) + (IF sReadInfo = d THEN 1 ELSE 0)
    BY <1>0 DEF LocationInv
  <2>1. /\ d \in Files /\ Len(callback_buffer[d]) \in Nat /\ taken[d] \in Nat
        /\ location[d] = taken[d] + Len(callback_buffer[d]) + (IF sReadInfo = d THEN 1 ELSE 0)
    BY <1>0, QueuedIsFile, ListType DEF CoreType, Core, LocationInv
  <2>2. CASE d = c
    <3>1. /\ callback_buffer'[d] = Tail(s) /\ taken'[d] = taken[d] + 1
          /\ callback_buffer[d] = s
      BY <2>2, <1>4, <1>5, <2>1 DEF s
    <3> QED BY <2>1, <3>1, <1>2
  <2>3. CASE d # c
    BY <2>1, <2>3, <1>4, <1>5
  <2> QED BY <2>2, <2>3
<1>10. PagesInOrder'
  <2> SUFFICES ASSUME NEW d \in Queued, NEW i \in DOMAIN callback_buffer'[d]
      PROVE  callback_buffer'[d][i].page = taken'[d] + i
    BY <1>0 DEF PagesInOrder
  <2>1. d \in Files /\ taken[d] \in Nat
    BY <1>0, QueuedIsFile DEF CoreType
  <2>2. CASE d = c
    <3>0. i \in DOMAIN Tail(s) /\ callback_buffer'[d][i] = Tail(s)[i]
      BY <2>1, <2>2, <1>4
    <3>1. i \in 1 .. Len(s) - 1 /\ i + 1 \in DOMAIN s /\ callback_buffer'[d][i] = s[i + 1]
      BY <3>0, <1>2
    <3>2. s[i + 1].page = taken[c] + (i + 1)
      BY <3>1, <1>0 DEF Core, PagesInOrder, s
    <3>3. taken'[d] = taken[c] + 1 /\ taken[c] \in Nat /\ i \in Int
      BY <2>1, <2>2, <1>2, <1>5, <3>1
    <3>4. taken[c] + (i + 1) = taken'[d] + i
      BY <3>3
    <3> QED BY <3>1, <3>2, <3>4
  <2>3. CASE d # c
    BY <2>1, <2>3, <1>4, <1>5 DEF Core, PagesInOrder
  <2> QED BY <2>2, <2>3
<1>11. BuffersConserved'
  <2> DEFINE old(d, i) == IF d = c THEN i + 1 ELSE i
  <2>1. \A d \in Files : \A i \in DOMAIN callback_buffer'[d] :
          /\ old(d, i) \in DOMAIN callback_buffer[d]
          /\ callback_buffer'[d][i] = callback_buffer[d][old(d, i)]
          /\ d = c => old(d, i) # 1
    <3> TAKE d \in Files
    <3> TAKE i \in DOMAIN callback_buffer'[d]
    <3>1. CASE d = c
      <4>1. i \in DOMAIN Tail(s) /\ callback_buffer'[d][i] = Tail(s)[i]
        BY <3>1, <1>4
      <4>2. i + 1 \in DOMAIN s /\ callback_buffer'[d][i] = s[i + 1] /\ i + 1 # 1
        BY <4>1, <1>2
      <4> QED BY <4>2, <3>1 DEF s
    <3>2. CASE d # c
      BY <3>2, <1>4
    <3> QED BY <3>1, <3>2
  <2>2. \A d \in Files : \A i, j \in DOMAIN callback_buffer'[d] : old(d, i) = old(d, j) => i = j
    <3>1. \A d \in Files : \A i \in DOMAIN callback_buffer'[d] : i \in Int
      BY <1>6, ListType, <1>4, <1>2
    <3> QED BY <3>1
  <2> HIDE DEF old
  <2>3. \A d \in Files : \A i \in DOMAIN callback_buffer'[d] : d \in Queued'
    BY <2>1, <1>0 DEF Core, BuffersConserved
  <2>4. h = callback_buffer[c][1].buffer /\ 1 \in DOMAIN callback_buffer[c]
    BY <1>2 DEF h, s
  <2>5. \A d \in Files : \A i \in DOMAIN callback_buffer'[d] :
          callback_buffer'[d][i].buffer \notin free' \cup {read_buffer'}
    BY <2>1, <2>4, <1>0 DEF Core, BuffersConserved
  <2>6. \A d \in Files : \A i \in DOMAIN callback_buffer'[d] :
          \A e \in Files : \A j \in DOMAIN callback_buffer'[e] :
            callback_buffer'[e][j].buffer = callback_buffer'[d][i].buffer => d = e /\ i = j
    BY <2>1, <2>2 DEF Core, BuffersConserved
  <2>7. read_buffer' \notin free'
    BY <2>4, <1>0 DEF Core, BuffersConserved
  <2>8. \A b \in Buffers : b \in free' \/ b = read_buffer' \/ \E d \in Files : b \in ReleasedBuffers(d)'
    <3> TAKE b \in Buffers
    <3>1. CASE b \in free \/ b = read_buffer
      BY <3>1, <1>0
    <3>2. CASE \E d \in Files : b \in ReleasedBuffers(d)
      <4>1. PICK d \in Files : b \in ReleasedBuffers(d)
        BY <3>2
      <4>2. PICK i \in DOMAIN callback_buffer[d] : b = callback_buffer[d][i].buffer
        BY <4>1 DEF ReleasedBuffers, Elements
      <4>3. CASE d # c
        <5>1. ReleasedBuffers(d)' = ReleasedBuffers(d)
          BY <4>3, <1>4 DEF ReleasedBuffers
        <5> QED BY <4>1, <5>1
      <4>4. CASE d = c /\ i = 1
        BY <4>2, <4>4, <2>4, <1>0
      <4>5. CASE d = c /\ i # 1
        <5>1. i - 1 \in 1 .. Len(s) - 1 /\ s[i] = Tail(s)[i - 1]
          BY <4>2, <4>5, <1>2 DEF s
        <5>2. i - 1 \in DOMAIN callback_buffer'[c] /\ callback_buffer'[c][i - 1].buffer = b
          BY <5>1, <4>2, <4>5, <1>2, <1>4 DEF s
        <5>3. b \in ReleasedBuffers(c)'
          BY <5>2 DEF ReleasedBuffers, Elements
        <5> QED BY <5>3
      <4> QED BY <4>3, <4>4, <4>5
    <3> QED BY <3>1, <3>2 DEF Core, BuffersConserved
  <2> QED BY <2>3, <2>5, <2>6, <2>7, <2>8 DEF BuffersConserved
<1> QED BY <1>0, <1>6, <1>7, <1>8, <1>9, <1>10, <1>11 DEF Core, StackInv

(* Every list of a load was emptied by ProcessMessageData. *)
LEMMA SinglesEmpty ==
  ASSUME Core, EndRound
  PROVE  \A c \in Singles : callback_buffer[c] = <<>>
  BY DEF Core, CapacityInv, EndRound

(* The end of a round, without a new buffer for anyone. *)
LEMMA RoundEnds ==
  ASSUME Core, EndRound, pc' \in {"poll", "delay"}, sReadInfo = NoCmd,
         UNCHANGED callback_buffer,
         free' = IF cmd_to_process = NoCmd THEN free ELSE free \cup {read_buffer}
  PROVE  Core' /\ Queued' = Queued
<1> USE NoCmdIsNoFile
<1>0. /\ CoreType /\ Queued' = Queued /\ todo' = {}
      /\ cmd_to_process' = NoCmd /\ read_buffer' = 0 /\ sReadInfo' = NoCmd /\ pc = "process"
      /\ UNCHANGED <<gPriStack, location, taken, fd>>
  BY DEF Core, Queued, EndRound, FS_SyncRead
<1>1. /\ (cmd_to_process = NoCmd) = (read_buffer = 0)
      /\ read_buffer \in Buffers \cup {0} /\ 0 \notin Buffers
  BY <1>0, BufferNumbers DEF Core, ReadInv, CoreType
<1>2. CoreType'
  BY <1>0, <1>1 DEF CoreType
<1>3. ReadInv'
  BY <1>0 DEF Core, ReadInv
<1>4. CapacityInv'
  <2>1. \A d \in Files : ~Pending(d)'
    BY <1>0 DEF Pending
  <2>2. Len(callback_buffer[DGO]) \in Nat /\ Len(callback_buffer[VAG]) \in Nat
    BY <1>0, ListType
  <2> QED BY <2>1, <2>2, SinglesEmpty DEF Core, CapacityInv
<1>5. LocationInv' /\ PagesInOrder'
  BY <1>0 DEF Core, LocationInv, PagesInOrder
<1>6. BuffersConserved'
  <2>1. \A d : ReleasedBuffers(d)' = ReleasedBuffers(d)
    BY DEF ReleasedBuffers
  <2>2. \A d \in Files : \A i \in DOMAIN callback_buffer[d] :
          callback_buffer[d][i].buffer \in Buffers
    BY <1>0, ListType
  <2>3. \A d \in Files : \A i \in DOMAIN callback_buffer[d] :
          callback_buffer[d][i].buffer \notin free' \cup {read_buffer'}
    BY <2>2, <1>0, <1>1 DEF Core, BuffersConserved
  <2>4. read_buffer' \notin free'
    BY <1>0, <1>1 DEF CoreType
  <2>5. \A x \in Buffers : x \in free' \/ x = read_buffer' \/ \E d \in Files : x \in ReleasedBuffers(d)'
    BY <1>0, <1>1, <2>1 DEF Core, BuffersConserved
  <2> QED BY <1>0, <2>3, <2>4, <2>5 DEF Core, BuffersConserved
<1> QED BY <1>0, <1>2, <1>3, <1>4, <1>5, <1>6 DEF Core, StackInv

(* The end of a round, with the buffer that was read linked to the list of *)
(* its command.                                                            *)
LEMMA BufferLinked ==
  ASSUME Core, EndRound, pc' = "poll", sReadInfo # NoCmd, UNCHANGED free,
         callback_buffer' = [callback_buffer EXCEPT ![cmd_to_process] =
           Linked(@, [buffer |-> read_buffer, page |-> location[cmd_to_process]])]
  PROVE  Core' /\ Queued' = Queued
<1> USE NoCmdIsNoFile
<1> DEFINE c == cmd_to_process
           s == callback_buffer[c]
           e == [buffer |-> read_buffer, page |-> location[c]]
           t == Append(s, e)
<1>0. /\ CoreType /\ Queued' = Queued /\ todo' = {}
      /\ cmd_to_process' = NoCmd /\ read_buffer' = 0 /\ sReadInfo' = NoCmd /\ pc = "process"
      /\ UNCHANGED <<gPriStack, location, taken, fd>>
      /\ c \in Queued /\ c \in Files /\ sReadInfo = c
  BY QueuedIsFile DEF Core, CoreType, ReadInv, Queued, EndRound, FS_SyncRead
<1>1. read_buffer \in Buffers /\ 0 \notin Buffers /\ Fits(c, read_buffer)
  BY <1>0, BufferNumbers DEF Core, ReadInv, CoreType
<1>2. s \in Seq(Filled) /\ e \in Filled /\ e.buffer = read_buffer /\ e.page = location[c]
  BY <1>0, <1>1, ListType DEF CoreType, Filled
<1>3. callback_buffer' = [callback_buffer EXCEPT ![c] = t]
  BY DEF Linked
<1> HIDE DEF e, s
<1>4. /\ t \in Seq(Filled) /\ DOMAIN t = 1 .. Len(s) + 1 /\ Len(t) = Len(s) + 1
      /\ Elements(t) = Elements(s) \cup {e}
      /\ Len(s) \in Nat /\ DOMAIN s = 1 .. Len(s)
      /\ \A i \in DOMAIN s : t[i] = s[i] /\ i \in DOMAIN t
      /\ t[Len(s) + 1] = e /\ Len(s) + 1 \in DOMAIN t
      /\ \A i \in DOMAIN t : i \in DOMAIN s \/ i = Len(s) + 1
  BY <1>2, AppendElements
<1> HIDE DEF t, c
<1>5. /\ callback_buffer' \in [Files -> Seq(Filled)]
      /\ \A d \in Files : callback_buffer'[d] = IF d = c THEN t ELSE callback_buffer[d]
  <2>1. callback_buffer \in [Files -> Seq(Filled)] /\ c \in Files
    BY <1>0 DEF CoreType
  <2>2. callback_buffer' \in [Files -> Seq(Filled)]
    BY <2>1, <1>3, <1>4
  <2> QED BY <2>1, <2>2, <1>3
<1>6. CoreType'
  BY <1>0, <1>5 DEF CoreType
<1>7. \A d \in Files : \A i \in DOMAIN callback_buffer'[d] :
        \/ i \in DOMAIN callback_buffer[d] /\ callback_buffer'[d][i] = callback_buffer[d][i]
        \/ d = c /\ i = Len(s) + 1 /\ callback_buffer'[d][i] = e
  <2> TAKE d \in Files
  <2>1. CASE d = c
    BY <2>1, <1>4, <1>5 DEF s
  <2>2. CASE d # c
    BY <2>2, <1>5
  <2> QED BY <2>1, <2>2
<1>8. ReadInv'
  <2>1. \A d \in Files : \A i \in DOMAIN callback_buffer'[d] : Fits(d, callback_buffer'[d][i].buffer)
    BY <1>1, <1>2, <1>7 DEF Core, ReadInv
  <2> QED BY <1>0, <2>1 DEF Core, ReadInv
<1>9. CapacityInv'
  <2>1. \A d \in Files : ~Pending(d)'
    BY <1>0 DEF Pending
  <2>2. Pending(c)
    BY <1>0 DEF Pending, c
  <2>3. Len(callback_buffer'[DGO]) <= 2
    <3>1. Len(callback_buffer[DGO]) \in Nat
      BY <1>0, ListType
    <3>2. CASE c = DGO
      BY <3>1, <3>2, <2>2, <1>4, <1>5 DEF Core, CapacityInv, s
    <3>3. CASE c # DGO
      BY <3>1, <3>3, <1>5 DEF Core, CapacityInv
    <3> QED BY <3>2, <3>3
  <2>4. Len(callback_buffer'[VAG]) <= 1
    <3>1. Len(callback_buffer[VAG]) \in Nat
      BY <1>0, ListType
    <3>2. CASE c = VAG
      BY <3>1, <3>2, <2>2, <1>4, <1>5 DEF Core, CapacityInv, s
    <3>3. CASE c # VAG
      BY <3>1, <3>3, <1>5 DEF Core, CapacityInv
    <3> QED BY <3>2, <3>3
  <2>5. \A d \in Singles : callback_buffer'[d] # <<>> => d = c /\ Len(callback_buffer'[d]) = 1
    <3> SUFFICES ASSUME NEW d \in Singles, callback_buffer'[d] # <<>>
        PROVE  d = c /\ Len(callback_buffer'[d]) = 1
      OBVIOUS
    <3>1. callback_buffer[d] = <<>>
      BY SinglesEmpty
    <3>2. d = c
      BY <3>1, <1>5
    <3>3. Len(s) = 0
      BY <3>1, <3>2 DEF s
    <3> QED BY <3>2, <3>3, <1>4, <1>5
  <2>6. pc' # "process"
    OBVIOUS
  <2> QED BY <2>1, <2>3, <2>4, <2>5, <2>6 DEF CapacityInv
<1>10. LocationInv'
  <2> SUFFICES ASSUME NEW d \in Queued
      PROVE  location[d] = taken[d] + Len(callback_buffer'[d]) + 0
    <3>1. \A d \in Queued : sReadInfo' # d
      BY <1>0, QueuedIsFile
    <3> QED BY <1>0, <3>1 DEF LocationInv
  <2>1. /\ d \in Files /\ Len(callback_buffer[d]) \in Nat /\ taken[d] \in Nat
        /\ location[d] = taken[d] + Len(callback_buffer[d]) + (IF c = d THEN 1 ELSE 0)
    BY <1>0, QueuedIsFile, ListType DEF CoreType, Core, LocationInv
  <2>2. CASE d = c
    <3>1. Len(callback_buffer'[d]) = Len(callback_buffer[d]) + 1
      BY <2>1, <2>2, <1>4, <1>5 DEF s
    <3> QED BY <2>1, <2>2, <3>1
  <2>3. CASE d # c
    BY <2>1, <2>3, <1>5
  <2> QED BY <2>2, <2>3
<1>11. PagesInOrder'
  <2> SUFFICES ASSUME NEW d \in Queued, NEW i \in DOMAIN callback_buffer'[d]
      PROVE  callback_buffer'[d][i].page = taken[d] + i
    BY <1>0 DEF PagesInOrder
  <2>1. d \in Files /\ taken[d] \in Nat
    BY <1>0, QueuedIsFile DEF CoreType
  <2>2. CASE i \in DOMAIN callback_buffer[d] /\ callback_buffer'[d][i] = callback_buffer[d][i]
    BY <2>2 DEF Core, PagesInOrder
  <2>3. CASE d = c /\ i = Len(s) + 1 /\ callback_buffer'[d][i] = e
    <3>1. location[c] = taken[c] + Len(s) + 1
      BY <1>0 DEF Core, LocationInv, s
    <3>2. taken[c] \in Nat /\ Len(s) \in Nat
      BY <2>1, <2>3, <1>4
    <3>3. e.page = taken[c] + (Len(s) + 1)
      BY <3>1, <3>2, <1>2
    <3> QED BY <3>3, <2>3
  <2> QED BY <2>1, <2>2, <2>3, <1>7
<1>12. BuffersConserved'
  <2>1. \A d \in Files : \A i \in DOMAIN callback_buffer[d] :
          /\ d \in Queued
          /\ callback_buffer[d][i].buffer \notin free \cup {read_buffer}
          /\ callback_buffer[d][i].buffer \in Buffers
    BY <1>0, ListType DEF Core, BuffersConserved
  <2>2. read_buffer \notin free
    BY DEF Core, BuffersConserved
  <2>3. \A d \in Files : \A i \in DOMAIN callback_buffer'[d] :
          /\ d \in Queued'
          /\ callback_buffer'[d][i].buffer \notin free' \cup {read_buffer'}
    <3> TAKE d \in Files
    <3> TAKE i \in DOMAIN callback_buffer'[d]
    <3>1. free' = free /\ read_buffer' = 0 /\ Queued' = Queued
      BY <1>0
    <3>2. CASE i \in DOMAIN callback_buffer[d] /\ callback_buffer'[d][i] = callback_buffer[d][i]
      BY <3>1, <3>2, <2>1, <1>1
    <3>3. CASE d = c /\ callback_buffer'[d][i] = e
      <4>1. c \in Queued
        BY <1>0 DEF c
      <4> QED BY <4>1, <3>1, <3>3, <2>2, <1>1, <1>2
    <3> QED BY <3>2, <3>3, <1>7
  <2>4. \A d \in Files : \A i \in DOMAIN callback_buffer'[d] :
          \A g \in Files : \A j \in DOMAIN callback_buffer'[g] :
            callback_buffer'[g][j].buffer = callback_buffer'[d][i].buffer => d = g /\ i = j
    <3> SUFFICES ASSUME NEW d \in Files, NEW i \in DOMAIN callback_buffer'[d],
                        NEW g \in Files, NEW j \in DOMAIN callback_buffer'[g],
                        callback_buffer'[g][j].buffer = callback_buffer'[d][i].buffer
        PROVE  d = g /\ i = j
      OBVIOUS
    <3>1. CASE /\ i \in DOMAIN callback_buffer[d] /\ callback_buffer'[d][i] = callback_buffer[d][i]
               /\ j \in DOMAIN callback_buffer[g] /\ callback_buffer'[g][j] = callback_buffer[g][j]
      BY <3>1 DEF Core, BuffersConserved
    <3>2. CASE /\ i \in DOMAIN callback_buffer[d] /\ callback_buffer'[d][i] = callback_buffer[d][i]
               /\ callback_buffer'[g][j] = e
      BY <3>2, <2>1, <1>2
    <3>3. CASE /\ j \in DOMAIN callback_buffer[g] /\ callback_buffer'[g][j] = callback_buffer[g][j]
               /\ callback_buffer'[d][i] = e
      BY <3>3, <2>1, <1>2
    <3>4. CASE d = c /\ i = Len(s) + 1 /\ g = c /\ j = Len(s) + 1
      BY <3>4
    <3> QED BY <3>1, <3>2, <3>3, <3>4, <1>7
  <2>5. read_buffer' \notin free'
    BY <1>0, <1>1 DEF CoreType
  <2>6. \A d \in Files : ReleasedBuffers(d) \subseteq ReleasedBuffers(d)'
    <3> TAKE d \in Files
    <3>1. CASE d = c
      <4>1. Elements(callback_buffer[d]) \subseteq Elements(callback_buffer'[d])
        BY <3>1, <1>4, <1>5 DEF s
      <4> QED BY <4>1 DEF ReleasedBuffers
    <3>2. CASE d # c
      BY <3>2, <1>5 DEF ReleasedBuffers
    <3> QED BY <3>1, <3>2
  <2>7. \E d \in Files : read_buffer \in ReleasedBuffers(d)'
    <3>1. PICK d \in Files : d = c
      BY <1>0
    <3>2. e \in Elements(callback_buffer'[d])
      BY <3>1, <1>4, <1>5
    <3>3. read_buffer \in ReleasedBuffers(d)'
      BY <3>2, <1>2 DEF ReleasedBuffers
    <3> QED BY <3>3
  <2>8. \A x \in Buffers : x \in free' \/ x = read_buffer' \/ \E d \in Files : x \in ReleasedBuffers(d)'
    BY <2>6, <2>7 DEF Core, BuffersConserved
  <2> QED BY <2>3, <2>4, <2>5, <2>8 DEF BuffersConserved
<1> QED BY <1>0, <1>6, <1>8, <1>9, <1>10, <1>11, <1>12 DEF Core, StackInv

(* A command taken out of the stack, if it was there, and put back or not, *)
(* outside of reads.                                                       *)
LEMMA Renewed ==
  ASSUME Core, pc \in Idle, pc' \in Idle, NEW c \in Files,
         gPriStack' \in [0 .. 3 -> Seq(Files)], StackOK(gPriStack'),
         Queued' \ {c} = Queued \ {c},
         callback_buffer' = [callback_buffer EXCEPT ![c] = <<>>],
         free' = free \cup ReleasedBuffers(c),
         OpenedFor(c),
         fd' \in [Files -> {"null", "open", "closed"}],
         UNCHANGED <<todo, readVars>>
  PROVE  Core'
<1> USE NoCmdIsNoFile
<1>0. /\ CoreType /\ cmd_to_process = NoCmd /\ read_buffer = 0 /\ sReadInfo = NoCmd /\ todo = {}
      /\ pc' # "reading" /\ pc' # "process"
      /\ UNCHANGED <<cmd_to_process, read_buffer, sReadInfo, todo>>
  BY IdleCore DEF Core, Idle, readVars
<1>3. ReleasedBuffers(c) \subseteq Buffers /\ 0 \notin Buffers
  BY <1>0, ListType, BufferNumbers
<1>5. /\ \A d \in Files : callback_buffer'[d] = IF d = c THEN <<>> ELSE callback_buffer[d]
      /\ \A d \in Files : location'[d] = IF d = c THEN 0 ELSE location[d]
      /\ \A d \in Files : taken'[d] = IF d = c THEN 0 ELSE taken[d]
      /\ callback_buffer' \in [Files -> Seq(Filled)]
      /\ location' \in [Files -> Nat] /\ taken' \in [Files -> Nat]
  <2>1. /\ \A d \in Files : callback_buffer'[d] = IF d = c THEN <<>> ELSE callback_buffer[d]
        /\ callback_buffer' \in [Files -> Seq(Filled)]
    BY <1>0 DEF CoreType
  <2>2. /\ \A d \in Files : location'[d] = IF d = c THEN 0 ELSE location[d]
        /\ location' \in [Files -> Nat]
    BY <1>0 DEF CoreType, OpenedFor
  <2>3. /\ \A d \in Files : taken'[d] = IF d = c THEN 0 ELSE taken[d]
        /\ taken' \in [Files -> Nat]
    BY <1>0 DEF CoreType, OpenedFor
  <2> QED BY <2>1, <2>2, <2>3
<1>4. CoreType'
  BY <1>0, <1>3, <1>5 DEF CoreType, Idle
<1>6. StackInv'
  BY DEF StackInv
<1>7. ReadInv'
  <2>1. \A d \in Files : \A i \in DOMAIN callback_buffer'[d] : Fits(d, callback_buffer'[d][i].buffer)
    BY <1>5 DEF Core, ReadInv
  <2> QED BY <1>0, <2>1 DEF ReadInv
<1>8. CapacityInv'
  <2>1. \A d \in Files : ~Pending(d) /\ ~Pending(d)'
    BY <1>0 DEF Pending
  <2>2. Len(callback_buffer'[DGO]) <= 2
    <3>1. CASE c = DGO
      BY <3>1, <1>5
    <3>2. CASE c # DGO
      BY <3>2, <1>5, <2>1 DEF Core, CapacityInv
    <3> QED BY <3>1, <3>2
  <2>3. Len(callback_buffer'[VAG]) <= 1
    <3>1. CASE c = VAG
      BY <3>1, <1>5
    <3>2. CASE c # VAG
      BY <3>2, <1>5, <2>1 DEF Core, CapacityInv
    <3> QED BY <3>1, <3>2
  <2>4. \A d \in Singles : callback_buffer'[d] # <<>> => callback_buffer'[d] = callback_buffer[d]
    BY <1>5
  <2> QED BY <1>0, <2>1, <2>2, <2>3, <2>4 DEF Core, CapacityInv
<1>9. LocationInv' /\ PagesInOrder'
  <2>1. \A d \in Queued' : d \in Files /\ (d # c => d \in Queued)
    BY <1>0, QueuedIsFile
  <2>2. LocationInv'
    <3> SUFFICES ASSUME NEW d \in Queued'
        PROVE  location'[d] = taken'[d] + Len(callback_buffer'[d]) + (IF sReadInfo' = d THEN 1 ELSE 0)
      BY DEF LocationInv
    <3>1. d \in Files /\ sReadInfo' # d
      BY <2>1, <1>0
    <3>2. CASE d = c
      BY <3>1, <3>2, <1>5
    <3>3. CASE d # c
      BY <3>1, <3>3, <2>1, <1>0, <1>5 DEF Core, LocationInv
    <3> QED BY <3>2, <3>3
  <2>3. PagesInOrder'
    <3> SUFFICES ASSUME NEW d \in Queued', NEW i \in DOMAIN callback_buffer'[d]
        PROVE  callback_buffer'[d][i].page = taken'[d] + i
      BY DEF PagesInOrder
    <3>1. d # c /\ d \in Files
      BY <2>1, <1>5
    <3>2. /\ d \in Queued /\ taken'[d] = taken[d] /\ i \in DOMAIN callback_buffer[d]
          /\ callback_buffer'[d] = callback_buffer[d]
      BY <3>1, <2>1, <1>5
    <3> QED BY <3>2 DEF Core, PagesInOrder
  <2> QED BY <2>2, <2>3
<1>10. BuffersConserved'
  <2>1. \A d \in Files : \A i \in DOMAIN callback_buffer'[d] :
          d # c /\ i \in DOMAIN callback_buffer[d] /\ callback_buffer'[d][i] = callback_buffer[d][i]
    BY <1>5
  <2>2. \A d \in Files : \A i \in DOMAIN callback_buffer'[d] : d \in Queued'
    BY <2>1 DEF Core, BuffersConserved
  <2>3. \A d \in Files : \A i \in DOMAIN callback_buffer'[d] :
          callback_buffer'[d][i].buffer \notin free' \cup {read_buffer'}
    <3> TAKE d \in Files
    <3> TAKE i \in DOMAIN callback_buffer'[d]
    <3>1. callback_buffer[d][i].buffer \notin free \cup {read_buffer}
      BY <2>1 DEF Core, BuffersConserved
    <3>2. \A j \in DOMAIN callback_buffer[c] :
            callback_buffer[c][j].buffer # callback_buffer[d][i].buffer
      BY <2>1 DEF Core, BuffersConserved
    <3>3. callback_buffer[d][i].buffer \notin ReleasedBuffers(c)
      BY <3>2 DEF ReleasedBuffers, Elements
    <3> QED BY <2>1, <3>1, <3>3, <1>0
  <2>4. \A d \in Files : \A i \in DOMAIN callback_buffer'[d] :
          \A e \in Files : \A j \in DOMAIN callback_buffer'[e] :
            callback_buffer'[e][j].buffer = callback_buffer'[d][i].buffer => d = e /\ i = j
    BY <2>1 DEF Core, BuffersConserved
  <2>5. read_buffer' \notin free'
    BY <1>0, <1>3 DEF Core, BuffersConserved
  <2>6. \A d \in Files : d # c => ReleasedBuffers(d)' = ReleasedBuffers(d)
    BY <1>5 DEF ReleasedBuffers, Elements
  <2>7. \A b \in Buffers : b \in free' \/ b = read_buffer' \/ \E d \in Files : b \in ReleasedBuffers(d)'
    BY <2>6, <1>0 DEF Core, BuffersConserved
  <2> QED BY <2>2, <2>3, <2>4, <2>5, <2>7 DEF BuffersConserved
<1> QED BY <1>4, <1>6, <1>7, <1>8, <1>9, <1>10 DEF Core

-----------------------------------------------------------------------------
(* The mailbox. *)

LEMMA MessageFields ==
  ASSUME NEW m \in Messages
  PROVE  /\ m.cmd = "load" => m.client \in Singles \cup {DGO}
         /\ m.cmd \in {"queue", "play"} => m.vag \in Vags \cup {NoVag} /\ m.priority \in {0, 1}
<1>1. CASE m \in [cmd : {"play", "stop", "queue"}, vag : Vags \cup {NoVag}, priority : {1}]
  BY <1>1
<1>2. CASE m \in [cmd : {"play"}, vag : Vags, priority : {0}]
  BY <1>2
<1>3. CASE m \in [cmd : {"stop"}, vag : {NoVag}, priority : {0}]
  BY <1>3
<1>4. CASE m \in [cmd : {"pause", "continue"}]
  BY <1>4
<1>5. CASE m \in [cmd : {"load"}, client : Singles \cup {DGO}]
  BY <1>5
<1>6. CASE m \in [cmd : {"music"}, client : {LOADER}]
  BY <1>6
<1> QED BY <1>1, <1>2, <1>3, <1>4, <1>5, <1>6 DEF Messages, VagMessages

LEMMA ReceiveFacts ==
  ASSUME MailInv, iso_mbx # <<>>
  PROVE  /\ iso_mbx \in Seq(Messages) /\ Len(iso_mbx) \in Nat /\ Len(iso_mbx) >= 1
         /\ Head(iso_mbx) = iso_mbx[1] /\ Head(iso_mbx) \in Messages /\ 1 \in DOMAIN iso_mbx
         /\ Tail(iso_mbx) \in Seq(Messages)
         /\ DOMAIN Tail(iso_mbx) = 1 .. Len(iso_mbx) - 1 /\ DOMAIN iso_mbx = 1 .. Len(iso_mbx)
         /\ Len(Tail(iso_mbx)) = Len(iso_mbx) - 1
         /\ \A i \in DOMAIN Tail(iso_mbx) :
              i + 1 \in DOMAIN iso_mbx /\ i + 1 # 1 /\ Tail(iso_mbx)[i] = iso_mbx[i + 1]
<1>1. iso_mbx \in Seq(Messages)
  BY DEF MailInv
<1> QED BY <1>1

(* A message is taken out and its command queued or returned. *)
LEMMA MailTail ==
  ASSUME MailInv, iso_mbx # <<>>, iso_mbx' = Tail(iso_mbx),
         \A i \in DOMAIN iso_mbx : i # 1 /\ iso_mbx[i].cmd = "load" =>
           iso_mbx[i].client \in waiting' \ Queued'
  PROVE  MailInv'
<1>1. /\ iso_mbx' \in Seq(Messages) /\ DOMAIN iso_mbx' = 1 .. Len(iso_mbx) - 1
      /\ \A i \in DOMAIN iso_mbx' :
           i + 1 \in DOMAIN iso_mbx /\ i + 1 # 1 /\ iso_mbx'[i] = iso_mbx[i + 1] /\ i \in Int
  BY ReceiveFacts
<1>2. ASSUME NEW i \in DOMAIN iso_mbx', iso_mbx'[i].cmd = "load"
      PROVE  /\ iso_mbx'[i].client \in waiting' \ Queued'
             /\ \A j \in DOMAIN iso_mbx' :
                  iso_mbx'[j].cmd = "load" /\ iso_mbx'[j].client = iso_mbx'[i].client => i = j
  <2>1. iso_mbx'[i].client \in waiting' \ Queued'
    BY <1>1, <1>2
  <2>2. ASSUME NEW j \in DOMAIN iso_mbx', iso_mbx'[j].cmd = "load",
               iso_mbx'[j].client = iso_mbx'[i].client
        PROVE  i = j
    <3>1. i + 1 = j + 1
      BY <1>1, <1>2, <2>2 DEF MailInv
    <3> QED BY <3>1, <1>1
  <2> QED BY <2>1, <2>2
<1> QED BY <1>1, <1>2 DEF MailInv

(* No message comes or goes. *)
LEMMA MailSame ==
  ASSUME MailInv, iso_mbx' = iso_mbx,
         \A i \in DOMAIN iso_mbx : iso_mbx[i].cmd = "load" => iso_mbx[i].client \in waiting' \ Queued'
  PROVE  MailInv'
  BY DEF MailInv

(* A client, or the EE, sends a message. *)
LEMMA MailAppend ==
  ASSUME MailInv, NEW m \in Messages, iso_mbx' = Append(iso_mbx, m),
         waiting \subseteq waiting', Queued' = Queued,
         m.cmd = "load" => m.client \notin waiting /\ m.client \in waiting' \ Queued'
  PROVE  MailInv'
<1>1. iso_mbx \in Seq(Messages) /\ Len(iso_mbx) \in Nat /\ DOMAIN iso_mbx = 1 .. Len(iso_mbx)
  BY DEF MailInv
<1>2. /\ iso_mbx' \in Seq(Messages)
      /\ DOMAIN iso_mbx' = 1 .. Len(iso_mbx) + 1
      /\ \A i \in DOMAIN iso_mbx : iso_mbx'[i] = iso_mbx[i]
      /\ iso_mbx'[Len(iso_mbx) + 1] = m
  BY <1>1, AppendElements
<1>3. \A i \in DOMAIN iso_mbx' : i \in DOMAIN iso_mbx \/ i = Len(iso_mbx) + 1
  BY <1>1, <1>2
<1>4. \A i \in DOMAIN iso_mbx : iso_mbx[i].cmd = "load" => iso_mbx[i].client \in waiting
  BY DEF MailInv
<1>5. ASSUME NEW i \in DOMAIN iso_mbx', iso_mbx'[i].cmd = "load"
      PROVE  /\ iso_mbx'[i].client \in waiting' \ Queued'
             /\ \A j \in DOMAIN iso_mbx' :
                  iso_mbx'[j].cmd = "load" /\ iso_mbx'[j].client = iso_mbx'[i].client => i = j
  <2>1. CASE i \in DOMAIN iso_mbx
    BY <2>1, <1>2, <1>3, <1>4, <1>5 DEF MailInv
  <2>2. CASE i = Len(iso_mbx) + 1
    BY <2>2, <1>2, <1>3, <1>4, <1>5
  <2> QED BY <2>1, <2>2, <1>3
<1> QED BY <1>2, <1>5 DEF MailInv

-----------------------------------------------------------------------------
(* The part of the invariant that is about the stream and the clients. *)

VagType == [name : Vags \cup {NoVag}, priority : {0, 1}, paused : BOOLEAN, started : BOOLEAN,
            stop : BOOLEAN, number : Nat, last : BOOLEAN, ready : BOOLEAN]

StreamType ==
  /\ vag \in VagType
  /\ in_progress \in BOOLEAN /\ vag_paused \in BOOLEAN /\ unk \in BOOLEAN
  /\ gVAGCMD \in BOOLEAN /\ gPlaying \in BOOLEAN /\ spinning \in BOOLEAN
  /\ clock \subseteq {"fake", "real"} /\ half \in {0, 1} /\ vag_cmd_cnt \in Int
  /\ waiting \subseteq Clients /\ loads \in Nat /\ sent \in Nat

Rest == StreamType /\ FilesOfQueued /\ StreamConsistent

LEMMA TypeParts == TypeOK <=> CoreType /\ StreamType
<1>1. {in_progress, vag_paused, unk, gVAGCMD, gPlaying, spinning} \subseteq BOOLEAN
      <=> /\ in_progress \in BOOLEAN /\ vag_paused \in BOOLEAN /\ unk \in BOOLEAN
          /\ gVAGCMD \in BOOLEAN /\ gPlaying \in BOOLEAN /\ spinning \in BOOLEAN
  BY Zenon
<1> QED BY <1>1 DEF TypeOK, CoreType, StreamType, VagType

LEMMA Parts == IInv <=> Core /\ MailInv /\ Rest
  BY TypeParts DEF IInv, Core, Rest

LEMMA PartsNext == IInv' <=> Core' /\ MailInv' /\ Rest'
  BY Parts, PTL

(* Steps that touch nothing of it. *)
LEMMA RestFrame ==
  ASSUME Rest, Queued' = Queued,
         UNCHANGED <<fd, streamVars, vag_cmd_cnt, waiting, clientVars>>
  PROVE  Rest'
  BY DEF Rest, StreamType, FilesOfQueued, StreamConsistent, streamVars, clientVars

(* What the stream's fields are when it is set up or changed. *)
LEMMA VagFields ==
  /\ NoStream \in VagType
  /\ \A m : \A n \in Vags \cup {NoVag}, p \in {0, 1}, x \in BOOLEAN :
       m.vag = n /\ m.priority = p => InitVAGCmd(m, x) \in VagType
  BY DEF NoStream, InitVAGCmd, VagType

LEMMA VagFieldsOf ==
  ASSUME NEW v \in VagType, NEW x \in BOOLEAN, NEW w
  PROVE  /\ w = [v EXCEPT !.paused = x] => w \in VagType /\ w.name = v.name /\ w.paused = x
         /\ w = [v EXCEPT !.ready = x] => w \in VagType /\ w.name = v.name /\ w.paused = v.paused
         /\ w = [v EXCEPT !.stop = x] => w \in VagType /\ w.name = v.name /\ w.paused = v.paused
  BY DEF VagType

(* Only the stream has the stream's priority. *)
LEMMA StreamPriority ==
  ASSUME NEW stack \in [0 .. 3 -> Seq(Files)], StackOK(stack), VAG \notin In(stack)
  PROVE  stack[3] = <<>> /\ Len(stack[3]) # StackLength
<1>1. stack[3] \in Seq(Files) /\ 3 \in 0 .. 3
  OBVIOUS
<1>2. \A i \in DOMAIN stack[3] : FALSE
  <2> SUFFICES ASSUME NEW i \in DOMAIN stack[3] PROVE FALSE
    OBVIOUS
  <2>1. Priority(stack[3][i]) = 3
    BY <1>1 DEF StackOK
  <2>2. stack[3][i] = VAG
    BY <2>1 DEF Priority
  <2> QED BY <1>1, <2>2 DEF In, Elements
<1>3. Len(stack[3]) = 0
  <2> SUFFICES ASSUME Len(stack[3]) # 0 PROVE FALSE
    OBVIOUS
  <2>1. 1 \in DOMAIN stack[3]
    BY <1>1
  <2> QED BY <1>2, <2>1
<1> QED BY <1>1, <1>3, IsoAssumption

-----------------------------------------------------------------------------
(* Steps of the other threads. *)

LEMMA ClientStep ==
  ASSUME IInv, NEW c \in Clients, ClientLoads(c)
  PROVE  IInv'
<1>0. /\ Core /\ MailInv /\ Rest
      /\ pc' = pc /\ waiting' = waiting \cup {c} /\ c \notin waiting
      /\ UNCHANGED <<gPriStack, todo, bufferVars, fd, readVars, streamVars, vag_cmd_cnt, spinning, sent>>
      /\ loads' = loads + 1
  BY Parts DEF ClientLoads, isoUnchanged
<1>1. Core' /\ Queued' = Queued
  BY <1>0, Frame
<1>2. Rest'
  BY <1>0, <1>1 DEF Rest, StreamType, FilesOfQueued, StreamConsistent, streamVars
<1>3. MailInv'
  <2>1. CASE c = LOADER
    <3> DEFINE m == [cmd |-> "music", client |-> c]
    <3>1. m \in Messages /\ m.cmd # "load"
      BY <2>1 DEF Messages
    <3>2. iso_mbx' = Append(iso_mbx, m)
      BY <2>1 DEF ClientLoads
    <3> HIDE DEF m
    <3> QED BY <3>1, <3>2, <1>0, <1>1, MailAppend
  <2>2. CASE c # LOADER
    <3> DEFINE m == [cmd |-> "load", client |-> c]
    <3>1. m \in Messages /\ m.client = c
      BY <2>2 DEF Messages, Clients
    <3>2. iso_mbx' = Append(iso_mbx, m)
      BY <2>2 DEF ClientLoads
    <3>3. c \notin Queued
      BY <2>2, <1>0, IsoAssumption DEF Rest, FilesOfQueued, Clients
    <3> HIDE DEF m
    <3> QED BY <3>1, <3>2, <3>3, <1>0, <1>1, MailAppend
  <2> QED BY <2>1, <2>2
<1> QED BY <1>1, <1>2, <1>3, PartsNext

LEMMA OrderStep ==
  ASSUME IInv, NEW m \in Orders, GetVAGCommand(m)
  PROVE  IInv'
<1>0. /\ Core /\ MailInv /\ Rest /\ pc' = pc
      /\ UNCHANGED <<gPriStack, todo, bufferVars, fd, readVars, streamVars, waiting, loads>>
  BY Parts DEF GetVAGCommand, isoUnchanged
<1>1. Core' /\ Queued' = Queued
  BY <1>0, Frame
<1>2. Rest'
  <2>1. vag_cmd_cnt' \in Int /\ sent' \in Nat /\ spinning' \in BOOLEAN
    <3>1. vag_cmd_cnt \in Int /\ sent \in Nat /\ spinning \in BOOLEAN
      BY <1>0 DEF Rest, StreamType
    <3>2. \/ vag_cmd_cnt' = vag_cmd_cnt + 1 /\ sent' = sent + 1 /\ spinning' = spinning
          \/ vag_cmd_cnt' = vag_cmd_cnt /\ sent' = sent /\ spinning' = TRUE
      BY DEF GetVAGCommand
    <3>3. vag_cmd_cnt' \in Int /\ sent' \in Nat
      BY <3>1, <3>2
    <3>4. spinning' \in BOOLEAN
      BY <3>1, <3>2, Zenon
    <3> QED BY <3>3, <3>4
  <2> QED BY <1>0, <1>1, <2>1 DEF Rest, StreamType, FilesOfQueued, StreamConsistent, streamVars
<1>3. MailInv'
  <2>1. m \in Messages /\ m.cmd # "load"
    BY IsoAssumption DEF Messages, VagMessages
  <2>2. CASE iso_mbx' = Append(iso_mbx, m)
    BY <2>1, <2>2, <1>0, <1>1, MailAppend
  <2>3. CASE iso_mbx' = iso_mbx
    BY <2>3, <1>0, <1>1, MailSame DEF MailInv
  <2> QED BY <2>2, <2>3 DEF GetVAGCommand
<1> QED BY <1>1, <1>2, <1>3, PartsNext

LEMMA PlayPosStep ==
  ASSUME IInv, UpdatePlayPos
  PROVE  IInv'
<1>0. /\ Core /\ MailInv /\ Rest /\ pc' = pc
      /\ UNCHANGED <<gPriStack, todo, bufferVars, fd, readVars, waiting, clientVars, vag_cmd_cnt,
                     in_progress, vag, vag_paused, unk, gVAGCMD, clock, gPlaying, iso_mbx>>
      /\ half' \in {0, 1}
  BY Parts DEF UpdatePlayPos, isoUnchanged, Rest, StreamType
<1>1. Core' /\ Queued' = Queued
  BY <1>0, Frame
<1>2. Rest'
  BY <1>0, <1>1 DEF Rest, StreamType, FilesOfQueued, StreamConsistent, clientVars
<1>3. MailInv'
  BY <1>0, <1>1, MailSame DEF MailInv
<1> QED BY <1>1, <1>2, <1>3, PartsNext

-----------------------------------------------------------------------------
(* The message of a round. *)

(* What the helper Receive and the actions like it leave for the proofs. *)
LEMMA Polling ==
  ASSUME IInv, Polls, iso_mbx # <<>>, pc' = "progress"
  PROVE  /\ Core /\ MailInv /\ Rest /\ pc \in Idle /\ pc' \in Idle
         /\ cmd_to_process = NoCmd /\ read_buffer = 0 /\ sReadInfo = NoCmd /\ todo = {}
         /\ Head(iso_mbx) = iso_mbx[1] /\ Head(iso_mbx) \in Messages /\ 1 \in DOMAIN iso_mbx
<1>1. Core /\ MailInv /\ Rest
  BY Parts
<1>2. pc \in Idle /\ pc' \in Idle
  BY DEF Polls, Idle
<1> QED BY <1>1, <1>2, IdleCore, ReceiveFacts

(* The messages behind the first are not disturbed by a stream command. *)
LEMMA StreamMail ==
  ASSUME IInv, iso_mbx # <<>>, iso_mbx' = Tail(iso_mbx), waiting' = waiting,
         Queued' \subseteq Queued \cup {VAG}
  PROVE  MailInv'
<1>1. Core /\ MailInv
  BY Parts
<1>2. \A i \in DOMAIN iso_mbx : iso_mbx[i].cmd = "load" => iso_mbx[i].client # VAG
  <2>1. \A i \in DOMAIN iso_mbx : iso_mbx[i] \in Messages
    BY <1>1 DEF MailInv
  <2> QED BY <2>1, MessageFields, NoCmdIsNoFile
<1> QED BY <1>1, <1>2, MailTail DEF MailInv

LEMMA LoadStep ==
  ASSUME IInv, iso_load
  PROVE  IInv'
<1> USE NoCmdIsNoFile
<1> DEFINE c == Head(iso_mbx).client
<1>0. /\ Polls /\ iso_mbx # <<>> /\ pc' = "progress" /\ iso_mbx' = Tail(iso_mbx)
      /\ Head(iso_mbx).cmd = "load"
      /\ UNCHANGED <<todo, free, readVars, streamVars, vag_cmd_cnt, clientVars>>
  BY DEF iso_load, Receive
<1>1. /\ Core /\ MailInv /\ Rest /\ pc \in Idle /\ pc' \in Idle
      /\ cmd_to_process = NoCmd /\ read_buffer = 0 /\ sReadInfo = NoCmd /\ todo = {}
      /\ Head(iso_mbx) = iso_mbx[1] /\ Head(iso_mbx) \in Messages /\ 1 \in DOMAIN iso_mbx
  BY <1>0, Polling
<1>2. c \in Singles \cup {DGO} /\ c \in waiting \ Queued
  BY <1>0, <1>1, MessageFields DEF MailInv
<1>a. iso_mbx[1].client = c /\ iso_mbx[1].cmd = "load"
  BY <1>0, <1>1
<1>3. \/ /\ gPriStack' = QueueMessage(gPriStack, c)
         /\ fd' = [fd EXCEPT ![c] = "open"]
         /\ callback_buffer' = [callback_buffer EXCEPT ![c] = <<>>]
         /\ OpenedFor(c) /\ UNCHANGED waiting
      \/ /\ waiting' = waiting \ {c}
         /\ fd' = [fd EXCEPT ![c] = "null"]
         /\ callback_buffer' = [callback_buffer EXCEPT ![c] = <<>>]
         /\ UNCHANGED <<gPriStack, location, taken>>
  BY DEF iso_load, FailedToQueue
<1> HIDE DEF c
<1>4. c \in Files /\ c # VAG /\ fd \in [Files -> {"null", "open", "closed"}]
  BY <1>1, <1>2 DEF Core, CoreType
<1>5. \A i \in DOMAIN iso_mbx : i # 1 /\ iso_mbx[i].cmd = "load" =>
        iso_mbx[i].client \in waiting \ Queued /\ iso_mbx[i].client # c
  BY <1>1, <1>a DEF MailInv
<1>6. CASE /\ gPriStack' = QueueMessage(gPriStack, c)
           /\ fd' = [fd EXCEPT ![c] = "open"]
           /\ callback_buffer' = [callback_buffer EXCEPT ![c] = <<>>]
           /\ OpenedFor(c) /\ UNCHANGED waiting
  <2>1. Core' /\ Queued' = Queued \cup {c}
    BY <1>0, <1>1, <1>2, <1>4, <1>6, Enqueue
  <2>2. MailInv'
    BY <1>0, <1>1, <1>5, <1>6, <2>1, MailTail
  <2>3. FilesOfQueued'
    <3>1. \A d \in Files : fd'[d] = IF d = c THEN "open" ELSE fd[d]
      BY <1>4, <1>6
    <3>2. Queued \subseteq Files /\ vag' = vag /\ waiting' = waiting
      BY <1>0, <1>1, <1>6, QueuedIsFile DEF Core, streamVars
    <3> QED BY <3>1, <3>2, <2>1, <1>1, <1>2, <1>4 DEF Rest, FilesOfQueued
  <2>4. StreamType' /\ StreamConsistent'
    BY <1>0, <1>1, <1>4, <1>6, <2>1 DEF Rest, StreamType, StreamConsistent, streamVars, clientVars
  <2> QED BY <2>1, <2>2, <2>3, <2>4, PartsNext DEF Rest
<1>7. CASE /\ waiting' = waiting \ {c}
           /\ fd' = [fd EXCEPT ![c] = "null"]
           /\ callback_buffer' = [callback_buffer EXCEPT ![c] = <<>>]
           /\ UNCHANGED <<gPriStack, location, taken>>
  <2>0. Queued' = Queued /\ callback_buffer' = callback_buffer
    <3>1. callback_buffer[c] = <<>>
      BY <1>1, <1>2, <1>4, UnqueuedHasNone
    <3>2. callback_buffer \in [Files -> Seq(Filled)]
      BY <1>1 DEF Core, CoreType
    <3> QED BY <3>1, <3>2, <1>7 DEF Queued
  <2>1. Core'
    <3>1. fd' \in [Files -> {"null", "open", "closed"}]
      BY <1>4, <1>7
    <3>2. CoreType' /\ StackInv'
      BY <1>0, <1>1, <1>7, <2>0, <3>1 DEF Core, CoreType, StackInv, Idle, readVars
    <3>3. ReadInv' /\ CapacityInv'
      BY <1>0, <1>1, <1>7, <2>0 DEF Core, ReadInv, CapacityInv, Pending, Idle, readVars
    <3>4. LocationInv' /\ PagesInOrder'
      BY <1>0, <1>1, <1>7, <2>0 DEF Core, LocationInv, PagesInOrder, readVars
    <3>5. BuffersConserved'
      <4>1. \A d : ReleasedBuffers(d)' = ReleasedBuffers(d)
        BY <2>0 DEF ReleasedBuffers
      <4> QED BY <4>1, <1>0, <1>1, <2>0 DEF Core, BuffersConserved, readVars
    <3> QED BY <3>2, <3>3, <3>4, <3>5 DEF Core
  <2>2. MailInv'
    BY <1>0, <1>1, <1>5, <1>7, <2>0, MailTail
  <2>3. FilesOfQueued'
    <3>1. \A d \in Files : fd'[d] = IF d = c THEN "null" ELSE fd[d]
      BY <1>4, <1>7
    <3>2. Queued \subseteq Files /\ vag' = vag
      BY <1>0, <1>1, QueuedIsFile DEF Core, streamVars
    <3> QED BY <3>1, <3>2, <2>0, <1>1, <1>2, <1>4, <1>7 DEF Rest, FilesOfQueued
  <2>4. StreamType' /\ StreamConsistent'
    BY <1>0, <1>1, <1>7, <2>0 DEF Rest, StreamType, StreamConsistent, streamVars, clientVars
  <2> QED BY <2>1, <2>2, <2>3, <2>4, PartsNext DEF Rest
<1> QED BY <1>3, <1>6, <1>7

LEMMA MusicStep ==
  ASSUME IInv, iso_music
  PROVE  IInv'
<1>0. /\ Polls /\ iso_mbx # <<>> /\ pc' = "progress" /\ Head(iso_mbx).cmd = "music"
      /\ UNCHANGED <<gPriStack, todo, bufferVars, fd, readVars, streamVars, vag_cmd_cnt, clientVars>>
      /\ \/ iso_mbx' = Append(Tail(iso_mbx), Head(iso_mbx)) /\ waiting' = waiting
         \/ iso_mbx' = Tail(iso_mbx) /\ waiting' = waiting \ {LOADER}
  BY DEF iso_music
<1>1. /\ Core /\ MailInv /\ Rest /\ pc \in Idle /\ pc' \in Idle
      /\ Head(iso_mbx) = iso_mbx[1] /\ Head(iso_mbx) \in Messages /\ 1 \in DOMAIN iso_mbx
  BY <1>0, Polling
<1>2. Core' /\ Queued' = Queued
  BY <1>0, <1>1, Frame
<1>3. \A i \in DOMAIN iso_mbx : iso_mbx[i].cmd = "load" =>
        iso_mbx[i].client \in waiting \ Queued /\ iso_mbx[i].client # LOADER
  <2>1. \A i \in DOMAIN iso_mbx : iso_mbx[i] \in Messages
    BY <1>1 DEF MailInv
  <2>2. LOADER \notin Singles \cup {DGO}
    BY IsoAssumption DEF Files
  <2> QED BY <1>1, <2>1, <2>2, MessageFields DEF MailInv
<1>4. Rest'
  <2>1. \A d \in Queued : d # LOADER
    BY <1>1, QueuedIsFile, IsoAssumption DEF Core
  <2> QED BY <2>1, <1>0, <1>1, <1>2 DEF Rest, StreamType, FilesOfQueued, StreamConsistent,
                                      streamVars, clientVars
<1>5. MailInv'
  <2>1. CASE iso_mbx' = Tail(iso_mbx) /\ waiting' = waiting \ {LOADER}
    BY <2>1, <1>0, <1>1, <1>2, <1>3, MailTail
  <2>2. CASE iso_mbx' = Append(Tail(iso_mbx), Head(iso_mbx)) /\ waiting' = waiting
    <3> DEFINE r == Tail(iso_mbx)
               h == Head(iso_mbx)
    <3>1. /\ r \in Seq(Messages) /\ Len(r) \in Nat /\ DOMAIN r = 1 .. Len(r)
          /\ \A i \in DOMAIN r : i + 1 \in DOMAIN iso_mbx /\ r[i] = iso_mbx[i + 1] /\ i \in Int
          /\ h \in Messages
      BY <1>0, <1>1, ReceiveFacts
    <3>2. h.cmd # "load" /\ iso_mbx' = Append(r, h)
      BY <1>0, <2>2
    <3> HIDE DEF r, h
    <3>3. /\ iso_mbx' \in Seq(Messages) /\ DOMAIN iso_mbx' = 1 .. Len(r) + 1
          /\ \A i \in DOMAIN r : iso_mbx'[i] = r[i]
          /\ iso_mbx'[Len(r) + 1] = h
      BY <3>1, <3>2, AppendElements
    <3>4. \A i \in DOMAIN iso_mbx' : iso_mbx'[i].cmd = "load" =>
            /\ i \in Int /\ i + 1 \in DOMAIN iso_mbx /\ iso_mbx'[i] = iso_mbx[i + 1]
      <4> TAKE i \in DOMAIN iso_mbx'
      <4>1. i \in DOMAIN r \/ i = Len(r) + 1
        BY <3>1, <3>3
      <4> QED BY <4>1, <3>1, <3>2, <3>3
    <3>5. ASSUME NEW i \in DOMAIN iso_mbx', iso_mbx'[i].cmd = "load"
          PROVE  /\ iso_mbx'[i].client \in waiting \ Queued
                 /\ \A j \in DOMAIN iso_mbx' :
                      iso_mbx'[j].cmd = "load" /\ iso_mbx'[j].client = iso_mbx'[i].client => i = j
      <4>1. iso_mbx'[i].client \in waiting \ Queued
        BY <3>4, <3>5, <1>3
      <4>2. ASSUME NEW j \in DOMAIN iso_mbx', iso_mbx'[j].cmd = "load",
                   iso_mbx'[j].client = iso_mbx'[i].client
            PROVE  i = j
        <5>1. i + 1 = j + 1
          BY <3>4, <3>5, <4>2, <1>1 DEF MailInv
        <5> QED BY <5>1, <3>4, <3>5, <4>2
      <4> QED BY <4>1, <4>2
    <3> QED BY <3>3, <3>5, <2>2, <1>2 DEF MailInv
  <2> QED BY <1>0, <2>1, <2>2
<1> QED BY <1>2, <1>4, <1>5, PartsNext

(* A command of the pool of stream commands is given back. *)
LEMMA Returned ==
  ASSUME Rest, ReturnVag
  PROVE  vag_cmd_cnt' \in Int
  BY DEF Rest, StreamType, ReturnVag

(* The stream, if there is one, is released, and vag_cmd queued anew. *)
LEMMA Restarted ==
  ASSUME IInv, pc \in Idle, pc' \in Idle, NEW m \in Messages, m.cmd \in {"queue", "play"},
         NEW x \in BOOLEAN, Restart(m, x), UNCHANGED <<todo, cmd_to_process, read_buffer>>
  PROVE  /\ Core' /\ Queued' = Queued \cup {VAG}
         /\ fd' = [fd EXCEPT ![VAG] = IF m.vag # NoVag THEN "open" ELSE "null"]
         /\ in_progress' = TRUE /\ gVAGCMD' = TRUE /\ vag' = InitVAGCmd(m, x) /\ half' = 0
         /\ gPlaying' = (gPlaying /\ ~in_progress) /\ vag' \in VagType
         /\ vag'.name = m.vag /\ vag'.paused = x
<1> USE NoCmdIsNoFile
<1> DEFINE stack == [gPriStack EXCEPT ![3] = IF in_progress THEN Unqueued(@, VAG) ELSE @]
<1>0. /\ Core /\ Rest /\ CoreType /\ StackOK(gPriStack) /\ Priority(VAG) = 3
      /\ sReadInfo = NoCmd
  BY Parts, IdleCore DEF Core, StackInv, Priority
<1>1. /\ stack \in [0 .. 3 -> Seq(Files)] /\ StackOK(stack) /\ In(stack) = Queued \ {VAG}
  <2>1. CASE in_progress
    <3>1. stack = [gPriStack EXCEPT ![Priority(VAG)] = Unqueued(@, VAG)]
      BY <1>0, <2>1
    <3> QED BY <3>1, <1>0, Removed DEF CoreType, Queued
  <2>2. CASE ~in_progress
    <3>1. VAG \notin Queued
      BY <2>2, <1>0 DEF Rest, StreamConsistent
    <3>2. stack = gPriStack
      BY <2>2, <1>0 DEF CoreType
    <3> QED BY <3>1, <3>2, <1>0, ZenonT(60) DEF CoreType, Queued
  <2> QED BY <2>1, <2>2
<1>2. Len(stack[3]) # StackLength
  BY <1>1, StreamPriority
<1>3. /\ gPriStack' = QueueMessage(stack, VAG)
      /\ free' = IF in_progress THEN free \cup ReleasedBuffers(VAG) ELSE free
      /\ callback_buffer' = [callback_buffer EXCEPT ![VAG] = <<>>]
      /\ fd' = [fd EXCEPT ![VAG] = IF m.vag # NoVag THEN "open" ELSE "null"]
      /\ sReadInfo' = IF in_progress /\ sReadInfo = VAG THEN NoCmd ELSE sReadInfo
      /\ in_progress' = TRUE /\ gVAGCMD' = TRUE /\ vag' = InitVAGCmd(m, x) /\ half' = 0
      /\ OpenedFor(VAG) /\ gPlaying' = (gPlaying /\ ~in_progress)
  BY <1>2 DEF Restart
<1> HIDE DEF stack
<1>4. /\ gPriStack' \in [0 .. 3 -> Seq(Files)] /\ StackOK(gPriStack')
      /\ Queued' = Queued \cup {VAG}
  <2>1. VAG \notin In(stack) /\ VAG \in Files
    BY <1>1
  <2> QED BY <2>1, <1>1, <1>3, Appended DEF Queued
<1>5. free' = free \cup ReleasedBuffers(VAG)
  <2>1. CASE in_progress
    BY <2>1, <1>3
  <2>2. CASE ~in_progress
    <3>1. VAG \notin Queued
      BY <2>2, <1>0 DEF Rest, StreamConsistent
    <3>2. callback_buffer[VAG] = <<>>
      BY <3>1, <1>0, UnqueuedHasNone
    <3>3. ReleasedBuffers(VAG) = {}
      BY <3>2 DEF ReleasedBuffers, Elements
    <3> QED BY <3>3, <2>2, <1>3
  <2> QED BY <2>1, <2>2
<1>6. sReadInfo' = sReadInfo
  BY <1>0, <1>3
<1>7. fd' \in [Files -> {"null", "open", "closed"}]
  BY <1>0, <1>3 DEF CoreType
<1>8. Core'
  <2>1. Queued' \ {VAG} = Queued \ {VAG} /\ UNCHANGED <<todo, readVars>> /\ VAG \in Files
    BY <1>4, <1>6 DEF readVars
  <2> QED BY <2>1, <1>0, <1>3, <1>4, <1>5, <1>7, Renewed
<1>9. vag' \in VagType /\ vag'.name = m.vag /\ vag'.paused = x
  <2>1. m.vag \in Vags \cup {NoVag} /\ m.priority \in {0, 1}
    BY MessageFields
  <2>2. vag' \in VagType
    BY <2>1, <1>3, VagFields
  <2>3. vag'.name = m.vag /\ vag'.paused = x
    BY <1>3 DEF InitVAGCmd
  <2> QED BY <2>2, <2>3
<1> QED BY <1>3, <1>4, <1>8, <1>9

(* What its file is then. *)
LEMMA RestartedFiles ==
  ASSUME IInv, NEW m, Queued' = Queued \cup {VAG},
         fd' = [fd EXCEPT ![VAG] = IF m.vag # NoVag THEN "open" ELSE "null"],
         vag'.name = m.vag, waiting' = waiting
  PROVE  FilesOfQueued'
<1> USE NoCmdIsNoFile
<1>1. /\ Rest /\ Queued \subseteq Files
      /\ \A d \in Files : fd'[d] = IF d = VAG THEN (IF m.vag # NoVag THEN "open" ELSE "null") ELSE fd[d]
  BY Parts, QueuedIsFile DEF Core, CoreType
<1> QED BY <1>1 DEF Rest, FilesOfQueued

LEMMA QueueVagStep ==
  ASSUME IInv, iso_queue_vag
  PROVE  IInv'
<1> DEFINE m == Head(iso_mbx)
<1>0. /\ Polls /\ iso_mbx # <<>> /\ pc' = "progress" /\ iso_mbx' = Tail(iso_mbx)
      /\ m.cmd = "queue" /\ ReturnVag
      /\ UNCHANGED <<todo, cmd_to_process, read_buffer, vag_paused, unk, waiting, clientVars>>
      /\ \/ Restart(m, TRUE) /\ clock' = StoppedClock
         \/ UNCHANGED <<gPriStack, free, callback_buffer, fd, sReadInfo, in_progress, vag,
                        gVAGCMD, half, gPlaying, clock, location, taken>>
  BY DEF iso_queue_vag, Receive
<1>1. /\ Core /\ MailInv /\ Rest /\ pc \in Idle /\ pc' \in Idle /\ m \in Messages
      /\ vag_cmd_cnt' \in Int
  BY <1>0, Polling, Returned
<1> HIDE DEF m
<1>2. CASE Restart(m, TRUE) /\ clock' = StoppedClock
  <2>1. /\ Core' /\ Queued' = Queued \cup {VAG}
        /\ fd' = [fd EXCEPT ![VAG] = IF m.vag # NoVag THEN "open" ELSE "null"]
        /\ in_progress' = TRUE /\ gVAGCMD' = TRUE /\ half' = 0
        /\ gPlaying' = (gPlaying /\ ~in_progress) /\ vag' \in VagType
        /\ vag'.name = m.vag /\ vag'.paused = TRUE
    BY <1>0, <1>1, <1>2, Restarted
  <2>2. MailInv'
    BY <1>0, <2>1, StreamMail
  <2>3. FilesOfQueued'
    BY <1>0, <2>1, RestartedFiles
  <2>4. clock' = {}
    BY <1>1, <1>2 DEF StoppedClock, Rest, StreamConsistent, StreamType
  <2>5. StreamType' /\ StreamConsistent'
    BY <1>0, <1>1, <2>1, <2>4 DEF Rest, StreamType, StreamConsistent, clientVars
  <2> QED BY <2>1, <2>2, <2>3, <2>5, PartsNext DEF Rest
<1>3. CASE UNCHANGED <<gPriStack, free, callback_buffer, fd, sReadInfo, in_progress, vag,
                       gVAGCMD, half, gPlaying, clock, location, taken>>
  <2>1. Core' /\ Queued' = Queued
    BY <1>0, <1>1, <1>3, Frame DEF bufferVars, readVars
  <2>2. MailInv'
    BY <1>0, <2>1, StreamMail
  <2>3. Rest'
    BY <1>0, <1>1, <1>3, <2>1 DEF Rest, StreamType, FilesOfQueued, StreamConsistent, clientVars
  <2> QED BY <2>1, <2>2, <2>3, PartsNext
<1> QED BY <1>0, <1>2, <1>3

LEMMA PlayVagStep ==
  ASSUME IInv, iso_play_vag
  PROVE  IInv'
<1> USE NoCmdIsNoFile
<1> DEFINE m == Head(iso_mbx)
<1>0. /\ Polls /\ iso_mbx # <<>> /\ pc' = "progress" /\ iso_mbx' = Tail(iso_mbx)
      /\ m.cmd = "play" /\ ReturnVag
      /\ UNCHANGED <<todo, cmd_to_process, read_buffer, vag_paused, waiting, clientVars>>
  BY DEF iso_play_vag, Receive
<1>1. /\ Core /\ MailInv /\ Rest /\ pc \in Idle /\ pc' \in Idle /\ m \in Messages
      /\ vag_cmd_cnt' \in Int
  BY <1>0, Polling, Returned
<1>2. CASE /\ in_progress
           /\ vag' = [vag EXCEPT !.paused = @ /\ vag_paused]
           /\ unk' = (unk \/ (vag.paused /\ vag_paused))
           /\ clock' = clock \cup {IF fd[VAG] = "null" THEN "fake" ELSE "real"}
           /\ UNCHANGED <<gPriStack, free, callback_buffer, fd, sReadInfo, in_progress, gVAGCMD,
                          half, gPlaying, location, taken>>
  <2>1. Core' /\ Queued' = Queued
    BY <1>0, <1>1, <1>2, Frame DEF bufferVars, readVars
  <2>2. MailInv'
    BY <1>0, <2>1, StreamMail
  <2>3. vag' \in VagType /\ vag'.name = vag.name /\ vag'.paused = (vag.paused /\ vag_paused)
    <3> DEFINE x == vag.paused /\ vag_paused
    <3>1. vag \in VagType /\ x \in BOOLEAN
      BY <1>1 DEF Rest, StreamType
    <3>2. vag' = [vag EXCEPT !.paused = x]
      BY <1>2, Zenon
    <3>3. vag' \in VagType /\ vag'.name = vag.name /\ vag'.paused = x
      <4> HIDE DEF x
      <4> QED BY <3>1, <3>2, VagFieldsOf
    <3> QED BY <3>3
  <2>4. /\ fd[VAG] = "null" => vag.name = NoVag
        /\ fd[VAG] # "null" => vag.name # NoVag
    <3>1. VAG \in Queued /\ fd[VAG] \in {"null", "open", "closed"}
      BY <1>1, <1>2 DEF Rest, StreamConsistent, Core, CoreType
    <3> QED BY <3>1, <1>1 DEF Rest, FilesOfQueued
  <2>5. unk' \in BOOLEAN /\ clock' \subseteq {"fake", "real"}
    BY <1>1, <1>2 DEF Rest, StreamType
  <2>6. StreamType'
    BY <1>0, <1>1, <1>2, <2>3, <2>5 DEF Rest, StreamType, clientVars
  <2>7. StreamConsistent'
    BY <1>0, <1>1, <1>2, <2>1, <2>3, <2>4 DEF Rest, StreamConsistent
  <2>8. FilesOfQueued'
    BY <1>0, <1>1, <1>2, <2>1, <2>3 DEF Rest, FilesOfQueued
  <2> QED BY <2>1, <2>2, <2>6, <2>7, <2>8, PartsNext DEF Rest
<1>3. CASE UNCHANGED <<gPriStack, free, callback_buffer, fd, sReadInfo, in_progress, vag, unk,
                       gVAGCMD, half, gPlaying, clock, location, taken>>
  <2>1. Core' /\ Queued' = Queued
    BY <1>0, <1>1, <1>3, Frame DEF bufferVars, readVars
  <2>2. MailInv'
    BY <1>0, <2>1, StreamMail
  <2>3. Rest'
    BY <1>0, <1>1, <1>3, <2>1 DEF Rest, StreamType, FilesOfQueued, StreamConsistent, clientVars
  <2> QED BY <2>1, <2>2, <2>3, PartsNext
<1>4. CASE /\ Restart(m, vag_paused)
           /\ unk' = (unk \/ vag_paused)
           /\ clock' = StoppedClock \cup {IF in_progress' /\ m.vag = NoVag THEN "fake" ELSE "real"}
  <2>0. vag_paused \in BOOLEAN
    BY <1>1 DEF Rest, StreamType
  <2>1. /\ Core' /\ Queued' = Queued \cup {VAG}
        /\ fd' = [fd EXCEPT ![VAG] = IF m.vag # NoVag THEN "open" ELSE "null"]
        /\ in_progress' = TRUE /\ gVAGCMD' = TRUE /\ half' = 0
        /\ gPlaying' = (gPlaying /\ ~in_progress) /\ vag' \in VagType
        /\ vag'.name = m.vag /\ vag'.paused = vag_paused
    BY <1>0, <1>1, <1>4, <2>0, Restarted
  <2>2. MailInv'
    BY <1>0, <2>1, StreamMail
  <2>3. FilesOfQueued'
    BY <1>0, <2>1, RestartedFiles
  <2>4. clock' = {IF m.vag = NoVag THEN "fake" ELSE "real"}
    <3>1. StoppedClock = {}
      BY <1>1 DEF StoppedClock, Rest, StreamConsistent, StreamType
    <3> QED BY <3>1, <2>1, <1>4
  <2>5. unk' \in BOOLEAN /\ (unk' => vag_paused)
    BY <1>1, <1>4 DEF Rest, StreamType, StreamConsistent
  <2>6. StreamType'
    BY <1>0, <1>1, <2>1, <2>4, <2>5 DEF Rest, StreamType, clientVars
  <2>7. StreamConsistent'
    BY <1>0, <2>1, <2>4, <2>5 DEF StreamConsistent
  <2> QED BY <2>1, <2>2, <2>3, <2>6, <2>7, PartsNext DEF Rest
<1> QED BY <1>2, <1>3, <1>4 DEF iso_play_vag, Same, Outranked

(* The stream is stopped and released. *)
LEMMA Stopped ==
  ASSUME IInv, pc \in Idle, pc' \in Idle, StopStream,
         UNCHANGED <<todo, cmd_to_process, read_buffer, waiting>>
  PROVE  /\ Core' /\ Queued' = Queued \ {VAG} /\ FilesOfQueued'
         /\ in_progress' = FALSE /\ gVAGCMD' = FALSE /\ clock' = {} /\ gPlaying' = FALSE
         /\ vag' = NoStream /\ vag' \in VagType /\ vag'.name = NoVag
<1> USE NoCmdIsNoFile
<1>1. /\ Core /\ Rest /\ todo = {} /\ ReleaseMessage(VAG) /\ VAG \in Files
      /\ in_progress' = FALSE /\ gVAGCMD' = FALSE /\ clock' = {} /\ gPlaying' = FALSE
      /\ vag' = NoStream
  BY Parts, IdleCore DEF StopStream
<1>2. Core' /\ Queued' = Queued \ {VAG}
  BY <1>1, Release
<1>3. FilesOfQueued'
  <2>1. \A d \in Files : fd'[d] = IF d = VAG THEN (IF fd[VAG] = "open" THEN "closed" ELSE fd[VAG])
                                  ELSE fd[d]
    BY <1>1 DEF ReleaseMessage, FS_Close, Core, CoreType
  <2>2. Queued \subseteq Files
    BY <1>1, QueuedIsFile DEF Core
  <2> QED BY <2>1, <2>2, <1>1, <1>2 DEF Rest, FilesOfQueued
<1>4. vag' \in VagType /\ vag'.name = NoVag
  BY <1>1, VagFields DEF NoStream
<1> QED BY <1>1, <1>2, <1>3, <1>4

LEMMA StoppedConsistent ==
  ASSUME VAG \notin Queued', in_progress' = FALSE, gVAGCMD' = FALSE, clock' = {}, unk' = FALSE
  PROVE  StreamConsistent'
<1>1. (in_progress = (VAG \in Queued))'
  <2>1. (VAG \in Queued') = FALSE
    BY SMT
  <2> QED BY <2>1, Zenon
<1>2. (gVAGCMD => in_progress)' /\ (unk => in_progress /\ vag_paused /\ vag.paused)'
  BY Zenon
<1>3. ("fake" \notin clock)' /\ ("real" \notin clock)'
  OBVIOUS
<1> QED BY <1>1, <1>2, <1>3 DEF StreamConsistent

LEMMA StopVagStep ==
  ASSUME IInv, iso_stop_vag
  PROVE  IInv'
<1>0. /\ Polls /\ iso_mbx # <<>> /\ pc' = "progress" /\ iso_mbx' = Tail(iso_mbx) /\ ReturnVag
      /\ UNCHANGED <<todo, cmd_to_process, read_buffer, half, waiting, clientVars>>
      /\ vag_paused' = FALSE /\ unk' = FALSE
      /\ \/ StopStream
         \/ UNCHANGED <<bufferVars, fd, sReadInfo, gPriStack, in_progress, gVAGCMD, vag, clock, gPlaying>>
  BY DEF iso_stop_vag, Receive
<1>1. /\ Core /\ MailInv /\ Rest /\ pc \in Idle /\ pc' \in Idle
      /\ vag_cmd_cnt' \in Int
  BY <1>0, Polling, Returned
<1>2. CASE StopStream
  <2>1. /\ Core' /\ Queued' = Queued \ {VAG} /\ FilesOfQueued'
        /\ in_progress' = FALSE /\ gVAGCMD' = FALSE /\ clock' = {} /\ gPlaying' = FALSE
        /\ vag' \in VagType /\ vag'.name = NoVag
    BY <1>0, <1>1, <1>2, Stopped
  <2>2. MailInv'
    BY <1>0, <2>1, StreamMail
  <2>3. StreamType'
    BY <1>0, <1>1, <2>1 DEF Rest, StreamType, clientVars
  <2>4. StreamConsistent'
    BY <1>0, <2>1, StoppedConsistent
  <2> QED BY <2>1, <2>2, <2>3, <2>4, PartsNext DEF Rest
<1>3. CASE UNCHANGED <<bufferVars, fd, sReadInfo, gPriStack, in_progress, gVAGCMD, vag, clock, gPlaying>>
  <2>1. Core' /\ Queued' = Queued
    BY <1>0, <1>1, <1>3, Frame DEF readVars
  <2>2. MailInv'
    BY <1>0, <2>1, StreamMail
  <2>3. Rest'
    BY <1>0, <1>1, <1>3, <2>1 DEF Rest, StreamType, FilesOfQueued, StreamConsistent, clientVars
  <2> QED BY <2>1, <2>2, <2>3, PartsNext
<1> QED BY <1>0, <1>2, <1>3

LEMMA PauseVagStep ==
  ASSUME IInv, iso_pause_vag
  PROVE  IInv'
<1>0. /\ Polls /\ iso_mbx # <<>> /\ pc' = "progress" /\ iso_mbx' = Tail(iso_mbx) /\ ReturnVag
      /\ UNCHANGED <<gPriStack, todo, bufferVars, fd, readVars, in_progress, gVAGCMD, clock,
                     half, gPlaying, waiting, clientVars>>
      /\ vag_paused' = TRUE
      /\ unk' = IF vag_paused THEN unk ELSE in_progress /\ ~vag.paused
      /\ vag' = IF vag_paused \/ ~in_progress THEN vag ELSE [vag EXCEPT !.paused = TRUE]
  BY DEF iso_pause_vag, Receive
<1>1. /\ Core /\ MailInv /\ Rest /\ pc \in Idle /\ pc' \in Idle
      /\ vag_cmd_cnt' \in Int /\ vag \in VagType
  BY <1>0, Polling, Returned DEF Rest, StreamType
<1>2. Core' /\ Queued' = Queued
  BY <1>0, <1>1, Frame
<1>3. MailInv'
  BY <1>0, <1>2, StreamMail
<1>4. /\ vag' \in VagType /\ vag'.name = vag.name
      /\ vag' = vag \/ vag'.paused = TRUE
      /\ ~vag_paused /\ in_progress => vag'.paused = TRUE
  BY <1>0, <1>1, VagFieldsOf
<1>5. unk' \in BOOLEAN
  BY <1>0, <1>1 DEF Rest, StreamType
<1>6. StreamType' /\ FilesOfQueued'
  BY <1>0, <1>1, <1>2, <1>4, <1>5 DEF Rest, StreamType, FilesOfQueued, clientVars
<1>7. StreamConsistent'
  <2>1. unk' => in_progress /\ vag'.paused
    <3>1. CASE vag_paused
      BY <3>1, <1>0, <1>1 DEF Rest, StreamConsistent
    <3>2. CASE ~vag_paused
      BY <3>2, <1>0, <1>1, <1>4
    <3> QED BY <3>1, <3>2
  <2> QED BY <2>1, <1>0, <1>1, <1>2, <1>4 DEF Rest, StreamConsistent
<1> QED BY <1>2, <1>3, <1>6, <1>7, PartsNext DEF Rest

LEMMA ContinueVagStep ==
  ASSUME IInv, iso_continue_vag
  PROVE  IInv'
<1>0. /\ Polls /\ iso_mbx # <<>> /\ pc' = "progress" /\ iso_mbx' = Tail(iso_mbx) /\ ReturnVag
      /\ UNCHANGED <<gPriStack, todo, bufferVars, fd, readVars, in_progress, gVAGCMD, clock,
                     half, gPlaying, waiting, clientVars>>
      /\ vag_paused' = FALSE /\ unk' = (unk /\ ~vag_paused)
      /\ vag' = vag \/ vag' = [vag EXCEPT !.paused = FALSE]
  BY DEF iso_continue_vag, Receive
<1>1. /\ Core /\ MailInv /\ Rest /\ pc \in Idle /\ pc' \in Idle
      /\ vag_cmd_cnt' \in Int /\ vag \in VagType
  BY <1>0, Polling, Returned DEF Rest, StreamType
<1>2. Core' /\ Queued' = Queued
  BY <1>0, <1>1, Frame
<1>3. MailInv'
  BY <1>0, <1>2, StreamMail
<1>4. vag' \in VagType /\ vag'.name = vag.name
  BY <1>0, <1>1, VagFieldsOf
<1>5. unk' = FALSE
  BY <1>0, <1>1 DEF Rest, StreamConsistent
<1>6. StreamType' /\ FilesOfQueued'
  BY <1>0, <1>1, <1>2, <1>4, <1>5 DEF Rest, StreamType, FilesOfQueued, clientVars
<1>7. StreamConsistent'
  BY <1>0, <1>1, <1>2, <1>4, <1>5 DEF Rest, StreamConsistent
<1> QED BY <1>2, <1>3, <1>6, <1>7, PartsNext DEF Rest

LEMMA NoMessageStep ==
  ASSUME IInv, iso_no_message
  PROVE  IInv'
<1>0. /\ Core /\ MailInv /\ Rest /\ pc \in Idle /\ pc' \in Idle
      /\ UNCHANGED <<iso_mbx, gPriStack, todo, bufferVars, fd, readVars, streamVars,
                     vag_cmd_cnt, waiting, clientVars>>
  BY Parts DEF iso_no_message, Polls, Idle
<1>1. Core' /\ Queued' = Queued
  BY <1>0, Frame
<1>2. MailInv'
  BY <1>0, <1>1, MailSame DEF MailInv
<1>3. Rest'
  BY <1>0, <1>1, RestFrame
<1> QED BY <1>1, <1>2, <1>3, PartsNext

-----------------------------------------------------------------------------
(* The progress of the stream and the reads. *)

LEMMA StreamEndsStep ==
  ASSUME IInv, iso_stream_ends
  PROVE  IInv'
<1>0. /\ Core /\ MailInv /\ Rest /\ pc \in Idle /\ pc' \in Idle /\ StopStream /\ unk' = FALSE
      /\ UNCHANGED <<iso_mbx, todo, cmd_to_process, read_buffer,
                     vag_paused, half, vag_cmd_cnt, waiting, clientVars>>
  BY Parts DEF iso_stream_ends, Idle
<1>1. /\ Core' /\ Queued' = Queued \ {VAG} /\ FilesOfQueued'
      /\ in_progress' = FALSE /\ gVAGCMD' = FALSE /\ clock' = {} /\ gPlaying' = FALSE
      /\ vag' \in VagType /\ vag'.name = NoVag
  BY <1>0, Stopped
<1>2. MailInv'
  BY <1>0, <1>1, MailSame DEF MailInv
<1>3. StreamType'
  BY <1>0, <1>1 DEF Rest, StreamType, clientVars
<1>4. StreamConsistent'
  BY <1>0, <1>1, StoppedConsistent
<1> QED BY <1>1, <1>2, <1>3, <1>4, PartsNext DEF Rest

LEMMA StreamGoesOnStep ==
  ASSUME IInv, iso_stream_goes_on
  PROVE  IInv'
<1>0. /\ Core /\ MailInv /\ Rest /\ pc \in Idle /\ pc' \in Idle
      /\ UNCHANGED <<iso_mbx, gPriStack, todo, bufferVars, fd, readVars, in_progress,
                     vag_paused, unk, gVAGCMD, clock, half, gPlaying, vag_cmd_cnt, waiting,
                     clientVars>>
      /\ vag' = vag \/ vag' = [vag EXCEPT !.ready = TRUE]
  BY Parts DEF iso_stream_goes_on, Idle
<1>1. Core' /\ Queued' = Queued
  BY <1>0, Frame
<1>2. MailInv'
  BY <1>0, <1>1, MailSame DEF MailInv
<1>3. vag' \in VagType /\ vag'.name = vag.name /\ vag'.paused = vag.paused
  <2>1. vag \in VagType
    BY <1>0 DEF Rest, StreamType
  <2> QED BY <2>1, <1>0, VagFieldsOf
<1>4. StreamType' /\ FilesOfQueued'
  BY <1>0, <1>1, <1>3 DEF Rest, StreamType, FilesOfQueued, clientVars
<1>5. StreamConsistent'
  BY <1>0, <1>1, <1>3 DEF Rest, StreamConsistent
<1> QED BY <1>1, <1>2, <1>4, <1>5, PartsNext DEF Rest

LEMMA BeginReadStep ==
  ASSUME IInv, iso_begin_read
  PROVE  IInv'
<1>0. Core /\ MailInv /\ Rest
  BY Parts
<1>1. Core' /\ Queued' = Queued
  <2>1. PICK c \in Queued :
          /\ IsNext(c) /\ BufferFor(c) # {} /\ cmd_to_process' = c
          /\ LET b == CHOOSE x \in BufferFor(c) : TRUE
             IN  read_buffer' = b /\ free' = free \ {b}
    BY DEF iso_begin_read
  <2>2. PICK b \in BufferFor(c) : read_buffer' = b /\ free' = free \ {b}
    BY <2>1
  <2>3. Wants(c)
    BY <2>1 DEF IsNext
  <2> QED BY <1>0, <2>1, <2>2, <2>3, Allocate DEF iso_begin_read
<1>2. UNCHANGED <<iso_mbx, fd, streamVars, vag_cmd_cnt, waiting, clientVars>>
  BY DEF iso_begin_read
<1>3. MailInv' /\ Rest'
  BY <1>0, <1>1, <1>2, MailSame, RestFrame DEF MailInv
<1> QED BY <1>1, <1>3, PartsNext

LEMMA ReadsStep ==
  ASSUME IInv, iso_read \/ iso_nothing_to_read
  PROVE  IInv'
<1>0. /\ Core /\ MailInv /\ Rest
      /\ UNCHANGED <<iso_mbx, fd, streamVars, vag_cmd_cnt, waiting, clientVars>>
  BY Parts DEF iso_read, iso_nothing_to_read
<1>1. Core' /\ Queued' = Queued
  BY <1>0, ReadStep, NothingToRead
<1>2. MailInv' /\ Rest'
  BY <1>0, <1>1, MailSame, RestFrame DEF MailInv
<1> QED BY <1>1, <1>2, PartsNext

LEMMA EndOfRoundStep ==
  ASSUME IInv, iso_sync_read \/ iso_delay
  PROVE  IInv'
<1>0. /\ Core /\ MailInv /\ Rest /\ EndRound
      /\ UNCHANGED <<iso_mbx, fd, streamVars, vag_cmd_cnt, waiting, clientVars>>
  BY Parts DEF iso_sync_read, iso_delay, EndRound
<1>1. Core' /\ Queued' = Queued
  <2>1. CASE iso_delay
    <3>1. sReadInfo = NoCmd /\ cmd_to_process = NoCmd
      BY <1>0, <2>1 DEF iso_delay, Core, CoreType
    <3> QED BY <1>0, <2>1, <3>1, RoundEnds DEF iso_delay
  <2>2. CASE iso_sync_read /\ sReadInfo = NoCmd
    BY <1>0, <2>2, RoundEnds DEF iso_sync_read
  <2>3. CASE iso_sync_read /\ sReadInfo # NoCmd
    BY <1>0, <2>3, BufferLinked DEF iso_sync_read
  <2> QED BY <2>1, <2>2, <2>3
<1>2. MailInv' /\ Rest'
  BY <1>0, <1>1, MailSame, RestFrame DEF MailInv
<1> QED BY <1>1, <1>2, PartsNext

-----------------------------------------------------------------------------
(* ProcessMessageData. *)

(* A load or the DGO is done, and its client woken. *)
LEMMA FinishStep ==
  ASSUME IInv, NEW c \in Singles \cup {DGO}, Processing(c), Finish(c),
         UNCHANGED <<pc, iso_mbx, cmd_to_process, read_buffer, streamVars, vag_cmd_cnt, clientVars>>
  PROVE  IInv'
<1> USE NoCmdIsNoFile
<1>0. /\ Core /\ CoreType /\ MailInv /\ Rest /\ c \in Files /\ c # VAG
      /\ pc = "process" /\ pc' = pc /\ c \in todo /\ todo \subseteq Queued /\ c \in Queued
      /\ ReleaseMessage(c) /\ waiting' = waiting \ {c}
      /\ todo' = (todo \cup Elements(gPriStack[Priority(c)])) \ {c}
  BY Parts DEF Processing, Finish, Core, ReadInv
<1>1. Core' /\ Queued' = Queued \ {c}
  <2>1. Elements(gPriStack[Priority(c)]) \subseteq Queued
    BY PriorityRange DEF Queued, In
  <2>2. todo \ {c} \subseteq todo' /\ todo' \subseteq Queued \ {c}
    BY <1>0, <2>1
  <2> QED BY <1>0, <2>2, Release
<1>2. FilesOfQueued'
  <2>1. \A d \in Files : fd'[d] = IF d = c THEN (IF fd[c] = "open" THEN "closed" ELSE fd[c])
                                  ELSE fd[d]
    BY <1>0 DEF ReleaseMessage, FS_Close, CoreType
  <2>2. Queued \subseteq Files /\ vag' = vag
    BY <1>0, QueuedIsFile DEF streamVars
  <2> QED BY <2>1, <2>2, <1>0, <1>1 DEF Rest, FilesOfQueued
<1>3. StreamType' /\ StreamConsistent'
  BY <1>0, <1>1 DEF Rest, StreamType, StreamConsistent, streamVars, clientVars
<1>4. MailInv'
  BY <1>0, <1>1, MailSame DEF MailInv
<1> QED BY <1>1, <1>2, <1>3, <1>4, PartsNext DEF Rest

(* A load or the DGO goes on with its next page. *)
LEMMA ConsumeStep ==
  ASSUME IInv, NEW c \in Singles \cup {DGO}, Processing(c), Consume(c),
         UNCHANGED <<pc, iso_mbx, cmd_to_process, read_buffer, streamVars, vag_cmd_cnt, clientVars>>
  PROVE  IInv'
<1>0. /\ Core /\ MailInv /\ Rest /\ c \in Files /\ UNCHANGED <<fd, waiting>>
  BY Parts, NoCmdIsNoFile DEF Consume
<1>1. Core' /\ Queued' = Queued
  BY <1>0, Consumed DEF Processing
<1>2. MailInv' /\ Rest'
  BY <1>0, <1>1, MailSame, RestFrame DEF MailInv
<1> QED BY <1>1, <1>2, PartsNext

LEMMA CopyStep ==
  ASSUME IInv, NEW c \in Singles, CopyData(c)
  PROVE  IInv'
<1>1. /\ Processing(c) /\ (Consume(c) \/ Finish(c))
      /\ UNCHANGED <<pc, iso_mbx, cmd_to_process, read_buffer, streamVars, vag_cmd_cnt, clientVars>>
  BY DEF CopyData, processUnchanged
<1> QED BY <1>1, FinishStep, ConsumeStep

LEMMA DGOStep ==
  ASSUME IInv, RunDGOStateMachine
  PROVE  IInv'
<1> USE NoCmdIsNoFile
<1>1. /\ Processing(DGO)
      /\ UNCHANGED <<pc, iso_mbx, cmd_to_process, read_buffer, streamVars, vag_cmd_cnt, clientVars>>
      /\ \/ Consume(DGO) \/ Finish(DGO)
         \/ /\ todo' = todo \ {DGO}
            /\ UNCHANGED <<bufferVars, fd, sReadInfo, gPriStack, waiting>>
  BY DEF RunDGOStateMachine, processUnchanged
<1>2. CASE Consume(DGO) \/ Finish(DGO)
  BY <1>1, <1>2, FinishStep, ConsumeStep
<1>3. CASE /\ todo' = todo \ {DGO}
           /\ UNCHANGED <<bufferVars, fd, sReadInfo, gPriStack, waiting>>
  <2>0. Core /\ MailInv /\ Rest /\ Queued' = Queued
    BY <1>3, Parts DEF Queued
  <2>1. CoreType' /\ StackInv'
    BY <2>0, <1>1, <1>3 DEF Core, CoreType, StackInv, bufferVars
  <2>2. ReadInv'
    BY <2>0, <1>1, <1>3 DEF Core, ReadInv, bufferVars
  <2>3. CapacityInv'
    BY <2>0, <1>1, <1>3 DEF Core, CapacityInv, Pending, bufferVars
  <2>4. LocationInv' /\ PagesInOrder'
    BY <2>0, <1>1, <1>3 DEF Core, LocationInv, PagesInOrder, bufferVars
  <2>5. BuffersConserved'
    <3>1. \A d : ReleasedBuffers(d)' = ReleasedBuffers(d)
      BY <1>3 DEF ReleasedBuffers, bufferVars
    <3> QED BY <3>1, <2>0, <1>1, <1>3 DEF Core, BuffersConserved, bufferVars
  <2>6. MailInv' /\ Rest'
    BY <2>0, <1>1, <1>3, MailSame, RestFrame DEF MailInv
  <2> QED BY <2>1, <2>2, <2>3, <2>4, <2>5, <2>6, PartsNext DEF Core
<1> QED BY <1>1, <1>2, <1>3

LEMMA VAGDataStep ==
  ASSUME IInv, ProcessVAGData
  PROVE  IInv'
<1> USE NoCmdIsNoFile
<1> DEFINE started == [vag EXCEPT !.number = @ + 1, !.started = TRUE,
                                  !.ready = @ /\ vag.number = 0,
                                  !.last = @ \/ vag.number + 1 = Pages[vag.name]]
<1>0. /\ Core /\ MailInv /\ Rest /\ Processing(VAG) /\ Consume(VAG)
      /\ UNCHANGED <<pc, iso_mbx, cmd_to_process, read_buffer, vag_cmd_cnt, clientVars,
                     in_progress, vag_paused, unk, gVAGCMD, clock, fd, waiting>>
      /\ \/ vag' = [vag EXCEPT !.stop = TRUE] /\ UNCHANGED <<gPlaying, half>>
         \/ /\ vag' = started
            /\ gPlaying' = (gPlaying \/ vag.number = 1)
            /\ half' = IF vag.number = 1 THEN 0 ELSE half
         \/ UNCHANGED <<vag, gPlaying, half>>
  BY Parts DEF ProcessVAGData, processUnchanged, Consume
<1>1. Core' /\ Queued' = Queued
  BY <1>0, Consumed DEF Processing
<1>2. vag \in VagType
  BY <1>0 DEF Rest, StreamType
<1>3. started \in VagType /\ started.name = vag.name /\ started.paused = vag.paused
  <2> DEFINE r == vag.ready /\ vag.number = 0
             l == vag.last \/ vag.number + 1 = Pages[vag.name]
  <2>1. r \in BOOLEAN /\ l \in BOOLEAN /\ vag.number + 1 \in Nat
    BY <1>2 DEF VagType
  <2>2. started = [vag EXCEPT !.number = vag.number + 1, !.started = TRUE, !.ready = r, !.last = l]
    BY <1>2 DEF VagType
  <2> HIDE DEF r, l, started
  <2> QED BY <2>1, <2>2, <1>2 DEF VagType
<1> HIDE DEF started
<1>4. vag' \in VagType /\ vag'.name = vag.name /\ vag'.paused = vag.paused
  <2>1. CASE vag' = [vag EXCEPT !.stop = TRUE]
    BY <2>1, <1>2, VagFieldsOf
  <2>2. CASE vag' = started
    BY <2>2, <1>3
  <2>3. CASE vag' = vag
    BY <2>3, <1>2
  <2> QED BY <1>0, <2>1, <2>2, <2>3
<1>5. gPlaying' \in BOOLEAN /\ half' \in {0, 1}
  <2>1. gPlaying \in BOOLEAN /\ half \in {0, 1}
    BY <1>0 DEF Rest, StreamType
  <2>2. half' \in {0, 1}
    BY <2>1, <1>0
  <2>3. gPlaying' \in BOOLEAN
    BY <2>1, <1>0, Zenon
  <2> QED BY <2>2, <2>3
<1>6. StreamType' /\ FilesOfQueued'
  BY <1>0, <1>1, <1>4, <1>5 DEF Rest, StreamType, FilesOfQueued, clientVars
<1>7. StreamConsistent'
  BY <1>0, <1>1, <1>4 DEF Rest, StreamConsistent
<1>8. MailInv'
  BY <1>0, <1>1, MailSame DEF MailInv
<1> QED BY <1>1, <1>6, <1>7, <1>8, PartsNext DEF Rest

-----------------------------------------------------------------------------
(* The inductive invariant. *)

LEMMA InitInv == Init => IInv
<1> SUFFICES ASSUME Init PROVE IInv
  OBVIOUS
<1> USE NoCmdIsNoFile
<1>1. Queued = {}
  BY DEF Init, Queued, In, Elements
<1>2. \A c \in Files : callback_buffer[c] = <<>> /\ fd[c] = "null"
  BY DEF Init
<1>3. CoreType
  BY DEF Init, CoreType
<1>4. StackInv
  BY DEF Init, StackInv, StackOK
<1>5. ReadInv
  BY <1>1, <1>2 DEF Init, ReadInv
<1>6. CapacityInv
  BY <1>2 DEF Init, CapacityInv
<1>7. LocationInv /\ PagesInOrder
  BY <1>1 DEF LocationInv, PagesInOrder
<1>8. BuffersConserved
  BY <1>2, BufferNumbers DEF Init, BuffersConserved
<1>9. MailInv
  BY DEF Init, MailInv
<1>10. StreamType
  <2>1. vag \in VagType
    BY VagFields DEF Init
  <2>2. /\ in_progress \in BOOLEAN /\ vag_paused \in BOOLEAN /\ unk \in BOOLEAN
        /\ gVAGCMD \in BOOLEAN /\ gPlaying \in BOOLEAN /\ spinning \in BOOLEAN
    BY DEF Init
  <2>3. /\ clock \subseteq {"fake", "real"} /\ half \in {0, 1} /\ vag_cmd_cnt \in Int
        /\ waiting \subseteq Clients /\ loads \in Nat /\ sent \in Nat
    BY DEF Init
  <2> QED BY <2>1, <2>2, <2>3 DEF StreamType
<1>11. FilesOfQueued /\ StreamConsistent
  <2>1. \A c \in Files : (fd[c] = "open") = FALSE /\ (c \in Queued) = FALSE
    BY <1>1, <1>2
  <2>2. FilesOfQueued
    BY <1>1, <2>1 DEF FilesOfQueued
  <2>3. (VAG \in Queued) = FALSE /\ in_progress = FALSE
    BY <2>1 DEF Init
  <2>4. in_progress = (VAG \in Queued)
    BY <2>3, Zenon
  <2>5. StreamConsistent
    BY <2>4 DEF Init, StreamConsistent
  <2> QED BY <2>2, <2>5
<1> QED BY <1>3, <1>4, <1>5, <1>6, <1>7, <1>8, <1>9, <1>10, <1>11, Parts DEF Core, Rest

LEMMA StutterStep ==
  ASSUME IInv, UNCHANGED vars
  PROVE  IInv'
<1>0. Core /\ MailInv /\ Rest
  BY Parts
<1>1. Core' /\ Queued' = Queued
  BY <1>0, Frame DEF vars, bufferVars, readVars
<1>2. MailInv'
  BY <1>0, <1>1, MailSame DEF MailInv, vars
<1>3. Rest'
  BY <1>0, <1>1, RestFrame DEF vars
<1> QED BY <1>1, <1>2, <1>3, PartsNext

LEMMA NextInv == IInv /\ [Next]_vars => IInv'
<1> SUFFICES ASSUME IInv, [Next]_vars PROVE IInv'
  OBVIOUS
<1>1. CASE iso_load
  BY <1>1, LoadStep
<1>2. CASE iso_music
  BY <1>2, MusicStep
<1>3. CASE iso_queue_vag
  BY <1>3, QueueVagStep
<1>4. CASE iso_play_vag
  BY <1>4, PlayVagStep
<1>5. CASE iso_stop_vag
  BY <1>5, StopVagStep
<1>6. CASE iso_pause_vag
  BY <1>6, PauseVagStep
<1>7. CASE iso_continue_vag
  BY <1>7, ContinueVagStep
<1>8. CASE iso_no_message
  BY <1>8, NoMessageStep
<1>9. CASE iso_stream_ends
  BY <1>9, StreamEndsStep
<1>10. CASE iso_stream_goes_on
  BY <1>10, StreamGoesOnStep
<1>11. CASE iso_begin_read
  BY <1>11, BeginReadStep
<1>12. CASE iso_read \/ iso_nothing_to_read
  BY <1>12, ReadsStep
<1>13. ASSUME NEW c \in Singles, CopyData(c) PROVE IInv'
  BY <1>13, CopyStep
<1>14. CASE RunDGOStateMachine
  BY <1>14, DGOStep
<1>15. CASE ProcessVAGData
  BY <1>15, VAGDataStep
<1>16. CASE iso_sync_read \/ iso_delay
  BY <1>16, EndOfRoundStep
<1>17. ASSUME NEW c \in Clients, ClientLoads(c) PROVE IInv'
  BY <1>17, ClientStep
<1>18. ASSUME NEW m \in Orders, GetVAGCommand(m) PROVE IInv'
  BY <1>18, OrderStep
<1>19. CASE UpdatePlayPos
  BY <1>19, PlayPosStep
<1>20. CASE UNCHANGED vars
  BY <1>20, StutterStep
<1> QED BY <1>1, <1>2, <1>3, <1>4, <1>5, <1>6, <1>7, <1>8, <1>9, <1>10, <1>11, <1>12, <1>13,
           <1>14, <1>15, <1>16, <1>17, <1>18, <1>19, <1>20 DEF Next, IsoRound

(* The inductive invariant: the types, the mailbox, the stack, the read    *)
(* under way and the lists of buffers fit together in every state.         *)
THEOREM Inductive == Spec => []IInv
  BY InitInv, NextInv, PTL DEF Spec

(* Types are kept. *)
THEOREM Types == Spec => []TypeOK
<1>1. IInv => TypeOK
  BY DEF IInv
<1> QED BY <1>1, Inductive, PTL

(* No buffer is lost, in two lists, or free while the read under way will  *)
(* still write to it.                                                      *)
THEOREM Buffered == Spec => []BuffersConserved
<1>1. IInv => BuffersConserved
  BY DEF IInv
<1> QED BY <1>1, Inductive, PTL

(* A file is open as long as its command is in the stack. *)
THEOREM Opened == Spec => []FilesOfQueued
<1>1. IInv => FilesOfQueued
  BY DEF IInv
<1> QED BY <1>1, Inductive, PTL

(* The callbacks get the pages of their files each once and in order. *)
THEOREM Ordered == Spec => []PagesInOrder
<1>1. IInv => PagesInOrder
  BY DEF IInv
<1> QED BY <1>1, Inductive, PTL

(* Pause and continue act on the stream in progress only. *)
THEOREM StreamKept == Spec => []StreamConsistent
<1>1. IInv => StreamConsistent
  BY DEF IInv
<1> QED BY <1>1, Inductive, PTL

(* AllocateBuffer never loops: at the begin of a read, with no buffer in   *)
(* the hands of a read, two lists hold three of the four pages at most.    *)
THEOREM Allocates == Spec => []PoolNeverEmpty
<1>1. IInv => PoolNeverEmpty
  <2> SUFFICES ASSUME IInv, pc = "begin", NEW c \in Queued, Wants(c)
      PROVE  BufferFor(c) # {}
    BY DEF PoolNeverEmpty
  <2> USE NoCmdIsNoFile
  <2>1. /\ Core /\ CoreType /\ read_buffer = 0 /\ cmd_to_process = NoCmd /\ c \in Files
    BY Parts, IdleCore, QueuedIsFile DEF Core, Idle
  <2>2. \A b \in Buffers : b \in free \/
          \E d \in Files : \E i \in DOMAIN callback_buffer[d] : b = callback_buffer[d][i].buffer /\ Fits(d, b)
    <3> TAKE b \in Buffers
    <3>1. CASE \E d \in Files : b \in ReleasedBuffers(d)
      <4>1. PICK d \in Files : b \in ReleasedBuffers(d)
        BY <3>1
      <4>2. PICK i \in DOMAIN callback_buffer[d] : b = callback_buffer[d][i].buffer
        BY <4>1 DEF ReleasedBuffers, Elements
      <4>3. Fits(d, b)
        BY <4>2, <2>1 DEF Core, ReadInv
      <4> QED BY <4>2, <4>3
    <3> QED BY <3>1, <2>1, BufferNumbers DEF Core, BuffersConserved
  <2>3. CASE c = VAG
    <3>1. Len(callback_buffer[VAG]) \in Nat /\ DOMAIN callback_buffer[VAG] = 1 .. Len(callback_buffer[VAG])
      BY <2>1, ListType
    <3>2. Len(callback_buffer[VAG]) < 1
      BY <2>3 DEF Wants
    <3>3. DOMAIN callback_buffer[VAG] = {}
      BY <3>1, <3>2
    <3>4. StrBuffer \in Buffers
      BY DEF Buffers
    <3>5. StrBuffer \in free
      BY <2>2, <3>3, <3>4 DEF Fits
    <3> QED BY <2>3, <3>5 DEF BufferFor
  <2>4. CASE c # VAG
    <3> SUFFICES ASSUME free \cap PageBuffers = {} PROVE FALSE
      BY <2>4 DEF BufferFor
    <3> DEFINE X == callback_buffer[DGO][1].buffer
               Y == callback_buffer[DGO][2].buffer
               Z == callback_buffer[CHOOSE s \in Singles : callback_buffer[s] # <<>>][1].buffer
    <3>1. \A b \in PageBuffers : b = X \/ b = Y \/ b = Z
      <4> TAKE b \in PageBuffers
      <4>1. PICK d \in Files : \E i \in DOMAIN callback_buffer[d] :
              b = callback_buffer[d][i].buffer /\ Fits(d, b)
        BY <2>2 DEF Buffers
      <4>2. PICK i \in DOMAIN callback_buffer[d] : b = callback_buffer[d][i].buffer
        BY <4>1
      <4>3. /\ Len(callback_buffer[d]) \in Nat /\ i \in 1 .. Len(callback_buffer[d])
        BY <2>1, <4>2, ListType
      <4>4. d # VAG
        BY <4>1, BufferNumbers DEF Fits
      <4>5. CASE d = DGO
        <5>1. Len(callback_buffer[d]) <= 2
          BY <4>5, <4>3, <2>1 DEF Core, CapacityInv
        <5>2. i = 1 \/ i = 2
          BY <5>1, <4>3
        <5> QED BY <5>2, <4>2, <4>5
      <4>6. CASE d \in Singles
        <5>1. callback_buffer[d] # <<>>
          BY <4>3
        <5>2. \A s \in Singles : callback_buffer[s] # <<>> => s = d
          BY <4>6, <5>1, <2>1 DEF Core, CapacityInv
        <5>3. (CHOOSE s \in Singles : callback_buffer[s] # <<>>) = d
          BY <4>6, <5>1, <5>2
        <5>4. i = 1
          BY <4>3, <4>6, <5>1, <2>1 DEF Core, CapacityInv
        <5> QED BY <5>3, <5>4, <4>2
      <4> QED BY <4>4, <4>5, <4>6
    <3> HIDE DEF X, Y, Z
    <3>2. 1 \in PageBuffers /\ 2 \in PageBuffers /\ 3 \in PageBuffers /\ 4 \in PageBuffers
      BY BufferNumbers
    <3> QED BY <3>1, <3>2
  <2> QED BY <2>3, <2>4
<1> QED BY <1>1, Inductive, PTL

-----------------------------------------------------------------------------
(***************************************************************************)
(* The commands of vag_cmds that are on their way.                         *)
(***************************************************************************)
(* Where the messages of the stream are in a mailbox. *)
VagMail(s) == {i \in DOMAIN s : s[i].cmd \notin {"load", "music"}}

(* How many commands of vag_cmds message m carries. *)
Carries(m) == IF m.cmd \in {"load", "music"} THEN 0 ELSE 1

LEMMA VagMailFinite ==
  ASSUME NEW s \in Seq(Messages)
  PROVE  IsFiniteSet(VagMail(s)) /\ Cardinality(VagMail(s)) \in Nat
<1>1. Len(s) \in Nat /\ DOMAIN s = 1 .. Len(s)
  OBVIOUS
<1>2. IsFiniteSet(1 .. Len(s))
  BY <1>1, FS_Interval
<1>3. VagMail(s) \in SUBSET (1 .. Len(s))
  BY <1>1 DEF VagMail
<1>4. IsFiniteSet(VagMail(s))
  BY <1>2, <1>3, FS_Subset
<1> QED BY <1>4, FS_CardinalityType

(* A message is sent: it is counted when it is one of the stream. *)
LEMMA VagMailAppend ==
  ASSUME NEW s \in Seq(Messages), NEW m \in Messages
  PROVE  Cardinality(VagMail(Append(s, m))) = Cardinality(VagMail(s)) + Carries(m)
<1> DEFINE t == Append(s, m)
<1>1. /\ Len(s) \in Nat /\ DOMAIN s = 1 .. Len(s) /\ DOMAIN t = 1 .. Len(s) + 1
      /\ \A i \in DOMAIN s : t[i] = s[i]
      /\ t[Len(s) + 1] = m
  BY AppendElements
<1> HIDE DEF t
<1>2. IsFiniteSet(VagMail(s)) /\ Cardinality(VagMail(s)) \in Nat /\ Len(s) + 1 \notin VagMail(s)
  <2>1. Len(s) + 1 \notin VagMail(s)
    BY <1>1 DEF VagMail
  <2> QED BY <2>1, VagMailFinite
<1>3. CASE m.cmd \in {"load", "music"}
  <2>1. VagMail(t) = VagMail(s)
    BY <1>1, <1>3 DEF VagMail
  <2> QED BY <1>2, <1>3, <2>1 DEF Carries, t
<1>4. CASE m.cmd \notin {"load", "music"}
  <2>1. VagMail(t) = VagMail(s) \cup {Len(s) + 1}
    BY <1>1, <1>4 DEF VagMail
  <2>2. Cardinality(VagMail(s) \cup {Len(s) + 1}) = Cardinality(VagMail(s)) + 1
    BY <1>2, FS_AddElement
  <2> QED BY <1>4, <2>1, <2>2 DEF Carries, t
<1> QED BY <1>3, <1>4

(* The first message is received: it is counted no more. *)
LEMMA VagMailTail ==
  ASSUME NEW s \in Seq(Messages), s # <<>>
  PROVE  Cardinality(VagMail(Tail(s))) = Cardinality(VagMail(s)) - Carries(Head(s))
<1> DEFINE t == Tail(s)
           f == [i \in VagMail(t) |-> i + 1]
<1>1. /\ Len(s) \in Nat /\ DOMAIN s = 1 .. Len(s) /\ 1 \in DOMAIN s /\ Head(s) = s[1]
      /\ t \in Seq(Messages) /\ DOMAIN t = 1 .. Len(s) - 1
      /\ \A i \in DOMAIN t : t[i] = s[i + 1]
  OBVIOUS
<1> HIDE DEF t
<1>2. /\ IsFiniteSet(VagMail(s)) /\ Cardinality(VagMail(s)) \in Nat
      /\ IsFiniteSet(VagMail(t)) /\ VagMail(t) \subseteq Nat
  <2>1. VagMail(t) \subseteq Nat
    BY <1>1 DEF VagMail
  <2>2. IsFiniteSet(VagMail(t))
    BY <1>1, VagMailFinite
  <2> QED BY <2>1, <2>2, VagMailFinite
<1>3. f \in [VagMail(t) -> VagMail(s) \ {1}]
  BY <1>1 DEF VagMail
<1>4. \A x, y \in VagMail(t) : f[x] = f[y] => x = y
  BY <1>2
<1>5. \A j \in VagMail(s) \ {1} : \E i \in VagMail(t) : f[i] = j
  <2> TAKE j \in VagMail(s) \ {1}
  <2>1. j - 1 \in VagMail(t)
    BY <1>1 DEF VagMail
  <2>2. f[j - 1] = j
    BY <2>1, <1>1 DEF VagMail
  <2> QED BY <2>1, <2>2
<1> HIDE DEF f
<1>6. ExistsBijection(VagMail(t), VagMail(s) \ {1})
  BY <1>3, <1>4, <1>5 DEF ExistsBijection, Bijection, Injection, Surjection, IsInjective
<1>7. Cardinality(VagMail(t)) = Cardinality(VagMail(s) \ {1})
  BY <1>2, <1>6, FS_Bijection
<1>8. Cardinality(VagMail(s) \ {1}) =
        IF 1 \in VagMail(s) THEN Cardinality(VagMail(s)) - 1 ELSE Cardinality(VagMail(s))
  BY <1>2, FS_RemoveElement
<1>9. 1 \in VagMail(s) <=> Head(s).cmd \notin {"load", "music"}
  BY <1>1 DEF VagMail
<1> QED BY <1>2, <1>7, <1>8, <1>9 DEF Carries, t

LEMMA PoolIs == VagPoolConserved <=> vag_cmd_cnt = Cardinality(VagMail(iso_mbx))
  BY DEF VagPoolConserved, VagMail

LEMMA PoolIsNext == VagPoolConserved' <=> vag_cmd_cnt' = Cardinality(VagMail(iso_mbx'))
  BY DEF VagPoolConserved, VagMail

LEMMA PoolSame ==
  ASSUME VagPoolConserved, UNCHANGED <<iso_mbx, vag_cmd_cnt>>
  PROVE  VagPoolConserved'
  BY PoolIs, PoolIsNext

LEMMA PoolSend ==
  ASSUME MailInv, VagPoolConserved, NEW m \in Messages, iso_mbx' = Append(iso_mbx, m),
         vag_cmd_cnt' = vag_cmd_cnt + Carries(m)
  PROVE  VagPoolConserved'
<1>1. Cardinality(VagMail(Append(iso_mbx, m))) = Cardinality(VagMail(iso_mbx)) + Carries(m)
  BY VagMailAppend DEF MailInv
<1> QED BY <1>1, PoolIs, PoolIsNext

LEMMA PoolReceive ==
  ASSUME MailInv, VagPoolConserved, iso_mbx # <<>>, iso_mbx' = Tail(iso_mbx),
         vag_cmd_cnt' = vag_cmd_cnt - Carries(Head(iso_mbx))
  PROVE  VagPoolConserved'
<1>1. Cardinality(VagMail(Tail(iso_mbx))) = Cardinality(VagMail(iso_mbx)) - Carries(Head(iso_mbx))
  BY VagMailTail DEF MailInv
<1> QED BY <1>1, PoolIs, PoolIsNext

(* Music that found no buffer goes to the end of the mailbox. *)
LEMMA PoolRotate ==
  ASSUME MailInv, VagPoolConserved, iso_mbx # <<>>, Head(iso_mbx).cmd = "music",
         iso_mbx' = Append(Tail(iso_mbx), Head(iso_mbx)), UNCHANGED vag_cmd_cnt
  PROVE  VagPoolConserved'
<1>1. Head(iso_mbx) \in Messages /\ Tail(iso_mbx) \in Seq(Messages) /\ iso_mbx \in Seq(Messages)
  BY ReceiveFacts
<1>2. Carries(Head(iso_mbx)) = 0
  BY DEF Carries
<1>3. Cardinality(VagMail(Tail(iso_mbx))) = Cardinality(VagMail(iso_mbx)) - 0
  BY <1>1, <1>2, VagMailTail
<1>4. Cardinality(VagMail(Append(Tail(iso_mbx), Head(iso_mbx)))) = Cardinality(VagMail(Tail(iso_mbx))) + 0
  BY <1>1, <1>2, VagMailAppend
<1>5. Cardinality(VagMail(iso_mbx)) \in Nat
  BY <1>1, VagMailFinite
<1> QED BY <1>3, <1>4, <1>5, PoolIs, PoolIsNext

LEMMA OrderCarries == \A m \in Orders : m \in Messages /\ Carries(m) = 1
<1> SUFFICES ASSUME NEW m \in Orders PROVE m \in Messages /\ Carries(m) = 1
  OBVIOUS
<1>1. m \in VagMessages
  BY IsoAssumption
<1>2. m.cmd \in {"play", "stop", "queue", "pause", "continue"}
  <2>1. CASE m \in [cmd : {"play", "stop", "queue"}, vag : Vags \cup {NoVag}, priority : {1}]
    BY <2>1
  <2>2. CASE m \in [cmd : {"play"}, vag : Vags, priority : {0}]
    BY <2>2
  <2>3. CASE m \in [cmd : {"stop"}, vag : {NoVag}, priority : {0}]
    BY <2>3
  <2>4. CASE m \in [cmd : {"pause", "continue"}]
    BY <2>4
  <2> QED BY <1>1, <2>1, <2>2, <2>3, <2>4 DEF VagMessages
<1> QED BY <1>1, <1>2 DEF Messages, Carries

LEMMA PoolStep ==
  ASSUME IInv, VagPoolConserved, [Next]_vars
  PROVE  VagPoolConserved'
<1>0. MailInv
  BY DEF IInv
<1>1. CASE iso_load
  <2>1. iso_mbx # <<>> /\ Head(iso_mbx).cmd = "load" /\ iso_mbx' = Tail(iso_mbx) /\ vag_cmd_cnt' = vag_cmd_cnt
    BY <1>1 DEF iso_load, Receive
  <2>2. Carries(Head(iso_mbx)) = 0 /\ vag_cmd_cnt \in Int
    BY <2>1 DEF Carries, IInv, TypeOK
  <2> QED BY <1>0, <2>1, <2>2, PoolReceive
<1>2. CASE iso_music
  <2>1. CASE free \cap PageBuffers = {}
    <3>1. /\ iso_mbx # <<>> /\ Head(iso_mbx).cmd = "music"
          /\ iso_mbx' = Append(Tail(iso_mbx), Head(iso_mbx)) /\ vag_cmd_cnt' = vag_cmd_cnt
      BY <1>2, <2>1 DEF iso_music
    <3> QED BY <1>0, <3>1, PoolRotate
  <2>2. CASE free \cap PageBuffers # {}
    <3>1. /\ iso_mbx # <<>> /\ Head(iso_mbx).cmd = "music"
          /\ iso_mbx' = Tail(iso_mbx) /\ vag_cmd_cnt' = vag_cmd_cnt
      BY <1>2, <2>2 DEF iso_music
    <3>2. Carries(Head(iso_mbx)) = 0 /\ vag_cmd_cnt \in Int
      BY <3>1 DEF Carries, IInv, TypeOK
    <3> QED BY <1>0, <3>1, <3>2, PoolReceive
  <2> QED BY <2>1, <2>2
<1>3. CASE iso_queue_vag \/ iso_play_vag \/ iso_stop_vag \/ iso_pause_vag \/ iso_continue_vag
  <2>1. /\ iso_mbx # <<>> /\ Head(iso_mbx).cmd \notin {"load", "music"}
        /\ iso_mbx' = Tail(iso_mbx) /\ vag_cmd_cnt' = vag_cmd_cnt - 1
    BY <1>3 DEF iso_queue_vag, iso_play_vag, iso_stop_vag, iso_pause_vag, iso_continue_vag,
                Receive, ReturnVag
  <2>2. Carries(Head(iso_mbx)) = 1
    BY <2>1 DEF Carries
  <2> QED BY <1>0, <2>1, <2>2, PoolReceive
<1>4. ASSUME NEW c \in Clients, ClientLoads(c) PROVE VagPoolConserved'
  <2> DEFINE m == [cmd |-> IF c = LOADER THEN "music" ELSE "load", client |-> c]
  <2>1. iso_mbx' = Append(iso_mbx, m) /\ vag_cmd_cnt' = vag_cmd_cnt
    BY <1>4 DEF ClientLoads
  <2>2. m \in Messages
    <3>1. CASE c = LOADER
      BY <3>1 DEF Messages
    <3>2. CASE c # LOADER
      BY <3>2 DEF Messages, Clients
    <3> QED BY <3>1, <3>2
  <2>3. Carries(m) = 0 /\ vag_cmd_cnt \in Int
    BY DEF Carries, IInv, TypeOK
  <2> HIDE DEF m
  <2> QED BY <1>0, <2>1, <2>2, <2>3, PoolSend
<1>5. ASSUME NEW m \in Orders, GetVAGCommand(m) PROVE VagPoolConserved'
  <2>1. m \in Messages /\ Carries(m) = 1
    BY OrderCarries
  <2>2. CASE vag_cmd_cnt < VagMask
    <3>1. iso_mbx' = Append(iso_mbx, m) /\ vag_cmd_cnt' = vag_cmd_cnt + 1
      BY <1>5, <2>2 DEF GetVAGCommand
    <3> QED BY <1>0, <2>1, <3>1, PoolSend
  <2>3. CASE ~(vag_cmd_cnt < VagMask)
    <3>1. UNCHANGED <<iso_mbx, vag_cmd_cnt>>
      BY <1>5, <2>3 DEF GetVAGCommand
    <3> QED BY <3>1, PoolSame
  <2> QED BY <2>2, <2>3
<1>6. CASE iso_no_message \/ iso_stream_ends \/ iso_stream_goes_on \/ iso_begin_read \/ iso_read
           \/ iso_nothing_to_read \/ UpdatePlayPos
  <2>1. UNCHANGED <<iso_mbx, vag_cmd_cnt>>
    BY <1>6 DEF iso_no_message, iso_stream_ends, iso_stream_goes_on, iso_begin_read, iso_read,
                iso_nothing_to_read, UpdatePlayPos
  <2> QED BY <2>1, PoolSame
<1>7. CASE (\E c \in Singles : CopyData(c)) \/ RunDGOStateMachine \/ ProcessVAGData
           \/ iso_sync_read \/ iso_delay
  <2>1. UNCHANGED <<iso_mbx, vag_cmd_cnt>>
    BY <1>7 DEF CopyData, RunDGOStateMachine, ProcessVAGData, iso_sync_read, iso_delay, EndRound,
                processUnchanged
  <2> QED BY <2>1, PoolSame
<1>8. CASE UNCHANGED vars
  <2>1. UNCHANGED <<iso_mbx, vag_cmd_cnt>>
    BY <1>8 DEF vars
  <2> QED BY <2>1, PoolSame
<1> QED BY <1>1, <1>2, <1>3, <1>4, <1>5, <1>6, <1>7, <1>8 DEF Next, IsoRound

(* The count GetVAGCommand waits on is that of the commands of the stream  *)
(* in the mailbox: each is given back once, also one that restarts the     *)
(* stream, is refused or finds nothing to stop, and none is counted twice  *)
(* while music goes round in the mailbox.                                  *)
THEOREM PoolConserved == Spec => []VagPoolConserved
<1>1. Init => VagPoolConserved
  <2> SUFFICES ASSUME Init PROVE VagPoolConserved
    OBVIOUS
  <2>1. iso_mbx = <<>> /\ vag_cmd_cnt = 0
    BY DEF Init
  <2>2. VagMail(iso_mbx) = {}
    BY <2>1 DEF VagMail
  <2> QED BY <2>1, <2>2, FS_EmptySet, PoolIs
<1>2. IInv /\ VagPoolConserved /\ [Next]_vars => VagPoolConserved'
  BY PoolStep
<1> QED BY <1>1, <1>2, Inductive, PTL DEF Spec

-----------------------------------------------------------------------------
(***************************************************************************)
(* The end of a stream.                                                    *)
(***************************************************************************)
(* The pages of a stream that may be read: the first two are read without  *)
(* looking at its length.                                                  *)
MayRead(v) == IF Pages[v] = 1 THEN 2 ELSE Pages[v]

(* The last page has been handed over and no other one is asked for. *)
Exhausted ==
  /\ ~vag.ready /\ location[VAG] = vag.number
  /\ ~(pc = "reading" /\ cmd_to_process = VAG)

(* How far the stream in progress has come: what number, last and stop say *)
(* of its pages.  The voice runs once two pages are there; one that has    *)
(* but one page never leaves the first half of the SPU buffer.             *)
VoiceInv ==
  /\ gPlaying => in_progress /\ vag.number >= 2
  /\ vag.name # NoVag =>
       /\ Pages[vag.name] = 1 => half = 0
       /\ vag.last <=> vag.number >= Pages[vag.name]
       /\ ~in_progress => location[VAG] = 0
       /\ in_progress /\ vag.stop => location[VAG] = 1 /\ pc \notin {"begin", "reading"}
       /\ in_progress /\ ~vag.stop =>
            /\ vag.number = taken[VAG] /\ vag.number <= MayRead(vag.name)
            /\ vag.number = MayRead(vag.name) => Exhausted

LEMMA VagTypes ==
  ASSUME IInv
  PROVE  /\ vag \in VagType /\ vag.name \in Vags \cup {NoVag} /\ vag.number \in Nat
         /\ vag.last \in BOOLEAN /\ vag.ready \in BOOLEAN /\ vag.stop \in BOOLEAN
         /\ vag.started \in BOOLEAN /\ vag.paused \in BOOLEAN
         /\ in_progress \in BOOLEAN /\ gPlaying \in BOOLEAN /\ half \in {0, 1}
         /\ location[VAG] \in Nat /\ taken[VAG] \in Nat
         /\ in_progress = (VAG \in Queued)
<1>1. StreamType /\ CoreType /\ StreamConsistent
  BY Parts DEF Core, Rest
<1>2. vag \in VagType /\ in_progress \in BOOLEAN /\ gPlaying \in BOOLEAN /\ half \in {0, 1}
  BY <1>1 DEF StreamType
<1>3. location[VAG] \in Nat /\ taken[VAG] \in Nat
  BY <1>1, NoCmdIsNoFile DEF CoreType
<1>4. in_progress = (VAG \in Queued)
  BY <1>1 DEF StreamConsistent
<1>5. /\ vag.name \in Vags \cup {NoVag} /\ vag.number \in Nat
      /\ vag.last \in BOOLEAN /\ vag.ready \in BOOLEAN /\ vag.stop \in BOOLEAN
      /\ vag.started \in BOOLEAN /\ vag.paused \in BOOLEAN
  BY <1>2 DEF VagType
<1> QED BY <1>2, <1>3, <1>4, <1>5

LEMMA MayReadType ==
  ASSUME NEW v \in Vags
  PROVE  /\ Pages[v] \in Nat /\ Pages[v] >= 1 /\ MayRead(v) \in Nat /\ MayRead(v) >= 2
         /\ MayRead(v) >= Pages[v]
  BY IsoAssumption DEF MayRead

(* The stream's page that is read or in its list is the next one. *)
LEMMA StreamLocation ==
  ASSUME IInv, in_progress
  PROVE  /\ location[VAG] \in {taken[VAG], taken[VAG] + 1}
         /\ callback_buffer[VAG] # <<>> => location[VAG] = taken[VAG] + 1
<1> USE NoCmdIsNoFile
<1>1. /\ VAG \in Queued /\ taken[VAG] \in Nat /\ Core /\ CoreType
  BY VagTypes, Parts DEF Core
<1>2. Len(callback_buffer[VAG]) \in Nat
  BY <1>1, ListType
<1>3. location[VAG] = taken[VAG] + Len(callback_buffer[VAG]) + (IF sReadInfo = VAG THEN 1 ELSE 0)
  BY <1>1 DEF Core, LocationInv
<1>4. Len(callback_buffer[VAG]) <= (IF Pending(VAG) THEN 0 ELSE 1)
  BY <1>1 DEF Core, CapacityInv
<1>5. sReadInfo = VAG => Pending(VAG)
  BY <1>1 DEF Pending, CoreType
<1>6. callback_buffer[VAG] # <<>> => Len(callback_buffer[VAG]) # 0
  BY <1>1 DEF CoreType
<1> QED BY <1>1, <1>2, <1>3, <1>4, <1>5, <1>6

(* Steps that leave the stream as it is, or pause it. *)
LEMMA VoiceSame ==
  ASSUME VoiceInv, UNCHANGED <<in_progress, half, gPlaying>>,
         vag' = vag \/ \E x \in BOOLEAN : vag' = [vag EXCEPT !.paused = x],
         vag \in VagType, location'[VAG] = location[VAG], taken'[VAG] = taken[VAG],
         ~(pc' \in {"begin", "reading"} /\ pc' # pc)
  PROVE  (cmd_to_process' = cmd_to_process \/ pc' # "reading") => VoiceInv'
<1>1. /\ vag'.name = vag.name /\ vag'.number = vag.number /\ vag'.last = vag.last
      /\ vag'.ready = vag.ready /\ vag'.stop = vag.stop
  BY DEF VagType
<1> QED BY <1>1 DEF VoiceInv, Exhausted, MayRead

(* The steps of a round that are about other commands, and of the other    *)
(* threads.                                                                *)
LEMMA VoiceOthers ==
  ASSUME IInv, VoiceInv,
         \/ iso_load \/ iso_music \/ iso_no_message \/ iso_pause_vag \/ iso_continue_vag
         \/ iso_nothing_to_read \/ iso_sync_read \/ iso_delay
         \/ (\E c \in Clients : ClientLoads(c)) \/ (\E m \in Orders : GetVAGCommand(m))
         \/ UNCHANGED vars
  PROVE  VoiceInv'
<1> USE NoCmdIsNoFile
<1>0. vag \in VagType /\ CoreType /\ MailInv
  BY VagTypes, Parts DEF Core
<1>1. CASE iso_load
  <2>1. /\ pc' = "progress" /\ UNCHANGED <<streamVars, readVars>> /\ Polls /\ iso_mbx # <<>>
        /\ Head(iso_mbx).cmd = "load"
    BY <1>1 DEF iso_load, Receive
  <2>2. Head(iso_mbx).client \in Singles \cup {DGO}
    BY <1>0, <2>1, ReceiveFacts, MessageFields
  <2>3. location'[VAG] = location[VAG] /\ taken'[VAG] = taken[VAG]
    <3> DEFINE c == Head(iso_mbx).client
    <3>1. c # VAG /\ location \in [Files -> Nat] /\ taken \in [Files -> Nat] /\ VAG \in Files
      BY <1>0, <2>2, IsoAssumption DEF CoreType, Files
    <3>2. \/ location' = [location EXCEPT ![c] = 0] /\ taken' = [taken EXCEPT ![c] = 0]
          \/ UNCHANGED <<location, taken>>
      BY <1>1 DEF iso_load, OpenedFor
    <3> HIDE DEF c
    <3> QED BY <3>1, <3>2
  <2> QED BY <1>0, <2>1, <2>3, VoiceSame DEF streamVars
<1>2. CASE iso_music \/ iso_no_message
  <2>1. pc' = "progress" /\ UNCHANGED <<streamVars, readVars, bufferVars>>
    BY <1>2 DEF iso_music, iso_no_message
  <2> QED BY <1>0, <2>1, VoiceSame DEF streamVars, bufferVars
<1>3. CASE iso_pause_vag \/ iso_continue_vag
  <2>1. /\ pc' = "progress" /\ UNCHANGED <<bufferVars, in_progress, half, gPlaying>>
        /\ \/ vag' = vag \/ vag' = [vag EXCEPT !.paused = TRUE]
           \/ vag' = [vag EXCEPT !.paused = FALSE]
    BY <1>3 DEF iso_pause_vag, iso_continue_vag, Receive
  <2> QED BY <1>0, <2>1, VoiceSame DEF bufferVars
<1>4. CASE iso_nothing_to_read \/ iso_sync_read \/ iso_delay
  <2>1. /\ pc' \in {"process", "poll", "delay"} /\ UNCHANGED <<streamVars, location, taken>>
    BY <1>4 DEF iso_nothing_to_read, iso_sync_read, iso_delay, EndRound, StartProcessing, bufferVars
  <2> QED BY <1>0, <2>1, VoiceSame DEF streamVars
<1>5. CASE (\E c \in Clients : ClientLoads(c)) \/ (\E m \in Orders : GetVAGCommand(m)) \/ UNCHANGED vars
  <2>1. UNCHANGED <<pc, streamVars, bufferVars, readVars>>
    BY <1>5 DEF ClientLoads, GetVAGCommand, isoUnchanged, vars
  <2> QED BY <1>0, <2>1, VoiceSame DEF streamVars, bufferVars, readVars
<1> QED BY <1>1, <1>2, <1>3, <1>4, <1>5

(* Pages of the other commands go to their callbacks. *)
LEMMA VoiceCallbacks ==
  ASSUME IInv, VoiceInv, NEW c \in Singles \cup {DGO}, CopyData(c) \/ (c = DGO /\ RunDGOStateMachine)
  PROVE  VoiceInv'
<1> USE NoCmdIsNoFile
<1>0. vag \in VagType /\ CoreType
  BY VagTypes, Parts DEF Core
<1>1. /\ UNCHANGED <<pc, cmd_to_process, streamVars>>
      /\ Consume(c) \/ Finish(c) \/ UNCHANGED bufferVars
  BY DEF CopyData, RunDGOStateMachine, processUnchanged
<1>2. location'[VAG] = location[VAG] /\ taken'[VAG] = taken[VAG]
  <2>1. CASE Consume(c)
    BY <1>0, <2>1 DEF Consume, CoreType
  <2>2. CASE Finish(c)
    BY <1>0, <2>2 DEF Finish, ReleaseMessage, CoreType
  <2> QED BY <1>1, <2>1, <2>2 DEF bufferVars
<1> QED BY <1>0, <1>1, <1>2, VoiceSame DEF streamVars

(* The voice does not leave the only page of its stream. *)
LEMMA VoicePlays ==
  ASSUME IInv, VoiceInv, UpdatePlayPos
  PROVE  VoiceInv'
<1>1. /\ UNCHANGED <<pc, bufferVars, readVars, in_progress, vag, gPlaying>>
      /\ gPlaying /\ ~AtEnd /\ half' = 1 - half
  BY DEF UpdatePlayPos, isoUnchanged
<1>2. vag.name # NoVag => Pages[vag.name] # 1
  <2> SUFFICES ASSUME vag.name # NoVag, Pages[vag.name] = 1 PROVE FALSE
    OBVIOUS
  <2>1. vag.number >= 2 /\ half = 0 /\ (vag.last <=> vag.number >= 1)
    BY <1>1 DEF VoiceInv
  <2>2. vag.last /\ EndHalf = 0
    BY <2>1, VagTypes DEF EndHalf
  <2> QED BY <1>1, <2>1, <2>2 DEF AtEnd
<1> QED BY <1>1, <1>2 DEF VoiceInv, Exhausted, MayRead, bufferVars, readVars

(* The stream is set up anew. *)
LEMMA VoiceRestarts ==
  ASSUME IInv, VoiceInv, pc \in Idle, pc' = "progress", NEW m \in Messages,
         m.cmd \in {"queue", "play"}, NEW x \in BOOLEAN, Restart(m, x),
         UNCHANGED <<todo, cmd_to_process, read_buffer>>
  PROVE  VoiceInv'
<1> USE NoCmdIsNoFile
<1>1. /\ in_progress' = TRUE /\ vag' = InitVAGCmd(m, x) /\ half' = 0
      /\ gPlaying' = (gPlaying /\ ~in_progress)
  <2>1. pc' \in Idle
    BY DEF Idle
  <2> QED BY <2>1, Restarted
<1>2. ~gPlaying'
  BY <1>1 DEF VoiceInv
<1>3. location'[VAG] = 0 /\ taken'[VAG] = 0
  BY Parts DEF Restart, OpenedFor, Core, CoreType
<1>4. vag'.name = m.vag /\ vag'.number = 0 /\ ~vag'.last /\ ~vag'.stop
  BY <1>1 DEF InitVAGCmd
<1>5. m.vag \in Vags \cup {NoVag}
  BY MessageFields
<1>6. m.vag # NoVag => Pages[m.vag] \in Nat /\ Pages[m.vag] >= 1 /\ MayRead(m.vag) >= 2 /\ MayRead(m.vag) \in Nat
  BY <1>5, MayReadType
<1> QED BY <1>1, <1>2, <1>3, <1>4, <1>6 DEF VoiceInv, MayRead

(* The stream commands that may restart or stop the stream. *)
LEMMA VoiceCommands ==
  ASSUME IInv, VoiceInv, iso_queue_vag \/ iso_play_vag \/ iso_stop_vag \/ iso_stream_ends
  PROVE  VoiceInv'
<1> DEFINE m == Head(iso_mbx)
<1>0. vag \in VagType /\ CoreType /\ MailInv /\ StreamType
  BY VagTypes, Parts DEF Core, Rest
<1>1. ASSUME pc' = "progress", pc \in Idle, UNCHANGED <<in_progress, half, gPlaying, location, taken>>,
             vag' = vag \/ \E x \in BOOLEAN : vag' = [vag EXCEPT !.paused = x]
      PROVE  VoiceInv'
  BY <1>0, <1>1, VoiceSame
<1>2. ASSUME StopStream PROVE VoiceInv'
  BY <1>2 DEF StopStream, NoStream, VoiceInv
<1>3. CASE iso_queue_vag
  <2>1. /\ Polls /\ iso_mbx # <<>> /\ pc' = "progress" /\ m.cmd = "queue"
        /\ UNCHANGED <<todo, cmd_to_process, read_buffer>>
        /\ Restart(m, TRUE) \/ UNCHANGED <<in_progress, half, gPlaying, location, taken, vag>>
    BY <1>3 DEF iso_queue_vag, Receive
  <2>2. m \in Messages /\ pc \in Idle
    BY <1>0, <2>1, ReceiveFacts DEF Polls, Idle
  <2> HIDE DEF m
  <2>3. CASE Restart(m, TRUE)
    BY <2>1, <2>2, <2>3, VoiceRestarts
  <2>4. CASE UNCHANGED <<in_progress, half, gPlaying, location, taken, vag>>
    BY <2>1, <2>2, <2>4, <1>1
  <2> QED BY <2>1, <2>3, <2>4
<1>4. CASE iso_play_vag
  <2>1. /\ Polls /\ iso_mbx # <<>> /\ pc' = "progress" /\ m.cmd = "play"
        /\ UNCHANGED <<todo, cmd_to_process, read_buffer>>
        /\ \/ Restart(m, vag_paused)
           \/ /\ UNCHANGED <<in_progress, half, gPlaying, location, taken>>
              /\ vag' = vag \/ vag' = [vag EXCEPT !.paused = @ /\ vag_paused]
    BY <1>4 DEF iso_play_vag, Receive
  <2>2. m \in Messages /\ pc \in Idle
    BY <1>0, <2>1, ReceiveFacts DEF Polls, Idle
  <2>3. vag_paused \in BOOLEAN
    BY <1>0 DEF StreamType
  <2> HIDE DEF m
  <2>4. CASE Restart(m, vag_paused)
    BY <2>1, <2>2, <2>3, <2>4, VoiceRestarts
  <2>5. CASE /\ UNCHANGED <<in_progress, half, gPlaying, location, taken>>
             /\ vag' = vag \/ vag' = [vag EXCEPT !.paused = @ /\ vag_paused]
    <3>1. vag' = [vag EXCEPT !.paused = @ /\ vag_paused] => \E x \in BOOLEAN : vag' = [vag EXCEPT !.paused = x]
      <4> SUFFICES ASSUME vag' = [vag EXCEPT !.paused = @ /\ vag_paused]
          PROVE  \E x \in BOOLEAN : vag' = [vag EXCEPT !.paused = x]
        OBVIOUS
      <4> DEFINE x == vag.paused /\ vag_paused
      <4>1. x \in BOOLEAN
        BY Zenon
      <4>2. vag' = [vag EXCEPT !.paused = x]
        BY <1>0 DEF VagType
      <4> HIDE DEF x
      <4> QED BY <4>1, <4>2
    <3> QED BY <2>1, <2>2, <2>5, <3>1, <1>1
  <2> QED BY <2>1, <2>4, <2>5
<1>5. CASE iso_stop_vag
  <2>1. /\ Polls /\ pc' = "progress" /\ half' = half
        /\ StopStream \/ UNCHANGED <<in_progress, gPlaying, bufferVars, vag>>
    BY <1>5 DEF iso_stop_vag, Receive
  <2>2. pc \in Idle
    BY <2>1 DEF Polls, Idle
  <2> QED BY <2>1, <2>2, <1>1, <1>2 DEF bufferVars
<1>6. CASE iso_stream_ends
  BY <1>2, <1>6 DEF iso_stream_ends
<1> QED BY <1>3, <1>4, <1>5, <1>6

(* When the last page is there, the voice is in the half where the stream  *)
(* ends or in the one that was filled last: no page is asked for.          *)
LEMMA NothingWanted ==
  ASSUME IInv, VoiceInv, in_progress, ~vag.stop, vag.name # NoVag,
         vag.number = MayRead(vag.name)
  PROVE  ~WantsData
<1>1. /\ vag.name \in Vags /\ half \in {0, 1} /\ vag.last
      /\ Pages[vag.name] \in Nat /\ Pages[vag.name] >= 1
  BY VagTypes, MayReadType DEF VoiceInv
<1>2. CASE Pages[vag.name] = 1
  <2>1. half = 0 /\ EndHalf = 0
    BY <1>2 DEF VoiceInv, EndHalf
  <2> QED BY <1>1, <2>1 DEF WantsData, AtEnd
<1>3. CASE Pages[vag.name] # 1
  <2>1. vag.number = Pages[vag.name]
    BY <1>3 DEF MayRead
  <2>2. half = EndHalf \/ half = vag.number % 2
    BY <1>1, <2>1 DEF EndHalf
  <2> QED BY <1>1, <2>2 DEF WantsData, AtEnd
<1> QED BY <1>2, <1>3

LEMMA VoiceGoesOn ==
  ASSUME IInv, VoiceInv, iso_stream_goes_on
  PROVE  VoiceInv'
<1>1. /\ in_progress => ~vag.stop
      /\ vag' = IF in_progress /\ WantsData THEN [vag EXCEPT !.ready = TRUE] ELSE vag
      /\ pc' = "begin" /\ UNCHANGED <<in_progress, half, gPlaying, bufferVars>>
  BY DEF iso_stream_goes_on
<1>2. vag \in VagType
  BY VagTypes
<1>3. CASE in_progress /\ WantsData
  <2>1. /\ vag'.name = vag.name /\ vag'.number = vag.number /\ vag'.last = vag.last
        /\ vag'.stop = vag.stop
    BY <1>1, <1>2, <1>3 DEF VagType
  <2>2. vag.name # NoVag => vag.number # MayRead(vag.name)
    BY <1>1, <1>3, NothingWanted
  <2> QED BY <1>1, <2>1, <2>2 DEF VoiceInv, Exhausted, MayRead, bufferVars
<1>4. CASE ~(in_progress /\ WantsData)
  BY <1>1, <1>4 DEF VoiceInv, Exhausted, MayRead, bufferVars
<1> QED BY <1>3, <1>4

LEMMA VoiceReads ==
  ASSUME IInv, VoiceInv, iso_begin_read \/ iso_read
  PROVE  VoiceInv'
<1> USE NoCmdIsNoFile
<1>0. /\ CoreType /\ ReadInv /\ UNCHANGED <<streamVars, taken>>
      /\ in_progress = (VAG \in Queued)
  BY Parts, VagTypes DEF Core, iso_begin_read, iso_read
<1>1. CASE iso_begin_read
  <2>1. /\ pc = "begin" /\ location' = location /\ cmd_to_process' \in Queued
        /\ cmd_to_process' = VAG => vag.ready
    BY <1>1 DEF iso_begin_read, IsNext, Wants
  <2>2. in_progress /\ vag.name # NoVag => ~vag.stop
    BY <2>1 DEF VoiceInv
  <2> QED BY <1>0, <2>1, <2>2 DEF VoiceInv, Exhausted, MayRead, streamVars
<1>2. CASE iso_read
  <2>1. /\ pc = "reading" /\ pc' = "process" /\ UNCHANGED cmd_to_process
        /\ location' = [location EXCEPT ![cmd_to_process] = @ + 1]
        /\ cmd_to_process \in Queued
    BY <1>0, <1>2 DEF iso_read, StartProcessing, ReadInv
  <2>2. CASE cmd_to_process = VAG
    <3>1. in_progress
      BY <1>0, <2>1, <2>2
    <3>2. vag.name # NoVag => ~vag.stop /\ vag.number # MayRead(vag.name)
      BY <2>1, <2>2, <3>1 DEF VoiceInv, Exhausted
    <3> QED BY <1>0, <2>1, <3>1, <3>2 DEF VoiceInv, Exhausted, MayRead, streamVars
  <2>3. CASE cmd_to_process # VAG
    <3>1. location'[VAG] = location[VAG]
      BY <1>0, <2>1, <2>3 DEF CoreType
    <3> QED BY <1>0, <2>1, <3>1 DEF VoiceInv, Exhausted, MayRead, streamVars
  <2> QED BY <2>2, <2>3
<1> QED BY <1>1, <1>2

(* A page is handed over: it is the next one, and the last one is not      *)
(* followed by another.                                                    *)
LEMMA VoiceData ==
  ASSUME IInv, VoiceInv, ProcessVAGData
  PROVE  VoiceInv'
<1> USE NoCmdIsNoFile
<1> DEFINE next == [vag EXCEPT !.number = @ + 1, !.started = TRUE,
                               !.ready = @ /\ vag.number = 0,
                               !.last = @ \/ vag.number + 1 = Pages[vag.name]]
<1>0. /\ Processing(VAG) /\ Consume(VAG) /\ in_progress' = in_progress /\ pc' = "process"
      /\ \/ /\ ~vag.stop /\ vag.number = 0
            /\ vag' = [vag EXCEPT !.stop = TRUE] /\ UNCHANGED <<gPlaying, half>>
         \/ /\ ~vag.stop /\ vag' = next
            /\ gPlaying' = (gPlaying \/ vag.number = 1)
            /\ half' = IF vag.number = 1 THEN 0 ELSE half
         \/ vag.stop /\ UNCHANGED <<vag, gPlaying, half>>
  BY DEF ProcessVAGData, processUnchanged, Processing
<1>1. /\ CoreType /\ ReadInv /\ vag \in VagType /\ vag.number \in Nat
      /\ location[VAG] \in Nat /\ taken[VAG] \in Nat /\ in_progress = (VAG \in Queued)
  BY VagTypes, Parts DEF Core
<1>2. in_progress /\ location[VAG] = taken[VAG] + 1
  <2>1. VAG \in Queued /\ callback_buffer[VAG] # <<>>
    BY <1>0, <1>1 DEF Processing, ReadInv
  <2> QED BY <1>1, <2>1, StreamLocation
<1>3. location' = location /\ taken'[VAG] = taken[VAG] + 1
  BY <1>0, <1>1 DEF Consume, CoreType
<1>4. CASE ~vag.stop /\ vag.number = 0 /\ vag' = [vag EXCEPT !.stop = TRUE] /\ UNCHANGED <<gPlaying, half>>
  <2>1. vag'.name = vag.name /\ vag'.number = vag.number /\ vag'.last = vag.last /\ vag'.stop
    BY <1>1, <1>4 DEF VagType
  <2>2. vag.name # NoVag => location[VAG] = 1
    BY <1>1, <1>2, <1>4 DEF VoiceInv
  <2> QED BY <1>0, <1>2, <1>3, <1>4, <2>1, <2>2 DEF VoiceInv
<1>5. CASE /\ ~vag.stop /\ vag' = next
           /\ gPlaying' = (gPlaying \/ vag.number = 1)
           /\ half' = IF vag.number = 1 THEN 0 ELSE half
  <2>1. /\ vag'.name = vag.name /\ vag'.number = vag.number + 1 /\ ~vag'.stop
        /\ vag'.ready = (vag.ready /\ vag.number = 0)
        /\ vag'.last = (vag.last \/ vag.number + 1 = Pages[vag.name])
    BY <1>1, <1>5 DEF VagType
  <2> HIDE DEF next
  <2>2. gPlaying' => vag'.number >= 2
    <3>1. gPlaying' => gPlaying \/ vag.number = 1
      BY <1>5, Zenon
    <3>2. gPlaying => vag.number >= 2
      BY DEF VoiceInv
    <3> QED BY <1>1, <2>1, <3>1, <3>2
  <2>3. ASSUME vag.name # NoVag
        PROVE  /\ Pages[vag.name] = 1 => half' = 0
               /\ vag'.last <=> vag'.number >= Pages[vag.name]
               /\ vag'.number = taken'[VAG] /\ vag'.number <= MayRead(vag.name)
               /\ vag'.number = MayRead(vag.name) => ~vag'.ready /\ location'[VAG] = vag'.number
    <3>1. /\ Pages[vag.name] \in Nat /\ Pages[vag.name] >= 1
          /\ MayRead(vag.name) \in Nat /\ MayRead(vag.name) >= 2
      BY <2>3, VagTypes, MayReadType
    <3>2. /\ vag.number = taken[VAG] /\ vag.number <= MayRead(vag.name)
          /\ vag.number = MayRead(vag.name) => location[VAG] = vag.number
          /\ vag.last <=> vag.number >= Pages[vag.name]
          /\ Pages[vag.name] = 1 => half = 0
      BY <1>2, <1>5, <2>3 DEF VoiceInv, Exhausted
    <3>3. vag.number < MayRead(vag.name)
      BY <1>1, <1>2, <3>1, <3>2
    <3>4. Pages[vag.name] = 1 => half' = 0
      BY <1>5, <3>2
    <3>5. vag'.last <=> vag'.number >= Pages[vag.name]
      <4>1. vag'.last <=> (vag.last \/ vag.number + 1 = Pages[vag.name])
        BY <2>1, Zenon
      <4>2. vag'.last <=> (vag.number >= Pages[vag.name] \/ vag.number + 1 = Pages[vag.name])
        BY <3>2, <4>1, Zenon
      <4> QED BY <1>1, <2>1, <3>1, <4>2
    <3>6. vag'.number = MayRead(vag.name) => ~vag'.ready
      <4>1. vag'.ready => vag.number = 0
        BY <2>1, Zenon
      <4> QED BY <1>1, <2>1, <3>1, <4>1
    <3> QED BY <1>1, <1>2, <1>3, <2>1, <3>1, <3>2, <3>3, <3>4, <3>5, <3>6
  <2> QED BY <1>0, <1>2, <2>1, <2>2, <2>3 DEF VoiceInv, Exhausted, MayRead
<1>6. CASE vag.stop /\ UNCHANGED <<vag, gPlaying, half>>
  BY <1>0, <1>2, <1>3, <1>6 DEF VoiceInv
<1> QED BY <1>0, <1>4, <1>5, <1>6

LEMMA VoiceStep ==
  ASSUME IInv, VoiceInv, [Next]_vars
  PROVE  VoiceInv'
<1>1. ASSUME NEW c \in Singles, CopyData(c) PROVE VoiceInv'
  BY <1>1, VoiceCallbacks
<1>2. CASE RunDGOStateMachine
  BY <1>2, VoiceCallbacks
<1> QED BY <1>1, <1>2, VoiceOthers, VoicePlays, VoiceCommands, VoiceGoesOn, VoiceReads, VoiceData
        DEF Next, IsoRound

(* No page after the end of a stream is read: neither the thread that      *)
(* fills the SPU buffer nor the voice that empties it can be so far ahead  *)
(* of the other that a page is asked for behind the last one.  A stream of *)
(* one page is the exception: two are read before its length is known.     *)
THEOREM NotOverread == Spec => []StreamNotOverread
<1>1. Init => VoiceInv
  BY DEF Init, NoStream, VoiceInv
<1>2. IInv /\ VoiceInv /\ [Next]_vars => VoiceInv'
  BY VoiceStep
<1>3. IInv /\ VoiceInv => StreamNotOverread
  <2> SUFFICES ASSUME IInv, VoiceInv, vag.name # NoVag
      PROVE  location[VAG] <= MayRead(vag.name)
    BY DEF StreamNotOverread, MayRead
  <2>1. /\ vag.name \in Vags /\ location[VAG] \in Nat /\ taken[VAG] \in Nat
        /\ MayRead(vag.name) \in Nat /\ MayRead(vag.name) >= 2
    BY VagTypes, MayReadType
  <2>2. CASE ~in_progress \/ vag.stop
    BY <2>1, <2>2 DEF VoiceInv
  <2>3. CASE in_progress /\ ~vag.stop
    <3>1. /\ vag.number = taken[VAG] /\ vag.number <= MayRead(vag.name)
          /\ vag.number = MayRead(vag.name) => location[VAG] = vag.number
      BY <2>3 DEF VoiceInv, Exhausted
    <3>2. location[VAG] \in {taken[VAG], taken[VAG] + 1}
      BY <2>3, StreamLocation
    <3> QED BY <2>1, <3>1, <3>2
  <2> QED BY <2>2, <2>3
<1> QED BY <1>1, <1>2, <1>3, Inductive, PTL DEF Spec

=============================================================================
