-------------------------- MODULE IopKernel_proofs --------------------------
(***************************************************************************)
(* IInv is an invariant for every set of servers, every order of           *)
(* priorities and every bound; with it a handler outlives its command, no  *)
(* thread is woken out of a delay, nobody sleeps for ever, and the kernel  *)
(* implements RpcChannel step by step.                                     *)
(***************************************************************************)
EXTENDS IopKernel, TLAPS

-----------------------------------------------------------------------------
(* The queues as sets. *)
LEMMA AppendElements ==
  ASSUME NEW S, NEW q \in Seq(S), NEW x \in S
  PROVE  /\ Append(q, x) \in Seq(S)
         /\ Elements(Append(q, x)) = Elements(q) \cup {x}
<1> DEFINE r == Append(q, x)
<1>1. /\ DOMAIN r = DOMAIN q \cup {Len(q) + 1}
      /\ \A i \in DOMAIN q : r[i] = q[i]
      /\ r[Len(q) + 1] = x
  OBVIOUS
<1>2. r \in Seq(S)
  OBVIOUS
<1> HIDE DEF r
<1>3. Elements(r) = Elements(q) \cup {x}
  BY <1>1 DEF Elements
<1> QED BY <1>2, <1>3 DEF r

LEMMA TailElements ==
  ASSUME NEW S, NEW q \in Seq(S), q # <<>>,
         \A i, j \in DOMAIN q : q[i] = q[j] => i = j
  PROVE  /\ Head(q) \in S /\ Tail(q) \in Seq(S)
         /\ Elements(q) = Elements(Tail(q)) \cup {Head(q)}
         /\ Head(q) \notin Elements(Tail(q))
         /\ \A i, j \in DOMAIN Tail(q) : Tail(q)[i] = Tail(q)[j] => i = j
<1> DEFINE r == Tail(q)
           n == Len(q)
           h == Head(q)
<1>1. /\ n \in Nat \ {0} /\ DOMAIN q = 1 .. n /\ DOMAIN r = 1 .. n - 1
      /\ \A i \in 1 .. n - 1 : r[i] = q[i + 1]
      /\ h = q[1]
  OBVIOUS
<1>2. h \in S /\ r \in Seq(S)
  OBVIOUS
<1> HIDE DEF r, n, h
<1>3. \A i \in 1 .. n : i # 1 => i - 1 \in 1 .. n - 1 /\ (i - 1) + 1 = i
  BY <1>1
<1>4. \A i \in 1 .. n - 1 : i + 1 \in 1 .. n /\ i + 1 # 1
  BY <1>1
<1>5. 1 \in 1 .. n
  BY <1>1
<1>6. Elements(q) = Elements(r) \cup {h}
  <2>1. ASSUME NEW i \in 1 .. n PROVE q[i] \in Elements(r) \cup {h}
    <3>1. CASE i = 1
      BY <1>1, <3>1
    <3>2. CASE i # 1
      <4>1. i - 1 \in DOMAIN r /\ r[i - 1] = q[i]
        BY <1>1, <1>3, <3>2
      <4> QED BY <4>1 DEF Elements
    <3> QED BY <3>1, <3>2
  <2>2. ASSUME NEW i \in 1 .. n - 1 PROVE r[i] \in Elements(q)
    BY <1>1, <1>4 DEF Elements
  <2>3. h \in Elements(q)
    BY <1>1, <1>5 DEF Elements
  <2> QED BY <1>1, <2>1, <2>2, <2>3 DEF Elements
<1>7. h \notin Elements(r)
  BY <1>1, <1>4, <1>5 DEF Elements
<1>8. \A i, j \in DOMAIN r : r[i] = r[j] => i = j
  <2> SUFFICES ASSUME NEW i \in 1 .. n - 1, NEW j \in 1 .. n - 1, r[i] = r[j] PROVE i = j
    BY <1>1
  <2>1. i + 1 \in 1 .. n /\ j + 1 \in 1 .. n /\ q[i + 1] = q[j + 1]
    BY <1>1, <1>4
  <2>2. \A k, l \in 1 .. n : q[k] = q[l] => k = l
    BY <1>1, Zenon
  <2>3. i + 1 = j + 1
    BY <2>1, <2>2, Zenon
  <2>4. i \in Nat /\ j \in Nat
    BY <1>1
  <2> QED BY <2>3, <2>4
<1> QED BY <1>2, <1>6, <1>7, <1>8 DEF r, h

LEMMA WakeupAppended ==
  ASSUME TypeOK, NEW t \in Threads, wakeup_queue' = Append(wakeup_queue, t)
  PROVE  /\ wakeup_queue' \in Seq(Threads)
         /\ processWakeups' = processWakeups \cup {t}
BY AppendElements DEF TypeOK, processWakeups

LEMMA WakeupsKept ==
  ASSUME wakeup_queue' = wakeup_queue
  PROVE  processWakeups' = processWakeups
BY DEF processWakeups

LEMMA HandsKept ==
  ASSUME iso_mbx' = iso_mbx, queue' = queue, reading' = reading
  PROVE  InHands' = InHands
BY DEF InHands

(* A command is sent. *)
LEMMA HandsAppended ==
  ASSUME IInv, NEW s \in Servers, s \notin InHands,
         iso_mbx' = Append(iso_mbx, s), queue' = queue, reading' = reading
  PROVE  /\ iso_mbx' \in Seq(Servers)
         /\ InHands' = InHands \cup {s}
         /\ \A i, j \in DOMAIN iso_mbx' : iso_mbx'[i] = iso_mbx'[j] => i = j
         /\ Elements(iso_mbx') \cap queue' = {}
<1>1. iso_mbx \in Seq(Servers)
  BY DEF IInv, TypeOK
<1>2. /\ iso_mbx' \in Seq(Servers)
      /\ Elements(iso_mbx') = Elements(iso_mbx) \cup {s}
  BY <1>1, AppendElements
<1>3. s \notin queue /\ s \notin Elements(iso_mbx)
  BY DEF InHands
<1>4. /\ DOMAIN iso_mbx' = DOMAIN iso_mbx \cup {Len(iso_mbx) + 1}
      /\ \A i \in DOMAIN iso_mbx : iso_mbx'[i] = iso_mbx[i]
      /\ iso_mbx'[Len(iso_mbx) + 1] = s
  BY <1>1
<1>5. \A i \in DOMAIN iso_mbx : iso_mbx[i] # s
  BY <1>3 DEF Elements
<1>6. \A i, j \in DOMAIN iso_mbx' : iso_mbx'[i] = iso_mbx'[j] => i = j
  BY <1>4, <1>5 DEF IInv, CommandInv
<1> QED BY <1>2, <1>3, <1>6 DEF IInv, CommandInv, InHands

(* The first message of the mailbox is taken. *)
LEMMA MbxTail ==
  ASSUME IInv, iso_mbx # <<>>, iso_mbx' = Tail(iso_mbx)
  PROVE  /\ Head(iso_mbx) \in Servers /\ Head(iso_mbx) \notin queue
         /\ iso_mbx' \in Seq(Servers)
         /\ Elements(iso_mbx) = Elements(iso_mbx') \cup {Head(iso_mbx)}
         /\ Head(iso_mbx) \notin Elements(iso_mbx')
         /\ \A i, j \in DOMAIN iso_mbx' : iso_mbx'[i] = iso_mbx'[j] => i = j
<1>1. /\ iso_mbx \in Seq(Servers)
      /\ \A i, j \in DOMAIN iso_mbx : iso_mbx[i] = iso_mbx[j] => i = j
      /\ Elements(iso_mbx) \cap queue = {}
  BY DEF IInv, TypeOK, CommandInv
<1> QED BY <1>1, TailElements

-----------------------------------------------------------------------------
LEMMA InitInv == Init => IInv
<1> SUFFICES ASSUME Init PROVE IInv
  OBVIOUS
<1>1. processWakeups = {} /\ InHands = {}
  BY KernelAssumption DEF Init, processWakeups, InHands, Elements
<1>2. TypeOK
  BY KernelAssumption DEF Init, TypeOK, Threads, Servers, Flags
<1>3. NoStaleDelay /\ RunInv /\ CommandInv
  BY KernelAssumption DEF Init, NoStaleDelay, RunInv, CommandInv, Elements, Threads, Servers
<1>4. ServerInv
  BY <1>1, KernelAssumption DEF Init, ServerInv, Asleep, Threads, Servers
<1>5. IsoInv
  BY <1>1, KernelAssumption DEF Init, IsoInv, Threads, Servers
<1> QED BY <1>2, <1>3, <1>4, <1>5 DEF IInv

(* A thread that is asleep, or whose wake-up is queued, is not otherwise   *)
(* about to run.                                                           *)
LEMMA ReadyState ==
  ASSUME IInv, current = Nobody, NEW t \in Threads
  PROVE  /\ state[t] # "Run"
         /\ t \in updateDelay => state[t] = "Wait" /\ waitType[t] = "Delay"
         /\ t \in processWakeups => state[t] = "Suspend"
<1>1. state[t] # "Run"
  BY KernelAssumption DEF IInv, RunInv
<1>2. t \in updateDelay => state[t] = "Wait" /\ waitType[t] = "Delay"
  BY DEF IInv, NoStaleDelay, updateDelay
<1>3. t \in Servers /\ t \in processWakeups => state[t] = "Suspend"
  BY <1>1 DEF IInv, ServerInv
<1>4. t = ISO /\ t \in processWakeups => state[t] = "Suspend"
  BY DEF IInv, IsoInv
<1> QED BY <1>1, <1>2, <1>3, <1>4 DEF Threads

LEMMA DispatchInv == ASSUME IInv, Dispatch PROVE IInv'
<1>1. PICK t \in Ready :
        /\ current' = t
        /\ state' = [u \in Threads |-> IF u = t THEN "Run"
                                       ELSE IF u \in Ready THEN "Ready" ELSE state[u]]
  BY DEF Dispatch
<1>2. /\ current = Nobody /\ wakeup_queue' = <<>>
      /\ waitType' = [u \in Threads |-> IF u \in updateDelay THEN "None" ELSE waitType[u]]
      /\ due' = due \ updateDelay
      /\ UNCHANGED <<record, calls, runs, pc, todo, iso_mbx, queue, left, have, reading, job>>
  BY DEF Dispatch, rpcVars, isoVars
<1>3. processWakeups' = {}
  BY <1>2 DEF processWakeups, Elements
<1>4. InHands' = InHands
  BY <1>2, HandsKept
<1>5. t \in Threads
  <2>1. processWakeups \subseteq Threads
    BY DEF processWakeups, Elements, IInv, TypeOK
  <2> QED BY <2>1 DEF Ready, updateDelay, IInv, TypeOK
<1>6. \A u \in Threads :
        /\ state[u] # "Run"
        /\ u \in updateDelay => state[u] = "Wait" /\ waitType[u] = "Delay"
        /\ u \in processWakeups => state[u] = "Suspend"
  BY <1>2, ReadyState
<1>7. \A u \in Threads :
        \/ u \in Ready /\ state'[u] \in {"Run", "Ready"}
        \/ u \notin Ready /\ state'[u] = state[u]
  BY <1>1
<1>8. TypeOK'
  BY <1>1, <1>2, <1>5, <1>7 DEF IInv, TypeOK
<1>9. NoStaleDelay'
  BY <1>2, <1>6, <1>7 DEF IInv, NoStaleDelay, Ready
<1>10. RunInv'
  BY <1>1, <1>5, <1>6, <1>7 DEF IInv, RunInv
<1>11. ServerInv'
  <2> SUFFICES ASSUME NEW s \in Servers PROVE ServerInv!(s)'
    BY DEF ServerInv
  <2>1. s \in Threads
    BY DEF Threads
  <2>2. ServerInv!(s)
    BY DEF IInv, ServerInv
  <2>3. Asleep(s)' <=> Asleep(s)
    BY <1>2, <1>6, <1>7, <2>1, <2>2 DEF Asleep, Ready
  <2>4. pc[s] \in {"take", "asleep"} => state'[s] # "Wait"
    BY <1>6, <1>7, <2>1, <2>2 
  <2> QED BY <1>2, <1>3, <1>4, <1>6, <1>7, <2>1, <2>2, <2>3, <2>4 DEF Ready
<1>12. IsoInv'
  BY <1>2, <1>3, <1>6, <1>7, KernelAssumption DEF IInv, IsoInv, Ready, Threads
<1>13. CommandInv'
  BY <1>2 DEF IInv, CommandInv
<1> QED BY <1>8, <1>9, <1>10, <1>11, <1>12, <1>13 DEF IInv

LEMMA ExpireInv == ASSUME IInv, NEW t \in Threads, Expire(t) PROVE IInv'
<1>1. due' = due \cup {t}
  BY DEF Expire
<1>2. UNCHANGED <<state, waitType, current, wakeup_queue, record, calls, runs, pc, todo,
                  iso_mbx, queue, left, have, reading, job>>
  BY DEF Expire, rpcVars, isoVars
<1>3. processWakeups' = processWakeups /\ InHands' = InHands
  BY <1>2, HandsKept, WakeupsKept
<1>4. TypeOK'
  BY <1>1, <1>2 DEF IInv, TypeOK
<1>5. NoStaleDelay' /\ RunInv' /\ CommandInv'
  BY <1>2 DEF IInv, NoStaleDelay, RunInv, CommandInv
<1>6. ServerInv' /\ IsoInv'
  BY <1>2, <1>3 DEF IInv, ServerInv, IsoInv, Asleep
<1> QED BY <1>4, <1>5, <1>6 DEF IInv

LEMMA CallInv == ASSUME IInv, NEW s \in Servers, sif_rpc(s) PROVE IInv'
<1>0. s \in Threads /\ s # ISO
  BY KernelAssumption DEF Threads
<1>1. /\ record[s].finished /\ wakeup_queue' = Append(wakeup_queue, s)
      /\ record' = [record EXCEPT ![s] = [started |-> FALSE, finished |-> FALSE]]
      /\ calls' = [calls EXCEPT ![s] = @ + 1]
  BY DEF sif_rpc, sif_busy, iWakeupThread
<1>2. UNCHANGED <<state, waitType, due, current, runs, pc, todo, iso_mbx, queue, left,
                  have, reading, job>>
  BY DEF sif_rpc, isoVars
<1>3. /\ wakeup_queue' \in Seq(Threads)
      /\ processWakeups' = processWakeups \cup {s}
  BY <1>0, <1>1, WakeupAppended DEF IInv
<1>4. InHands' = InHands
  BY <1>2, HandsKept
<1>5. TypeOK'
  BY <1>1, <1>2, <1>3 DEF IInv, TypeOK, Flags
<1>6. NoStaleDelay' /\ RunInv' /\ CommandInv'
  BY <1>2 DEF IInv, NoStaleDelay, RunInv, CommandInv
<1>7. ServerInv'
  <2> SUFFICES ASSUME NEW u \in Servers PROVE ServerInv!(u)'
    BY DEF ServerInv
  <2>1. ServerInv!(u)
    BY DEF IInv, ServerInv
  <2>2. record'[u] = IF u = s THEN [started |-> FALSE, finished |-> FALSE] ELSE record[u]
    BY <1>1 DEF IInv, TypeOK
  <2>3. pc[u] = "sleep" => state[u] = "Run"
    BY <2>1
  <2>5. u # s => ServerInv!(u)'
    BY <1>2, <1>3, <1>4, <2>1, <2>2 DEF Asleep
  <2>6. u = s => /\ pc[u] \in {"take", "sleep"} /\ record[u].started
                 /\ pc[u] = "take" => state[u] = "Suspend"
    BY <1>1, <2>1
  <2> QED BY <1>2, <1>3, <1>4, <2>1, <2>2, <2>3, <2>5, <2>6 DEF Asleep
<1>8. IsoInv'
  BY <1>0, <1>2, <1>3 DEF IInv, IsoInv
<1> QED BY <1>5, <1>6, <1>7, <1>8 DEF IInv
-----------------------------------------------------------------------------
(* Steps of an RPC thread.  What the invariant says of the other threads   *)
(* is not disturbed.                                                       *)
LEMMA OthersKept ==
  ASSUME IInv, NEW s \in Servers, NEW w,
         pc' = [pc EXCEPT ![s] = w],
         \A u \in Threads \ {s} : state'[u] = state[u],
         \A u \in Servers \ {s} : record'[u] = record[u],
         \A u \in Servers \ {s} : u \in InHands' <=> u \in InHands,
         processWakeups' = processWakeups, job' = job
  PROVE  /\ \A u \in Servers \ {s} : ServerInv!(u)'
         /\ IsoInv'
<1>0. s \in Threads /\ s # ISO /\ ISO \in Threads
  BY KernelAssumption DEF Threads
<1>1. \A u \in Threads \ {s} : pc'[u] = pc[u]
  BY DEF IInv, TypeOK
<1>2. IsoInv'
  BY <1>0, <1>1 DEF IInv, IsoInv
<1>3. ASSUME NEW u \in Servers \ {s} PROVE ServerInv!(u)'
  <2>1. u \in Threads /\ ServerInv!(u)
    BY DEF Threads, IInv, ServerInv
  <2> QED BY <1>1, <2>1 DEF Asleep
<1> QED BY <1>2, <1>3

LEMMA TakeInv == ASSUME IInv, NEW s \in Servers, rpc_take(s) PROVE IInv'
<1>0. s \in Threads /\ current = s /\ pc[s] = "take" /\ state[s] = "Run"
  BY DEF Threads, rpc_take, At, IInv, RunInv
<1>1. record' = [record EXCEPT ![s].started = TRUE]
  BY DEF rpc_take
<1>2. UNCHANGED <<state, waitType, due, current, wakeup_queue, calls, iso_mbx, queue, left,
                  have, reading, job>>
  BY DEF rpc_take, Stay, kernelVars, isoVars
<1>3. PICK w \in {"sleep", "handle"} :
        /\ pc' = [pc EXCEPT ![s] = w]
        /\ w = "sleep" <=> record[s].started
        /\ todo' \in [Servers -> Nat] /\ runs' \in [Servers -> Nat]
  <2>1. /\ todo \in [Servers -> Nat] /\ runs \in [Servers -> Nat]
        /\ MaxDelays \in Nat /\ MaxLoads \in Nat
    BY KernelAssumption DEF IInv, TypeOK
  <2>2. CASE record[s].started
    BY <2>1, <2>2 DEF rpc_take, Goto
  <2>3. CASE ~record[s].started
    BY <2>1, <2>3 DEF rpc_take, Goto
  <2> QED BY <2>2, <2>3
<1>4. processWakeups' = processWakeups /\ InHands' = InHands
  BY <1>2, HandsKept, WakeupsKept
<1>5. /\ record'[s].started /\ (record'[s].finished <=> record[s].finished)
      /\ \A u \in Servers \ {s} : record'[u] = record[u]
      /\ record' \in [Servers -> Flags]
  <2>1. record \in [Servers -> Flags]
    BY DEF IInv, TypeOK
  <2> QED BY <1>1, <2>1 DEF Flags
<1>6. ServerInv!(s)
  BY DEF IInv, ServerInv
<1>7. pc'[s] = w /\ pc' \in [Threads -> {"take", "sleep", "handle", "asleep", "finish",
                         "poll", "opening", "begin", "reading", "process"}]
  BY <1>0, <1>3 DEF IInv, TypeOK
<1>8. TypeOK'
  BY <1>2, <1>3, <1>5, <1>7 DEF IInv, TypeOK
<1>9. NoStaleDelay' /\ RunInv'
  BY <1>2 DEF IInv, NoStaleDelay, RunInv
<1>10. s # ISO
  BY KernelAssumption
<1>11. CommandInv'
  BY <1>2, <1>3, <1>10 DEF IInv, CommandInv, TypeOK
<1>12. IsoInv' /\ \A u \in Servers \ {s} : ServerInv!(u)'
  BY <1>2, <1>3, <1>4, <1>5, OthersKept
<1>13. ServerInv!(s)'
  BY <1>0, <1>2, <1>3, <1>4, <1>5, <1>6, <1>7 DEF Asleep
<1> QED BY <1>8, <1>9, <1>11, <1>12, <1>13 DEF IInv, ServerInv
(* A step of a server that only moves on, or finishes its command. *)
LEMMA MoveInv ==
  ASSUME IInv, NEW s \in Servers, current = s,
         pc[s] \in {"handle", "asleep"},
         NEW w \in {"handle", "finish"}, pc' = [pc EXCEPT ![s] = w],
         UNCHANGED <<kernelVars, rpcVars, todo, isoVars, job>>
  PROVE  IInv'
<1>0. s \in Threads /\ s # ISO /\ state[s] = "Run"
  BY KernelAssumption DEF Threads, IInv, RunInv
<1>1. UNCHANGED <<state, waitType, due, current, wakeup_queue, record, calls, runs, todo,
                  iso_mbx, queue, left, have, reading, job>>
  BY DEF kernelVars, rpcVars, isoVars
<1>2. processWakeups' = processWakeups /\ InHands' = InHands
  BY <1>1, HandsKept, WakeupsKept
<1>3. pc'[s] = w /\ pc'[ISO] = pc[ISO]
      /\ pc' \in [Threads -> {"take", "sleep", "handle", "asleep", "finish",
                              "poll", "opening", "begin", "reading", "process"}]
  BY <1>0 DEF IInv, TypeOK
<1>4. TypeOK'
  BY <1>1, <1>3 DEF IInv, TypeOK
<1>5. NoStaleDelay' /\ RunInv' /\ CommandInv'
  BY <1>1, <1>3 DEF IInv, NoStaleDelay, RunInv, CommandInv
<1>6. IsoInv' /\ \A u \in Servers \ {s} : ServerInv!(u)'
  BY <1>1, <1>2, OthersKept
<1>7. ServerInv!(s)
  BY DEF IInv, ServerInv
<1>8. ServerInv!(s)'
  BY <1>0, <1>1, <1>2, <1>3, <1>7 DEF Asleep
<1> QED BY <1>4, <1>5, <1>6, <1>8 DEF IInv, ServerInv

LEMMA DoneInv == ASSUME IInv, NEW s \in Servers, HandlerDone(s) PROVE IInv'
BY MoveInv DEF HandlerDone, At, Goto, Stay

LEMMA AwakeInv == ASSUME IInv, NEW s \in Servers, HandlerAwake(s) PROVE IInv'
<1> DEFINE w == IF s = Loader THEN "finish" ELSE "handle"
<1>1. w \in {"handle", "finish"} /\ pc' = [pc EXCEPT ![s] = w]
  BY DEF HandlerAwake, Goto
<1> HIDE DEF w
<1> QED BY <1>1, MoveInv DEF HandlerAwake, At, Stay

LEMMA FinishInv == ASSUME IInv, NEW s \in Servers, rpc_finish(s) PROVE IInv'
<1>0. s \in Threads /\ s # ISO /\ current = s /\ pc[s] = "finish" /\ state[s] = "Run"
  BY KernelAssumption DEF Threads, rpc_finish, At, IInv, RunInv
<1>1. /\ record' = [record EXCEPT ![s].finished = TRUE]
      /\ pc' = [pc EXCEPT ![s] = "sleep"]
  BY DEF rpc_finish, Goto
<1>2. UNCHANGED <<state, waitType, due, current, wakeup_queue, calls, runs, todo, iso_mbx, queue,
                  left, have, reading, job>>
  BY DEF rpc_finish, Stay, kernelVars, isoVars
<1>3. processWakeups' = processWakeups /\ InHands' = InHands
  BY <1>2, HandsKept, WakeupsKept
<1>4. /\ record'[s].finished /\ (record'[s].started <=> record[s].started)
      /\ \A u \in Servers \ {s} : record'[u] = record[u]
      /\ record' \in [Servers -> Flags]
  <2>1. record \in [Servers -> Flags]
    BY DEF IInv, TypeOK
  <2> QED BY <1>1, <2>1 DEF Flags
<1>5. pc'[s] = "sleep" /\ pc'[ISO] = pc[ISO]
      /\ pc' \in [Threads -> {"take", "sleep", "handle", "asleep", "finish",
                              "poll", "opening", "begin", "reading", "process"}]
  BY <1>0, <1>1 DEF IInv, TypeOK
<1>6. TypeOK'
  BY <1>2, <1>4, <1>5 DEF IInv, TypeOK
<1>7. NoStaleDelay' /\ RunInv' /\ CommandInv'
  BY <1>2, <1>5 DEF IInv, NoStaleDelay, RunInv, CommandInv
<1>8. IsoInv' /\ \A u \in Servers \ {s} : ServerInv!(u)'
  BY <1>1, <1>2, <1>3, <1>4, OthersKept
<1>9. ServerInv!(s)
  BY DEF IInv, ServerInv
<1>10. ServerInv!(s)'
  BY <1>0, <1>2, <1>3, <1>4, <1>5, <1>9 DEF Asleep
<1> QED BY <1>6, <1>7, <1>8, <1>10 DEF IInv, ServerInv

(* What SleepThread and DelayThread do to the kernel's own invariants. *)
LEMMA SleepKernel ==
  ASSUME IInv, NEW t \in Threads, current = t, SleepThread(t)
  PROVE  /\ state'[t] = "Suspend" /\ \A u \in Threads \ {t} : state'[u] = state[u]
         /\ state' \in [Threads -> {"Run", "Ready", "Wait", "Suspend"}]
         /\ current' = Nobody /\ NoStaleDelay' /\ RunInv'
         /\ UNCHANGED <<waitType, due, wakeup_queue>>
<1>1. /\ state' = [state EXCEPT ![t] = "Suspend"] /\ current' = Nobody
      /\ UNCHANGED <<waitType, due, wakeup_queue>>
  BY DEF SleepThread
<1>2. /\ state'[t] = "Suspend" /\ \A u \in Threads \ {t} : state'[u] = state[u]
      /\ state' \in [Threads -> {"Run", "Ready", "Wait", "Suspend"}]
  BY <1>1 DEF IInv, TypeOK
<1>3. state[t] = "Run"
  BY DEF IInv, RunInv
<1>4. NoStaleDelay' /\ RunInv'
  BY <1>1, <1>2, <1>3, KernelAssumption DEF IInv, NoStaleDelay, RunInv
<1> QED BY <1>1, <1>2, <1>4

LEMMA DelayKernel ==
  ASSUME IInv, NEW t \in Threads, current = t, DelayThread(t)
  PROVE  /\ state'[t] = "Wait" /\ \A u \in Threads \ {t} : state'[u] = state[u]
         /\ state' \in [Threads -> {"Run", "Ready", "Wait", "Suspend"}]
         /\ waitType' \in [Threads -> {"None", "Delay"}] /\ due' \subseteq Threads
         /\ current' = Nobody /\ NoStaleDelay' /\ RunInv'
         /\ UNCHANGED wakeup_queue
<1>1. /\ state' = [state EXCEPT ![t] = "Wait"] /\ current' = Nobody
      /\ waitType' = [waitType EXCEPT ![t] = "Delay"] /\ due' = due \ {t}
      /\ UNCHANGED wakeup_queue
  BY DEF DelayThread
<1>2. /\ state'[t] = "Wait" /\ \A u \in Threads \ {t} : state'[u] = state[u]
      /\ state' \in [Threads -> {"Run", "Ready", "Wait", "Suspend"}]
      /\ waitType' \in [Threads -> {"None", "Delay"}] /\ due' \subseteq Threads
      /\ \A u \in Threads \ {t} : waitType'[u] = waitType[u]
  BY <1>1 DEF IInv, TypeOK
<1>3. NoStaleDelay' /\ RunInv'
  BY <1>1, <1>2, KernelAssumption DEF IInv, NoStaleDelay, RunInv
<1> QED BY <1>1, <1>2, <1>3

LEMMA ServerSleepInv == ASSUME IInv, NEW s \in Servers, rpc_sleep(s) PROVE IInv'
<1>0. s \in Threads /\ s # ISO /\ current = s /\ pc[s] = "sleep" /\ state[s] = "Run"
  BY KernelAssumption DEF Threads, rpc_sleep, At, IInv, RunInv
<1>1. pc' = [pc EXCEPT ![s] = "take"] /\ SleepThread(s)
  BY DEF rpc_sleep, Goto
<1>2. UNCHANGED <<record, calls, runs, todo, iso_mbx, queue, left, have, reading, job>>
  BY DEF rpc_sleep, rpcVars, isoVars
<1>3. /\ state'[s] = "Suspend" /\ \A u \in Threads \ {s} : state'[u] = state[u]
      /\ state' \in [Threads -> {"Run", "Ready", "Wait", "Suspend"}]
      /\ current' = Nobody /\ NoStaleDelay' /\ RunInv'
      /\ UNCHANGED <<waitType, due, wakeup_queue>>
  BY <1>0, <1>1, SleepKernel
<1>4. processWakeups' = processWakeups /\ InHands' = InHands
  BY <1>2, <1>3, HandsKept, WakeupsKept
<1>5. pc'[s] = "take" /\ pc'[ISO] = pc[ISO]
      /\ pc' \in [Threads -> {"take", "sleep", "handle", "asleep", "finish",
                              "poll", "opening", "begin", "reading", "process"}]
  BY <1>0, <1>1 DEF IInv, TypeOK
<1>6. TypeOK'
  BY <1>2, <1>3, <1>5 DEF IInv, TypeOK
<1>7. CommandInv'
  BY <1>2, <1>5 DEF IInv, CommandInv
<1>8. IsoInv' /\ \A u \in Servers \ {s} : ServerInv!(u)'
  BY <1>1, <1>2, <1>3, <1>4, OthersKept
<1>9. ServerInv!(s)
  BY DEF IInv, ServerInv
<1>10. ServerInv!(s)'
  BY <1>0, <1>2, <1>3, <1>4, <1>5, <1>9 DEF Asleep
<1> QED BY <1>3, <1>6, <1>7, <1>8, <1>10 DEF IInv, ServerInv

LEMMA SendInv ==
  ASSUME IInv, NEW s \in Servers, At(s, "handle"), SendAndSleep(s),
         todo' \in [Servers -> Nat]
  PROVE  IInv'
<1>0. s \in Threads /\ s # ISO /\ current = s /\ pc[s] = "handle" /\ state[s] = "Run"
  BY KernelAssumption DEF Threads, At, IInv, RunInv
<1>1. /\ pc' = [pc EXCEPT ![s] = "asleep"] /\ SleepThread(s)
      /\ iso_mbx' = Append(iso_mbx, s)
  BY DEF SendAndSleep, Goto
<1>2. UNCHANGED <<record, calls, runs, queue, left, have, reading, job>>
  BY DEF SendAndSleep, rpcVars
<1>3. /\ state'[s] = "Suspend" /\ \A u \in Threads \ {s} : state'[u] = state[u]
      /\ state' \in [Threads -> {"Run", "Ready", "Wait", "Suspend"}]
      /\ current' = Nobody /\ NoStaleDelay' /\ RunInv'
      /\ UNCHANGED <<waitType, due, wakeup_queue>>
  BY <1>0, <1>1, SleepKernel
<1>4. ServerInv!(s)
  BY DEF IInv, ServerInv
<1>5. /\ iso_mbx' \in Seq(Servers) /\ InHands' = InHands \cup {s}
      /\ \A i, j \in DOMAIN iso_mbx' : iso_mbx'[i] = iso_mbx'[j] => i = j
      /\ Elements(iso_mbx') \cap queue' = {}
  BY <1>0, <1>1, <1>2, <1>4, HandsAppended DEF Asleep
<1>6. processWakeups' = processWakeups
  BY <1>3, WakeupsKept
<1>7. pc'[s] = "asleep" /\ pc'[ISO] = pc[ISO]
      /\ pc' \in [Threads -> {"take", "sleep", "handle", "asleep", "finish",
                              "poll", "opening", "begin", "reading", "process"}]
  BY <1>0, <1>1 DEF IInv, TypeOK
<1>8. TypeOK'
  BY <1>2, <1>3, <1>5, <1>7 DEF IInv, TypeOK
<1>9. CommandInv'
  BY <1>2, <1>5, <1>7 DEF IInv, CommandInv
<1>10. IsoInv' /\ \A u \in Servers \ {s} : ServerInv!(u)'
  BY <1>1, <1>2, <1>3, <1>5, <1>6, OthersKept
<1>11. ServerInv!(s)'
  BY <1>0, <1>2, <1>3, <1>4, <1>5, <1>6, <1>7 DEF Asleep
<1> QED BY <1>3, <1>8, <1>9, <1>10, <1>11 DEF IInv, ServerInv

LEMMA LoadInv == ASSUME IInv, NEW s \in Servers, HandlerLoad(s) PROVE IInv'
<1>1. todo \in [Servers -> Nat] /\ todo[s] \in Nat \ {0} /\ todo' = [todo EXCEPT ![s] = @ - 1]
  BY DEF HandlerLoad, IInv, TypeOK
<1>2. todo' \in [Servers -> Nat]
  BY <1>1
<1> QED BY <1>2, SendInv DEF HandlerLoad

LEMMA LoaderLoadInv == ASSUME IInv, LoaderLoad PROVE IInv'
<1>1. Loader \in Servers /\ todo' \in [Servers -> Nat]
  BY DEF LoaderLoad, Servers, IInv, TypeOK
<1> QED BY <1>1, SendInv DEF LoaderLoad

LEMMA FadeInv == ASSUME IInv, LoaderFade PROVE IInv'
<1> DEFINE s == Loader
<1>0. /\ s \in Servers /\ s \in Threads /\ s # ISO
      /\ current = s /\ pc[s] = "handle" /\ state[s] = "Run"
  BY KernelAssumption DEF Threads, Servers, LoaderFade, At, IInv, RunInv
<1>1. /\ pc' = pc /\ DelayThread(s)
      /\ UNCHANGED <<record, calls, runs, iso_mbx, queue, left, have, reading, job>>
  BY DEF LoaderFade, rpcVars, isoVars
<1>2. todo' \in [Servers -> Nat]
  <2>1. todo \in [Servers -> Nat] /\ todo[s] \in Nat \ {0} /\ todo' = [todo EXCEPT ![s] = @ - 1]
    BY <1>0 DEF LoaderFade, IInv, TypeOK
  <2> QED BY <1>0, <2>1
<1>3. pc' = [pc EXCEPT ![s] = "handle"]
  BY <1>0, <1>1 DEF IInv, TypeOK
<1> HIDE DEF s
<1>4. /\ state'[s] = "Wait" /\ \A u \in Threads \ {s} : state'[u] = state[u]
      /\ state' \in [Threads -> {"Run", "Ready", "Wait", "Suspend"}]
      /\ waitType' \in [Threads -> {"None", "Delay"}] /\ due' \subseteq Threads
      /\ current' = Nobody /\ NoStaleDelay' /\ RunInv'
      /\ UNCHANGED wakeup_queue
  BY <1>0, <1>1, DelayKernel
<1>5. processWakeups' = processWakeups /\ InHands' = InHands
  BY <1>1, <1>4, HandsKept, WakeupsKept
<1>6. TypeOK'
  BY <1>1, <1>2, <1>4 DEF IInv, TypeOK
<1>7. CommandInv'
  BY <1>1 DEF IInv, CommandInv
<1>8. IsoInv' /\ \A u \in Servers \ {s} : ServerInv!(u)'
  BY <1>0, <1>1, <1>3, <1>4, <1>5, OthersKept
<1>9. ServerInv!(s)
  BY <1>0 DEF IInv, ServerInv
<1>10. ServerInv!(s)'
  BY <1>0, <1>1, <1>4, <1>5, <1>9 DEF Asleep
<1> QED BY <1>4, <1>6, <1>7, <1>8, <1>10 DEF IInv, ServerInv
-----------------------------------------------------------------------------
(* Steps of ISOThread and of the thread pool. *)
LEMMA ServersKept ==
  ASSUME IInv,
         \A u \in Servers : pc'[u] = pc[u] /\ state'[u] = state[u],
         record' = record,
         \A u \in Servers : u \in InHands' <=> u \in InHands,
         \A u \in Servers : u \in processWakeups' <=> u \in processWakeups
  PROVE  ServerInv'
<1> SUFFICES ASSUME NEW u \in Servers PROVE ServerInv!(u)'
  BY DEF ServerInv
<1>1. ServerInv!(u)
  BY DEF IInv, ServerInv
<1> QED BY <1>1 DEF Asleep

LEMMA IsoGoto ==
  ASSUME IInv, NEW w \in {"poll", "opening", "begin", "reading", "process"}, Goto(ISO, w)
  PROVE  /\ pc'[ISO] = w /\ \A u \in Servers : pc'[u] = pc[u] /\ u # ISO
         /\ pc' \in [Threads -> {"take", "sleep", "handle", "asleep", "finish",
                                 "poll", "opening", "begin", "reading", "process"}]
BY KernelAssumption DEF IInv, TypeOK, Goto, Threads

LEMMA IsoRuns ==
  ASSUME IInv, NEW w, At(ISO, w)
  PROVE  /\ ISO \in Threads /\ current = ISO /\ pc[ISO] = w /\ state[ISO] = "Run"
         /\ ISO \notin processWakeups \/ job \in {"woken", "done"}
BY DEF At, Threads, IInv, RunInv, IsoInv

(* ISOThread goes on, and nothing is read or begun. *)
LEMMA IsoMoveInv ==
  ASSUME IInv, NEW v, At(ISO, v), NEW w \in {"begin", "process"}, Goto(ISO, w), Stay,
         UNCHANGED <<rpcVars, todo, isoVars>>,
         job' = "none",
         reading = Nobody \/ w = "process",
         job = "none" \/ v \in {"opening", "reading"}
  PROVE  IInv'
<1>1. UNCHANGED <<state, waitType, due, current, wakeup_queue, record, calls, runs, todo,
                  iso_mbx, queue, left, have, reading>>
  BY DEF Stay, kernelVars, rpcVars, isoVars
<1>2. /\ pc'[ISO] = w /\ \A u \in Servers : pc'[u] = pc[u] /\ u # ISO
      /\ pc' \in [Threads -> {"take", "sleep", "handle", "asleep", "finish",
                              "poll", "opening", "begin", "reading", "process"}]
  BY IsoGoto
<1>3. /\ ISO \in Threads /\ current = ISO /\ pc[ISO] = v /\ state[ISO] = "Run"
  BY IsoRuns
<1>4. processWakeups' = processWakeups /\ InHands' = InHands
  BY <1>1, HandsKept, WakeupsKept
<1>5. ISO \notin processWakeups
  BY <1>3 DEF IInv, IsoInv
<1>6. TypeOK'
  BY <1>1, <1>2 DEF IInv, TypeOK
<1>7. NoStaleDelay' /\ RunInv'
  BY <1>1 DEF IInv, NoStaleDelay, RunInv
<1>8. ServerInv'
  BY <1>1, <1>2, <1>3, <1>4, ServersKept DEF Threads
<1>9. IsoInv'
  BY <1>1, <1>2, <1>3, <1>4, <1>5 DEF IInv, IsoInv
<1>10. CommandInv'
  BY <1>1, <1>2, KernelAssumption DEF IInv, CommandInv
<1> QED BY <1>6, <1>7, <1>8, <1>9, <1>10 DEF IInv

LEMMA NotReading ==
  ASSUME IInv, pc[ISO] \notin {"reading", "process"}
  PROVE  reading = Nobody /\ (pc[ISO] # "opening" => job = "none")
BY DEF IInv, CommandInv, IsoInv

LEMMA PollEmptyInv == ASSUME IInv, iso_poll_empty PROVE IInv'
<1>1. pc[ISO] = "poll"
  BY DEF iso_poll_empty, At
<1>2. reading = Nobody /\ job = "none"
  BY <1>1, NotReading
<1> QED BY <1>2, IsoMoveInv DEF iso_poll_empty

LEMMA OpenedInv == ASSUME IInv, iso_opened PROVE IInv'
<1>1. pc[ISO] = "opening"
  BY DEF iso_opened, At
<1>2. reading = Nobody
  BY <1>1, NotReading
<1> QED BY <1>2, IsoMoveInv DEF iso_opened

LEMMA NothingInv == ASSUME IInv, iso_nothing_to_read PROVE IInv'
<1>1. pc[ISO] = "begin"
  BY DEF iso_nothing_to_read, At
<1>2. job = "none"
  BY <1>1, NotReading
<1> QED BY <1>2, IsoMoveInv DEF iso_nothing_to_read

LEMMA ReadInv == ASSUME IInv, iso_read PROVE IInv'
BY IsoMoveInv DEF iso_read

(* ISOThread gives a job to the pool and sleeps; the commands it holds are *)
(* the same.                                                               *)
LEMMA SubmitInv ==
  ASSUME IInv, NEW v \in {"poll", "begin"}, At(ISO, v),
         NEW j \in {"open", "read"}, NEW w \in {"opening", "reading"},
         SubmitAndSleep(j, w), UNCHANGED <<rpcVars, todo>>,
         iso_mbx' \in Seq(Servers), queue' \subseteq FileServers,
         left' \in [Servers -> Nat], have' \in [Servers -> 0 .. 2],
         reading' \in FileServers \cup {Nobody},
         InHands' = InHands,
         CommandInv'
  PROVE  IInv'
<1>1. /\ UNCHANGED <<record, calls, runs, todo>>
      /\ job' = j /\ SleepThread(ISO) /\ Goto(ISO, w)
  BY DEF SubmitAndSleep, rpcVars
<1>2. /\ pc'[ISO] = w /\ \A u \in Servers : pc'[u] = pc[u] /\ u # ISO
      /\ pc' \in [Threads -> {"take", "sleep", "handle", "asleep", "finish",
                              "poll", "opening", "begin", "reading", "process"}]
  BY <1>1, IsoGoto
<1>3. /\ ISO \in Threads /\ current = ISO /\ pc[ISO] = v /\ state[ISO] = "Run"
  BY IsoRuns
<1>4. /\ state'[ISO] = "Suspend" /\ \A u \in Threads \ {ISO} : state'[u] = state[u]
      /\ state' \in [Threads -> {"Run", "Ready", "Wait", "Suspend"}]
      /\ current' = Nobody /\ NoStaleDelay' /\ RunInv'
      /\ UNCHANGED <<waitType, due, wakeup_queue>>
  BY <1>1, <1>3, SleepKernel
<1>5. processWakeups' = processWakeups /\ ISO \notin processWakeups
  BY <1>3, <1>4, WakeupsKept DEF IInv, IsoInv
<1>6. TypeOK'
  BY <1>1, <1>2, <1>4 DEF IInv, TypeOK
<1>7. ServerInv'
  BY <1>1, <1>2, <1>4, <1>5, ServersKept DEF Threads
<1>8. IsoInv'
  BY <1>1, <1>2, <1>4, <1>5 DEF IInv, IsoInv
<1> QED BY <1>4, <1>6, <1>7, <1>8 DEF IInv

LEMMA PollFileInv == ASSUME IInv, NEW s \in Servers, iso_poll_file(s) PROVE IInv'
<1>1. /\ pc[ISO] = "poll" /\ iso_mbx # <<>> /\ s = Head(iso_mbx) /\ s # Loader
      /\ iso_mbx' = Tail(iso_mbx) /\ queue' = queue \cup {s} /\ reading' = reading
  BY DEF iso_poll_file, At
<1>2. /\ s \notin queue /\ iso_mbx' \in Seq(Servers)
      /\ Elements(iso_mbx) = Elements(iso_mbx') \cup {s} /\ s \notin Elements(iso_mbx')
      /\ \A i, k \in DOMAIN iso_mbx' : iso_mbx'[i] = iso_mbx'[k] => i = k
  BY <1>1, MbxTail
<1>3. InHands' = InHands
  BY <1>1, <1>2 DEF InHands
<1>4. PICK n \in 1 .. MaxReads : left' = [left EXCEPT ![s] = n]
  BY DEF iso_poll_file
<1>5. /\ left' \in [Servers -> Nat] /\ have' \in [Servers -> 0 .. 2]
      /\ left'[s] > 0 /\ \A u \in Servers \ {s} : left'[u] = left[u]
  <2>1. n \in Nat /\ n > 0
    BY KernelAssumption
  <2>2. have' = [have EXCEPT ![s] = 0]
    BY DEF iso_poll_file
  <2> QED BY <1>4, <2>1, <2>2 DEF IInv, TypeOK
<1>6. queue \subseteq FileServers /\ s \in FileServers /\ FileServers \subseteq Servers
  BY <1>1 DEF IInv, TypeOK, Servers
<1>7. reading = Nobody
  BY <1>1, NotReading
<1>8. CommandInv'
  BY <1>1, <1>2, <1>5, <1>6, <1>7 DEF IInv, CommandInv
<1> QED BY <1>1, <1>2, <1>3, <1>5, <1>6, <1>7, <1>8, SubmitInv DEF iso_poll_file

LEMMA BeginReadInv == ASSUME IInv, NEW s \in Servers, FS_BeginRead(s) PROVE IInv'
<1>1. /\ pc[ISO] = "begin" /\ s \in queue /\ have[s] < 2 /\ reading' = s
      /\ UNCHANGED <<iso_mbx, queue, left, have>>
      /\ SubmitAndSleep("read", "reading")
  BY DEF FS_BeginRead, At
<1>2. reading = Nobody
  BY <1>1, NotReading
<1>3. InHands' = InHands
  BY <1>1, <1>2 DEF InHands
<1>4. pc'[ISO] = "reading"
  BY <1>1, IsoGoto DEF SubmitAndSleep
<1>5. CommandInv'
  BY <1>1, <1>4 DEF IInv, CommandInv
<1>6. /\ iso_mbx' \in Seq(Servers) /\ queue' \subseteq FileServers
      /\ left' \in [Servers -> Nat] /\ have' \in [Servers -> 0 .. 2]
      /\ reading' \in FileServers \cup {Nobody}
  BY <1>1 DEF IInv, TypeOK
<1> QED BY <1>3, <1>5, <1>6, SubmitInv DEF FS_BeginRead

(* Commands are returned to handlers that sleep, and leave ISOThread. *)
LEMMA ReturnServer ==
  ASSUME IInv, NEW S, \A u \in S : u \in InHands /\ u \in Servers,
         \A u \in Servers : pc'[u] = pc[u],
         \A u \in Servers : state'[u] = IF u \in S THEN "Ready" ELSE state[u],
         record' = record,
         InHands' = InHands \ S,
         processWakeups' = processWakeups
  PROVE  ServerInv'
<1> SUFFICES ASSUME NEW u \in Servers PROVE ServerInv!(u)'
  BY DEF ServerInv
<1>1. ServerInv!(u)
  BY DEF IInv, ServerInv
<1> QED BY <1>1 DEF Asleep

LEMMA PollMusicInv == ASSUME IInv, iso_poll_music PROVE IInv'
<1>1. /\ At(ISO, "poll") /\ iso_mbx # <<>> /\ Head(iso_mbx) = Loader
      /\ iso_mbx' = Tail(iso_mbx) /\ state' = WakeupThreads({Loader}) /\ Goto(ISO, "begin")
      /\ UNCHANGED <<waitType, due, current, wakeup_queue, record, calls, runs, todo, queue, left,
                     have, reading, job>>
  BY DEF iso_poll_music, rpcVars
<1>2. /\ Loader \in Servers /\ Loader \notin queue /\ iso_mbx' \in Seq(Servers)
      /\ Elements(iso_mbx) = Elements(iso_mbx') \cup {Loader} /\ Loader \notin Elements(iso_mbx')
      /\ \A i, k \in DOMAIN iso_mbx' : iso_mbx'[i] = iso_mbx'[k] => i = k
  BY <1>1, MbxTail
<1>3. /\ pc'[ISO] = "begin" /\ \A u \in Servers : pc'[u] = pc[u] /\ u # ISO
      /\ pc' \in [Threads -> {"take", "sleep", "handle", "asleep", "finish",
                              "poll", "opening", "begin", "reading", "process"}]
  BY <1>1, IsoGoto
<1>4. ISO \in Threads /\ current = ISO /\ pc[ISO] = "poll" /\ state[ISO] = "Run"
  BY <1>1, IsoRuns
<1>5. reading = Nobody /\ job = "none"
  BY <1>4, NotReading
<1>6. InHands' = InHands \ {Loader} /\ Loader \in InHands
  BY <1>1, <1>2, <1>5 DEF InHands
<1>7. processWakeups' = processWakeups
  BY <1>1, WakeupsKept
<1>8. \A u \in Threads : state'[u] = IF u = Loader THEN "Ready" ELSE state[u]
  BY <1>1 DEF WakeupThreads
<1>9. TypeOK'
  BY <1>1, <1>2, <1>3 DEF IInv, TypeOK, WakeupThreads
<1>10. Asleep(Loader)
  BY <1>2, <1>6 DEF IInv, ServerInv
<1>11. NoStaleDelay' /\ RunInv'
  BY <1>1, <1>4, <1>8, <1>10 DEF IInv, NoStaleDelay, RunInv, Asleep
<1>12. ServerInv'
  <2>1. \A u \in {Loader} : u \in InHands /\ u \in Servers
    BY <1>2, <1>6
  <2>2. \A u \in Servers : state'[u] = IF u \in {Loader} THEN "Ready" ELSE state[u]
    BY <1>8 DEF Threads
  <2>3. \A u \in Servers : pc'[u] = pc[u]
    BY <1>3
  <2>4. record' = record
    BY <1>1
  <2> QED BY <1>6, <1>7, <2>1, <2>2, <2>3, <2>4, ReturnServer
<1>13. IsoInv'
  BY <1>1, <1>2, <1>3, <1>4, <1>5, <1>7, <1>8 DEF IInv, IsoInv
<1>14. CommandInv'
  BY <1>1, <1>2, <1>5 DEF IInv, CommandInv
<1> QED BY <1>9, <1>11, <1>12, <1>13, <1>14 DEF IInv

LEMMA ProcessInv == ASSUME IInv, ProcessMessageData PROVE IInv'
<1>1. /\ At(ISO, "process") /\ Goto(ISO, "poll") /\ reading' = Nobody
      /\ queue' = queue \ Finished /\ ReturnMessages
      /\ UNCHANGED <<wakeup_queue, record, calls, runs, todo, iso_mbx, job>>
  BY DEF ProcessMessageData, rpcVars
<1>2. /\ pc'[ISO] = "poll" /\ \A u \in Servers : pc'[u] = pc[u] /\ u # ISO
      /\ pc' \in [Threads -> {"take", "sleep", "handle", "asleep", "finish",
                              "poll", "opening", "begin", "reading", "process"}]
  BY <1>1, IsoGoto
<1>3. ISO \in Threads /\ current = ISO /\ pc[ISO] = "process" /\ state[ISO] = "Run"
  BY <1>1, IsoRuns
<1>4. job = "none" /\ ISO \notin processWakeups
  BY <1>3 DEF IInv, IsoInv
<1>5. processWakeups' = processWakeups
  BY <1>1, WakeupsKept
<1>6. /\ Finished \subseteq queue /\ queue \subseteq FileServers /\ queue \subseteq Servers
      /\ Fed \subseteq queue /\ Finished \subseteq Fed
  BY DEF Finished, Fed, IInv, TypeOK, Servers
<1>7. /\ Elements(iso_mbx') = Elements(iso_mbx) /\ Elements(iso_mbx) \cap queue = {}
      /\ reading # Nobody => reading \in queue
  BY <1>1 DEF IInv, CommandInv
<1>8. InHands' = InHands \ Finished /\ \A u \in Finished : u \in InHands /\ u \in Servers
  BY <1>1, <1>6, <1>7 DEF InHands
<1>9. \A u \in Finished : state[u] = "Suspend"
  BY <1>8 DEF IInv, ServerInv, Asleep
<1>10. /\ \A u \in Servers : state'[u] = IF u \in Finished THEN "Ready" ELSE state[u]
       /\ state' \in [Threads -> {"Run", "Ready", "Wait", "Suspend"}]
       /\ waitType' \in [Threads -> {"None", "Delay"}]
       /\ due' \subseteq Threads /\ current' \in Threads \cup {Nobody}
       /\ state'[ISO] \in {"Run", "Wait"} /\ NoStaleDelay' /\ RunInv'
  <2>0. ISO \notin Finished /\ \A u \in Servers : u \in Threads /\ u # ISO
    BY <1>2, <1>6 DEF Threads
  <2>1. CASE reading = Nobody
    <3>1. /\ state' = [WakeupThreads(Finished) EXCEPT ![ISO] = "Wait"]
          /\ waitType' = [waitType EXCEPT ![ISO] = "Delay"]
          /\ due' = due \ {ISO} /\ current' = Nobody
      BY <1>1, <2>1 DEF ReturnMessages
    <3>2. \A u \in Threads : state'[u] = IF u = ISO THEN "Wait"
                                         ELSE IF u \in Finished THEN "Ready" ELSE state[u]
      BY <3>1 DEF WakeupThreads
    <3>3. state' \in [Threads -> {"Run", "Ready", "Wait", "Suspend"}]
      BY <1>3, <3>1 DEF WakeupThreads, IInv, TypeOK
    <3>4. /\ waitType' \in [Threads -> {"None", "Delay"}] /\ due' \subseteq Threads
          /\ \A u \in Threads \ {ISO} : waitType'[u] = waitType[u]
      BY <3>1 DEF IInv, TypeOK
    <3>5. NoStaleDelay'
      BY <1>9, <3>2, <3>4 DEF IInv, NoStaleDelay
    <3>6. RunInv'
      BY <1>3, <3>1, <3>2, KernelAssumption DEF IInv, RunInv
    <3> QED BY <1>3, <2>0, <3>1, <3>2, <3>3, <3>4, <3>5, <3>6
  <2>2. CASE reading # Nobody
    <3>1. state' = WakeupThreads(Finished) /\ UNCHANGED <<waitType, due, current>>
      BY <1>1, <2>2 DEF ReturnMessages
    <3>2. \A u \in Threads : state'[u] = IF u \in Finished THEN "Ready" ELSE state[u]
      BY <3>1 DEF WakeupThreads
    <3>3. state' \in [Threads -> {"Run", "Ready", "Wait", "Suspend"}]
      BY <3>1 DEF WakeupThreads, IInv, TypeOK
    <3>4. NoStaleDelay'
      BY <1>9, <3>1, <3>2 DEF IInv, NoStaleDelay
    <3>5. RunInv'
      BY <1>9, <3>1, <3>2 DEF IInv, RunInv
    <3> QED BY <1>3, <2>0, <3>1, <3>2, <3>3, <3>4, <3>5 DEF IInv, TypeOK
  <2> QED BY <2>1, <2>2
<1>11. /\ left' \in [Servers -> Nat] /\ \A u \in queue' : left'[u] > 0
  <2>1. left' = [s \in Servers |-> IF s \in Fed THEN left[s] - 1 ELSE left[s]]
    BY DEF ProcessMessageData
  <2>2. \A u \in Servers : left[u] \in Nat /\ (u \in Fed => left[u] > 0)
    BY <1>6 DEF IInv, TypeOK, CommandInv
  <2>3. left' \in [Servers -> Nat]
    BY <2>1, <2>2
  <2>4. ASSUME NEW u \in queue' PROVE left'[u] > 0
    <3>1. u \in queue /\ u \in Servers /\ left[u] > 0 /\ (u \in Fed => left[u] # 1)
      BY <1>1, <1>6 DEF Finished, IInv, CommandInv
    <3> QED BY <2>1, <2>2, <3>1
  <2> QED BY <2>3, <2>4
<1>12. have' \in [Servers -> 0 .. 2]
  <2>1. have' = [s \in Servers |->
                   IF s \in Finished THEN 0
                   ELSE have[s] - (IF s \in Fed THEN 1 ELSE 0) + (IF s = reading THEN 1 ELSE 0)]
    BY DEF ProcessMessageData
  <2>2. \A s \in Servers : /\ have[s] \in 0 .. 2
                           /\ s \in Fed => have[s] > 0
                           /\ s = reading => have[s] < 2
    BY KernelAssumption DEF Fed, IInv, TypeOK, CommandInv, Threads
  <2> QED BY <2>1, <2>2
<1>13. queue' \subseteq FileServers
  BY <1>1, <1>6
<1>14. TypeOK'
  BY <1>1, <1>2, <1>10, <1>11, <1>12, <1>13 DEF IInv, TypeOK
<1>15. ServerInv'
  BY <1>1, <1>2, <1>5, <1>8, <1>10, ReturnServer
<1>16. IsoInv'
  BY <1>1, <1>2, <1>4, <1>5, <1>10 DEF IsoInv
<1>17. CommandInv'
  BY <1>1, <1>7, <1>11 DEF IInv, CommandInv
<1> QED BY <1>10, <1>14, <1>15, <1>16, <1>17 DEF IInv

LEMMA PoolInv == ASSUME IInv, PoolWake \/ PoolReturn PROVE IInv'
<1>1. UNCHANGED <<state, waitType, due, current, record, calls, runs, pc, todo, iso_mbx, queue,
                  left, have, reading>>
  BY DEF PoolWake, PoolReturn, kernelVars, rpcVars, isoVars
<1>2. ISO \in Threads /\ \A u \in Servers : u # ISO
  BY KernelAssumption DEF Threads
<1>3. InHands' = InHands
  BY <1>1, HandsKept
<1>4. /\ wakeup_queue' \in Seq(Threads) /\ job' \in {"none", "open", "read", "woken", "done"}
      /\ \A u \in Servers : u \in processWakeups' <=> u \in processWakeups
      /\ IsoInv'
  <2>1. CASE PoolWake
    <3>1. wakeup_queue' = Append(wakeup_queue, ISO) /\ job \in {"open", "read"} /\ job' = "woken"
      BY <2>1 DEF PoolWake, iWakeupThread
    <3>2. wakeup_queue' \in Seq(Threads) /\ processWakeups' = processWakeups \cup {ISO}
      BY <1>2, <3>1, WakeupAppended DEF IInv
    <3> QED BY <1>1, <1>2, <3>1, <3>2 DEF IInv, IsoInv
  <2>2. CASE PoolReturn
    <3>1. wakeup_queue' = wakeup_queue /\ job = "woken" /\ job' = "done"
      BY <2>2 DEF PoolReturn, kernelVars
    <3>2. processWakeups' = processWakeups
      BY <3>1, WakeupsKept
    <3> QED BY <1>1, <3>1, <3>2 DEF IInv, IsoInv, TypeOK
  <2> QED BY <2>1, <2>2
<1>5. TypeOK'
  BY <1>1, <1>4 DEF IInv, TypeOK
<1>6. NoStaleDelay' /\ RunInv' /\ CommandInv'
  BY <1>1 DEF IInv, NoStaleDelay, RunInv, CommandInv
<1>7. ServerInv'
  BY <1>1, <1>3, <1>4, ServersKept
<1> QED BY <1>4, <1>5, <1>6, <1>7 DEF IInv
-----------------------------------------------------------------------------
LEMMA NextInv == IInv /\ [Next]_vars => IInv'
<1> SUFFICES ASSUME IInv, [Next]_vars PROVE IInv'
  OBVIOUS
<1>1. CASE Dispatch
  BY <1>1, DispatchInv
<1>2. CASE \E s \in Servers : Server(s)
  <2>1. PICK s \in Servers : Server(s)
    BY <1>2
  <2> QED BY <2>1, TakeInv, ServerSleepInv, FinishInv, LoadInv, DoneInv, AwakeInv DEF Server
<1>3. CASE LoaderFade \/ LoaderLoad
  BY <1>3, FadeInv, LoaderLoadInv
<1>4. CASE IsoThread
  BY <1>4, PollFileInv, BeginReadInv, PollMusicInv, PollEmptyInv, OpenedInv, NothingInv,
     ReadInv, ProcessInv DEF IsoThread
<1>5. CASE PoolWake \/ PoolReturn
  BY <1>5, PoolInv
<1>6. CASE \E t \in Threads : Expire(t)
  BY <1>6, ExpireInv
<1>7. CASE \E s \in Servers : sif_rpc(s)
  BY <1>7, CallInv
<1>8. CASE UNCHANGED vars
  <2>1. UNCHANGED <<state, waitType, due, current, wakeup_queue, record, calls, runs, pc, todo,
                    iso_mbx, queue, left, have, reading, job>>
    BY <1>8 DEF vars, kernelVars, rpcVars, isoVars
  <2>2. processWakeups' = processWakeups /\ InHands' = InHands
    BY <2>1, HandsKept, WakeupsKept
  <2>3. TypeOK' /\ NoStaleDelay' /\ RunInv' /\ CommandInv'
    BY <2>1 DEF IInv, TypeOK, NoStaleDelay, RunInv, CommandInv
  <2>4. ServerInv' /\ IsoInv'
    BY <2>1, <2>2 DEF IInv, ServerInv, IsoInv, Asleep
  <2> QED BY <2>3, <2>4 DEF IInv
<1> QED BY <1>1, <1>2, <1>3, <1>4, <1>5, <1>6, <1>7, <1>8 DEF Next, Running

(* Every reachable state satisfies the inductive invariant. *)
THEOREM Invariant == Spec => []IInv
<1>1. Init => IInv
  BY InitInv
<1>2. IInv /\ [Next]_vars => IInv'
  BY NextInv
<1> QED BY <1>1, <1>2, PTL DEF Spec

(* No command is left in the ISO thread's hands by a handler that runs. *)
THEOREM Outlived == Spec => []CommandsOutlived
<1>1. IInv => CommandsOutlived
  <2> SUFFICES ASSUME IInv, NEW s \in InHands PROVE Asleep(s)
    BY DEF CommandsOutlived
  <2>1. s \in Servers
    BY DEF InHands, Elements, IInv, TypeOK, Servers
  <2> QED BY <2>1 DEF IInv, ServerInv
<1> QED BY <1>1, Invariant, PTL

(* No thread is woken out of a delay. *)
THEOREM Delays == Spec => []NoStaleDelay
<1>1. IInv => NoStaleDelay
  BY DEF IInv
<1> QED BY <1>1, Invariant, PTL

(* Whoever sleeps, and is owed a wake-up, has one under way. *)
THEOREM Woken == Spec => []SleepersWillBeWoken
<1>1. IInv => SleepersWillBeWoken
  <2> SUFFICES ASSUME IInv PROVE SleepersWillBeWoken
    OBVIOUS
  <2>1. \A s \in Servers : ServerInv!(s)
    BY DEF IInv, ServerInv
  <2>2. state[ISO] = "Suspend" => job \in {"open", "read"} \/ ISO \in processWakeups
    <3>1. job \in {"none", "open", "read", "woken", "done"}
      BY DEF IInv, TypeOK
    <3>2. /\ pc[ISO] \in {"poll", "opening", "begin", "reading", "process"}
          /\ pc[ISO] \in {"begin", "process"} => state[ISO] = "Run"
          /\ pc[ISO] = "poll" => state[ISO] # "Suspend"
          /\ job # "none" <=> pc[ISO] \in {"opening", "reading"}
          /\ job \in {"woken", "done"} => (state[ISO] = "Suspend" <=> ISO \in processWakeups)
      BY DEF IInv, IsoInv
    <3> QED BY <3>1, <3>2
  <2> QED BY <2>1, <2>2 DEF SleepersWillBeWoken
<1> QED BY <1>1, Invariant, PTL

-----------------------------------------------------------------------------
(* The phase of a channel, as its record shows it. *)
Phase == [s \in Servers |-> IF record[s].finished THEN "idle"
                            ELSE IF record[s].started THEN "handled" ELSE "called"]

LEMMA ChannelInit == Init => Channel!Init
BY DEF Init, Channel!Init

LEMMA PhaseKept == ASSUME record' = record PROVE Phase' = Phase
BY DEF Phase

(* A step of the kernel is a step of the channels, or none. *)
LEMMA ChannelStep == IInv /\ [Next]_vars => [Channel!Next]_(Channel!rvars)
<1> SUFFICES ASSUME IInv, [Next]_vars PROVE Channel!Next \/ UNCHANGED <<Phase, calls, runs>>
  BY DEF Channel!rvars, Phase
<1>1. \A s \in Servers : ServerInv!(s)
  BY DEF IInv, ServerInv
<1>2. record \in [Servers -> Flags] /\ runs \in [Servers -> Nat] /\ calls \in [Servers -> Nat]
  BY DEF IInv, TypeOK
<1>3. ASSUME NEW s \in Servers, sif_rpc(s) PROVE Channel!Call(s)
  <2>1. /\ record[s].finished /\ calls' = [calls EXCEPT ![s] = @ + 1] /\ runs' = runs
        /\ record' = [record EXCEPT ![s] = [started |-> FALSE, finished |-> FALSE]]
    BY <1>3 DEF sif_rpc, sif_busy
  <2>2. Phase[s] = "idle" /\ Phase' = [Phase EXCEPT ![s] = "called"]
    BY <1>2, <2>1 DEF Phase, Flags
  <2> QED BY <2>1, <2>2 DEF Channel!Call, Phase
<1>4. ASSUME NEW s \in Servers, rpc_take(s)
      PROVE  Channel!Enter(s) \/ UNCHANGED <<Phase, calls, runs>>
  <2>1. record' = [record EXCEPT ![s].started = TRUE] /\ calls' = calls
    BY <1>4 DEF rpc_take
  <2>2. CASE record[s].started
    <3>1. record' = record /\ runs' = runs
      BY <1>2, <1>4, <2>1, <2>2 DEF rpc_take, Flags
    <3> QED BY <2>1, <3>1, PhaseKept
  <2>3. CASE ~record[s].started
    <3>1. runs' = [runs EXCEPT ![s] = @ + 1]
      BY <1>4, <2>3 DEF rpc_take
    <3>2. ~record[s].finished
      BY <1>1, <2>3
    <3>3. Phase[s] = "called" /\ Phase' = [Phase EXCEPT ![s] = "handled"]
      BY <1>2, <2>1, <2>3, <3>2 DEF Phase, Flags
    <3> QED BY <2>1, <3>1, <3>3 DEF Channel!Enter, Phase
  <2> QED BY <2>2, <2>3
<1>5. ASSUME NEW s \in Servers, rpc_finish(s) PROVE Channel!Return(s)
  <2>1. /\ record' = [record EXCEPT ![s].finished = TRUE] /\ calls' = calls /\ runs' = runs
        /\ pc[s] = "finish"
    BY <1>5 DEF rpc_finish, At
  <2>2. ~record[s].finished /\ record[s].started
    BY <1>1, <2>1
  <2>3. Phase[s] = "handled" /\ Phase' = [Phase EXCEPT ![s] = "idle"]
    BY <1>2, <2>1, <2>2 DEF Phase, Flags
  <2> QED BY <2>1, <2>3 DEF Channel!Return, Phase
<1>6. ASSUME UNCHANGED rpcVars PROVE UNCHANGED <<Phase, calls, runs>>
  BY <1>6, PhaseKept DEF rpcVars
<1>7. CASE \E s \in Servers : Server(s)
  <2>1. PICK s \in Servers : Server(s)
    BY <1>7
  <2>2. CASE rpc_take(s)
    BY <1>4, <2>2 DEF Channel!Next
  <2>3. CASE rpc_finish(s)
    BY <1>5, <2>3 DEF Channel!Next
  <2>4. CASE rpc_sleep(s) \/ HandlerLoad(s) \/ HandlerDone(s) \/ HandlerAwake(s)
    <3>1. UNCHANGED rpcVars
      BY <2>4 DEF rpc_sleep, HandlerLoad, HandlerDone, HandlerAwake, SendAndSleep
    <3> QED BY <1>6, <3>1
  <2> QED BY <2>1, <2>2, <2>3, <2>4 DEF Server
<1>8. CASE LoaderFade \/ LoaderLoad
  <2>1. UNCHANGED rpcVars
    BY <1>8 DEF LoaderFade, LoaderLoad, SendAndSleep
  <2> QED BY <1>6, <2>1
<1>9. CASE IsoThread
  <2>1. UNCHANGED rpcVars
    BY <1>9 DEF IsoThread, iso_poll_file, FS_BeginRead, iso_poll_music, iso_poll_empty,
      iso_opened, iso_nothing_to_read, iso_read, ProcessMessageData
  <2> QED BY <1>6, <2>1
<1>10. CASE Dispatch \/ PoolWake \/ PoolReturn \/ \E t \in Threads : Expire(t)
  <2>1. UNCHANGED rpcVars
    BY <1>10 DEF Dispatch, PoolWake, PoolReturn, Expire
  <2> QED BY <1>6, <2>1
<1>11. CASE \E s \in Servers : sif_rpc(s)
  BY <1>3, <1>11 DEF Channel!Next
<1>12. CASE UNCHANGED vars
  <2>1. UNCHANGED rpcVars
    BY <1>12 DEF vars
  <2> QED BY <1>6, <2>1
<1> QED BY <1>7, <1>8, <1>9, <1>10, <1>11, <1>12 DEF Next, Running

(* Without its fairness, RpcChannel is implemented for every value of the  *)
(* constants.                                                              *)
THEOREM Implements == Spec => Channel!Init /\ [][Channel!Next]_(Channel!rvars)
<1>1. Init => Channel!Init
  BY ChannelInit
<1>2. IInv /\ [Next]_vars => [Channel!Next]_(Channel!rvars)
  BY ChannelStep
<1> QED BY <1>1, <1>2, Invariant, PTL DEF Spec
=============================================================================
