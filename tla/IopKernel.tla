----------------------------- MODULE IopKernel -----------------------------
(***************************************************************************)
(* The IOP kernel (system/IOP_Kernel.cpp): cooperative threads by          *)
(* priority, sleeping and delays, wake-ups queued by other host threads,   *)
(* and the RPC records the EE calls through; with the threads that stress  *)
(* it: RPC servers whose handlers sleep until the ISO thread has carried   *)
(* out a command that lies on their own stack (iso_api.cpp), and the ISO   *)
(* thread, which sleeps in turn while the host's thread pool opens and     *)
(* reads files (fake_iso.cpp).                                             *)
(*                                                                         *)
(* Three parties run at once: the EE, the thread pool and the IOP's host   *)
(* thread.  The IOP threads run one at a time on the last, and only        *)
(* leaveThread gives it up, so a step of an IOP thread is what it does     *)
(* between two places where it can be left or where another party can see  *)
(* it.                                                                     *)
(*                                                                         *)
(* A sleeping thread does not know what woke it: nothing here waits in a   *)
(* loop on a condition.  That every wake-up is the one its sleeper waits   *)
(* for is a matter of the whole protocol.                                  *)
(***************************************************************************)
EXTENDS Naturals, Sequences, FiniteSets

CONSTANTS
  FileServers, \* RPC threads whose handlers load files (STR, ramdisk)
  Loader,      \* the RPC thread that waits for a fade, then loads music
  ISO,         \* the ISO thread
  Rank,        \* order of schedNext: priority, then order of creation
  MaxLoads,    \* files one call of a file server loads, at most
  MaxReads,    \* buffers a file fills, at most
  MaxDelays,   \* looks at gMusicFade before it is down
  MaxCalls,    \* calls the EE makes on each channel
  Nobody

Servers == FileServers \cup {Loader}
Threads == Servers \cup {ISO}

ASSUME KernelAssumption ==
  /\ Loader \notin FileServers /\ ISO \notin Servers /\ Nobody \notin Threads
  /\ Rank \in [Threads -> Nat]
  /\ \A s, t \in Threads : Rank[s] = Rank[t] => s = t
  /\ MaxLoads \in Nat /\ MaxReads \in Nat \ {0}
  /\ MaxDelays \in Nat /\ MaxCalls \in Nat

VARIABLES
  state, waitType,  \* of IopThread
  due,              \* threads whose resumeTime has passed
  current,          \* _currentThread; Nobody while the kernel runs
  wakeup_queue,
  record,           \* SifRecord.cmd: started, finished
  pc,               \* where each thread is
  todo,             \* what the call of each server has still to do
  iso_mbx,          \* commands sent, named by the servers that wait
  queue,            \* commands gPriStack holds
  left, have,       \* buffers each command still needs, and has
  reading,          \* the command ISOThread began a read for
  job,              \* what the thread pool does for ISOThread
  calls, runs       \* calls made, handlers entered

kernelVars == <<state, waitType, due, current, wakeup_queue>>
rpcVars == <<record, calls, runs>>
isoVars == <<iso_mbx, queue, left, have, reading>>
vars == <<kernelVars, rpcVars, pc, todo, isoVars, job>>

(* The system after start-up: every server has registered its queue and    *)
(* sleeps in rpc_loop, and ISOThread polls.                                *)
Init ==
  /\ state = [t \in Threads |-> IF t = ISO THEN "Wait" ELSE "Suspend"]
  /\ waitType = [t \in Threads |-> IF t = ISO THEN "Delay" ELSE "None"]
  /\ due = {} /\ current = Nobody /\ wakeup_queue = <<>>
  /\ record = [s \in Servers |-> [started |-> TRUE, finished |-> TRUE]]
  /\ pc = [t \in Threads |-> IF t = ISO THEN "poll" ELSE "take"]
  /\ todo = [s \in Servers |-> 0]
  /\ iso_mbx = <<>> /\ queue = {}
  /\ left = [s \in Servers |-> 0] /\ have = [s \in Servers |-> 0]
  /\ reading = Nobody /\ job = "none"
  /\ calls = [s \in Servers |-> 0] /\ runs = [s \in Servers |-> 0]

-----------------------------------------------------------------------------
(* The kernel's calls, as a thread t that runs makes them. *)

Elements(q) == {q[i] : i \in DOMAIN q}

Goto(t, where) == pc' = [pc EXCEPT ![t] = where]

(* Go on without leaving the host thread. *)
Stay == UNCHANGED kernelVars

SleepThread(t) ==
  /\ state' = [state EXCEPT ![t] = "Suspend"]
  /\ current' = Nobody
  /\ UNCHANGED <<waitType, due, wakeup_queue>>

DelayThread(t) ==
  /\ state' = [state EXCEPT ![t] = "Wait"]
  /\ waitType' = [waitType EXCEPT ![t] = "Delay"]
  /\ due' = due \ {t}
  /\ current' = Nobody
  /\ UNCHANGED wakeup_queue

iWakeupThread(t) == wakeup_queue' = Append(wakeup_queue, t)

(* dispatch: updateDelay, processWakeups, schedNext and runThread.  A      *)
(* delay that is over makes its thread ready whatever became of it; a      *)
(* wake-up makes it ready and leaves waitType alone.                       *)
updateDelay == {t \in due : waitType[t] = "Delay"}
processWakeups == Elements(wakeup_queue)
Ready == {t \in Threads : state[t] = "Ready"} \cup updateDelay \cup processWakeups

schedNext(t) == t \in Ready /\ \A u \in Ready : Rank[t] <= Rank[u]

Dispatch ==
  /\ current = Nobody
  /\ \E t \in Ready :
       /\ schedNext(t)
       /\ current' = t
       /\ state' = [u \in Threads |-> IF u = t THEN "Run"
                                      ELSE IF u \in Ready THEN "Ready" ELSE state[u]]
  /\ waitType' = [t \in Threads |-> IF t \in updateDelay THEN "None" ELSE waitType[t]]
  /\ due' = due \ updateDelay
  /\ wakeup_queue' = <<>>
  /\ UNCHANGED <<rpcVars, pc, todo, isoVars, job>>

(* Time passes. *)
Expire(t) ==
  /\ waitType[t] = "Delay" /\ t \notin due
  /\ due' = due \cup {t}
  /\ UNCHANGED <<state, waitType, current, wakeup_queue, rpcVars, pc, todo, isoVars, job>>

-----------------------------------------------------------------------------
(* The EE: sceSifCheckStatRpc, then sceSifCallRpc. *)

sif_busy(s) == ~record[s].finished

(* Fault: the EE makes the thread ready itself, without the queue. *)
sif_rpc_Direct(s) ==
  /\ ~sif_busy(s)
  /\ calls[s] < MaxCalls
  /\ record' = [record EXCEPT ![s] = [started |-> FALSE, finished |-> FALSE]]
  /\ calls' = [calls EXCEPT ![s] = @ + 1]
  /\ state' = [state EXCEPT ![s] = "Ready"]
  /\ UNCHANGED <<wakeup_queue, waitType, due, current, runs, pc, todo, isoVars, job>>

sif_rpc(s) ==
  /\ ~sif_busy(s)
  /\ calls[s] < MaxCalls
  /\ record' = [record EXCEPT ![s] = [started |-> FALSE, finished |-> FALSE]]
  /\ calls' = [calls EXCEPT ![s] = @ + 1]
  /\ iWakeupThread(s)
  /\ UNCHANGED <<state, waitType, due, current, runs, pc, todo, isoVars, job>>

-----------------------------------------------------------------------------
(* An RPC thread: rpc_loop, and the handler it calls. *)

At(t, where) == current = t /\ pc[t] = where

(* Fault: the command is not marked before it is handled. *)
rpc_take_Unmarked(s) ==
  /\ At(s, "take")
  /\ IF record[s].finished
     THEN Goto(s, "sleep") /\ UNCHANGED <<todo, runs>>
     ELSE /\ Goto(s, "handle")
          /\ runs' = [runs EXCEPT ![s] = @ + 1]
          /\ \E n \in 0 .. MaxLoads : todo' = [todo EXCEPT ![s] = n]
  /\ Stay
  /\ UNCHANGED <<record, calls, isoVars, job>>

(* Mark the command as started, and handle it if it was not. *)
rpc_take(s) ==
  /\ At(s, "take")
  /\ record' = [record EXCEPT ![s].started = TRUE]
  /\ IF record[s].started
     THEN /\ Goto(s, "sleep")
          /\ UNCHANGED <<todo, runs>>
     ELSE /\ Goto(s, "handle")
          /\ runs' = [runs EXCEPT ![s] = @ + 1]
          /\ \E n \in 0 .. (IF s = Loader THEN MaxDelays ELSE MaxLoads) :
               todo' = [todo EXCEPT ![s] = n]
  /\ Stay
  /\ UNCHANGED <<calls, isoVars, job>>

rpc_sleep(s) ==
  /\ At(s, "sleep")
  /\ SleepThread(s) /\ Goto(s, "take")
  /\ UNCHANGED <<rpcVars, todo, isoVars, job>>

rpc_finish(s) ==
  /\ At(s, "finish")
  /\ record' = [record EXCEPT ![s].finished = TRUE]
  /\ Goto(s, "sleep")
  /\ Stay
  /\ UNCHANGED <<calls, runs, todo, isoVars, job>>

(* LoadISOFileToEE, LoadISOFileToIOP, LoadISOFileChunkToEE, LoadMusic.     *)
SendAndSleep(s) ==
  /\ iso_mbx' = Append(iso_mbx, s)
  /\ SleepThread(s) /\ Goto(s, "asleep")
  /\ UNCHANGED <<rpcVars, queue, left, have, reading, job>>

(* RPC_STR, RPC_Ramdisk: no file, one, or a header and a chunk. *)
HandlerLoad(s) ==
  /\ s \in FileServers /\ At(s, "handle") /\ todo[s] > 0
  /\ todo' = [todo EXCEPT ![s] = @ - 1]
  /\ SendAndSleep(s)

HandlerDone(s) ==
  /\ s \in FileServers /\ At(s, "handle") /\ todo[s] = 0
  /\ Goto(s, "finish") /\ Stay
  /\ UNCHANGED <<rpcVars, todo, isoVars, job>>

(* The sleep ends, and the result is taken from the command. *)
HandlerAwake(s) ==
  /\ At(s, "asleep")
  /\ Goto(s, IF s = Loader THEN "finish" ELSE "handle") /\ Stay
  /\ UNCHANGED <<rpcVars, todo, isoVars, job>>

(* RPC_Loader, LOAD_MUSIC: wait for the fade, then have it loaded. *)
LoaderFade ==
  /\ At(Loader, "handle") /\ todo[Loader] > 0
  /\ todo' = [todo EXCEPT ![Loader] = @ - 1]
  /\ DelayThread(Loader)
  /\ UNCHANGED <<rpcVars, pc, isoVars, job>>

LoaderLoad ==
  /\ At(Loader, "handle") /\ todo[Loader] = 0
  /\ SendAndSleep(Loader)
  /\ UNCHANGED todo

-----------------------------------------------------------------------------
(* ISOThread.  How it chooses among its commands and where their buffers   *)
(* come from is IsoThread's subject; here it may choose any.               *)

(* WakeupThread, by a thread that goes on running or by one that leaves. *)
WakeupThreads(S) == [t \in Threads |-> IF t \in S THEN "Ready" ELSE state[t]]

(* iWakeupThread is called by the job that ISOThread sleeps for. *)
SubmitAndSleep(j, where) ==
  /\ job' = j
  /\ SleepThread(ISO) /\ Goto(ISO, where)

iso_poll_file(s) ==
  /\ At(ISO, "poll") /\ iso_mbx # <<>> /\ s = Head(iso_mbx) /\ s # Loader
  /\ iso_mbx' = Tail(iso_mbx)
  /\ queue' = queue \cup {s}
  /\ \E n \in 1 .. MaxReads : left' = [left EXCEPT ![s] = n]
  /\ have' = [have EXCEPT ![s] = 0]
  /\ SubmitAndSleep("open", "opening")
  /\ UNCHANGED <<rpcVars, todo, reading>>

(* LOAD_MUSIC is carried out and answered at once. *)
iso_poll_music ==
  /\ At(ISO, "poll") /\ iso_mbx # <<>> /\ Head(iso_mbx) = Loader
  /\ iso_mbx' = Tail(iso_mbx)
  /\ state' = WakeupThreads({Loader})
  /\ Goto(ISO, "begin")
  /\ UNCHANGED <<waitType, due, current, wakeup_queue, rpcVars, todo, queue, left, have, reading, job>>

iso_poll_empty ==
  /\ At(ISO, "poll") /\ iso_mbx = <<>>
  /\ Goto(ISO, "begin") /\ Stay
  /\ UNCHANGED <<rpcVars, todo, isoVars, job>>

(* future.get, once the sleep is over: it blocks until the job is done. *)
iso_opened ==
  /\ At(ISO, "opening") /\ job = "done"
  /\ job' = "none"
  /\ Goto(ISO, "begin") /\ Stay
  /\ UNCHANGED <<rpcVars, todo, isoVars>>

(* Fault: the read is begun, and ISOThread does not sleep for it. *)
FS_BeginRead_Async(s) ==
  /\ At(ISO, "begin") /\ s \in queue /\ have[s] < 2
  /\ reading' = s
  /\ job' = "read"
  /\ Goto(ISO, "process") /\ Stay
  /\ UNCHANGED <<rpcVars, todo, iso_mbx, queue, left, have>>

FS_BeginRead(s) ==
  /\ At(ISO, "begin") /\ s \in queue /\ have[s] < 2
  /\ reading' = s
  /\ SubmitAndSleep("read", "reading")
  /\ UNCHANGED <<rpcVars, todo, iso_mbx, queue, left, have>>

iso_nothing_to_read ==
  /\ At(ISO, "begin") /\ \A s \in queue : have[s] >= 2
  /\ Goto(ISO, "process") /\ Stay
  /\ UNCHANGED <<rpcVars, todo, isoVars, job>>

iso_read ==
  /\ At(ISO, "reading") /\ job = "done"
  /\ job' = "none"
  /\ Goto(ISO, "process") /\ Stay
  /\ UNCHANGED <<rpcVars, todo, isoVars>>

(* ProcessMessageData: every command with a buffer consumes one, and those *)
(* that need no more are released and returned.  Then the read is synced,  *)
(* unless its file has just been closed, or, if there was none, ISOThread  *)
(* pauses.                                                                 *)
Fed == {s \in queue : have[s] > 0}
Finished == {s \in Fed : left[s] = 1}

(* Fault: the requester is woken when its first buffer has been copied. *)
ReturnMessages_Early ==
  IF reading = Nobody
  THEN /\ state' = [WakeupThreads(Fed) EXCEPT ![ISO] = "Wait"]
       /\ waitType' = [waitType EXCEPT ![ISO] = "Delay"]
       /\ due' = due \ {ISO}
       /\ current' = Nobody
  ELSE /\ state' = WakeupThreads(Fed)
       /\ UNCHANGED <<waitType, due, current>>

ReturnMessages ==
  IF reading = Nobody
  THEN /\ state' = [WakeupThreads(Finished) EXCEPT ![ISO] = "Wait"]
       /\ waitType' = [waitType EXCEPT ![ISO] = "Delay"]
       /\ due' = due \ {ISO}
       /\ current' = Nobody
  ELSE /\ state' = WakeupThreads(Finished)
       /\ UNCHANGED <<waitType, due, current>>

ProcessMessageData ==
  /\ At(ISO, "process")
  /\ queue' = queue \ Finished
  /\ left' = [s \in Servers |-> IF s \in Fed THEN left[s] - 1 ELSE left[s]]
  /\ have' = [s \in Servers |->
                IF s \in Finished THEN 0
                ELSE have[s] - (IF s \in Fed THEN 1 ELSE 0) + (IF s = reading THEN 1 ELSE 0)]
  /\ reading' = Nobody
  /\ ReturnMessages
  /\ Goto(ISO, "poll")
  /\ UNCHANGED <<wakeup_queue, rpcVars, todo, iso_mbx, job>>

-----------------------------------------------------------------------------
(* The thread pool: open_fr and fs_read wake ISOThread, then return. *)

PoolWake ==
  /\ job \in {"open", "read"}
  /\ job' = "woken"
  /\ iWakeupThread(ISO)
  /\ UNCHANGED <<state, waitType, due, current, rpcVars, pc, todo, isoVars>>

PoolReturn ==
  /\ job = "woken"
  /\ job' = "done"
  /\ UNCHANGED <<kernelVars, rpcVars, pc, todo, isoVars>>

-----------------------------------------------------------------------------
Server(s) ==
  \/ rpc_take(s) \/ rpc_sleep(s) \/ rpc_finish(s)
  \/ HandlerLoad(s) \/ HandlerDone(s) \/ HandlerAwake(s)

IsoThread ==
  \/ \E s \in Servers : iso_poll_file(s) \/ FS_BeginRead(s)
  \/ iso_poll_music \/ iso_poll_empty \/ iso_opened
  \/ iso_nothing_to_read \/ iso_read \/ ProcessMessageData

Running == (\E s \in Servers : Server(s)) \/ LoaderFade \/ LoaderLoad \/ IsoThread

Next ==
  \/ Dispatch \/ Running \/ PoolWake \/ PoolReturn
  \/ \E t \in Threads : Expire(t)
  \/ \E s \in Servers : sif_rpc(s)

(* The host runs its threads, time passes, and a thread that runs goes on. *)
(* The EE need not call.                                                   *)
Fairness ==
  /\ WF_vars(Dispatch) /\ WF_vars(Running)
  /\ WF_vars(PoolWake) /\ WF_vars(PoolReturn)
  /\ \A t \in Threads : WF_vars(Expire(t))

Spec == Init /\ [][Next]_vars /\ Fairness

-----------------------------------------------------------------------------
Flags == [started : BOOLEAN, finished : BOOLEAN]

TypeOK ==
  /\ state \in [Threads -> {"Run", "Ready", "Wait", "Suspend"}]
  /\ waitType \in [Threads -> {"None", "Delay"}]
  /\ due \subseteq Threads /\ current \in Threads \cup {Nobody}
  /\ wakeup_queue \in Seq(Threads)
  /\ record \in [Servers -> Flags]
  /\ pc \in [Threads -> {"take", "sleep", "handle", "asleep", "finish",
                         "poll", "opening", "begin", "reading", "process"}]
  /\ todo \in [Servers -> Nat]
  /\ iso_mbx \in Seq(Servers) /\ queue \subseteq FileServers
  /\ left \in [Servers -> Nat] /\ have \in [Servers -> 0 .. 2]
  /\ reading \in FileServers \cup {Nobody}
  /\ job \in {"none", "open", "read", "woken", "done"}
  /\ calls \in [Servers -> Nat] /\ runs \in [Servers -> Nat]

(* Commands the ISO thread still holds a pointer to. *)
InHands == Elements(iso_mbx) \cup queue \cup ({reading} \ {Nobody})

Asleep(s) == pc[s] = "asleep" /\ state[s] = "Suspend"

(* A command lies on the stack of the handler that sent it, and            *)
(* SleepThread is called once, without a loop (iso_api.cpp): while the ISO *)
(* thread may still touch it, its handler must be asleep.  Any wake-up     *)
(* that is not the answer would leave the ISO thread with a dangling       *)
(* pointer.                                                                *)
CommandsOutlived == \A s \in InHands : Asleep(s)

(* waitType is cleared by the end of a delay only, and updateDelay looks   *)
(* at nothing else: a thread woken out of a delay would later be made      *)
(* ready in the middle of an unrelated sleep (IOP_Kernel.cpp 117, 314).    *)
NoStaleDelay == \A t \in Threads : waitType[t] = "Delay" => state[t] = "Wait"

(* Nobody sleeps for ever: a handler asleep has its command in the ISO     *)
(* thread's hands, ISOThread asleep has a job or a wake-up under way, and  *)
(* a server asleep in rpc_loop whose record holds a new command has its    *)
(* wake-up queued.                                                         *)
SleepersWillBeWoken ==
  /\ \A s \in Servers : Asleep(s) => s \in InHands
  /\ state[ISO] = "Suspend" => job \in {"open", "read"} \/ ISO \in processWakeups
  /\ \A s \in Servers :
       ~record[s].started => s \in processWakeups \/ state[s] \in {"Ready", "Run"}

(* The inductive invariant: what each place of a thread says of its state, *)
(* its record, its command and its wake-ups.                               *)
RunInv == \A t \in Threads : state[t] = "Run" <=> current = t

ServerInv == \A s \in Servers :
  /\ pc[s] \in {"take", "sleep", "handle", "asleep", "finish"}
  /\ record[s].started <=> record[s].finished \/ pc[s] \in {"handle", "asleep", "finish"}
  /\ record[s].finished => pc[s] \in {"take", "sleep"}
  /\ pc[s] \in {"sleep", "finish"} => state[s] = "Run"
  /\ pc[s] = "take" /\ record[s].started => state[s] = "Suspend"
  /\ pc[s] \in {"take", "asleep"} => state[s] # "Wait"
  /\ pc[s] = "handle" => state[s] # "Suspend"
  /\ s \in processWakeups =>
       ~record[s].started /\ (pc[s] = "take" => state[s] = "Suspend")
  /\ ~record[s].started =>
       s \in processWakeups \/ (pc[s] = "take" /\ state[s] \in {"Ready", "Run"})
  /\ s \in InHands <=> Asleep(s)

IsoInv ==
  /\ pc[ISO] \in {"poll", "opening", "begin", "reading", "process"}
  /\ pc[ISO] \in {"begin", "process"} => state[ISO] = "Run"
  /\ pc[ISO] = "poll" => state[ISO] # "Suspend"
  /\ pc[ISO] \in {"opening", "reading"} => state[ISO] # "Wait"
  /\ job # "none" <=> pc[ISO] \in {"opening", "reading"}
  /\ job \in {"open", "read"} => state[ISO] = "Suspend" /\ ISO \notin processWakeups
  /\ job \in {"woken", "done"} => (state[ISO] = "Suspend" <=> ISO \in processWakeups)
  /\ ISO \in processWakeups => job \in {"woken", "done"}

CommandInv ==
  /\ \A i, j \in DOMAIN iso_mbx : iso_mbx[i] = iso_mbx[j] => i = j
  /\ Elements(iso_mbx) \cap queue = {}
  /\ reading # Nobody =>
       reading \in queue /\ have[reading] < 2 /\ pc[ISO] \in {"reading", "process"}
  /\ \A s \in queue : left[s] > 0

IInv == TypeOK /\ NoStaleDelay /\ RunInv /\ ServerInv /\ IsoInv /\ CommandInv

Channel == INSTANCE RpcChannel WITH
  Channels <- Servers,
  phase <- [s \in Servers |-> IF record[s].finished THEN "idle"
                              ELSE IF record[s].started THEN "handled" ELSE "called"]

(* The kernel, its flags and its wake-ups give the EE what RpcChannel      *)
(* promises: every call handled once and answered.                         *)
ImplementsChannel == Channel!Spec
=============================================================================
