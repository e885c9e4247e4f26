----------------------------- MODULE IsoThread -----------------------------
(***************************************************************************)
(* The read loop of the overlord (ISOThread of iso.cpp, iso_queue.cpp and  *)
(* the file system calls of fake_iso.cpp): one thread that takes commands  *)
(* from a mailbox, keeps them in a priority stack, reads their files page  *)
(* by page into a pool of four buffers and one stream buffer, hands the    *)
(* pages to the commands' callbacks, and controls the one audio stream.    *)
(*                                                                         *)
(* A round of the loop is: a message, the progress of the stream, the      *)
(* beginning of a read, ProcessMessageData, the end of the read.  The      *)
(* thread sleeps while the read is carried out and delays when there is    *)
(* nothing to read; only then can the threads that send it commands run.   *)
(* The pages of a DGO are consumed as the DGO state machine and the EE     *)
(* allow (module DgoLoad), which is a choice here.                         *)
(***************************************************************************)
EXTENDS Integers, Sequences, FiniteSets

CONSTANTS
  Singles,          \* commands of RPC handlers that load one file each
  DGO,              \* sLoadDGO
  VAG,              \* vag_cmd, the command of the audio stream
  LOADER,           \* the command of a sound bank or of music
  NoCmd, NoVag,
  Pages,            \* how many pages each file is: of Singles, DGO and Vags
  Vags,             \* streams in VAGDIR
  BadVags,          \* those whose first page is no VAG header
  StackLength,      \* PRI_STACK_LENGTH
  VagMask,          \* commands vag_cmd_used can tell apart: 32
  VagCmds,          \* N_VAG_CMDS: 64
  MaxLoads,         \* loads of all clients together
  Orders,           \* stream commands the EE may send, of VagMessages
  MaxVag,           \* how many of them it sends
  MaxMail           \* messages in the mailbox

Files == Singles \cup {DGO, VAG}
Clients == Singles \cup {DGO, LOADER}

(* What RPC_PLAY and RPC_Player send. *)
VagMessages ==
  [cmd : {"play", "stop", "queue"}, vag : Vags \cup {NoVag}, priority : {1}]
  \cup [cmd : {"play"}, vag : Vags, priority : {0}]
  \cup [cmd : {"stop"}, vag : {NoVag}, priority : {0}]
  \cup [cmd : {"pause", "continue"}]

ASSUME IsoAssumption ==
  /\ DGO \notin Singles /\ VAG \notin Singles /\ LOADER \notin Files
  /\ DGO # VAG /\ NoCmd \notin Files \cup {LOADER} /\ NoVag \notin Vags
  /\ BadVags \subseteq Vags
  /\ Pages \in [Singles \cup {DGO} \cup Vags -> Nat \ {0}]
  /\ StackLength \in Nat \ {0} /\ VagMask \in Nat /\ VagCmds \in Nat \ {0}
  /\ Orders \subseteq VagMessages
  /\ MaxLoads \in Nat /\ MaxVag \in Nat /\ MaxMail \in Nat

N_BUFFERS_Three == 3 \* Fault: a pool one buffer smaller
N_BUFFERS == 4
StrBuffer == N_BUFFERS + 1
PageBuffers == 1 .. N_BUFFERS
Buffers == PageBuffers \cup {StrBuffer}
Filled == [buffer : Buffers, page : Nat] \* a buffer and the page of a file in it

VARIABLES
  pc,               \* where ISOThread is in its loop
  iso_mbx,          \* messages not yet received
  gPriStack,        \* the commands of each priority
  todo,             \* the commands ProcessMessageData has still to visit
  free,             \* sFreeBuffer and sFreeStrBuffer
  callback_buffer,  \* the filled buffers of each command, oldest first, and the
                    \* page of its file each holds
  location,         \* pages of each command's file read so far
  taken,            \* pages of each command its callback has consumed
  fd,               \* "null", "open", or "closed" and not to be used
  cmd_to_process, read_buffer, sReadInfo, \* the read of this round
  in_progress,      \* in_progress_vag_command is not null
  vag,              \* vag_cmd's fields
  vag_paused, unk,  \* the flags of the pause and continue commands
  gVAGCMD,          \* gVAGCMD is not null
  clock,            \* the clocks that run: "fake", "real"
  half,             \* half of the SPU buffer gPlayPos is in
  gPlaying,
  vag_cmd_cnt,      \* commands taken from vag_cmds
  spinning,         \* GetVAGCommand finds none and does not yield
  waiting,          \* clients whose command is not yet returned
  loads, sent       \* loads begun, stream commands sent

bufferVars == <<free, callback_buffer, location, taken>>
readVars == <<cmd_to_process, read_buffer, sReadInfo>>
streamVars == <<in_progress, vag, vag_paused, unk, gVAGCMD, clock, half, gPlaying>>
clientVars == <<spinning, loads, sent>>
vars == <<pc, iso_mbx, gPriStack, todo, bufferVars, fd, readVars, streamVars,
          vag_cmd_cnt, waiting, clientVars>>

Priority(c) == IF c = VAG THEN 3 ELSE IF c = DGO THEN 0 ELSE 2
Elements(s) == {s[i] : i \in DOMAIN s}
In(stack) == UNION {Elements(stack[p]) : p \in 0 .. 3}
Queued == In(gPriStack)

(* The fields of vag_cmd InitVAGCmd sets, with those copied from command m. *)
InitVAGCmd(m, x) ==
  [name |-> m.vag, priority |-> m.priority, paused |-> x, started |-> FALSE,
   stop |-> FALSE, number |-> 0, last |-> FALSE, ready |-> TRUE]

NoStream == [name |-> NoVag, priority |-> 0, paused |-> FALSE, started |-> FALSE,
             stop |-> FALSE, number |-> 0, last |-> FALSE, ready |-> FALSE]

Init ==
  /\ pc = "delay" /\ iso_mbx = <<>> /\ gPriStack = [p \in 0 .. 3 |-> <<>>]
  /\ todo = {}
  /\ free = Buffers /\ callback_buffer = [c \in Files |-> <<>>]
  /\ location = [c \in Files |-> 0] /\ taken = [c \in Files |-> 0]
  /\ fd = [c \in Files |-> "null"]
  /\ cmd_to_process = NoCmd /\ read_buffer = 0 /\ sReadInfo = NoCmd
  /\ in_progress = FALSE /\ vag = NoStream /\ vag_paused = FALSE /\ unk = FALSE
  /\ gVAGCMD = FALSE /\ clock = {} /\ half = 0 /\ gPlaying = FALSE
  /\ vag_cmd_cnt = 0 /\ spinning = FALSE
  /\ waiting = {} /\ loads = 0 /\ sent = 0

-----------------------------------------------------------------------------
(* The threads that send commands and the VBlank handler run while         *)
(* ISOThread delays or sleeps in BeginRead.  (It sleeps while it opens a   *)
(* file, too, but does not look at anything they change between that and   *)
(* the next of these two.)                                                 *)

Yields == pc \in {"delay", "reading"} /\ ~spinning
Polls == pc \in {"delay", "poll"} /\ ~spinning

isoUnchanged == UNCHANGED <<pc, gPriStack, todo, bufferVars, fd, readVars>>

ClientLoads(c) ==
  /\ Yields /\ c \notin waiting /\ loads < MaxLoads /\ Len(iso_mbx) < MaxMail
  /\ loads' = loads + 1
  /\ waiting' = waiting \cup {c}
  /\ iso_mbx' = Append(iso_mbx, [cmd |-> IF c = LOADER THEN "music" ELSE "load", client |-> c])
  /\ UNCHANGED <<streamVars, vag_cmd_cnt, spinning, sent>>
  /\ isoUnchanged

(* RPC_Player and RPC_PLAY.  GetVAGCommand waits only for a count of       *)
(* N_VAG_CMDS - 1; with every bit of its mask set it looks for ever.       *)
GetVAGCommand(m) ==
  /\ Yields /\ sent < MaxVag /\ Len(iso_mbx) < MaxMail
  /\ vag_cmd_cnt # VagCmds - 1
  /\ IF vag_cmd_cnt < VagMask
     THEN /\ vag_cmd_cnt' = vag_cmd_cnt + 1
          /\ iso_mbx' = Append(iso_mbx, m)
          /\ sent' = sent + 1
          /\ UNCHANGED spinning
     ELSE /\ spinning' = TRUE
          /\ UNCHANGED <<vag_cmd_cnt, iso_mbx, sent>>
  /\ UNCHANGED <<streamVars, waiting, loads>>
  /\ isoUnchanged

(* The half of the SPU buffer with the last block of the stream. *)
EndHalf == (Pages[vag.name] - 1) % 2
AtEnd == vag.last /\ half = EndHalf

(* The voice plays on and VBlank_Handler takes note.  Half 0 is followed   *)
(* by half 1 or by the trap, which gPlayPos shows as half 1; half 1 is     *)
(* followed by half 0 only once that was filled again.  In the half where  *)
(* the stream ends the voice stays: the end point is its loop address.     *)
UpdatePlayPos ==
  /\ Yields /\ gPlaying /\ ~vag.paused /\ ~AtEnd
  /\ half = 1 => vag.number % 2 = 1
  /\ half' = 1 - half
  /\ UNCHANGED <<in_progress, vag, vag_paused, unk, gVAGCMD, clock, gPlaying, iso_mbx,
                 vag_cmd_cnt, waiting, clientVars>>
  /\ isoUnchanged

-----------------------------------------------------------------------------
(* Helpers of the loop. *)

(* UnqueueMessage: the entries above move down. *)
Unqueued(s, c) ==
  IF c \notin Elements(s) THEN s
  ELSE LET i == CHOOSE j \in DOMAIN s : s[j] = c
       IN  [j \in 1 .. Len(s) - 1 |-> IF j < i THEN s[j] ELSE s[j + 1]]

CanQueue(c) == Len(gPriStack[Priority(c)]) # StackLength
QueueMessage(stack, c) == [stack EXCEPT ![Priority(c)] = Append(@, c)]

(* Fault: the read that is under way is not forgotten. *)
FS_Close_Forgets(c) ==
  /\ fd' = [fd EXCEPT ![c] = IF @ = "open" THEN "closed" ELSE @]
  /\ UNCHANGED sReadInfo

FS_Close(c) ==
  /\ fd' = [fd EXCEPT ![c] = IF @ = "open" THEN "closed" ELSE @]
  /\ sReadInfo' = IF sReadInfo = c THEN NoCmd ELSE sReadInfo

(* Fault: only the first buffer is given back. *)
ReleasedBuffers_One(c) ==
  IF callback_buffer[c] = <<>> THEN {} ELSE {Head(callback_buffer[c]).buffer}

ReleasedBuffers(c) == {e.buffer : e \in Elements(callback_buffer[c])}

(* The fields of the command and of its entry of sLoadStack are dead now. *)
ReleaseMessage(c) ==
  /\ free' = free \cup ReleasedBuffers(c)
  /\ callback_buffer' = [callback_buffer EXCEPT ![c] = <<>>]
  /\ FS_Close(c)
  /\ location' = [location EXCEPT ![c] = 0]
  /\ taken' = [taken EXCEPT ![c] = 0]
  /\ gPriStack' = [gPriStack EXCEPT ![Priority(c)] = Unqueued(@, c)]

(* A file is opened for command c, which has nothing read yet. *)
OpenedFor(c) ==
  /\ location' = [location EXCEPT ![c] = 0]
  /\ taken' = [taken EXCEPT ![c] = 0]

-----------------------------------------------------------------------------
(* The message of this round. *)

Receive(kind) ==
  /\ Polls /\ iso_mbx # <<>> /\ Head(iso_mbx).cmd = kind
  /\ pc' = "progress"
  /\ iso_mbx' = Tail(iso_mbx)

ReturnVag_Twice == vag_cmd_cnt' = vag_cmd_cnt - 2 \* Fault: freed by ReleaseMessage, too
ReturnVag == vag_cmd_cnt' = vag_cmd_cnt - 1

(* QueueMessage's CMD_STATUS_FAILED_TO_QUEUE: the client is woken. *)
FailedToQueue_Silent(c) == UNCHANGED waiting \* Fault: it is not
FailedToQueue(c) == waiting' = waiting \ {c}

(* A load or a DGO: queued and opened, or returned as not queued. *)
iso_load ==
  /\ Receive("load")
  /\ LET c == Head(iso_mbx).client IN
     \/ /\ CanQueue(c)
        /\ gPriStack' = QueueMessage(gPriStack, c)
        /\ fd' = [fd EXCEPT ![c] = "open"]
        /\ callback_buffer' = [callback_buffer EXCEPT ![c] = <<>>]
        /\ OpenedFor(c)
        /\ UNCHANGED waiting
     \/ /\ ~CanQueue(c)
        /\ FailedToQueue(c)
        /\ fd' = [fd EXCEPT ![c] = "null"]
        /\ callback_buffer' = [callback_buffer EXCEPT ![c] = <<>>]
        /\ UNCHANGED <<gPriStack, location, taken>>
  /\ UNCHANGED <<todo, free, readVars, streamVars, vag_cmd_cnt, clientVars>>

(* A sound bank or music: loaded at once with a buffer taken for the time, *)
(* or put back into the mailbox when there is none.                        *)
iso_music ==
  /\ Polls /\ iso_mbx # <<>> /\ Head(iso_mbx).cmd = "music"
  /\ pc' = "progress"
  /\ IF free \cap PageBuffers = {}
     THEN /\ iso_mbx' = Append(Tail(iso_mbx), Head(iso_mbx))
          /\ UNCHANGED waiting
     ELSE /\ iso_mbx' = Tail(iso_mbx)
          /\ waiting' = waiting \ {LOADER}
  /\ UNCHANGED <<gPriStack, todo, bufferVars, fd, readVars, streamVars, vag_cmd_cnt,
                 clientVars>>

(* The stream that was in progress, if any, is stopped and released, and   *)
(* vag_cmd is set up anew from command m.                                  *)
Restart(m, x) ==
  LET stack == [gPriStack EXCEPT ![3] = IF in_progress THEN Unqueued(@, VAG) ELSE @]
      queue == Len(stack[3]) # StackLength
  IN  /\ gPriStack' = IF queue THEN QueueMessage(stack, VAG) ELSE stack
      /\ free' = IF in_progress THEN free \cup ReleasedBuffers(VAG) ELSE free
      /\ callback_buffer' = [callback_buffer EXCEPT ![VAG] = <<>>]
      /\ fd' = [fd EXCEPT ![VAG] = IF queue /\ m.vag # NoVag THEN "open" ELSE "null"]
      /\ sReadInfo' = IF in_progress /\ sReadInfo = VAG THEN NoCmd ELSE sReadInfo
      /\ in_progress' = queue
      /\ gVAGCMD' = queue
      /\ vag' = InitVAGCmd(m, x)
      /\ half' = 0
      /\ OpenedFor(VAG)
      /\ gPlaying' = (gPlaying /\ ~in_progress)

(* StopVAG stops both clocks. *)
StoppedClock == IF in_progress THEN {} ELSE clock

iso_queue_vag ==
  /\ Receive("queue") /\ ReturnVag
  /\ LET m == Head(iso_mbx)
         restart == /\ m.vag # NoVag
                    /\ in_progress => m.vag # vag.name /\ ~vag_paused /\ vag.paused
     IN  \/ /\ restart
            /\ Restart(m, TRUE)
            /\ clock' = StoppedClock
         \/ /\ ~restart
            /\ UNCHANGED <<gPriStack, free, callback_buffer, fd, sReadInfo, in_progress, vag,
                           gVAGCMD, half, gPlaying, clock, location, taken>>
  /\ UNCHANGED <<todo, cmd_to_process, read_buffer, vag_paused, unk, waiting,
                 clientVars>>

Same(m) == in_progress /\ vag.name = m.vag
Outranked(m) == in_progress /\ ~Same(m) /\ ~vag.paused /\ m.priority < vag.priority

iso_play_vag ==
  /\ Receive("play") /\ ReturnVag
  /\ LET m == Head(iso_mbx) IN
     \/ /\ Same(m)
        /\ vag' = [vag EXCEPT !.paused = @ /\ vag_paused]
        /\ unk' = (unk \/ (vag.paused /\ vag_paused))
        /\ clock' = clock \cup {IF fd[VAG] = "null" THEN "fake" ELSE "real"}
        /\ UNCHANGED <<gPriStack, free, callback_buffer, fd, sReadInfo, in_progress, gVAGCMD,
                       half, gPlaying, location, taken>>
     \/ /\ Outranked(m)
        /\ UNCHANGED <<gPriStack, free, callback_buffer, fd, sReadInfo, in_progress, vag, unk,
                       gVAGCMD, half, gPlaying, clock, location, taken>>
     \/ /\ ~Same(m) /\ ~Outranked(m)
        /\ Restart(m, vag_paused)
        /\ unk' = (unk \/ vag_paused)
        /\ clock' = StoppedClock \cup {IF in_progress' /\ m.vag = NoVag THEN "fake" ELSE "real"}
  /\ UNCHANGED <<todo, cmd_to_process, read_buffer, vag_paused, waiting, clientVars>>

(* StopVAG, ReleaseMessage and in_progress_vag_command = nullptr; the       *)
(* fields of vag_cmd are dead until the next InitVAGCmd.                   *)
StopStream ==
  /\ ReleaseMessage(VAG)
  /\ in_progress' = FALSE /\ gVAGCMD' = FALSE
  /\ vag' = NoStream
  /\ clock' = {} /\ gPlaying' = FALSE

iso_stop_vag ==
  /\ Receive("stop") /\ ReturnVag
  /\ LET m == Head(iso_mbx)
         stops == in_progress /\ m.vag \in {NoVag, vag.name} /\ m.priority >= vag.priority
     IN  \/ stops /\ StopStream
         \/ ~stops /\ UNCHANGED <<bufferVars, fd, sReadInfo, gPriStack, in_progress,
                                  gVAGCMD, vag, clock, gPlaying>>
  /\ vag_paused' = FALSE /\ unk' = FALSE
  /\ UNCHANGED <<todo, cmd_to_process, read_buffer, half, waiting,
                 clientVars>>

iso_pause_vag ==
  /\ Receive("pause") /\ ReturnVag
  /\ vag_paused' = TRUE
  /\ unk' = IF vag_paused THEN unk ELSE in_progress /\ ~vag.paused
  /\ vag' = IF vag_paused \/ ~in_progress THEN vag ELSE [vag EXCEPT !.paused = TRUE]
  /\ UNCHANGED <<gPriStack, todo, bufferVars, fd, readVars, in_progress, gVAGCMD, clock,
                 half, gPlaying, waiting, clientVars>>

iso_continue_vag ==
  /\ Receive("continue") /\ ReturnVag
  /\ vag_paused' = FALSE
  /\ unk' = (unk /\ ~vag_paused)
  /\ vag' = IF vag_paused /\ unk THEN [vag EXCEPT !.paused = FALSE] ELSE vag
  /\ UNCHANGED <<gPriStack, todo, bufferVars, fd, readVars, in_progress, gVAGCMD, clock,
                 half, gPlaying, waiting, clientVars>>

iso_no_message ==
  /\ Polls /\ iso_mbx = <<>>
  /\ pc' = "progress"
  /\ UNCHANGED <<iso_mbx, gPriStack, todo, bufferVars, fd, readVars, streamVars,
                 vag_cmd_cnt, waiting, clientVars>>

-----------------------------------------------------------------------------
(* The progress of the stream. *)

(* Fault: more data is wanted after the last page, too. *)
WantsData_NoEnd == vag.started /\ half # vag.number % 2

(* CheckVAGStreamProgress: more data is wanted when the voice has left the *)
(* half that is to be filled next.                                         *)
WantsData == vag.started /\ ~AtEnd /\ half # vag.number % 2

iso_stream_ends_KeepsUnk ==  \* Fault: without the line added to the original
  /\ pc = "progress" /\ in_progress
  /\ vag.stop \/ (vag.started /\ AtEnd)
  /\ StopStream
  /\ pc' = "begin"
  /\ UNCHANGED <<iso_mbx, todo, cmd_to_process, read_buffer, unk,
                 vag_paused, half, vag_cmd_cnt, waiting, clientVars>>

iso_stream_ends ==
  /\ pc = "progress" /\ in_progress
  /\ vag.stop \/ (vag.started /\ AtEnd)
  /\ StopStream
  /\ unk' = FALSE
  /\ pc' = "begin"
  /\ UNCHANGED <<iso_mbx, todo, cmd_to_process, read_buffer,
                 vag_paused, half, vag_cmd_cnt, waiting, clientVars>>

iso_stream_goes_on ==
  /\ pc = "progress" /\ (in_progress => ~vag.stop)
  /\ vag' = IF in_progress /\ WantsData THEN [vag EXCEPT !.ready = TRUE] ELSE vag
  /\ pc' = "begin"
  /\ UNCHANGED <<iso_mbx, gPriStack, todo, bufferVars, fd, readVars, in_progress,
                 vag_paused, unk, gVAGCMD, clock, half, gPlaying, vag_cmd_cnt, waiting,
                 clientVars>>

-----------------------------------------------------------------------------
(* The read of this round. *)

Wants(c) ==
  /\ fd[c] # "null" /\ (c = VAG => vag.ready)
  /\ Len(callback_buffer[c]) < (IF c = VAG THEN 1 ELSE 2)

(* The command of the highest priority, and of these the last, that wants  *)
(* a buffer.                                                               *)
Before(p, i, q, j) == p > q \/ (p = q /\ i >= j)

IsNext(c) ==
  \E p \in 0 .. 3 : \E i \in DOMAIN gPriStack[p] :
    /\ gPriStack[p][i] = c /\ Wants(c)
    /\ \A q \in 0 .. 3 : \A j \in DOMAIN gPriStack[q] :
         Wants(gPriStack[q][j]) => Before(p, i, q, j)

SomeoneWants == \E c \in Queued : Wants(c)

BufferFor(c) == IF c = VAG THEN free \cap {StrBuffer} ELSE free \cap PageBuffers

(* AllocateBuffer, which loops for ever when there is none, and BeginRead. *)
iso_begin_read ==
  /\ pc = "begin"
  /\ \E c \in Queued :
       /\ IsNext(c)
       /\ BufferFor(c) # {}
       /\ LET b == CHOOSE x \in BufferFor(c) : TRUE
          IN  read_buffer' = b /\ free' = free \ {b}
       /\ cmd_to_process' = c
  /\ pc' = "reading"
  /\ UNCHANGED <<iso_mbx, gPriStack, todo, callback_buffer, location, taken, fd,
                 sReadInfo, streamVars, vag_cmd_cnt, waiting, clientVars>>

StartProcessing ==
  /\ pc' = "process"
  /\ todo' = Queued

(* fs_read on the thread pool, and the thread runs again. *)
iso_read ==
  /\ pc = "reading" /\ ~spinning
  /\ location' = [location EXCEPT ![cmd_to_process] = @ + 1]
  /\ sReadInfo' = cmd_to_process
  /\ StartProcessing
  /\ UNCHANGED <<iso_mbx, gPriStack, free, callback_buffer, taken, fd, cmd_to_process,
                 read_buffer, streamVars, vag_cmd_cnt, waiting, clientVars>>

iso_nothing_to_read ==
  /\ pc = "begin" /\ ~SomeoneWants
  /\ StartProcessing
  /\ UNCHANGED <<iso_mbx, gPriStack, bufferVars, fd, readVars, streamVars, vag_cmd_cnt,
                 waiting, clientVars>>

-----------------------------------------------------------------------------
(* ProcessMessageData: from the top of the stack to the bottom, and from   *)
(* the top of a priority again when one of its commands is done.           *)

Index(c) == CHOOSE i \in DOMAIN gPriStack[Priority(c)] : gPriStack[Priority(c)][i] = c
Above(c, d) == Priority(c) > Priority(d) \/ (Priority(c) = Priority(d) /\ Index(c) >= Index(d))

(* Commands without a buffer are passed over. *)
Processing(c) ==
  /\ pc = "process" /\ c \in todo
  /\ callback_buffer[c] # <<>>
  /\ \A d \in todo : callback_buffer[d] # <<>> => Above(c, d)

(* The callback consumes the oldest buffer of command c, which goes on. *)
Consume(c) ==
  /\ taken' = [taken EXCEPT ![c] = @ + 1]
  /\ free' = free \cup {Head(callback_buffer[c]).buffer}
  /\ callback_buffer' = [callback_buffer EXCEPT ![c] = Tail(@)]
  /\ todo' = todo \ {c}
  /\ UNCHANGED <<location, fd, sReadInfo, gPriStack, waiting>>

(* Command c is done: released, and its client woken. *)
Finish(c) ==
  /\ ReleaseMessage(c)
  /\ waiting' = waiting \ {c}
  /\ todo' = (todo \cup Elements(gPriStack[Priority(c)])) \ {c}

processUnchanged ==
  UNCHANGED <<pc, iso_mbx, cmd_to_process, read_buffer, vag_cmd_cnt,
              clientVars>>

(* CopyDataToEE, CopyDataToIOP. *)
CopyData(c) ==
  /\ Processing(c)
  /\ \/ taken[c] + 1 < Pages[c] /\ Consume(c)
     \/ taken[c] + 1 = Pages[c] /\ Finish(c)
  /\ UNCHANGED streamVars
  /\ processUnchanged

(* RunDGOStateMachine goes through the page, ends with the last object or  *)
(* an abort, or waits for the EE and keeps the page.                       *)
RunDGOStateMachine ==
  /\ Processing(DGO)
  /\ \/ taken[DGO] + 1 < Pages[DGO] /\ Consume(DGO)
     \/ Finish(DGO)
     \/ /\ todo' = todo \ {DGO}
        /\ UNCHANGED <<bufferVars, fd, sReadInfo, gPriStack, waiting>>
  /\ UNCHANGED streamVars
  /\ processUnchanged

(* A first page without header stops the stream; after the first one, a    *)
(* page is only asked for by CheckVAGStreamProgress; the second starts the *)
(* voice.                                                                  *)
ProcessVAGData ==
  /\ Processing(VAG)
  /\ Consume(VAG)
  /\ \/ /\ ~vag.stop /\ vag.number = 0 /\ vag.name \in BadVags
        /\ vag' = [vag EXCEPT !.stop = TRUE]
        /\ UNCHANGED <<gPlaying, half>>
     \/ /\ ~vag.stop /\ (vag.number = 0 => vag.name \notin BadVags)
        /\ vag' = [vag EXCEPT !.number = @ + 1, !.started = TRUE,
                              !.ready = @ /\ vag.number = 0,
                              !.last = @ \/ vag.number + 1 = Pages[vag.name]]
        /\ gPlaying' = (gPlaying \/ vag.number = 1)
        /\ half' = IF vag.number = 1 THEN 0 ELSE half
     \/ vag.stop /\ UNCHANGED <<vag, gPlaying, half>>
  /\ UNCHANGED <<in_progress, vag_paused, unk, gVAGCMD, clock>>
  /\ processUnchanged

-----------------------------------------------------------------------------
(* FS_SyncRead and the end of the round: the buffer goes to the end of the *)
(* command's list, or back to the pool when the file was closed.           *)

FS_SyncRead == sReadInfo' = NoCmd

EndRound ==
  /\ pc = "process" /\ \A c \in todo : callback_buffer[c] = <<>>
  /\ todo' = {}
  /\ cmd_to_process' = NoCmd /\ read_buffer' = 0 /\ FS_SyncRead
  /\ UNCHANGED <<iso_mbx, gPriStack, location, taken, fd, streamVars,
                 vag_cmd_cnt, waiting, clientVars>>

(* Fault: the new buffer is put first. *)
Linked_First(s, b) == <<b>> \o s
Linked(s, b) == Append(s, b)

iso_sync_read ==
  /\ EndRound /\ pc' = "poll"
  /\ cmd_to_process # NoCmd
  /\ \/ /\ sReadInfo = NoCmd
        /\ free' = free \cup {read_buffer}
        /\ UNCHANGED callback_buffer
     \/ /\ sReadInfo # NoCmd
        /\ callback_buffer' =
             [callback_buffer EXCEPT ![cmd_to_process] = Linked(@, [buffer |-> read_buffer, page |-> location[cmd_to_process]])]
        /\ UNCHANGED free

iso_delay ==
  /\ EndRound /\ pc' = "delay"
  /\ cmd_to_process = NoCmd
  /\ UNCHANGED <<free, callback_buffer>>

-----------------------------------------------------------------------------

IsoRound ==
  \/ iso_load \/ iso_music \/ iso_queue_vag \/ iso_play_vag \/ iso_stop_vag \/ iso_pause_vag
  \/ iso_continue_vag \/ iso_no_message \/ iso_stream_ends \/ iso_stream_goes_on
  \/ iso_begin_read \/ iso_read \/ iso_nothing_to_read
  \/ \E c \in Singles : CopyData(c)
  \/ RunDGOStateMachine \/ ProcessVAGData
  \/ iso_sync_read \/ iso_delay

Next ==
  \/ IsoRound
  \/ \E c \in Clients : ClientLoads(c)
  \/ \E m \in Orders : GetVAGCommand(m)
  \/ UpdatePlayPos

(* The kernel runs the thread again after every delay and every read. *)
Spec == Init /\ [][Next]_vars /\ WF_vars(IsoRound)

-----------------------------------------------------------------------------

TypeOK ==
  /\ pc \in {"delay", "poll", "progress", "begin", "reading", "process"}
  /\ gPriStack \in [0 .. 3 -> Seq(Files)] /\ todo \subseteq Files
  /\ free \subseteq Buffers /\ callback_buffer \in [Files -> Seq(Filled)]
  /\ location \in [Files -> Nat] /\ taken \in [Files -> Nat]
  /\ fd \in [Files -> {"null", "open", "closed"}]
  /\ cmd_to_process \in Files \cup {NoCmd} /\ read_buffer \in Buffers \cup {0}
  /\ sReadInfo \in {NoCmd, cmd_to_process}
  /\ vag \in [name : Vags \cup {NoVag}, priority : {0, 1}, paused : BOOLEAN, started : BOOLEAN,
              stop : BOOLEAN, number : Nat, last : BOOLEAN, ready : BOOLEAN]
  /\ {in_progress, vag_paused, unk, gVAGCMD, gPlaying, spinning} \subseteq BOOLEAN
  /\ clock \subseteq {"fake", "real"} /\ half \in {0, 1} /\ vag_cmd_cnt \in Int
  /\ waiting \subseteq Clients /\ loads \in Nat /\ sent \in Nat

(* Every buffer is in exactly one place: free, in the list of one command, *)
(* or in the read under way, and lists belong to commands in the stack.    *)
(* This is what the comment marked DANGER at the begin of a read is about: *)
(* a read may complete after its command is done.                          *)
BuffersConserved ==
  /\ \A c \in Files : \A i \in DOMAIN callback_buffer[c] :
       /\ c \in Queued
       /\ callback_buffer[c][i].buffer \notin free \cup {read_buffer}
       /\ \A d \in Files : \A j \in DOMAIN callback_buffer[d] :
            callback_buffer[d][j].buffer = callback_buffer[c][i].buffer => c = d /\ i = j
  /\ read_buffer \notin free
  /\ \A b \in Buffers : b \in free \/ b = read_buffer
                        \/ \E c \in Files : b \in ReleasedBuffers(c)

(* AllocateBuffer, which would spin without yielding, always finds a       *)
(* buffer: two for the DGO, one for the other loads and one to read into.  *)
PoolNeverEmpty ==
  pc = "begin" => \A c \in Queued : Wants(c) => BufferFor(c) # {}

(* The client of a command waits as long as the command is in the stack,   *)
(* and its file is open then and only then: ReleaseMessage closes no file  *)
(* twice and leaves none of the 32 entries of sLoadStack taken.            *)
FilesOfQueued ==
  /\ \A c \in Files : (fd[c] = "open") = (c \in Queued /\ (c = VAG => vag.name # NoVag))
  /\ \A c \in Queued : fd[c] # "closed" /\ (c # VAG => c \in waiting)

(* A callback gets the pages of its own file, each once and in order. *)
PagesInOrder ==
  \A c \in Queued : \A i \in DOMAIN callback_buffer[c] :
    callback_buffer[c][i].page = taken[c] + i

(* in_progress_vag_command is the queued stream; CONTINUE_VAG_STREAM,      *)
(* which unpauses the stream because unk says so, has one; gVAGCMD points  *)
(* to one; and the clock the EE reads the position of is that of the       *)
(* stream: the fake one without a file, and never both.                    *)
StreamConsistent ==
  /\ in_progress = (VAG \in Queued)
  /\ unk => in_progress /\ vag_paused /\ vag.paused
  /\ gVAGCMD => in_progress
  /\ "fake" \in clock => in_progress /\ vag.name = NoVag
  /\ "real" \in clock => in_progress /\ vag.name # NoVag

(* No page after the end of a stream is read, but for the second one of a  *)
(* stream of one page, which is read ahead.                                *)
StreamNotOverread ==
  vag.name # NoVag => location[VAG] <= (IF Pages[vag.name] = 1 THEN 2 ELSE Pages[vag.name])

(* The count GetVAGCommand waits on is that of the commands that are on    *)
(* their way: each is freed once, whatever its message leads to.           *)
VagPoolConserved ==
  vag_cmd_cnt = Cardinality({i \in DOMAIN iso_mbx : iso_mbx[i].cmd \notin {"load", "music"}})

(* Every load ends, whatever the stream and the DGO do: every client that  *)
(* waits for a file or a bank is woken.                                    *)
LoadsReturn == []<>(waiting \subseteq {DGO})

-----------------------------------------------------------------------------
(* The inductive invariant of the proofs. *)

Messages == VagMessages \cup [cmd : {"load"}, client : Singles \cup {DGO}]
                        \cup [cmd : {"music"}, client : {LOADER}]

(* A load is sent once while its client waits, and not yet queued. *)
MailInv ==
  /\ iso_mbx \in Seq(Messages)
  /\ \A i \in DOMAIN iso_mbx : iso_mbx[i].cmd = "load" =>
       /\ iso_mbx[i].client \in waiting \ Queued
       /\ \A j \in DOMAIN iso_mbx :
            iso_mbx[j].cmd = "load" /\ iso_mbx[j].client = iso_mbx[i].client => i = j

(* Every command is in the stack at most once, at its own priority. *)
StackOK(stack) ==
  \A p \in 0 .. 3 : \A i \in DOMAIN stack[p] :
    /\ Priority(stack[p][i]) = p
    /\ \A j \in DOMAIN stack[p] : stack[p][i] = stack[p][j] => i = j
StackInv == StackOK(gPriStack)

(* The stream buffer serves the stream, the pages everyone else. *)
Fits(c, b) == (b = StrBuffer) = (c = VAG)

ReadInv ==
  /\ cmd_to_process # NoCmd => pc \in {"reading", "process"} /\ Fits(cmd_to_process, read_buffer)
  /\ (cmd_to_process = NoCmd) = (read_buffer = 0)
  /\ pc = "reading" => cmd_to_process \in Queued /\ sReadInfo = NoCmd
  /\ sReadInfo # NoCmd => sReadInfo \in Queued
  /\ pc # "process" => todo = {}
  /\ todo \subseteq Queued
  /\ \A c \in Files : \A i \in DOMAIN callback_buffer[c] : Fits(c, callback_buffer[c][i].buffer)

(* The read under way will be linked to a command that has room for it. *)
Pending(c) == c = cmd_to_process /\ (pc = "reading" \/ sReadInfo = c)

(* What the lists hold: the DGO two buffers, the stream one, and all other *)
(* loads together one, which ProcessMessageData takes from them before the *)
(* next one is linked.                                                     *)
CapacityInv ==
  /\ Len(callback_buffer[DGO]) <= (IF Pending(DGO) THEN 1 ELSE 2)
  /\ Len(callback_buffer[VAG]) <= (IF Pending(VAG) THEN 0 ELSE 1)
  /\ \A c \in Singles : callback_buffer[c] # <<>> =>
       /\ Len(callback_buffer[c]) = 1
       /\ \A d \in Singles : callback_buffer[d] # <<>> => c = d
       /\ pc = "process" => c \in todo

(* What is read and not yet consumed is in the list, or about to be. *)
LocationInv ==
  \A c \in Queued :
    location[c] = taken[c] + Len(callback_buffer[c]) + (IF sReadInfo = c THEN 1 ELSE 0)

IInv ==
  /\ TypeOK /\ MailInv /\ StackInv /\ ReadInv /\ CapacityInv /\ LocationInv
  /\ BuffersConserved /\ FilesOfQueued /\ PagesInOrder /\ StreamConsistent

=============================================================================
