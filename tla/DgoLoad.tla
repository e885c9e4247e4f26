------------------------------ MODULE DgoLoad ------------------------------
(***************************************************************************)
(* Loading a DGO file (a bundle of object files: a level, the engine) from *)
(* disc into EE memory, in the Jak 1 runtime.  Four parties take part:     *)
(*                                                                         *)
(*   EE          the game: asks for a DGO, links every object it is given  *)
(*               (game/kernel/jak1/kdgo.cpp, engine/load/load-dgo.gc,      *)
(*               engine/level/level.gc)                                    *)
(*   DGO thread  IOP thread that serves the DGO remote procedure calls     *)
(*   ISO thread  IOP thread that reads pages and runs RunDGOStateMachine   *)
(*               on them, sending the objects to EE memory                 *)
(*   disc        the thread pool that does the file I/O (fake_iso.cpp)     *)
(*                                                                         *)
(* The EE runs concurrently with everything.  The two IOP threads are      *)
(* coroutines of one OS thread: one runs until it delays or sleeps, so the *)
(* DGO thread acts only while the ISO thread is at a yield point.          *)
(*                                                                         *)
(* Objects are double buffered: while the EE links object k out of one     *)
(* buffer the IOP loads object k+1 into the other.  The last object is     *)
(* loaded straight to the top of the heap, where it may extend over both   *)
(* buffers.  File contents are abstracted to object indices and sizes.     *)
(***************************************************************************)
EXTENDS Naturals, Sequences

CONSTANTS
  Disc,          \* the DGO files on the disc
  NotFound,      \* names the EE may ask for that are not on the disc
  Heaps,         \* EE heaps a DGO can be loaded into (level slots)
  Size,          \* Size[f][i]: units of data of object i of file f
  HeaderSize,    \* units of a DGO header and of an object header
  PageSize,      \* BUFFER_PAGE_SIZE, in units
  NoFile         \* not a file name

ASSUME DiscAssumption ==
  /\ Disc \cap NotFound = {}
  /\ NoFile \notin Disc \cup NotFound
  /\ Size \in [Disc -> Seq(Nat)]
  /\ \A f \in Disc : Len(Size[f]) >= 1

ASSUME HeapsAssumption == Heaps # {}

ASSUME PageAssumption ==
  /\ HeaderSize \in Nat \ {0}
  /\ PageSize \in Nat \ {0}

VARIABLES
  ee,        \* the EE loader
  heapCur,   \* heap->current of each heap, in linked objects
  rpc,       \* the DGO RPC record shared by EE and IOP
  dgo,       \* where the DGO thread waits
  mbx,       \* number of messages in iso_mbx, sync_mbx and dgo_mbx
  cmd,       \* sLoadDGO
  iso,       \* the ISO thread
  content    \* what each buffer of each heap holds

vars == <<ee, heapCur, rpc, dgo, mbx, cmd, iso, content>>

object_count(f) == Len(Size[f])

Bufs == {"b1", "b2", "top"}
Nothing == [file |-> NoFile, obj |-> 0, full |-> FALSE, pos |-> 0]

EEStates == {"idle", "wait", "linking", "linked", "loaded", "failed"}
Fnos == {"LOAD", "LOAD_NEXT", "CANCEL"}
Results == {"INIT", "MORE", "DONE", "ERROR", "ABORTED"}
DgoWaits == {"sleep", "load_wait", "next_wait", "abort_wait", "cancel_wait"}
DgoStates == {"Init", "Read_Header", "Finish_Obj", "Read_Last_Obj",
              "Read_Obj_Header", "Read_Obj_data", "Finish_Dgo"}
IsoStates == {"poll", "open", "read", "callback", "after", "delay"}

(***************************************************************************)
(* Start-up: both IOP threads are up, InitISOFS has consumed the start-up  *)
(* message of sync_mbx, nothing has been asked for.                        *)
(***************************************************************************)
Init ==
  /\ \E h \in Heaps :
       /\ ee = [pc |-> "idle", file |-> NoFile, heap |-> h, buf |-> "b1", last |-> FALSE]
       /\ rpc = [fno |-> "LOAD", file |-> NoFile, heap |-> h, top |-> 0, started |-> TRUE,
                 finished |-> TRUE, result |-> "INIT", buf |-> "b1"]
       /\ cmd = [cmd_id |-> FALSE, queued |-> FALSE, status |-> "DONE", file |-> NoFile,
                 heap |-> h, heaptop |-> 0, dgo_state |-> "Init", bytes_processed |-> 0,
                 objects_loaded |-> 0, buffer_toggle |-> 0,
                 dest |-> "b1", destHeap |-> h, destPos |-> 0, selected |-> "b1",
                 finished_first |-> FALSE, want_abort |-> FALSE, pages |-> <<>>]
  /\ heapCur = [h \in Heaps |-> 0]
  /\ dgo = "sleep"
  /\ mbx = [m \in {"iso", "sync", "dgo"} |-> 0]
  /\ iso = [pc |-> "poll", left |-> 0, reading |-> FALSE, readInfo |-> FALSE]
  /\ content = [h \in Heaps |-> [b \in Bufs |-> Nothing]]

-----------------------------------------------------------------------------
(***************************************************************************)
(* The EE.                                                                 *)
(***************************************************************************)
rpc_busy == ~rpc.finished

(* sif_rpc: hand the request to the DGO thread. *)
RpcCall(fno, file, h) ==
  rpc' = [fno |-> fno, file |-> file, heap |-> h, top |-> heapCur[h],
          started |-> FALSE, finished |-> FALSE,
          result |-> "INIT", buf |-> IF fno = "LOAD" THEN "b1" ELSE "top"]

(* Fault: the old RPC is not waited for. *)
BeginLoadingDGO_NoSync(file, h) ==
  /\ ee.pc = "idle"
  /\ ee' = [ee EXCEPT !.pc = "wait", !.file = file, !.heap = h]
  /\ RpcCall("LOAD", file, h)
  /\ UNCHANGED <<heapCur, dgo, mbx, cmd, iso, content>>

(* load-begin / BeginLoadingDGO: wait for the old RPC, ask for the file. *)
BeginLoadingDGO(file, h) ==
  /\ ee.pc = "idle"
  /\ ~rpc_busy
  /\ ee' = [ee EXCEPT !.pc = "wait", !.file = file, !.heap = h]
  /\ RpcCall("LOAD", file, h)
  /\ UNCHANGED <<heapCur, dgo, mbx, cmd, iso, content>>

(* dgo-load-get-next / GetNextDGO: look at the answer.  Anything but MORE  *)
(* or DONE gives no object: the kernel's loader leaves its loop, a level   *)
(* stays in 'loading.                                                      *)
GetNextDGO ==
  /\ ee.pc = "wait"
  /\ ~rpc_busy
  /\ ee' = IF rpc.result \in {"MORE", "DONE"}
             THEN [ee EXCEPT !.pc = "linking", !.buf = rpc.buf,
                             !.last = (rpc.result = "DONE")]
             ELSE [ee EXCEPT !.pc = "failed"]
  /\ UNCHANGED <<heapCur, rpc, dgo, mbx, cmd, iso, content>>

(* link_and_exec / link-resume has moved the object to the heap. *)
LinkDone ==
  /\ ee.pc = "linking"
  /\ heapCur' = [heapCur EXCEPT ![ee.heap] = @ + 1]
  /\ ee' = [ee EXCEPT !.pc = IF ee.last THEN "loaded" ELSE "linked"]
  /\ UNCHANGED <<rpc, dgo, mbx, cmd, iso, content>>

(* dgo-load-continue / ContinueLoadingDGO: the object just linked may be   *)
(* overwritten.  rpc-buffer-pair's call waits for a busy channel first.    *)
ContinueLoadingDGO ==
  /\ ee.pc = "linked"
  /\ ~rpc_busy
  /\ ee' = [ee EXCEPT !.pc = "wait"]
  /\ RpcCall("LOAD_NEXT", NoFile, ee.heap)
  /\ UNCHANGED <<heapCur, dgo, mbx, cmd, iso, content>>

(* dgo-load-cancel, at the only place its comment says is good. *)
CancelLoadingDGO ==
  /\ ee.pc = "linked"
  /\ ~rpc_busy
  /\ ee' = [ee EXCEPT !.pc = "wait"]
  /\ RpcCall("CANCEL", NoFile, ee.heap)
  /\ UNCHANGED <<heapCur, dgo, mbx, cmd, iso, content>>

(* unload!: the level is discarded, at any point of its load.  Nothing is  *)
(* said to the IOP; the heap is empty again.                               *)
Unload ==
  /\ ee.pc # "idle"
  /\ ee' = [ee EXCEPT !.pc = "idle"]
  /\ heapCur' = [heapCur EXCEPT ![ee.heap] = 0]
  /\ UNCHANGED <<rpc, dgo, mbx, cmd, iso, content>>

-----------------------------------------------------------------------------
(***************************************************************************)
(* The DGO thread.  Every step runs from one yield to the next.            *)
(***************************************************************************)
IopYields == iso.pc \in {"open", "read", "delay"}

Answer(result, buf) ==
  rpc' = [rpc EXCEPT !.started = TRUE, !.finished = TRUE,
                     !.result = result, !.buf = buf]

(* LoadDGO, from setting up the ISO command to WaitMbx(dgo_mbx). *)
StartLoad(m) ==
  /\ cmd' = [cmd EXCEPT !.cmd_id = TRUE, !.file = rpc.file, !.heap = rpc.heap,
                        !.heaptop = rpc.top]
  /\ mbx' = [m EXCEPT !["iso"] = @ + 1]
  /\ dgo' = "load_wait"

(* Fault: the ISO thread is not told. *)
StartAbort_NoSync(wait) ==
  /\ cmd' = [cmd EXCEPT !.want_abort = TRUE]
  /\ dgo' = wait
  /\ UNCHANGED mbx

(* CancelDGO, up to WaitMbx(dgo_mbx). *)
StartAbort(wait) ==
  /\ cmd' = [cmd EXCEPT !.want_abort = TRUE]
  /\ mbx' = [mbx EXCEPT !["sync"] = @ + 1]
  /\ dgo' = wait

(* LoadDGO: a file that is not there is refused; a load under way is       *)
(* cancelled first, whatever heap it is for.                               *)
LoadDGO ==
  /\ dgo = "sleep" /\ ~rpc.started /\ rpc.fno = "LOAD" /\ IopYields
  /\ \/ /\ rpc.file \notin Disc
        /\ Answer("ERROR", rpc.buf)
        /\ UNCHANGED <<dgo, mbx, cmd>>
     \/ /\ rpc.file \in Disc
        /\ rpc' = [rpc EXCEPT !.started = TRUE]
        /\ IF cmd.cmd_id THEN StartAbort("abort_wait") ELSE StartLoad(mbx)
  /\ UNCHANGED <<ee, heapCur, iso, content>>

(* CancelDGO has heard from the ISO thread: go on with LoadDGO. *)
LoadDGO_Aborted ==
  /\ dgo = "abort_wait" /\ mbx["dgo"] > 0 /\ IopYields
  /\ StartLoad([mbx EXCEPT !["dgo"] = @ - 1])
  /\ UNCHANGED <<ee, heapCur, rpc, iso, content>>

(* LoadDGO and LoadNextDGO after WaitMbx(dgo_mbx): answer by the status.   *)
(* `more` is the buffer reported when there are more objects to come.      *)
AnswerByStatus(more) ==
  /\ mbx["dgo"] > 0 /\ IopYields
  /\ mbx' = [mbx EXCEPT !["dgo"] = @ - 1]
  /\ dgo' = "sleep"
  /\ CASE cmd.status = "IN_PROGRESS" -> Answer("MORE", more) /\ UNCHANGED cmd
       [] cmd.status = "DONE" -> /\ Answer("DONE", "top")
                                 /\ cmd' = [cmd EXCEPT !.cmd_id = FALSE]
  /\ UNCHANGED <<ee, heapCur, iso, content>>

LoadDGO_Answer == dgo = "load_wait" /\ AnswerByStatus("b1")

(* Fault: the new end of the heap is not passed on. *)
LoadNextDGO_StaleTop ==
  /\ dgo = "sleep" /\ ~rpc.started /\ rpc.fno = "LOAD_NEXT" /\ IopYields
  /\ cmd.cmd_id
  /\ rpc' = [rpc EXCEPT !.started = TRUE]
  /\ mbx' = [mbx EXCEPT !["sync"] = @ + 1]
  /\ dgo' = "next_wait"
  /\ UNCHANGED <<ee, heapCur, iso, content, cmd>>

LoadNextDGO ==
  /\ dgo = "sleep" /\ ~rpc.started /\ rpc.fno = "LOAD_NEXT" /\ IopYields
  /\ IF cmd.cmd_id
       THEN /\ rpc' = [rpc EXCEPT !.started = TRUE]
            /\ cmd' = [cmd EXCEPT !.heaptop = rpc.top]
            /\ mbx' = [mbx EXCEPT !["sync"] = @ + 1]
            /\ dgo' = "next_wait"
       ELSE /\ Answer("ERROR", rpc.buf)
            /\ UNCHANGED <<dgo, mbx, cmd>>
  /\ UNCHANGED <<ee, heapCur, iso, content>>

LoadNextDGO_Answer == dgo = "next_wait" /\ AnswerByStatus(cmd.selected)

CancelDGO ==
  /\ dgo = "sleep" /\ ~rpc.started /\ rpc.fno = "CANCEL" /\ IopYields
  /\ IF cmd.cmd_id
       THEN /\ rpc' = [rpc EXCEPT !.started = TRUE]
            /\ StartAbort("cancel_wait")
       ELSE /\ Answer("INIT", rpc.buf)
            /\ UNCHANGED <<dgo, mbx, cmd>>
  /\ UNCHANGED <<ee, heapCur, iso, content>>

CancelDGO_Answer ==
  /\ dgo = "cancel_wait" /\ mbx["dgo"] > 0 /\ IopYields
  /\ mbx' = [mbx EXCEPT !["dgo"] = @ - 1]
  /\ dgo' = "sleep"
  /\ Answer("ABORTED", rpc.buf)
  /\ cmd' = [cmd EXCEPT !.cmd_id = FALSE]
  /\ UNCHANGED <<ee, heapCur, iso, content>>

DgoThread ==
  \/ LoadDGO \/ LoadDGO_Aborted \/ LoadDGO_Answer
  \/ LoadNextDGO \/ LoadNextDGO_Answer
  \/ CancelDGO \/ CancelDGO_Answer

-----------------------------------------------------------------------------
(***************************************************************************)
(* The ISO thread: its main loop, with the DGO command the only one in its *)
(* queue.  A step runs to the next yield or to the next write of EE memory.*)
(***************************************************************************)
IsoVars == <<ee, heapCur, rpc, dgo>>

(* GetMessage: a command below the highest priority is read for as long as *)
(* it has fewer than two buffers filled.                                   *)
GetMessage(c) == c.queued /\ c.status = "IN_PROGRESS" /\ Len(c.pages) < 2

(* ProcessMessageData: run the callback on the first buffer, if any. *)
ProcessMessageData(i, c) ==
  IF c.queued /\ c.status = "IN_PROGRESS" /\ c.pages # <<>>
    THEN [i EXCEPT !.pc = "callback", !.left = Head(c.pages)]
    ELSE [i EXCEPT !.pc = "after"]

(* PollMbx(iso_mbx) has the DGO command: queue it and open its file. *)
ISO_PollMessage ==
  /\ iso.pc = "poll" /\ mbx["iso"] > 0
  /\ mbx' = [mbx EXCEPT !["iso"] = @ - 1]
  /\ cmd' = [cmd EXCEPT !.queued = TRUE, !.pages = <<>>]
  /\ iso' = [iso EXCEPT !.pc = "open"]
  /\ UNCHANGED <<IsoVars, content>>

(* FS_Open is back: install RunDGOStateMachine, start to read. *)
ISO_Opened ==
  /\ iso.pc = "open"
  /\ cmd' = [cmd EXCEPT !.status = "IN_PROGRESS", !.dgo_state = "Init"]
  /\ iso' = [iso EXCEPT !.pc = "read"]
  /\ UNCHANGED <<IsoVars, mbx, content>>

(* Nothing new: begin a read if the command takes one. *)
ISO_PollEmpty ==
  /\ iso.pc = "poll" /\ mbx["iso"] = 0
  /\ iso' = IF GetMessage(cmd) THEN [iso EXCEPT !.pc = "read"]
                               ELSE ProcessMessageData(iso, cmd)
  /\ UNCHANGED <<IsoVars, mbx, cmd, content>>

(* The thread pool has read a page (FS_BeginRead sleeps until then). *)
ISO_ReadComplete ==
  /\ iso.pc = "read"
  /\ iso' = ProcessMessageData([iso EXCEPT !.reading = TRUE, !.readInfo = TRUE], cmd)
  /\ UNCHANGED <<IsoVars, mbx, cmd, content>>

(* FS_SyncRead: hand the page to the command, unless the file was closed   *)
(* in the meantime; with no read under way, just delay.                    *)
ISO_SyncRead ==
  /\ iso.pc = "after"
  /\ iso' = [iso EXCEPT !.pc = IF iso.reading THEN "poll" ELSE "delay",
                        !.reading = FALSE, !.readInfo = FALSE]
  /\ cmd' = IF iso.reading /\ iso.readInfo
              THEN [cmd EXCEPT !.pages = Append(@, PageSize)] ELSE cmd
  /\ UNCHANGED <<IsoVars, mbx, content>>

ISO_DelayOver ==
  /\ iso.pc = "delay"
  /\ iso' = [iso EXCEPT !.pc = "poll"]
  /\ UNCHANGED <<IsoVars, mbx, cmd, content>>

-----------------------------------------------------------------------------
(***************************************************************************)
(* RunDGOStateMachine: one action per turn of its loop.                    *)
(***************************************************************************)
Running(state) == iso.pc = "callback" /\ iso.left > 0 /\ cmd.dgo_state = state

Least(a, b) == IF a < b THEN a ELSE b

(* DMA_SendToEE.  The heap-top object may reach into both buffers. *)
Send(full) ==
  LET it == [file |-> cmd.file, obj |-> cmd.objects_loaded + 1, full |-> full,
             pos |-> cmd.destPos]
  IN content' = [content EXCEPT ![cmd.destHeap] =
                   [b \in Bufs |-> IF b = cmd.dest THEN it
                                  ELSE IF cmd.dest = "top" THEN Nothing
                                  ELSE content[cmd.destHeap][b]]]

(* cleanup_and_return with the command still in progress. *)
Leave(c, left) ==
  /\ cmd' = [c EXCEPT !.pages = IF left = 0 THEN Tail(@) ELSE <<left>> \o Tail(@)]
  /\ iso' = [iso EXCEPT !.pc = "after", !.left = 0]

(* while (bytes_left) is over. *)
DGO_OutOfData ==
  /\ iso.pc = "callback" /\ iso.left = 0
  /\ Leave(cmd, 0)
  /\ UNCHANGED <<IsoVars, mbx, content>>

DGO_Init ==
  /\ Running("Init")
  /\ cmd' = [cmd EXCEPT !.bytes_processed = 0, !.dgo_state = "Read_Header",
                        !.finished_first = FALSE, !.want_abort = FALSE]
  /\ UNCHANGED <<IsoVars, mbx, iso, content>>

DGO_Read_Header ==
  /\ Running("Read_Header")
  /\ LET n    == Least(HeaderSize - cmd.bytes_processed, iso.left)
         one  == object_count(cmd.file) = 1
     IN /\ iso' = [iso EXCEPT !.left = @ - n]
        /\ cmd' = IF cmd.bytes_processed + n # HeaderSize
                    THEN [cmd EXCEPT !.bytes_processed = @ + n]
                    ELSE [cmd EXCEPT !.bytes_processed = 0, !.objects_loaded = 0,
                                     !.buffer_toggle = IF one THEN 0 ELSE 1,
                                     !.dest = IF one THEN "top" ELSE "b1",
                                     !.destHeap = cmd.heap, !.destPos = cmd.heaptop,
                                     !.dgo_state = "Read_Obj_Header"]
  /\ UNCHANGED <<IsoVars, mbx, content>>

(* Finish_Obj once the EE's go-ahead is no longer waited for: return the   *)
(* object just loaded, aim at the other buffer.                            *)
ReturnObject ==
  LET other == IF cmd.buffer_toggle = 1 THEN 2 ELSE 1
  IN [cmd EXCEPT !.finished_first = TRUE, !.status = "IN_PROGRESS",
                 !.selected = IF cmd.buffer_toggle = 1 THEN "b1" ELSE "b2",
                 !.dest = IF other = 1 THEN "b1" ELSE "b2", !.destHeap = cmd.heap,
                 !.buffer_toggle = other,
                 !.dgo_state = IF cmd.objects_loaded + 1 = object_count(cmd.file)
                                 THEN "Read_Last_Obj" ELSE "Read_Obj_Header"]

DGO_Finish_FirstObj ==
  /\ Running("Finish_Obj") /\ ~cmd.finished_first
  /\ cmd' = ReturnObject
  /\ mbx' = [mbx EXCEPT !["dgo"] = @ + 1]
  /\ UNCHANGED <<IsoVars, iso, content>>

(* Fault: LookMbx looks without taking the message. *)
DGO_Finish_Obj_Peek ==
  /\ Running("Finish_Obj") /\ cmd.finished_first /\ mbx["sync"] > 0
  /\ IF cmd.want_abort
       THEN cmd' = [cmd EXCEPT !.dgo_state = "Finish_Dgo"] /\ UNCHANGED mbx
       ELSE cmd' = ReturnObject /\ mbx' = [mbx EXCEPT !["dgo"] = @ + 1]
  /\ UNCHANGED <<IsoVars, iso, content>>

(* LookMbx(sync_mbx) found the EE's LoadNextDGO or CancelDGO. *)
DGO_Finish_Obj ==
  /\ Running("Finish_Obj") /\ cmd.finished_first /\ mbx["sync"] > 0
  /\ IF cmd.want_abort
       THEN /\ cmd' = [cmd EXCEPT !.dgo_state = "Finish_Dgo"]
            /\ mbx' = [mbx EXCEPT !["sync"] = @ - 1]
       ELSE /\ cmd' = ReturnObject
            /\ mbx' = [mbx EXCEPT !["sync"] = @ - 1, !["dgo"] = @ + 1]
  /\ UNCHANGED <<IsoVars, iso, content>>

(* Fault: no extra sync before the heap-top load. *)
DGO_Read_Last_Obj_NoSync ==
  /\ Running("Read_Last_Obj")
  /\ cmd' = [cmd EXCEPT !.dest = "top", !.destHeap = cmd.heap, !.destPos = cmd.heaptop,
                        !.buffer_toggle = 0, !.dgo_state = "Read_Obj_Header"]
  /\ UNCHANGED <<IsoVars, iso, content, mbx>>

DGO_Read_Last_Obj ==
  /\ Running("Read_Last_Obj") /\ mbx["sync"] > 0
  /\ mbx' = [mbx EXCEPT !["sync"] = @ - 1]
  /\ cmd' = IF cmd.want_abort
              THEN [cmd EXCEPT !.dgo_state = "Finish_Dgo"]
              ELSE [cmd EXCEPT !.dest = "top", !.destHeap = cmd.heap, !.destPos = cmd.heaptop,
                               !.buffer_toggle = 0, !.dgo_state = "Read_Obj_Header"]
  /\ UNCHANGED <<IsoVars, iso, content>>

(* The EE is not ready: keep the rest of the page for the next run. *)
DGO_NotReady ==
  /\ \/ Running("Finish_Obj") /\ cmd.finished_first
     \/ Running("Read_Last_Obj")
  /\ mbx["sync"] = 0
  /\ Leave(cmd, iso.left)
  /\ UNCHANGED <<IsoVars, mbx, content>>

DGO_Read_Obj_Header ==
  /\ Running("Read_Obj_Header")
  /\ LET n == Least(HeaderSize - cmd.bytes_processed, iso.left)
     IN /\ iso' = [iso EXCEPT !.left = @ - n]
        /\ IF cmd.bytes_processed + n # HeaderSize
             THEN /\ cmd' = [cmd EXCEPT !.bytes_processed = @ + n]
                  /\ UNCHANGED content
             ELSE /\ cmd' = [cmd EXCEPT !.bytes_processed = 0,
                                        !.dgo_state = "Read_Obj_data"]
                  /\ Send(FALSE)
  /\ UNCHANGED <<IsoVars, mbx>>

(* Fault: the count of loaded objects is one too high at the end. *)
DGO_Read_Obj_data_OffByOne ==
  /\ Running("Read_Obj_data")
  /\ LET size == Size[cmd.file][cmd.objects_loaded + 1]
         n    == Least(size - cmd.bytes_processed, iso.left)
         whole == cmd.bytes_processed + n = size
         last == cmd.objects_loaded + 2 >= object_count(cmd.file)
     IN /\ iso' = [iso EXCEPT !.left = @ - n]
        /\ Send(whole)
        /\ cmd' = IF whole
                    THEN [cmd EXCEPT !.objects_loaded = @ + 1,
                                     !.bytes_processed = IF last THEN @ + n ELSE 0,
                                     !.dgo_state = IF last THEN "Finish_Dgo" ELSE "Finish_Obj"]
                    ELSE [cmd EXCEPT !.bytes_processed = @ + n]
  /\ UNCHANGED <<IsoVars, mbx>>

DGO_Read_Obj_data ==
  /\ Running("Read_Obj_data")
  /\ LET size == Size[cmd.file][cmd.objects_loaded + 1]
         n    == Least(size - cmd.bytes_processed, iso.left)
         whole == cmd.bytes_processed + n = size
         last == cmd.objects_loaded + 1 = object_count(cmd.file)
     IN /\ iso' = [iso EXCEPT !.left = @ - n]
        /\ Send(whole)
        /\ cmd' = IF whole
                    THEN [cmd EXCEPT !.objects_loaded = @ + 1,
                                     !.bytes_processed = IF last THEN @ + n ELSE 0,
                                     !.dgo_state = IF last THEN "Finish_Dgo" ELSE "Finish_Obj"]
                    ELSE [cmd EXCEPT !.bytes_processed = @ + n]
  /\ UNCHANGED <<IsoVars, mbx>>

(* Returns CMD_STATUS_DONE: ProcessMessageData then frees the buffers,     *)
(* closes the file (which spoils a read under way), unqueues the command   *)
(* and returns it.                                                         *)
DGO_Finish_Dgo ==
  /\ Running("Finish_Dgo")
  /\ cmd' = [cmd EXCEPT !.status = "DONE", !.pages = <<>>, !.queued = FALSE]
  /\ iso' = [iso EXCEPT !.pc = "after", !.left = 0, !.readInfo = FALSE]
  /\ mbx' = [mbx EXCEPT !["dgo"] = @ + 1]
  /\ UNCHANGED <<IsoVars, content>>

IsoThread ==
  \/ ISO_PollMessage \/ ISO_Opened \/ ISO_PollEmpty \/ ISO_ReadComplete
  \/ ISO_SyncRead \/ ISO_DelayOver
  \/ DGO_OutOfData \/ DGO_Init \/ DGO_Read_Header
  \/ DGO_Finish_FirstObj \/ DGO_Finish_Obj \/ DGO_Read_Last_Obj \/ DGO_NotReady
  \/ DGO_Read_Obj_Header \/ DGO_Read_Obj_data \/ DGO_Finish_Dgo

EE ==
  \/ \E f \in Disc \cup NotFound, h \in Heaps : BeginLoadingDGO(f, h)
  \/ GetNextDGO \/ LinkDone \/ ContinueLoadingDGO \/ CancelLoadingDGO \/ Unload

Next == EE \/ DgoThread \/ IsoThread

(***************************************************************************)
(* The ISO thread always delays or waits for the disc and comes back.  The *)
(* DGO thread runs only when the ISO thread yields, but then it goes first *)
(* (priority 98 against 100), so it is not passed over for ever.  The EE   *)
(* owes nobody anything.                                                   *)
(***************************************************************************)
Spec == Init /\ [][Next]_vars /\ WF_vars(IsoThread) /\ SF_vars(DgoThread)

-----------------------------------------------------------------------------
EETypes == [pc : EEStates, file : Disc \cup NotFound \cup {NoFile}, heap : Heaps,
            buf : Bufs, last : BOOLEAN]
RpcTypes == [fno : Fnos, file : Disc \cup NotFound \cup {NoFile}, heap : Heaps,
             top : Nat, started : BOOLEAN, finished : BOOLEAN,
             result : Results, buf : Bufs]
CmdTypes == [cmd_id : BOOLEAN, queued : BOOLEAN, status : {"IN_PROGRESS", "DONE"},
             file : Disc \cup {NoFile}, heap : Heaps, heaptop : Nat,
             dgo_state : DgoStates, bytes_processed : Nat, objects_loaded : Nat,
             buffer_toggle : 0..2, dest : Bufs, destHeap : Heaps, destPos : Nat,
             selected : Bufs, finished_first : BOOLEAN, want_abort : BOOLEAN,
             pages : Seq(Nat)]
IsoTypes == [pc : IsoStates, left : Nat, reading : BOOLEAN, readInfo : BOOLEAN]
Contents == [file : Disc \cup {NoFile}, obj : Nat, full : BOOLEAN, pos : Nat]

(* Type correctness of the four parties' state. *)
TypeOK ==
  /\ ee \in EETypes
  /\ heapCur \in [Heaps -> Nat]
  /\ rpc \in RpcTypes
  /\ dgo \in DgoWaits
  /\ mbx \in [{"iso", "sync", "dgo"} -> Nat]
  /\ cmd \in CmdTypes
  /\ iso \in IsoTypes
  /\ content \in [Heaps -> [Bufs -> Contents]]

(* While the EE links an object, the buffer it was told to look at holds   *)
(* exactly the next object of the file it asked for, whole: the IOP never  *)
(* sends anything over an object being linked, never skips or repeats one, *)
(* and never reports one that is still under way.                          *)
LinksIntactObject ==
  ee.pc = "linking" =>
    LET it == content[ee.heap][ee.buf]
    IN it.file = ee.file /\ it.full /\ it.obj = heapCur[ee.heap] + 1

(* The object reported as the last one really is the last, and lies where  *)
(* the heap now ends: level.gc links it at heap current without looking at *)
(* the address the IOP reported, and the two buffers are given up first.   *)
LastObjectAtHeapTop ==
  ee.pc = "linking" =>
    /\ ee.last <=> (heapCur[ee.heap] + 1 = object_count(ee.file))
    /\ ee.last => /\ ee.buf = "top"
                  /\ content[ee.heap]["top"].pos = heapCur[ee.heap]

(* Between two RPCs no message is under way: a sync left in sync_mbx would *)
(* let the state machine run ahead of the EE, one left in dgo_mbx would    *)
(* answer a call before its object is there.  sLoadDGO says it is in use   *)
(* exactly while the ISO thread has it queued.                             *)
ChannelQuietBetweenCalls ==
  ~rpc_busy => /\ \A m \in DOMAIN mbx : mbx[m] = 0
               /\ cmd.cmd_id <=> cmd.queued

(* A load is refused only for a file that is not on the disc, and going on *)
(* with a load is never refused.                                           *)
ErrorOnlyIfMissing ==
  ~rpc_busy /\ rpc.result = "ERROR" => rpc.fno = "LOAD" /\ rpc.file \notin Disc

(* Once the EE has been given an object of its load, nothing of an earlier *)
(* load that was abandoned is still being sent to memory: every write goes *)
(* to the heap of the load the EE knows about.                             *)
NoLateWrites ==
  [][ee.pc \in {"linking", "linked"} =>
       \A h \in Heaps \ {ee.heap} : content'[h] = content[h]]_vars

(* Every call on the DGO channel is answered, whatever was abandoned       *)
(* before: EE, DGO thread and ISO thread never all wait for each other.    *)
EveryCallAnswered == rpc_busy ~> ~rpc_busy

-----------------------------------------------------------------------------
(***************************************************************************)
(* The pipeline this implements.  Its `sent` is objects_loaded, once the   *)
(* state machine has read the header of the file the EE asked for.         *)
(***************************************************************************)
Loading == ee.pc \in {"wait", "linking", "linked"}

HeaderRead ==
  ~(ee.pc = "wait" /\ rpc.fno = "LOAD" /\
      \/ rpc.result = "ERROR"
      \/ ~rpc.finished /\ dgo # "load_wait"
      \/ ~rpc.finished /\ mbx["iso"] = 1
      \/ iso.pc = "open"
      \/ cmd.dgo_state \in {"Init", "Read_Header"})

Pipeline == INSTANCE DgoPipeline WITH
  Count  <- [f \in Disc |-> object_count(f)],
  phase  <- IF Loading THEN "loading" ELSE ee.pc,
  file   <- ee.file,
  sent   <- IF Loading /\ HeaderRead THEN cmd.objects_loaded ELSE 0,
  given  <- IF Loading THEN heapCur[ee.heap] + (IF ee.pc = "linking" THEN 1 ELSE 0) ELSE 0,
  linked <- IF Loading THEN heapCur[ee.heap] ELSE 0

(* Loading implements the pipeline: every step of EE, DGO thread and ISO   *)
(* thread is a step of the pipeline or invisible to it.                    *)
ImplementsPipeline == Pipeline!Spec

-----------------------------------------------------------------------------
(***************************************************************************)
(* The inductive invariant.  It says, for each place the DGO thread can    *)
(* wait, which messages are under way and how far the state machine is.    *)
(***************************************************************************)
Mail(i, s, d) == mbx["iso"] = i /\ mbx["sync"] = s /\ mbx["dgo"] = d

BufOf(toggle) == IF toggle = 1 THEN "b1" ELSE IF toggle = 2 THEN "b2" ELSE "top"

(* Object number of the object last returned to the DGO thread. *)
Returned ==
  IF cmd.dgo_state = "Finish_Obj" THEN cmd.objects_loaded - 1 ELSE cmd.objects_loaded

(* sLoadDGO is not in use. *)
Unused == ~cmd.queued /\ ~cmd.cmd_id

(* The last object has been loaded, or the load aborted: all is returned. *)
Finished == ~cmd.queued /\ cmd.cmd_id /\ cmd.status = "DONE"

Active == cmd.queued /\ cmd.cmd_id /\ cmd.status = "IN_PROGRESS"

Holds(b, n) ==
  LET it == content[cmd.heap][b]
  IN it.file = cmd.file /\ it.full /\ it.obj = n

(* One object is returned and lies intact in `selected`; the state machine *)
(* is at work on the next one, in the other buffer, or waits to go on.     *)
Ahead ==
  /\ Active /\ cmd.finished_first
  /\ cmd.dgo_state \in {"Read_Obj_Header", "Read_Obj_data", "Finish_Obj", "Read_Last_Obj"}
  /\ cmd.buffer_toggle # 0
  /\ cmd.selected \in {"b1", "b2"} /\ cmd.selected # cmd.dest
  /\ Returned >= 1 /\ Holds(cmd.selected, Returned)

(* No object is returned yet. *)
Starting ==
  /\ Active
  /\ \/ cmd.dgo_state = "Init"
     \/ /\ ~cmd.finished_first /\ ~cmd.want_abort
        /\ \/ cmd.dgo_state = "Read_Header"
           \/ /\ cmd.dgo_state \in {"Read_Obj_Header", "Read_Obj_data"}
              /\ cmd.objects_loaded = 0 /\ cmd.destPos = cmd.heaptop
              /\ cmd.buffer_toggle # 2
           \/ /\ cmd.dgo_state = "Finish_Obj" /\ cmd.objects_loaded = 1
              /\ cmd.buffer_toggle = 1
           \/ /\ cmd.dgo_state = "Finish_Dgo" /\ object_count(cmd.file) = 1
              /\ cmd.destPos = cmd.heaptop

(* The last of several objects is under way to the top of the heap. *)
Topping ==
  /\ Active /\ cmd.finished_first /\ ~cmd.want_abort
  /\ cmd.buffer_toggle = 0 /\ cmd.destPos = cmd.heaptop
  /\ cmd.dgo_state \in {"Read_Obj_Header", "Read_Obj_data", "Finish_Dgo"}

(* What the last object must look like when it is reported. *)
LastOnTop ==
  Holds("top", object_count(cmd.file)) /\ content[cmd.heap]["top"].pos = cmd.heaptop

Handshake ==
  /\ dgo = "sleep" => /\ Mail(0, 0, 0)
                      /\ Unused \/ (Ahead /\ ~cmd.want_abort)
  /\ dgo \in {"abort_wait", "cancel_wait"} =>
       /\ cmd.want_abort
       /\ \/ Mail(0, 1, 0) /\ Ahead
          \/ Mail(0, 0, 0) /\ Active /\ cmd.dgo_state = "Finish_Dgo"
          \/ Mail(0, 0, 1) /\ Finished
  /\ dgo = "load_wait" =>
       \/ Mail(1, 0, 0) /\ ~cmd.queued /\ cmd.cmd_id
       \/ Mail(0, 0, 0) /\ iso.pc = "open"
       \/ Mail(0, 0, 0) /\ Starting
       \/ Mail(0, 0, 1) /\ Ahead /\ ~cmd.want_abort
            /\ cmd.selected = "b1" /\ Returned = 1
       \/ Mail(0, 0, 1) /\ Finished /\ LastOnTop /\ object_count(cmd.file) = 1
  /\ dgo = "next_wait" =>
       \/ Mail(0, 1, 0) /\ Ahead /\ ~cmd.want_abort
       \/ Mail(0, 0, 0) /\ Topping
       \/ Mail(0, 0, 1) /\ Ahead /\ ~cmd.want_abort
       \/ Mail(0, 0, 1) /\ Finished /\ LastOnTop

(* The state machine's place in the file. *)
Progress ==
  cmd.queued /\ iso.pc # "open" =>
    /\ cmd.dgo_state \in {"Read_Obj_Header", "Read_Obj_data"} =>
         /\ cmd.objects_loaded < object_count(cmd.file)
         /\ cmd.dest = BufOf(cmd.buffer_toggle) /\ cmd.destHeap = cmd.heap
         /\ cmd.buffer_toggle = 0 <=> cmd.objects_loaded + 1 = object_count(cmd.file)
    /\ cmd.dgo_state = "Finish_Obj" =>
         /\ 1 <= cmd.objects_loaded /\ cmd.objects_loaded < object_count(cmd.file)
         /\ cmd.buffer_toggle # 0 /\ cmd.dest = BufOf(cmd.buffer_toggle)
         /\ Holds(cmd.dest, cmd.objects_loaded)
    /\ cmd.dgo_state = "Read_Last_Obj" =>
         /\ cmd.objects_loaded + 1 = object_count(cmd.file)
         /\ cmd.dest = BufOf(cmd.buffer_toggle)
    /\ cmd.dgo_state = "Finish_Dgo" /\ ~cmd.want_abort =>
         Holds("top", object_count(cmd.file)) /\ content[cmd.heap]["top"].pos = cmd.destPos
    /\ cmd.dgo_state \in {"Read_Header", "Read_Obj_Header"} =>
         cmd.bytes_processed <= HeaderSize
    /\ cmd.dgo_state = "Read_Obj_data" =>
         cmd.bytes_processed <= Size[cmd.file][cmd.objects_loaded + 1]
    /\ cmd.dgo_state \in {"Finish_Obj", "Read_Last_Obj"} => cmd.bytes_processed = 0

(* The ISO thread's own state. *)
IsoInv ==
  /\ cmd.queued => cmd.file \in Disc
  /\ cmd.cmd_id => cmd.file \in Disc
  /\ iso.pc = "open" => cmd.queued /\ cmd.cmd_id /\ dgo = "load_wait" /\ Mail(0, 0, 0)
  /\ iso.pc = "read" => cmd.queued
  /\ iso.pc = "callback" => cmd.queued /\ cmd.pages # <<>>

(* The command serves the EE's load. *)
Ours == cmd.file = ee.file /\ cmd.heap = ee.heap

(* An object that is the last one of the EE's file, at the heap's end. *)
LastAtEnd(it) ==
  /\ it.file = ee.file /\ it.full /\ it.obj = object_count(ee.file)
  /\ it.pos = heapCur[ee.heap] /\ heapCur[ee.heap] + 1 = object_count(ee.file)

(* The RPC record, against where the DGO thread is. *)
RpcInv ==
  /\ dgo = "sleep" <=> (rpc.started <=> rpc.finished)
  /\ ~rpc.started => ~rpc.finished
  /\ dgo \in {"load_wait", "abort_wait"} => rpc.fno = "LOAD" /\ rpc.file \in Disc
  /\ dgo = "load_wait" =>
       cmd.file = rpc.file /\ cmd.heap = rpc.heap /\ cmd.heaptop = rpc.top
  /\ dgo = "next_wait" => rpc.fno = "LOAD_NEXT" /\ cmd.heaptop = rpc.top
  /\ dgo = "cancel_wait" => rpc.fno = "CANCEL"
  /\ ~rpc.started /\ rpc.fno # "LOAD" => Ahead
  /\ rpc.finished /\ rpc.result = "ERROR" => rpc.fno = "LOAD" /\ rpc.file \notin Disc

(* Only the heap of the load has anything linked on it. *)
HeapInv ==
  \A h \in Heaps : (ee.pc = "idle" \/ h # ee.heap) => heapCur[h] = 0

(* The EE has been given an object. *)
LinkInv ==
  /\ ee.pc \notin {"idle", "wait"} => rpc.finished
  /\ ee.pc = "linked" => Ahead /\ Ours /\ heapCur[ee.heap] = Returned
  /\ ee.pc = "linking" /\ ~ee.last =>
       /\ Ahead /\ Ours
       /\ ee.buf = cmd.selected /\ heapCur[ee.heap] + 1 = Returned
  /\ ee.pc = "linking" /\ ee.last =>
       Unused /\ ee.buf = "top" /\ LastAtEnd(content[ee.heap]["top"])

(* The EE waits for an answer. *)
WaitInv ==
  /\ ee.pc = "wait" /\ ~rpc.finished =>
       /\ rpc.fno = "LOAD" => /\ rpc.file = ee.file /\ rpc.heap = ee.heap
                              /\ rpc.top = 0 /\ heapCur[ee.heap] = 0
       /\ rpc.fno # "LOAD" => Ours
       /\ rpc.fno = "LOAD_NEXT" =>
            /\ rpc.top = heapCur[ee.heap]
            /\ mbx["sync"] = 1 \/ ~rpc.started => heapCur[ee.heap] = Returned
            /\ mbx["dgo"] = 1 /\ cmd.queued => heapCur[ee.heap] + 1 = Returned
            /\ Topping \/ Finished => heapCur[ee.heap] + 1 = object_count(ee.file)
  /\ ee.pc = "wait" /\ rpc.finished =>
       /\ rpc.result = "MORE" =>
            /\ Ahead /\ Ours
            /\ rpc.buf = cmd.selected /\ heapCur[ee.heap] + 1 = Returned
       /\ rpc.result = "DONE" =>
            Unused /\ rpc.buf = "top" /\ LastAtEnd(content[ee.heap]["top"])

(* The RPC record and the EE's view of its load. *)
EEInv == RpcInv /\ HeapInv /\ LinkInv /\ WaitInv

IInv == TypeOK /\ Handshake /\ Progress /\ IsoInv /\ EEInv
=============================================================================
