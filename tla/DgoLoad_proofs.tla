--------------------------- MODULE DgoLoad_proofs ---------------------------
(***************************************************************************)
(* TLAPS proofs about DgoLoad: IInv is an inductive invariant, whatever    *)
(* the files, their object sizes, the page size and the heaps are, and the *)
(* safety properties the runs check follow from it.                        *)
(*                                                                         *)
(* Every action is treated the same way.  First its effect is read off as  *)
(* facts about single fields, which is also where TypeOK' comes from; then *)
(* the parts of IInv are derived from those facts.                         *)
(***************************************************************************)
EXTENDS DgoLoad, TLAPS

USE DiscAssumption, HeapsAssumption, PageAssumption

-----------------------------------------------------------------------------
(***************************************************************************)
(* Field-wise views of the records.                                        *)
(***************************************************************************)
EETyped ==
  /\ ee.pc \in EEStates /\ ee.file \in Disc \cup NotFound \cup {NoFile}
  /\ ee.heap \in Heaps /\ ee.buf \in Bufs /\ ee.last \in BOOLEAN
  /\ \A h \in Heaps : heapCur[h] \in Nat

RpcTyped ==
  /\ rpc.fno \in Fnos /\ rpc.file \in Disc \cup NotFound \cup {NoFile}
  /\ rpc.heap \in Heaps /\ rpc.top \in Nat /\ rpc.started \in BOOLEAN
  /\ rpc.finished \in BOOLEAN /\ rpc.result \in Results /\ rpc.buf \in Bufs

CmdTyped ==
  /\ cmd.cmd_id \in BOOLEAN /\ cmd.queued \in BOOLEAN
  /\ cmd.status \in {"IN_PROGRESS", "DONE"} /\ cmd.file \in Disc \cup {NoFile}
  /\ cmd.heap \in Heaps /\ cmd.heaptop \in Nat /\ cmd.dgo_state \in DgoStates
  /\ cmd.bytes_processed \in Nat /\ cmd.objects_loaded \in Nat
  /\ cmd.buffer_toggle \in 0..2 /\ cmd.dest \in Bufs /\ cmd.destHeap \in Heaps
  /\ cmd.destPos \in Nat /\ cmd.selected \in Bufs /\ cmd.finished_first \in BOOLEAN
  /\ cmd.want_abort \in BOOLEAN /\ cmd.pages \in Seq(Nat)

IopTyped ==
  /\ dgo \in DgoWaits
  /\ mbx["iso"] \in Nat /\ mbx["sync"] \in Nat /\ mbx["dgo"] \in Nat
  /\ iso.pc \in IsoStates /\ iso.left \in Nat
  /\ iso.reading \in BOOLEAN /\ iso.readInfo \in BOOLEAN

Typed == EETyped /\ RpcTyped /\ CmdTyped /\ IopTyped

(* TypeOK gives every field its type. *)
LEMMA TypedLemma == ASSUME TypeOK PROVE Typed
<1>1. EETyped BY DEF TypeOK, EETypes, EETyped
<1>2. RpcTyped BY DEF TypeOK, RpcTypes, RpcTyped
<1>3. CmdTyped BY DEF TypeOK, CmdTypes, CmdTyped
<1>4. IopTyped BY DEF TypeOK, IsoTypes, IopTyped
<1> QED BY <1>1, <1>2, <1>3, <1>4 DEF Typed

(* Groups of fields of sLoadDGO a step leaves alone. *)
SameCall == cmd'.cmd_id = cmd.cmd_id /\ cmd'.queued = cmd.queued /\ cmd'.status = cmd.status
SameFile == cmd'.file = cmd.file /\ cmd'.heap = cmd.heap
SameTop  == cmd'.heaptop = cmd.heaptop
SameState == cmd'.dgo_state = cmd.dgo_state
SamePlace == cmd'.bytes_processed = cmd.bytes_processed /\ cmd'.objects_loaded = cmd.objects_loaded
SameDest == /\ cmd'.buffer_toggle = cmd.buffer_toggle /\ cmd'.dest = cmd.dest
            /\ cmd'.destHeap = cmd.destHeap /\ cmd'.destPos = cmd.destPos
SameFirst == cmd'.selected = cmd.selected /\ cmd'.finished_first = cmd.finished_first
SameAbort == cmd'.want_abort = cmd.want_abort
SameCmd == /\ SameCall /\ SameFile /\ SameTop /\ SameState /\ SamePlace
           /\ SameDest /\ SameFirst /\ SameAbort

-----------------------------------------------------------------------------
(***************************************************************************)
(* Initial states.                                                         *)
(***************************************************************************)
(* The inductive invariant holds at start-up. *)
LEMMA InitIInv == Init => IInv
<1> SUFFICES ASSUME Init PROVE IInv
  OBVIOUS
<1>1. PICK h \in Heaps :
       /\ ee = [pc |-> "idle", file |-> NoFile, heap |-> h, buf |-> "b1", last |-> FALSE]
       /\ rpc = [fno |-> "LOAD", file |-> NoFile, heap |-> h, top |-> 0, started |-> TRUE,
                 finished |-> TRUE, result |-> "INIT", buf |-> "b1"]
       /\ cmd = [cmd_id |-> FALSE, queued |-> FALSE, status |-> "DONE", file |-> NoFile,
                 heap |-> h, heaptop |-> 0, dgo_state |-> "Init", bytes_processed |-> 0,
                 objects_loaded |-> 0, buffer_toggle |-> 0,
                 dest |-> "b1", destHeap |-> h, destPos |-> 0, selected |-> "b1",
                 finished_first |-> FALSE, want_abort |-> FALSE, pages |-> <<>>]
  BY DEF Init
<1>2. TypeOK
  BY <1>1 DEF Init, TypeOK, EETypes, RpcTypes, CmdTypes, IsoTypes, EEStates, Fnos, Results, Bufs, DgoStates, DgoWaits,
              IsoStates, Contents, Nothing
<1>3. Handshake /\ Progress /\ IsoInv
  BY <1>1 DEF Init, Handshake, Mail, Unused, Progress, IsoInv
<1>4. EEInv
  BY <1>1 DEF Init, EEInv, RpcInv, HeapInv, LinkInv, WaitInv
<1> QED BY <1>2, <1>3, <1>4 DEF IInv

-----------------------------------------------------------------------------
(***************************************************************************)
(* The EE's steps.  They leave everything on the IOP alone, so only EEInv  *)
(* needs an argument.                                                      *)
(***************************************************************************)
(* A step that leaves the IOP's state alone keeps the IOP's invariants. *)
LEMMA IopUntouched ==
  ASSUME IInv, UNCHANGED <<dgo, mbx, cmd, iso, content>>
  PROVE  Handshake' /\ Progress' /\ IsoInv'
<1>1. Handshake'
  <2>1. \A i, s, d : Mail(i, s, d)' <=> Mail(i, s, d) BY DEF Mail
  <2>2. (Unused' <=> Unused) /\ (Active' <=> Active) /\ (Finished' <=> Finished)
    BY DEF Unused, Active, Finished
  <2>3. Ahead' <=> Ahead BY DEF Ahead, Active, Holds, Returned
  <2>4. (Starting' <=> Starting) /\ (Topping' <=> Topping) BY DEF Starting, Topping, Active
  <2>5. (LastOnTop' <=> LastOnTop) /\ Returned' = Returned BY DEF LastOnTop, Holds, Returned
  <2> QED BY <2>1, <2>2, <2>3, <2>4, <2>5 DEF IInv, Handshake
<1>2. Progress' BY DEF IInv, Progress, Holds
<1>3. IsoInv' BY DEF IInv, IsoInv, Mail
<1> QED BY <1>1, <1>2, <1>3

(* Asking for a file. *)
LEMMA BeginStep ==
  ASSUME IInv, NEW f \in Disc \cup NotFound, NEW h \in Heaps, BeginLoadingDGO(f, h)
  PROVE  IInv'
<1> USE DEF IInv
<1>0. Typed BY TypedLemma
<1>u. UNCHANGED <<heapCur, dgo, mbx, cmd, iso, content>> BY DEF BeginLoadingDGO
<1>g. ee.pc = "idle" /\ rpc.finished BY DEF BeginLoadingDGO, rpc_busy
<1>e. ee' = [ee EXCEPT !.pc = "wait", !.file = f, !.heap = h] BY DEF BeginLoadingDGO
<1>r. rpc' = [fno |-> "LOAD", file |-> f, heap |-> h, top |-> heapCur[h],
              started |-> FALSE, finished |-> FALSE, result |-> "INIT", buf |-> "b1"]
  BY DEF BeginLoadingDGO, RpcCall
<1>f. /\ ee'.pc = "wait" /\ ee'.file = f /\ ee'.heap = h
      /\ rpc'.fno = "LOAD" /\ rpc'.file = f /\ rpc'.heap = h /\ rpc'.top = heapCur[h]
      /\ ~rpc'.started /\ ~rpc'.finished
  BY <1>e, <1>r, Zenon DEF TypeOK, EETypes
<1>1. TypeOK'
  <2>1. heapCur[h] \in Nat BY DEF TypeOK
  <2>2. rpc' \in RpcTypes BY <1>r, <2>1 DEF RpcTypes, Fnos, Results, Bufs
  <2>3. ee' \in EETypes BY <1>e, Zenon DEF TypeOK, EETypes, EEStates
  <2> QED BY <1>u, <2>2, <2>3 DEF TypeOK
<1>2. Handshake' /\ Progress' /\ IsoInv' BY <1>u, IopUntouched
<1>3. EEInv'
  <2>1. RpcInv' BY <1>u, <1>g, <1>f DEF EEInv, RpcInv
  <2>2. HeapInv' BY <1>0, <1>u, <1>g, <1>f DEF Typed, EETyped, RpcTyped, IopTyped, EEInv, HeapInv
  <2>3. LinkInv' BY <1>u, <1>g, <1>f DEF LinkInv
  <2>4. WaitInv'
    <3>1. heapCur[h] = 0 BY <1>g DEF EEInv, HeapInv
    <3> QED BY <1>u, <1>f, <3>1 DEF WaitInv
  <2> QED BY <2>1, <2>2, <2>3, <2>4 DEF EEInv
<1> QED BY <1>1, <1>2, <1>3

(* Taking an answer: MORE or DONE starts the linking of an object. *)
LEMMA GetNextStep ==
  ASSUME IInv, GetNextDGO PROVE IInv'
<1> USE DEF IInv
<1>0. Typed BY TypedLemma
<1>u. UNCHANGED <<heapCur, rpc, dgo, mbx, cmd, iso, content>> BY DEF GetNextDGO
<1>g. ee.pc = "wait" /\ rpc.finished BY DEF GetNextDGO, rpc_busy
<1>2. Handshake' /\ Progress' /\ IsoInv' BY <1>u, IopUntouched
<1>a. CASE rpc.result \in {"MORE", "DONE"}
  <2> DEFINE last == rpc.result = "DONE"
  <2>l. last \in BOOLEAN /\ rpc.buf \in Bufs BY <1>0 DEF Typed, RpcTyped
  <2>e. ee' = [ee EXCEPT !.pc = "linking", !.buf = rpc.buf, !.last = last]
    BY <1>a, Zenon DEF GetNextDGO
  <2> HIDE DEF last
  <2>f. /\ ee'.pc = "linking" /\ ee'.file = ee.file /\ ee'.heap = ee.heap
        /\ ee'.buf = rpc.buf /\ ee'.last = last
    BY <2>e, Zenon DEF TypeOK, EETypes
  <2>1. TypeOK'
    <3>1. ee' \in EETypes BY <2>e, <2>l, Zenon DEF TypeOK, EETypes, EEStates
    <3> QED BY <1>u, <3>1 DEF TypeOK
  <2>3. EEInv'
    <3>1. RpcInv' BY <1>u DEF EEInv, RpcInv, Ahead, Active, Holds, Returned
    <3>2. HeapInv' BY <1>u, <1>g, <2>f DEF EEInv, HeapInv
    <3>3. WaitInv' BY <2>f DEF WaitInv
    <3>4. CASE rpc.result = "MORE"
      <4>1. /\ Ahead /\ Ours /\ rpc.buf = cmd.selected /\ heapCur[ee.heap] + 1 = Returned
            /\ ~last
        BY <1>g, <3>4 DEF EEInv, WaitInv, last
      <4>2. LinkInv' BY <1>u, <1>g, <2>f, <4>1 DEF LinkInv, Ahead, Active, Holds, Ours, Returned
      <4> QED BY <3>1, <3>2, <3>3, <4>2 DEF EEInv
    <3>5. CASE rpc.result = "DONE"
      <4>1. last /\ Unused /\ rpc.buf = "top" /\ LastAtEnd(content[ee.heap]["top"])
        BY <1>g, <3>5 DEF EEInv, WaitInv, last
      <4>2. LinkInv' BY <1>u, <1>g, <2>f, <4>1 DEF LinkInv, Unused, LastAtEnd
      <4> QED BY <3>1, <3>2, <3>3, <4>2 DEF EEInv
    <3> QED BY <1>a, <3>4, <3>5
  <2> QED BY <1>2, <2>1, <2>3
<1>b. CASE rpc.result \notin {"MORE", "DONE"}
  <2>e. ee' = [ee EXCEPT !.pc = "failed"] BY <1>b DEF GetNextDGO
  <2>f. ee'.pc = "failed" /\ ee'.file = ee.file /\ ee'.heap = ee.heap
    BY <2>e, Zenon DEF TypeOK, EETypes
  <2>1. TypeOK'
    <3>1. ee' \in EETypes BY <2>e, Zenon DEF TypeOK, EETypes, EEStates
    <3> QED BY <1>u, <3>1 DEF TypeOK
  <2>3. EEInv'
    BY <1>0, <1>u, <1>g, <2>f
    DEF Typed, EETyped, RpcTyped, IopTyped, EEInv, RpcInv, HeapInv, LinkInv, WaitInv,
        Ahead, Active, Holds, Returned
  <2> QED BY <1>2, <2>1, <2>3
<1> QED BY <1>a, <1>b

(* An object is linked: one more lies on the heap. *)
LEMMA LinkDoneStep ==
  ASSUME IInv, LinkDone PROVE IInv'
<1> USE DEF IInv
<1>0. Typed BY TypedLemma
<1>u. UNCHANGED <<rpc, dgo, mbx, cmd, iso, content>> BY DEF LinkDone
<1>g. ee.pc = "linking" BY DEF LinkDone
<1>h. heapCur' = [heapCur EXCEPT ![ee.heap] = @ + 1] BY DEF LinkDone
<1>e. ee' = [ee EXCEPT !.pc = IF ee.last THEN "loaded" ELSE "linked"] BY DEF LinkDone
<1>f. /\ ee'.pc = (IF ee.last THEN "loaded" ELSE "linked")
      /\ ee'.file = ee.file /\ ee'.heap = ee.heap /\ ee'.buf = ee.buf /\ ee'.last = ee.last
  BY <1>e, Zenon DEF TypeOK, EETypes
<1>k. /\ heapCur' \in [Heaps -> Nat] /\ heapCur'[ee.heap] = heapCur[ee.heap] + 1
      /\ \A h \in Heaps : h # ee.heap => heapCur'[h] = heapCur[h]
  <2>1. heapCur \in [Heaps -> Nat] /\ ee.heap \in Heaps BY DEF TypeOK, EETypes
  <2> QED BY <1>h, <2>1
<1>1. TypeOK'
  <2>1. (IF ee.last THEN "loaded" ELSE "linked") \in EEStates BY DEF EEStates
  <2>2. ee' \in EETypes BY <1>e, <2>1, Zenon DEF TypeOK, EETypes
  <2> QED BY <1>u, <1>k, <2>2 DEF TypeOK
<1>2. Handshake' /\ Progress' /\ IsoInv' BY <1>u, IopUntouched
<1>3. EEInv'
  <2>1. RpcInv' BY <1>u DEF EEInv, RpcInv, Ahead, Active, Holds, Returned
  <2>2. HeapInv' BY <1>g, <1>f, <1>k DEF EEInv, HeapInv
  <2>3. LinkInv' /\ WaitInv'
    BY <1>0, <1>u, <1>g, <1>f, <1>k
    DEF Typed, EETyped, CmdTyped, EEInv, LinkInv, WaitInv, Ahead, Active, Holds, Ours, Returned
  <2> QED BY <2>1, <2>2, <2>3 DEF EEInv
<1> QED BY <1>1, <1>2, <1>3

(* Asking for the next object, or to cancel, between two objects. *)
LEMMA ContinueStep ==
  ASSUME IInv, ContinueLoadingDGO \/ CancelLoadingDGO PROVE IInv'
<1> USE DEF IInv
<1>0. Typed BY TypedLemma
<1>u. UNCHANGED <<heapCur, dgo, mbx, cmd, iso, content>>
  BY DEF ContinueLoadingDGO, CancelLoadingDGO
<1>g. ee.pc = "linked" /\ rpc.finished BY DEF ContinueLoadingDGO, CancelLoadingDGO, rpc_busy
<1>e. ee' = [ee EXCEPT !.pc = "wait"] BY DEF ContinueLoadingDGO, CancelLoadingDGO
<1>r. PICK fno \in {"LOAD_NEXT", "CANCEL"} :
        rpc' = [fno |-> fno, file |-> NoFile, heap |-> ee.heap, top |-> heapCur[ee.heap],
                started |-> FALSE, finished |-> FALSE, result |-> "INIT", buf |-> "top"]
  BY DEF ContinueLoadingDGO, CancelLoadingDGO, RpcCall
<1>f. /\ ee'.pc = "wait" /\ ee'.file = ee.file /\ ee'.heap = ee.heap
      /\ rpc'.fno = fno /\ rpc'.top = heapCur[ee.heap] /\ ~rpc'.started /\ ~rpc'.finished
  BY <1>e, <1>r, Zenon DEF TypeOK, EETypes
<1>1. TypeOK'
  <2>1. heapCur[ee.heap] \in Nat /\ ee.heap \in Heaps BY DEF TypeOK, EETypes
  <2>2. rpc' \in RpcTypes BY <1>r, <2>1 DEF RpcTypes, Fnos, Results, Bufs
  <2>3. ee' \in EETypes BY <1>e, Zenon DEF TypeOK, EETypes, EEStates
  <2> QED BY <1>u, <2>2, <2>3 DEF TypeOK
<1>2. Handshake' /\ Progress' /\ IsoInv' BY <1>u, IopUntouched
<1>3. EEInv'
  <2>1. RpcInv'
    BY <1>0, <1>u, <1>g, <1>f
    DEF Typed, RpcTyped, IopTyped, EEInv, RpcInv, LinkInv, Ahead, Active, Holds, Returned
  <2>2. HeapInv' /\ LinkInv' BY <1>u, <1>g, <1>f DEF EEInv, HeapInv, LinkInv
  <2>3. dgo = "sleep" /\ Mail(0, 0, 0) /\ Ahead /\ Ours /\ heapCur[ee.heap] = Returned
    BY <1>0, <1>g DEF Typed, RpcTyped, EEInv, RpcInv, LinkInv, Handshake
  <2>4. WaitInv'
    BY <1>0, <1>u, <1>g, <1>f, <2>3
    DEF Typed, EETyped, IopTyped, WaitInv, Mail, Ahead, Active, Topping, Finished, Ours, Returned
  <2> QED BY <2>1, <2>2, <2>4 DEF EEInv
<1> QED BY <1>1, <1>2, <1>3

(* Giving a load up, at any point: the invariant no longer speaks of it. *)
LEMMA UnloadStep ==
  ASSUME IInv, Unload PROVE IInv'
<1> USE DEF IInv
<1>u. UNCHANGED <<rpc, dgo, mbx, cmd, iso, content>> BY DEF Unload
<1>h. heapCur' = [heapCur EXCEPT ![ee.heap] = 0] BY DEF Unload
<1>e. ee' = [ee EXCEPT !.pc = "idle"] BY DEF Unload
<1>f. ee'.pc = "idle" /\ ee'.file = ee.file /\ ee'.heap = ee.heap
  BY <1>e, Zenon DEF TypeOK, EETypes
<1>k. /\ heapCur' \in [Heaps -> Nat] /\ heapCur'[ee.heap] = 0
      /\ \A h \in Heaps : h # ee.heap => heapCur'[h] = heapCur[h]
  <2>1. heapCur \in [Heaps -> Nat] /\ ee.heap \in Heaps BY DEF TypeOK, EETypes
  <2> QED BY <1>h, <2>1
<1>1. TypeOK'
  <2>1. ee' \in EETypes BY <1>e, Zenon DEF TypeOK, EETypes, EEStates
  <2> QED BY <1>u, <1>k, <2>1 DEF TypeOK
<1>2. Handshake' /\ Progress' /\ IsoInv' BY <1>u, IopUntouched
<1>3. EEInv'
  <2>1. RpcInv' BY <1>u DEF EEInv, RpcInv, Ahead, Active, Holds, Returned
  <2>2. HeapInv' /\ LinkInv' /\ WaitInv'
    BY <1>f, <1>k DEF EEInv, HeapInv, LinkInv, WaitInv
  <2> QED BY <2>1, <2>2 DEF EEInv
<1> QED BY <1>1, <1>2, <1>3

-----------------------------------------------------------------------------
(***************************************************************************)
(* The DGO thread's steps.  They leave the EE, the ISO thread and the      *)
(* buffers alone.                                                          *)
(***************************************************************************)
Answered(result, buf) ==
  /\ rpc'.fno = rpc.fno /\ rpc'.file = rpc.file /\ rpc'.heap = rpc.heap /\ rpc'.top = rpc.top
  /\ rpc'.started /\ rpc'.finished /\ rpc'.result = result /\ rpc'.buf = buf

Taken ==
  /\ rpc'.fno = rpc.fno /\ rpc'.file = rpc.file /\ rpc'.heap = rpc.heap /\ rpc'.top = rpc.top
  /\ rpc'.started /\ rpc'.finished = rpc.finished
  /\ rpc'.result = rpc.result /\ rpc'.buf = rpc.buf

(* What answering does to the RPC record. *)
LEMMA AnswerEffect ==
  ASSUME TypeOK, NEW result \in Results, NEW buf \in Bufs, Answer(result, buf)
  PROVE  rpc' \in RpcTypes /\ Answered(result, buf)
<1>1. rpc' = [rpc EXCEPT !.started = TRUE, !.finished = TRUE, !.result = result, !.buf = buf]
  BY DEF Answer
<1>2. rpc' \in RpcTypes BY <1>1, Zenon DEF TypeOK, RpcTypes
<1>3. Answered(result, buf) BY <1>1, Zenon DEF TypeOK, RpcTypes, Answered
<1> QED BY <1>2, <1>3

(* What taking a call off the queue does to the RPC record. *)
LEMMA TakenEffect ==
  ASSUME TypeOK, rpc' = [rpc EXCEPT !.started = TRUE]
  PROVE  rpc' \in RpcTypes /\ Taken
<1>1. rpc' \in RpcTypes BY Zenon DEF TypeOK, RpcTypes
<1>2. Taken BY Zenon DEF TypeOK, RpcTypes, Taken
<1> QED BY <1>1, <1>2

(* What CancelDGO does before it waits. *)
LEMMA StartAbortEffect ==
  ASSUME TypeOK, NEW wait \in DgoWaits, StartAbort(wait)
  PROVE  /\ cmd' \in CmdTypes /\ mbx' \in [{"iso", "sync", "dgo"} -> Nat] /\ dgo' = wait
         /\ SameCall /\ SameFile /\ SameTop /\ SameState /\ SamePlace /\ SameDest /\ SameFirst
         /\ cmd'.want_abort = TRUE /\ cmd'.pages = cmd.pages
         /\ mbx'["iso"] = mbx["iso"] /\ mbx'["sync"] = mbx["sync"] + 1 /\ mbx'["dgo"] = mbx["dgo"]
<1>c. cmd' = [cmd EXCEPT !.want_abort = TRUE] BY DEF StartAbort
<1>m. mbx' = [mbx EXCEPT !["sync"] = @ + 1] /\ dgo' = wait BY DEF StartAbort
<1>1. cmd' \in CmdTypes BY <1>c, Zenon DEF TypeOK, CmdTypes
<1>2. SameCall /\ SameFile /\ SameTop /\ SameState /\ SamePlace /\ SameDest /\ SameFirst
  BY <1>c, Zenon DEF TypeOK, CmdTypes, SameCall, SameFile, SameTop, SameState, SamePlace,
                     SameDest, SameFirst
<1>3. cmd'.want_abort = TRUE /\ cmd'.pages = cmd.pages
  BY <1>c, Zenon DEF TypeOK, CmdTypes
<1>4. mbx' \in [{"iso", "sync", "dgo"} -> Nat] /\ mbx'["iso"] = mbx["iso"]
      /\ mbx'["sync"] = mbx["sync"] + 1 /\ mbx'["dgo"] = mbx["dgo"]
  <2>1. mbx \in [{"iso", "sync", "dgo"} -> Nat] BY DEF TypeOK
  <2> QED BY <1>m, <2>1
<1> QED BY <1>1, <1>2, <1>3, <1>4, <1>m

(* What LoadDGO does once sLoadDGO is free, before it waits. *)
LEMMA StartLoadEffect ==
  ASSUME TypeOK, NEW m \in [{"iso", "sync", "dgo"} -> Nat], rpc.file \in Disc, StartLoad(m)
  PROVE  /\ cmd' \in CmdTypes /\ mbx' \in [{"iso", "sync", "dgo"} -> Nat] /\ dgo' = "load_wait"
         /\ cmd'.cmd_id = TRUE /\ cmd'.queued = cmd.queued /\ cmd'.status = cmd.status
         /\ cmd'.file = rpc.file /\ cmd'.heap = rpc.heap /\ cmd'.heaptop = rpc.top
         /\ cmd'.pages = cmd.pages
         /\ mbx'["iso"] = m["iso"] + 1 /\ mbx'["sync"] = m["sync"] /\ mbx'["dgo"] = m["dgo"]
<1>c. cmd' = [cmd EXCEPT !.cmd_id = TRUE, !.file = rpc.file, !.heap = rpc.heap, !.heaptop = rpc.top]
  BY DEF StartLoad
<1>m. mbx' = [m EXCEPT !["iso"] = @ + 1] /\ dgo' = "load_wait" BY DEF StartLoad
<1>t. rpc.file \in Disc \cup {NoFile} /\ rpc.heap \in Heaps /\ rpc.top \in Nat
  BY DEF TypeOK, RpcTypes
<1>1. cmd' \in CmdTypes BY <1>c, <1>t, Zenon DEF TypeOK, CmdTypes
<1>2. /\ cmd'.cmd_id = TRUE /\ cmd'.queued = cmd.queued /\ cmd'.status = cmd.status
      /\ cmd'.file = rpc.file /\ cmd'.heap = rpc.heap /\ cmd'.heaptop = rpc.top
      /\ cmd'.pages = cmd.pages
  BY <1>c, Zenon DEF TypeOK, CmdTypes
<1>3. mbx' \in [{"iso", "sync", "dgo"} -> Nat] /\ mbx'["iso"] = m["iso"] + 1
      /\ mbx'["sync"] = m["sync"] /\ mbx'["dgo"] = m["dgo"]
  BY <1>m
<1> QED BY <1>1, <1>2, <1>3, <1>m

(* A step that ends a call on sLoadDGO: only cmd_id and the wait change. *)
LEMMA ReleaseEffect ==
  ASSUME TypeOK, cmd' = [cmd EXCEPT !.cmd_id = FALSE]
  PROVE  /\ cmd' \in CmdTypes /\ ~cmd'.cmd_id
         /\ cmd'.queued = cmd.queued /\ cmd'.status = cmd.status
         /\ SameFile /\ SameTop /\ SameState /\ SamePlace /\ SameDest /\ SameFirst /\ SameAbort
         /\ cmd'.pages = cmd.pages
<1>1. cmd' \in CmdTypes BY Zenon DEF TypeOK, CmdTypes
<1>2. ~cmd'.cmd_id /\ cmd'.queued = cmd.queued /\ cmd'.status = cmd.status
      /\ cmd'.pages = cmd.pages
  BY Zenon DEF TypeOK, CmdTypes
<1>3. SameFile /\ SameTop /\ SameState /\ SamePlace /\ SameDest /\ SameFirst /\ SameAbort
  BY Zenon DEF TypeOK, CmdTypes, SameFile, SameTop, SameState, SamePlace,
                     SameDest, SameFirst, SameAbort
<1> QED BY <1>1, <1>2, <1>3

(* A refused or empty call changes the RPC record alone. *)
LEMMA RefuseStep ==
  ASSUME IInv, NEW result \in {"ERROR", "INIT"}, Answer(result, rpc.buf),
         dgo = "sleep", ~rpc.started, UNCHANGED <<ee, heapCur, dgo, mbx, cmd, iso, content>>,
         result = "ERROR" => rpc.fno = "LOAD" /\ rpc.file \notin Disc
  PROVE  IInv'
<1> USE DEF IInv
<1>0. Typed BY TypedLemma
<1>f. rpc' \in RpcTypes /\ Answered(result, rpc.buf)
  <2>1. result \in Results /\ rpc.buf \in Bufs BY <1>0 DEF Typed, RpcTyped, Results
  <2> QED BY <2>1, AnswerEffect
<1>1. TypeOK' BY <1>f DEF TypeOK
<1>2. Handshake' /\ Progress' /\ IsoInv' BY IopUntouched
<1>3. EEInv'
  BY <1>0, <1>f
  DEF Typed, RpcTyped, Answered, EEInv, RpcInv, HeapInv, LinkInv, WaitInv, Ahead, Active, Holds, Returned
<1> QED BY <1>1, <1>2, <1>3

(* The handshake while the EE's thread waits for the ISO thread to read an  *)
(* abort or the next address: the object returned last is still there.      *)
LEMMA AheadKept ==
  ASSUME SameCall, SameFile, SameState, SamePlace, SameDest, SameFirst, content' = content
  PROVE  (Ahead' <=> Ahead) /\ Returned' = Returned
<1>1. Active' <=> Active BY DEF Active, SameCall
<1>2. Returned' = Returned BY DEF Returned, SameState, SamePlace
<1>3. \A b, n : Holds(b, n)' <=> Holds(b, n) BY DEF Holds, SameFile
<1> QED BY <1>1, <1>2, <1>3 DEF Ahead, SameState, SameDest, SameFirst

LEMMA MailedSync ==
  ASSUME Mail(0, 0, 0), mbx'["iso"] = mbx["iso"], mbx'["sync"] = mbx["sync"] + 1,
         mbx'["dgo"] = mbx["dgo"]
  PROVE  Mail(0, 1, 0)'
BY DEF Mail

(* LoadDGO: refuse, cancel the load under way, or hand over to the ISO thread. *)
LEMMA LoadDGOStep ==
  ASSUME IInv, LoadDGO PROVE IInv'
<1> USE DEF IInv
<1>0. Typed BY TypedLemma
<1>g. dgo = "sleep" /\ ~rpc.started /\ rpc.fno = "LOAD" /\ UNCHANGED <<ee, heapCur, iso, content>>
  BY DEF LoadDGO
<1>s. Mail(0, 0, 0) /\ (Unused \/ (Ahead /\ ~cmd.want_abort)) BY <1>g DEF Handshake
<1>n. ~rpc.finished /\ ee.pc \in {"idle", "wait"}
  BY <1>0, <1>g DEF Typed, EETyped, EEInv, RpcInv, LinkInv, EEStates
<1>a. CASE rpc.file \notin Disc
  <2>1. Answer("ERROR", rpc.buf) /\ UNCHANGED <<dgo, mbx, cmd>> BY <1>a DEF LoadDGO
  <2> QED BY <1>a, <1>g, <2>1, RefuseStep
<1>b. CASE rpc.file \in Disc /\ cmd.cmd_id
  <2>r. rpc' = [rpc EXCEPT !.started = TRUE] BY <1>b DEF LoadDGO
  <2>k. rpc' \in RpcTypes /\ Taken BY <2>r, TakenEffect
  <2>a. StartAbort("abort_wait") BY <1>b DEF LoadDGO
  <2>f. /\ cmd' \in CmdTypes /\ mbx' \in [{"iso", "sync", "dgo"} -> Nat] /\ dgo' = "abort_wait"
        /\ SameCall /\ SameFile /\ SameTop /\ SameState /\ SamePlace /\ SameDest /\ SameFirst
        /\ cmd'.want_abort = TRUE /\ cmd'.pages = cmd.pages
        /\ mbx'["iso"] = mbx["iso"] /\ mbx'["sync"] = mbx["sync"] + 1 /\ mbx'["dgo"] = mbx["dgo"]
    <3>1. "abort_wait" \in DgoWaits BY DEF DgoWaits
    <3> QED BY <2>a, <3>1, StartAbortEffect
  <2>1. TypeOK' BY <1>g, <2>k, <2>f DEF TypeOK, DgoWaits
  <2>2. Handshake'
    <3>1. Ahead BY <1>b, <1>s DEF Unused
    <3>2. Ahead' BY <1>g, <2>f, <3>1, AheadKept
    <3>3. Mail(0, 1, 0)' BY <1>s, <2>f, MailedSync
    <3> QED BY <2>f, <3>2, <3>3 DEF Handshake
  <2>3. Progress'
    <3>1. \A x, m : Holds(x, m)' <=> Holds(x, m) BY <1>g, <2>f DEF Holds, SameFile
    <3>2. cmd'.dgo_state # "Finish_Dgo" BY <1>b, <1>s, <2>f DEF Unused, Ahead, SameState
    <3> QED BY <1>g, <2>f, <3>1, <3>2
        DEF Progress, SameCall, SameFile, SameState, SamePlace, SameDest
  <2>4. IsoInv' BY <1>g, <2>f DEF IsoInv, Mail, SameCall, SameFile
  <2>5. EEInv'
    BY <1>0, <1>b, <1>g, <1>s, <1>n, <2>k, <2>f
    DEF Typed, EETyped, RpcTyped, EEInv, RpcInv, HeapInv, LinkInv, WaitInv, Taken
  <2> QED BY <2>1, <2>2, <2>3, <2>4, <2>5
<1>c. CASE rpc.file \in Disc /\ ~cmd.cmd_id
  <2>r. rpc' = [rpc EXCEPT !.started = TRUE] BY <1>c DEF LoadDGO
  <2>k. rpc' \in RpcTypes /\ Taken BY <2>r, TakenEffect
  <2>a. StartLoad(mbx) BY <1>c DEF LoadDGO
  <2>f. /\ cmd' \in CmdTypes /\ mbx' \in [{"iso", "sync", "dgo"} -> Nat] /\ dgo' = "load_wait"
        /\ cmd'.cmd_id = TRUE /\ cmd'.queued = cmd.queued /\ cmd'.status = cmd.status
        /\ cmd'.file = rpc.file /\ cmd'.heap = rpc.heap /\ cmd'.heaptop = rpc.top
        /\ cmd'.pages = cmd.pages
        /\ mbx'["iso"] = mbx["iso"] + 1 /\ mbx'["sync"] = mbx["sync"] /\ mbx'["dgo"] = mbx["dgo"]
    <3>1. mbx \in [{"iso", "sync", "dgo"} -> Nat] BY DEF TypeOK
    <3> QED BY <1>c, <2>a, <3>1, StartLoadEffect
  <2>q. ~cmd.queued BY <1>c, <1>s DEF Unused, Ahead, Active
  <2>1. TypeOK' BY <1>g, <2>k, <2>f DEF TypeOK, DgoWaits
  <2>2. Handshake' BY <1>s, <2>f, <2>q DEF Handshake, Mail
  <2>3. Progress' BY <2>f, <2>q DEF Progress
  <2>4. IsoInv' BY <1>c, <1>g, <2>f, <2>q DEF IsoInv, Mail
  <2>5. EEInv'
    BY <1>0, <1>c, <1>g, <1>s, <1>n, <2>k, <2>f
    DEF Typed, EETyped, RpcTyped, EEInv, RpcInv, HeapInv, LinkInv, WaitInv, Taken
  <2> QED BY <2>1, <2>2, <2>3, <2>4, <2>5
<1> QED BY <1>a, <1>b, <1>c

(* LoadDGO again, when the load it had to cancel is out of the way. *)
LEMMA LoadDGO_AbortedStep ==
  ASSUME IInv, LoadDGO_Aborted PROVE IInv'
<1> USE DEF IInv
<1>0. Typed BY TypedLemma
<1>g. dgo = "abort_wait" /\ mbx["dgo"] > 0 /\ UNCHANGED <<ee, heapCur, rpc, iso, content>>
  BY DEF LoadDGO_Aborted
<1>s. Mail(0, 0, 1) /\ ~cmd.queued BY <1>0, <1>g DEF Typed, IopTyped, Handshake, Mail, Finished
<1>r. rpc.file \in Disc /\ rpc.fno = "LOAD" /\ rpc.started /\ ~rpc.finished
  BY <1>0, <1>g DEF Typed, RpcTyped, EEInv, RpcInv
<1>p. ee.pc \in {"idle", "wait"} BY <1>0, <1>r DEF Typed, EETyped, EEInv, LinkInv, EEStates
<1> DEFINE m == [mbx EXCEPT !["dgo"] = @ - 1]
<1>m. /\ m \in [{"iso", "sync", "dgo"} -> Nat]
      /\ m["iso"] = 0 /\ m["sync"] = 0 /\ m["dgo"] = 0
  <2>1. mbx \in [{"iso", "sync", "dgo"} -> Nat] BY DEF TypeOK
  <2> QED BY <1>s, <2>1 DEF Mail
<1>a. StartLoad(m) BY DEF LoadDGO_Aborted
<1> HIDE DEF m
<1>f. /\ cmd' \in CmdTypes /\ mbx' \in [{"iso", "sync", "dgo"} -> Nat] /\ dgo' = "load_wait"
      /\ cmd'.cmd_id = TRUE /\ cmd'.queued = cmd.queued /\ cmd'.status = cmd.status
      /\ cmd'.file = rpc.file /\ cmd'.heap = rpc.heap /\ cmd'.heaptop = rpc.top
      /\ cmd'.pages = cmd.pages
      /\ mbx'["iso"] = m["iso"] + 1 /\ mbx'["sync"] = m["sync"] /\ mbx'["dgo"] = m["dgo"]
  BY <1>r, <1>a, <1>m, StartLoadEffect
<1>1. TypeOK' BY <1>g, <1>f DEF TypeOK, DgoWaits
<1>2. Handshake' BY <1>s, <1>m, <1>f DEF Handshake, Mail
<1>3. Progress' BY <1>f, <1>s DEF Progress
<1>4. IsoInv' BY <1>g, <1>f, <1>s, <1>r DEF IsoInv, Mail
<1>5. EEInv'
  BY <1>0, <1>g, <1>s, <1>r, <1>p, <1>f
  DEF Typed, EETyped, RpcTyped, EEInv, RpcInv, HeapInv, LinkInv, WaitInv
<1> QED BY <1>1, <1>2, <1>3, <1>4, <1>5

(* Taking the answer out of dgo_mbx. *)
LEMMA TakeMailEffect ==
  ASSUME TypeOK, mbx["dgo"] > 0, mbx' = [mbx EXCEPT !["dgo"] = @ - 1]
  PROVE  /\ mbx' \in [{"iso", "sync", "dgo"} -> Nat]
         /\ mbx'["iso"] = mbx["iso"] /\ mbx'["sync"] = mbx["sync"] /\ mbx'["dgo"] = mbx["dgo"] - 1
<1>1. mbx \in [{"iso", "sync", "dgo"} -> Nat] BY DEF TypeOK
<1> QED BY <1>1

(* LoadDGO and LoadNextDGO report the object the ISO thread has returned. *)
LEMMA AnswerStep ==
  ASSUME IInv, LoadDGO_Answer \/ LoadNextDGO_Answer PROVE IInv'
<1> USE DEF IInv
<1>0. Typed BY TypedLemma
<1>g. dgo \in {"load_wait", "next_wait"} /\ mbx["dgo"] > 0 /\ dgo' = "sleep"
      /\ UNCHANGED <<ee, heapCur, iso, content>>
  BY DEF LoadDGO_Answer, LoadNextDGO_Answer, AnswerByStatus
<1>b. mbx' = [mbx EXCEPT !["dgo"] = @ - 1]
  BY DEF LoadDGO_Answer, LoadNextDGO_Answer, AnswerByStatus
<1>m. /\ mbx' \in [{"iso", "sync", "dgo"} -> Nat]
      /\ mbx'["iso"] = mbx["iso"] /\ mbx'["sync"] = mbx["sync"] /\ mbx'["dgo"] = mbx["dgo"] - 1
  BY <1>g, <1>b, TakeMailEffect
<1>s. /\ Mail(0, 0, 1)
      /\ \/ Ahead /\ ~cmd.want_abort /\ (dgo = "load_wait" => cmd.selected = "b1" /\ Returned = 1)
         \/ Finished /\ LastOnTop /\ (dgo = "load_wait" => object_count(cmd.file) = 1)
  BY <1>0, <1>g DEF Typed, IopTyped, Handshake, Mail
<1>r. /\ rpc.started /\ ~rpc.finished
      /\ dgo = "load_wait" => /\ rpc.fno = "LOAD" /\ rpc.file \in Disc
                              /\ cmd.file = rpc.file /\ cmd.heap = rpc.heap /\ cmd.heaptop = rpc.top
      /\ dgo = "next_wait" => rpc.fno = "LOAD_NEXT" /\ cmd.heaptop = rpc.top
  BY <1>0, <1>g DEF Typed, RpcTyped, EEInv, RpcInv
<1>p. ee.pc \in {"idle", "wait"} BY <1>0, <1>r DEF Typed, EETyped, EEInv, LinkInv, EEStates
<1>a. CASE cmd.status = "IN_PROGRESS"
  <2> DEFINE more == IF dgo = "load_wait" THEN "b1" ELSE cmd.selected
  <2>t. more \in Bufs BY <1>0 DEF Typed, CmdTyped, Bufs
  <2>w. Answer("MORE", more) /\ UNCHANGED cmd
    BY <1>a, <1>g DEF LoadDGO_Answer, LoadNextDGO_Answer, AnswerByStatus
  <2>k. rpc' \in RpcTypes /\ Answered("MORE", more)
    <3>1. "MORE" \in Results BY DEF Results
    <3> QED BY <3>1, <2>t, <2>w, AnswerEffect
  <2>s. Ahead /\ ~cmd.want_abort /\ more = cmd.selected /\ (dgo = "load_wait" => Returned = 1)
    BY <1>a, <1>s DEF Finished
  <2> HIDE DEF more
  <2>1. TypeOK' BY <1>g, <1>m, <2>k, <2>w DEF TypeOK, DgoWaits
  <2>2. Handshake'
    BY <1>0, <1>g, <1>m, <1>s, <2>w, <2>s
    DEF Typed, IopTyped, Handshake, Mail, Ahead, Active, Returned, Holds
  <2>3. Progress' BY <1>g, <2>w DEF Progress, Holds
  <2>4. IsoInv' BY <1>g, <2>w DEF IsoInv, Mail
  <2>5. EEInv'
    <3>1. Ahead' /\ Returned' = Returned
      BY <1>g, <2>w, <2>s DEF Ahead, Active, Holds, Returned
    <3>2. RpcInv' BY <1>g, <1>r, <2>w, <2>k, <3>1 DEF RpcInv, Answered
    <3>3. HeapInv' /\ LinkInv' BY <1>g, <1>p DEF EEInv, HeapInv, LinkInv
    <3>4. ee.pc = "wait" => Ours /\ heapCur[ee.heap] + 1 = Returned
      <4>1. CASE dgo = "load_wait"
        BY <1>r, <2>s, <4>1 DEF EEInv, WaitInv, Ours
      <4>2. CASE dgo = "next_wait"
        BY <1>r, <1>s, <2>s, <4>2 DEF EEInv, WaitInv, Ours, Mail, Ahead, Active
      <4> QED BY <1>g, <4>1, <4>2
    <3>5. WaitInv'
      BY <1>g, <2>w, <2>k, <2>s, <3>1, <3>4 DEF WaitInv, Answered, Ours
    <3> QED BY <3>2, <3>3, <3>5 DEF EEInv
  <2> QED BY <2>1, <2>2, <2>3, <2>4, <2>5
<1>d. CASE cmd.status # "IN_PROGRESS"
  <2>t. cmd.status = "DONE" BY <1>0, <1>d DEF Typed, CmdTyped
  <2>w. Answer("DONE", "top")
    BY <1>d, <2>t, <1>g DEF LoadDGO_Answer, LoadNextDGO_Answer, AnswerByStatus
  <2>c. cmd' = [cmd EXCEPT !.cmd_id = FALSE]
    BY <1>d, <2>t, <1>g DEF LoadDGO_Answer, LoadNextDGO_Answer, AnswerByStatus
  <2>k. rpc' \in RpcTypes /\ Answered("DONE", "top")
    <3>1. "DONE" \in Results /\ "top" \in Bufs BY DEF Results, Bufs
    <3> QED BY <3>1, <2>w, AnswerEffect
  <2>f. /\ cmd' \in CmdTypes /\ ~cmd'.cmd_id
        /\ cmd'.queued = cmd.queued /\ cmd'.status = cmd.status
        /\ SameFile /\ SameTop /\ SameState /\ SamePlace /\ SameDest /\ SameFirst /\ SameAbort
        /\ cmd'.pages = cmd.pages
    BY <2>c, ReleaseEffect
  <2>s. Finished /\ LastOnTop /\ (dgo = "load_wait" => object_count(cmd.file) = 1)
    BY <1>d, <1>s DEF Ahead, Active
  <2>1. TypeOK' BY <1>g, <1>m, <2>k, <2>f DEF TypeOK, DgoWaits
  <2>2. Handshake' BY <1>g, <1>m, <1>s, <2>f, <2>s DEF Handshake, Mail, Unused, Finished
  <2>3. Progress' BY <2>f, <2>s DEF Progress, Finished
  <2>4. IsoInv' BY <1>g, <2>f, <2>s DEF IsoInv, Mail, Finished
  <2>5. EEInv'
    <3>1. RpcInv' BY <1>g, <1>r, <2>k DEF RpcInv, Answered
    <3>2. HeapInv' /\ LinkInv' BY <1>g, <1>p DEF EEInv, HeapInv, LinkInv
    <3>3. ee.pc = "wait" => /\ cmd.file = ee.file /\ cmd.heap = ee.heap
                            /\ cmd.heaptop = heapCur[ee.heap]
                            /\ heapCur[ee.heap] + 1 = object_count(ee.file)
      BY <1>0, <1>g, <1>r, <2>s DEF Typed, RpcTyped, EEInv, WaitInv, Ours
    <3>4. ee.pc = "wait" => LastAtEnd(content[ee.heap]["top"])
      BY <2>s, <3>3 DEF LastAtEnd, LastOnTop, Holds
    <3>5. WaitInv'
      BY <1>g, <2>k, <2>f, <2>s, <3>4 DEF WaitInv, Answered, LastAtEnd, Unused, Finished
    <3> QED BY <3>1, <3>2, <3>5 DEF EEInv
  <2> QED BY <2>1, <2>2, <2>3, <2>4, <2>5
<1> QED BY <1>a, <1>d

(* LoadNextDGO lets the ISO thread go on.  It is never refused: the EE only *)
(* asks while its load is under way.                                       *)
LEMMA LoadNextDGOStep ==
  ASSUME IInv, LoadNextDGO PROVE IInv'
<1> USE DEF IInv
<1>0. Typed BY TypedLemma
<1>g. dgo = "sleep" /\ ~rpc.started /\ rpc.fno = "LOAD_NEXT" /\ UNCHANGED <<ee, heapCur, iso, content>>
  BY DEF LoadNextDGO
<1>s. Mail(0, 0, 0) /\ Ahead /\ ~cmd.want_abort
  BY <1>g DEF Handshake, EEInv, RpcInv, Unused, Ahead, Active
<1>n. ~rpc.finished /\ ee.pc \in {"idle", "wait"}
  BY <1>0, <1>g DEF Typed, EETyped, EEInv, RpcInv, LinkInv, EEStates
<1>i. cmd.cmd_id BY <1>s DEF Ahead, Active
<1>r. rpc' = [rpc EXCEPT !.started = TRUE] BY <1>i DEF LoadNextDGO
<1>k. rpc' \in RpcTypes /\ Taken BY <1>r, TakenEffect
<1>c. cmd' = [cmd EXCEPT !.heaptop = rpc.top] BY <1>i DEF LoadNextDGO
<1>b. mbx' = [mbx EXCEPT !["sync"] = @ + 1] /\ dgo' = "next_wait" BY <1>i DEF LoadNextDGO
<1>f. /\ SameCall /\ SameFile /\ SameState /\ SamePlace /\ SameDest /\ SameFirst /\ SameAbort
      /\ cmd'.heaptop = rpc.top /\ cmd'.pages = cmd.pages
  BY <1>c, Zenon DEF TypeOK, CmdTypes, SameCall, SameFile, SameState, SamePlace,
                     SameDest, SameFirst, SameAbort
<1>m. mbx' \in [{"iso", "sync", "dgo"} -> Nat]
      /\ mbx'["iso"] = mbx["iso"] /\ mbx'["sync"] = mbx["sync"] + 1 /\ mbx'["dgo"] = mbx["dgo"]
  <2>1. mbx \in [{"iso", "sync", "dgo"} -> Nat] BY DEF TypeOK
  <2> QED BY <1>b, <2>1
<1>1. TypeOK'
  <2>1. rpc.top \in Nat BY <1>0 DEF Typed, RpcTyped
  <2>2. cmd' \in CmdTypes BY <1>c, <2>1, Zenon DEF TypeOK, CmdTypes
  <2> QED BY <1>g, <1>k, <1>m, <1>b, <2>2 DEF TypeOK, DgoWaits
<1>2. Handshake'
  <2>1. Ahead' /\ Returned' = Returned BY <1>g, <1>f, <1>s, AheadKept
  <2>2. Mail(0, 1, 0)' BY <1>s, <1>m, MailedSync
  <2>3. cmd'.want_abort = FALSE BY <1>0, <1>f, <1>s DEF Typed, CmdTyped, SameAbort
  <2> QED BY <1>b, <2>1, <2>2, <2>3 DEF Handshake
<1>3. Progress'
  BY <1>g, <1>f
  DEF Progress, Holds, SameCall, SameFile, SameState, SamePlace, SameDest, SameAbort
<1>4. IsoInv' BY <1>g, <1>b, <1>f DEF IsoInv, Mail, SameCall, SameFile
<1>5. EEInv'
  <2>1. RpcInv' BY <1>b, <1>g, <1>n, <1>k, <1>f DEF RpcInv, Taken
  <2>2. HeapInv' /\ LinkInv' BY <1>g, <1>n DEF EEInv, HeapInv, LinkInv
  <2>3. ee.pc = "wait" => Ours /\ rpc.top = heapCur[ee.heap] /\ heapCur[ee.heap] = Returned
    BY <1>g, <1>n DEF EEInv, WaitInv
  <2>4. WaitInv'
    BY <1>0, <1>g, <1>s, <1>n, <1>k, <1>f, <1>m, <2>3
    DEF Typed, RpcTyped, IopTyped, WaitInv, Taken, Mail, Ahead, Active, Returned, Ours, Topping,
        Finished, SameCall, SameFile, SameState, SamePlace, SameDest
  <2> QED BY <2>1, <2>2, <2>4 DEF EEInv
<1> QED BY <1>1, <1>2, <1>3, <1>4, <1>5

(* CancelDGO tells the ISO thread to abort. *)
LEMMA CancelDGOStep ==
  ASSUME IInv, CancelDGO PROVE IInv'
<1> USE DEF IInv
<1>0. Typed BY TypedLemma
<1>g. dgo = "sleep" /\ ~rpc.started /\ rpc.fno = "CANCEL" /\ UNCHANGED <<ee, heapCur, iso, content>>
  BY DEF CancelDGO
<1>s. Mail(0, 0, 0) /\ Ahead /\ ~cmd.want_abort
  BY <1>g DEF Handshake, EEInv, RpcInv, Unused, Ahead, Active
<1>n. ~rpc.finished /\ ee.pc \in {"idle", "wait"}
  BY <1>0, <1>g DEF Typed, EETyped, EEInv, RpcInv, LinkInv, EEStates
<1>i. cmd.cmd_id BY <1>s DEF Ahead, Active
<1>r. rpc' = [rpc EXCEPT !.started = TRUE] BY <1>i DEF CancelDGO
<1>k. rpc' \in RpcTypes /\ Taken BY <1>r, TakenEffect
<1>a. StartAbort("cancel_wait") BY <1>i DEF CancelDGO
<1>f. /\ cmd' \in CmdTypes /\ mbx' \in [{"iso", "sync", "dgo"} -> Nat] /\ dgo' = "cancel_wait"
      /\ SameCall /\ SameFile /\ SameTop /\ SameState /\ SamePlace /\ SameDest /\ SameFirst
      /\ cmd'.want_abort = TRUE /\ cmd'.pages = cmd.pages
      /\ mbx'["iso"] = mbx["iso"] /\ mbx'["sync"] = mbx["sync"] + 1 /\ mbx'["dgo"] = mbx["dgo"]
  <2>1. "cancel_wait" \in DgoWaits BY DEF DgoWaits
  <2> QED BY <1>a, <2>1, StartAbortEffect
<1>1. TypeOK' BY <1>g, <1>k, <1>f DEF TypeOK, DgoWaits
<1>2. Handshake'
  <2>1. Ahead' BY <1>g, <1>f, <1>s, AheadKept
  <2>2. Mail(0, 1, 0)' BY <1>s, <1>f, MailedSync
  <2> QED BY <1>f, <2>1, <2>2 DEF Handshake
<1>3. Progress'
  BY <1>g, <1>s, <1>f
  DEF Progress, Ahead, Holds, SameCall, SameFile, SameState, SamePlace, SameDest
<1>4. IsoInv' BY <1>g, <1>f DEF IsoInv, Mail, SameCall, SameFile
<1>5. EEInv'
  BY <1>0, <1>g, <1>s, <1>n, <1>k, <1>f
  DEF Typed, EETyped, RpcTyped, EEInv, RpcInv, HeapInv, LinkInv, WaitInv, Taken, Ours, SameFile
<1> QED BY <1>1, <1>2, <1>3, <1>4, <1>5

(* The load is aborted: CancelDGO gives sLoadDGO free. *)
LEMMA CancelDGO_AnswerStep ==
  ASSUME IInv, CancelDGO_Answer PROVE IInv'
<1> USE DEF IInv
<1>0. Typed BY TypedLemma
<1>g. dgo = "cancel_wait" /\ mbx["dgo"] > 0 /\ dgo' = "sleep"
      /\ UNCHANGED <<ee, heapCur, iso, content>>
  BY DEF CancelDGO_Answer
<1>b. mbx' = [mbx EXCEPT !["dgo"] = @ - 1] BY DEF CancelDGO_Answer
<1>m. /\ mbx' \in [{"iso", "sync", "dgo"} -> Nat]
      /\ mbx'["iso"] = mbx["iso"] /\ mbx'["sync"] = mbx["sync"] /\ mbx'["dgo"] = mbx["dgo"] - 1
  BY <1>g, <1>b, TakeMailEffect
<1>s. Mail(0, 0, 1) /\ Finished BY <1>0, <1>g DEF Typed, IopTyped, Handshake, Mail
<1>r. rpc.started /\ ~rpc.finished /\ rpc.fno = "CANCEL"
  BY <1>0, <1>g DEF Typed, RpcTyped, EEInv, RpcInv
<1>p. ee.pc \in {"idle", "wait"} BY <1>0, <1>r DEF Typed, EETyped, EEInv, LinkInv, EEStates
<1>w. Answer("ABORTED", rpc.buf) BY DEF CancelDGO_Answer
<1>c. cmd' = [cmd EXCEPT !.cmd_id = FALSE] BY DEF CancelDGO_Answer
<1>k. rpc' \in RpcTypes /\ Answered("ABORTED", rpc.buf)
  <2>1. "ABORTED" \in Results /\ rpc.buf \in Bufs BY <1>0 DEF Results, Typed, RpcTyped
  <2> QED BY <2>1, <1>w, AnswerEffect
<1>f. /\ cmd' \in CmdTypes /\ ~cmd'.cmd_id
      /\ cmd'.queued = cmd.queued /\ cmd'.status = cmd.status
      /\ SameFile /\ SameTop /\ SameState /\ SamePlace /\ SameDest /\ SameFirst /\ SameAbort
      /\ cmd'.pages = cmd.pages
  BY <1>c, ReleaseEffect
<1>1. TypeOK' BY <1>g, <1>m, <1>k, <1>f DEF TypeOK, DgoWaits
<1>2. Handshake' BY <1>g, <1>m, <1>s, <1>f DEF Handshake, Mail, Unused, Finished
<1>3. Progress' BY <1>f, <1>s DEF Progress, Finished
<1>4. IsoInv' BY <1>g, <1>f, <1>s DEF IsoInv, Mail, Finished
<1>5. EEInv'
  BY <1>0, <1>g, <1>m, <1>s, <1>r, <1>p, <1>k, <1>f
  DEF Typed, EETyped, RpcTyped, EEInv, RpcInv, HeapInv, LinkInv, WaitInv, Answered
<1> QED BY <1>1, <1>2, <1>3, <1>4, <1>5

-----------------------------------------------------------------------------
(***************************************************************************)
(* The ISO thread's main loop.                                             *)
(***************************************************************************)
(* A step of the ISO thread that moves pages only keeps the invariant. *)
LEMMA PagesStep ==
  ASSUME IInv, UNCHANGED <<ee, heapCur, rpc, dgo, mbx, content>>,
         SameCmd, cmd' \in CmdTypes, iso' \in IsoTypes,
         iso.pc # "open", iso'.pc # "open",
         iso'.pc = "read" => cmd.queued,
         iso'.pc = "callback" => cmd.queued /\ cmd'.pages # <<>>
  PROVE  IInv'
<1> USE DEF IInv
<1>0. Typed BY TypedLemma
<1>f. /\ SameCall /\ SameFile /\ SameTop /\ SameState /\ SamePlace
      /\ SameDest /\ SameFirst /\ SameAbort
  BY DEF SameCmd
<1>1. TypeOK' BY DEF TypeOK
<1>a. \A i, s, d : Mail(i, s, d)' <=> Mail(i, s, d) BY DEF Mail
<1>b. (Unused' <=> Unused) /\ (Active' <=> Active) /\ (Finished' <=> Finished)
  BY <1>f DEF Unused, Active, Finished, SameCall
<1>c. Returned' = Returned BY <1>f DEF Returned, SameState, SamePlace
<1>d. \A b, n : Holds(b, n)' <=> Holds(b, n) BY <1>f DEF Holds, SameFile
<1>e. Ahead' <=> Ahead
  BY <1>f, <1>b, <1>c, <1>d DEF Ahead, SameState, SameDest, SameFirst
<1>g. Topping' <=> Topping
  BY <1>f, <1>b DEF Topping, SameState, SameDest, SameFirst, SameAbort, SameTop
<1>h. Ours' <=> Ours BY <1>f DEF Ours, SameFile
<1>i. /\ cmd'.want_abort = cmd.want_abort /\ cmd'.selected = cmd.selected
      /\ cmd'.queued = cmd.queued /\ cmd'.cmd_id = cmd.cmd_id /\ cmd'.file = cmd.file
      /\ cmd'.dgo_state = cmd.dgo_state /\ cmd'.heap = cmd.heap /\ cmd'.heaptop = cmd.heaptop
  BY <1>f DEF SameAbort, SameFirst, SameCall, SameFile, SameState, SameTop
<1>2. Handshake'
  <2>1. Starting' <=> Starting
    BY <1>f, <1>b DEF Starting, SameState, SamePlace, SameDest, SameFirst, SameAbort, SameTop, SameFile
  <2>2. LastOnTop' <=> LastOnTop BY <1>i, <1>d DEF LastOnTop
  <2> QED BY <1>a, <1>b, <1>c, <1>e, <1>g, <1>i, <2>1, <2>2 DEF Handshake
<1>3. Progress'
  BY <1>f DEF Progress, Holds, SameCall, SameFile, SameState, SamePlace, SameDest, SameAbort
<1>4. IsoInv' BY <1>f DEF IsoInv, SameCall, SameFile
<1>5. EEInv'
  <2>1. RpcInv' BY <1>e, <1>i DEF EEInv, RpcInv
  <2>2. HeapInv' BY DEF EEInv, HeapInv
  <2>3. LinkInv' BY <1>b, <1>c, <1>e, <1>h, <1>i DEF EEInv, LinkInv, LastAtEnd
  <2>4. WaitInv' BY <1>b, <1>c, <1>e, <1>g, <1>h, <1>i DEF EEInv, WaitInv, LastAtEnd
  <2> QED BY <2>1, <2>2, <2>3, <2>4 DEF EEInv
<1> QED BY <1>1, <1>2, <1>3, <1>4, <1>5

(* Where ProcessMessageData leaves the ISO thread. *)
LEMMA ProcessEffect ==
  ASSUME NEW i \in IsoTypes, NEW j, cmd \in CmdTypes, j = ProcessMessageData(i, cmd)
  PROVE  /\ j \in IsoTypes /\ j.pc \in {"callback", "after"}
         /\ j.pc = "callback" => cmd.queued /\ cmd.pages # <<>>
<1>0. cmd.pages \in Seq(Nat) BY DEF CmdTypes
<1>1. CASE cmd.queued /\ cmd.status = "IN_PROGRESS" /\ cmd.pages # <<>>
  <2>1. Head(cmd.pages) \in Nat BY <1>0, <1>1
  <2>2. j = [i EXCEPT !.pc = "callback", !.left = Head(cmd.pages)] BY <1>1 DEF ProcessMessageData
  <2>3. j \in IsoTypes BY <2>1, <2>2, Zenon DEF IsoTypes, IsoStates
  <2>4. j.pc = "callback" BY <2>2, Zenon DEF IsoTypes
  <2> QED BY <1>1, <2>3, <2>4
<1>2. CASE ~(cmd.queued /\ cmd.status = "IN_PROGRESS" /\ cmd.pages # <<>>)
  <2>2. j = [i EXCEPT !.pc = "after"] BY <1>2 DEF ProcessMessageData
  <2>3. j \in IsoTypes BY <2>2, Zenon DEF IsoTypes, IsoStates
  <2>4. j.pc = "after" BY <2>2, Zenon DEF IsoTypes
  <2> QED BY <2>3, <2>4
<1> QED BY <1>1, <1>2

(* Reading pages, and waiting for something to do. *)
LEMMA LoopStep ==
  ASSUME IInv, ISO_PollEmpty \/ ISO_ReadComplete \/ ISO_DelayOver PROVE IInv'
<1> USE DEF IInv
<1>0. cmd \in CmdTypes /\ iso \in IsoTypes BY DEF TypeOK
<1>g. iso.pc # "open" /\ UNCHANGED <<ee, heapCur, rpc, dgo, mbx, cmd, content>>
  BY DEF ISO_PollEmpty, ISO_ReadComplete, ISO_DelayOver, IsoVars
<1>s. SameCmd
  BY <1>g, Zenon
  DEF SameCmd, SameCall, SameFile, SameTop, SameState, SamePlace, SameDest, SameFirst, SameAbort
<1>1. CASE ISO_PollEmpty /\ GetMessage(cmd)
  <2>1. iso' = [iso EXCEPT !.pc = "read"] BY <1>1 DEF ISO_PollEmpty
  <2>2. iso' \in IsoTypes BY <1>0, <2>1, Zenon DEF IsoTypes, IsoStates
  <2>3. iso'.pc = "read" BY <1>0, <2>1, Zenon DEF IsoTypes
  <2>4. cmd.queued BY <1>1 DEF GetMessage
  <2> QED BY <1>0, <1>g, <1>s, <2>2, <2>3, <2>4, PagesStep
<1>2. CASE ISO_PollEmpty /\ ~GetMessage(cmd)
  <2>1. iso' = ProcessMessageData(iso, cmd) BY <1>2 DEF ISO_PollEmpty
  <2>2. /\ iso' \in IsoTypes /\ iso'.pc \in {"callback", "after"}
        /\ iso'.pc = "callback" => cmd.queued /\ cmd.pages # <<>>
    BY <1>0, <2>1, ProcessEffect
  <2> QED BY <1>0, <1>g, <1>s, <2>2, PagesStep
<1>3. CASE ISO_ReadComplete
  <2> DEFINE i == [iso EXCEPT !.reading = TRUE, !.readInfo = TRUE]
  <2>1. iso' = ProcessMessageData(i, cmd) BY <1>3, Zenon DEF ISO_ReadComplete
  <2>2. i \in IsoTypes BY <1>0, Zenon DEF IsoTypes
  <2> HIDE DEF i
  <2>3. /\ iso' \in IsoTypes /\ iso'.pc \in {"callback", "after"}
        /\ iso'.pc = "callback" => cmd.queued /\ cmd.pages # <<>>
    BY <1>0, <2>1, <2>2, ProcessEffect
  <2> QED BY <1>0, <1>g, <1>s, <2>3, PagesStep
<1>4. CASE ISO_DelayOver
  <2>1. iso' = [iso EXCEPT !.pc = "poll"] BY <1>4 DEF ISO_DelayOver
  <2>2. iso' \in IsoTypes BY <1>0, <2>1, Zenon DEF IsoTypes, IsoStates
  <2>3. iso'.pc = "poll" BY <1>0, <2>1, Zenon DEF IsoTypes
  <2> QED BY <1>0, <1>g, <1>s, <2>2, <2>3, PagesStep
<1> QED BY <1>1, <1>2, <1>3, <1>4

(* sLoadDGO with other pages is sLoadDGO in every other field. *)
LEMMA PagesEffect ==
  ASSUME TypeOK, NEW p \in Seq(Nat), cmd' = [cmd EXCEPT !.pages = p]
  PROVE  cmd' \in CmdTypes /\ SameCmd /\ cmd'.pages = p
<1>1. cmd' \in CmdTypes /\ cmd'.pages = p BY Zenon DEF TypeOK, CmdTypes
<1>2. SameCall /\ SameFile /\ SameTop /\ SameState BY Zenon DEF TypeOK, CmdTypes, SameCall, SameFile, SameTop, SameState
<1>3. SamePlace /\ SameDest /\ SameFirst /\ SameAbort BY Zenon DEF TypeOK, CmdTypes, SamePlace, SameDest, SameFirst, SameAbort
<1> QED BY <1>1, <1>2, <1>3 DEF SameCmd

(* A page that was read is handed to the command. *)
LEMMA SyncReadStep ==
  ASSUME IInv, ISO_SyncRead PROVE IInv'
<1> USE DEF IInv
<1>0. cmd \in CmdTypes /\ iso \in IsoTypes BY DEF TypeOK
<1>t. cmd.pages \in Seq(Nat) BY <1>0 DEF CmdTypes
<1>g. iso.pc = "after" /\ UNCHANGED <<ee, heapCur, rpc, dgo, mbx, content>>
  BY DEF ISO_SyncRead, IsoVars
<1>c. cmd' \in CmdTypes /\ SameCmd
  <2>1. CASE iso.reading /\ iso.readInfo
    <3>1. Append(cmd.pages, PageSize) \in Seq(Nat) BY <1>t
    <3>2. cmd' = [cmd EXCEPT !.pages = Append(cmd.pages, PageSize)] BY <2>1 DEF ISO_SyncRead
    <3> QED BY <3>1, <3>2, PagesEffect
  <2>2. CASE ~(iso.reading /\ iso.readInfo)
    <3>1. cmd' = cmd BY <2>2 DEF ISO_SyncRead
    <3> QED BY <3>1, <1>0, Zenon
        DEF SameCmd, SameCall, SameFile, SameTop, SameState, SamePlace, SameDest, SameFirst, SameAbort
  <2> QED BY <2>1, <2>2
<1>i. PICK pc \in {"poll", "delay"} :
        iso' = [iso EXCEPT !.pc = pc, !.reading = FALSE, !.readInfo = FALSE]
  BY DEF ISO_SyncRead
<1>j. iso' \in IsoTypes /\ iso'.pc = pc
  <2>1. pc \in IsoStates BY DEF IsoStates
  <2> QED BY <1>0, <1>i, <2>1, Zenon DEF IsoTypes
<1> QED BY <1>g, <1>c, <1>j, PagesStep

(* The command arrives: it is queued with no pages and its file is opened. *)
LEMMA PollMessageStep ==
  ASSUME IInv, ISO_PollMessage PROVE IInv'
<1> USE DEF IInv
<1>0. Typed BY TypedLemma
<1>g. iso.pc = "poll" /\ mbx["iso"] > 0 /\ UNCHANGED <<ee, heapCur, rpc, dgo, content>>
  BY DEF ISO_PollMessage, IsoVars
<1>s. dgo = "load_wait" /\ Mail(1, 0, 0) /\ ~cmd.queued /\ cmd.cmd_id
  BY <1>0, <1>g DEF Typed, IopTyped, DgoWaits, Handshake, Mail
<1>b. mbx' = [mbx EXCEPT !["iso"] = @ - 1] BY DEF ISO_PollMessage
<1>c. cmd' = [cmd EXCEPT !.queued = TRUE, !.pages = <<>>] BY DEF ISO_PollMessage
<1>i. iso' = [iso EXCEPT !.pc = "open"] BY DEF ISO_PollMessage
<1>m. /\ mbx' \in [{"iso", "sync", "dgo"} -> Nat]
      /\ mbx'["iso"] = mbx["iso"] - 1 /\ mbx'["sync"] = mbx["sync"] /\ mbx'["dgo"] = mbx["dgo"]
  <2>1. mbx \in [{"iso", "sync", "dgo"} -> Nat] BY DEF TypeOK
  <2> QED BY <1>b, <1>g, <2>1
<1>f. /\ cmd'.cmd_id = cmd.cmd_id /\ cmd'.queued /\ SameFile /\ SameTop
      /\ iso'.pc = "open"
  BY <1>c, <1>i, Zenon DEF TypeOK, CmdTypes, IsoTypes, SameFile, SameTop
<1>1. TypeOK'
  <2>1. <<>> \in Seq(Nat) OBVIOUS
  <2>2. cmd' \in CmdTypes BY <1>c, <2>1, Zenon DEF TypeOK, CmdTypes
  <2>3. iso' \in IsoTypes BY <1>i, Zenon DEF TypeOK, IsoTypes, IsoStates
  <2> QED BY <1>g, <1>m, <2>2, <2>3 DEF TypeOK
<1>2. Handshake' BY <1>0, <1>g, <1>s, <1>f, <1>m DEF Handshake, Mail
<1>3. Progress' BY <1>f DEF Progress
<1>4. IsoInv' BY <1>g, <1>s, <1>f, <1>m DEF IsoInv, Mail, SameFile
<1>r. rpc.fno = "LOAD" /\ rpc.started /\ ~rpc.finished
  BY <1>0, <1>s DEF Typed, RpcTyped, EEInv, RpcInv
<1>p. ee.pc \in {"idle", "wait"} BY <1>0, <1>r DEF Typed, EETyped, EEInv, LinkInv, EEStates
<1>5. EEInv'
  BY <1>0, <1>g, <1>s, <1>r, <1>p, <1>f
  DEF Typed, RpcTyped, EEInv, RpcInv, HeapInv, LinkInv, WaitInv, SameFile, SameTop
<1> QED BY <1>1, <1>2, <1>3, <1>4, <1>5

(* The file is open: the state machine is reset. *)
LEMMA OpenedStep ==
  ASSUME IInv, ISO_Opened PROVE IInv'
<1> USE DEF IInv
<1>0. Typed BY TypedLemma
<1>g. iso.pc = "open" /\ UNCHANGED <<ee, heapCur, rpc, dgo, mbx, content>>
  BY DEF ISO_Opened, IsoVars
<1>s. dgo = "load_wait" /\ Mail(0, 0, 0) /\ cmd.queued /\ cmd.cmd_id BY <1>g DEF IsoInv
<1>c. cmd' = [cmd EXCEPT !.status = "IN_PROGRESS", !.dgo_state = "Init"] BY DEF ISO_Opened
<1>i. iso' = [iso EXCEPT !.pc = "read"] BY DEF ISO_Opened
<1>f. /\ cmd'.cmd_id = cmd.cmd_id /\ cmd'.queued = cmd.queued /\ cmd'.status = "IN_PROGRESS"
      /\ cmd'.dgo_state = "Init" /\ SameFile /\ SameTop /\ iso'.pc = "read"
  BY <1>c, <1>i, Zenon DEF TypeOK, CmdTypes, IsoTypes, SameFile, SameTop
<1>1. TypeOK'
  <2>1. cmd' \in CmdTypes BY <1>c, Zenon DEF TypeOK, CmdTypes, DgoStates
  <2>2. iso' \in IsoTypes BY <1>i, Zenon DEF TypeOK, IsoTypes, IsoStates
  <2> QED BY <1>g, <2>1, <2>2 DEF TypeOK
<1>2. Handshake' BY <1>g, <1>s, <1>f DEF Handshake, Mail, Starting, Active
<1>3. Progress' BY <1>f DEF Progress
<1>4. IsoInv' BY <1>g, <1>s, <1>f DEF IsoInv, SameFile
<1>r. rpc.fno = "LOAD" /\ rpc.started /\ ~rpc.finished
  BY <1>0, <1>s DEF Typed, RpcTyped, EEInv, RpcInv
<1>p. ee.pc \in {"idle", "wait"} BY <1>0, <1>r DEF Typed, EETyped, EEInv, LinkInv, EEStates
<1>5. EEInv'
  BY <1>0, <1>g, <1>s, <1>r, <1>p, <1>f
  DEF Typed, RpcTyped, EEInv, RpcInv, HeapInv, LinkInv, WaitInv, SameFile, SameTop
<1> QED BY <1>1, <1>2, <1>3, <1>4, <1>5

-----------------------------------------------------------------------------
(***************************************************************************)
(* RunDGOStateMachine.                                                     *)
(***************************************************************************)
(* Leaving the state machine puts back the page, or what is left of it. *)
LEMMA LeaveStep ==
  ASSUME IInv, DGO_OutOfData \/ DGO_NotReady PROVE IInv'
<1> USE DEF IInv
<1>0. cmd \in CmdTypes /\ iso \in IsoTypes BY DEF TypeOK
<1>g. iso.pc = "callback" /\ UNCHANGED <<ee, heapCur, rpc, dgo, mbx, content>>
  BY DEF DGO_OutOfData, DGO_NotReady, Running, IsoVars
<1>t. cmd.pages \in Seq(Nat) /\ cmd.pages # <<>> /\ iso.left \in Nat
  BY <1>0, <1>g DEF CmdTypes, IsoTypes, IsoInv
<1>l. PICK left \in Nat : Leave(cmd, left) BY <1>t DEF DGO_OutOfData, DGO_NotReady
<1> DEFINE p == IF left = 0 THEN Tail(cmd.pages) ELSE <<left>> \o Tail(cmd.pages)
<1>p. p \in Seq(Nat)
  <2>1. Tail(cmd.pages) \in Seq(Nat) BY <1>t
  <2>2. <<left>> \in Seq(Nat) BY <1>l
  <2>3. <<left>> \o Tail(cmd.pages) \in Seq(Nat) BY <2>1, <2>2
  <2> QED BY <2>1, <2>3
<1>c. cmd' = [cmd EXCEPT !.pages = p] BY <1>l, Zenon DEF Leave
<1>i. iso' = [iso EXCEPT !.pc = "after", !.left = 0] BY <1>l DEF Leave
<1> HIDE DEF p
<1>1. cmd' \in CmdTypes /\ SameCmd BY <1>p, <1>c, PagesEffect
<1>2. iso' \in IsoTypes /\ iso'.pc = "after"
  <2>1. 0 \in Nat OBVIOUS
  <2> QED BY <1>0, <1>i, <2>1, Zenon DEF IsoTypes, IsoStates
<1> QED BY <1>g, <1>1, <1>2, PagesStep

(* While an object is not returned the EE waits, or has given up. *)
LEMMA EEWaits ==
  ASSUME IInv, dgo # "sleep"
  PROVE  rpc.started /\ ~rpc.finished /\ ee.pc \in {"idle", "wait"}
<1>0. Typed BY TypedLemma DEF IInv
<1>1. rpc.started /\ ~rpc.finished BY <1>0 DEF Typed, RpcTyped, IInv, EEInv, RpcInv
<1> QED BY <1>0, <1>1 DEF Typed, EETyped, EEStates, IInv, EEInv, LinkInv

(* The command is being processed in the states before the first return    *)
(* only for a DGO thread that waits in LoadDGO.                            *)
LEMMA StartingState ==
  ASSUME IInv, iso.pc = "callback", cmd.dgo_state \in {"Init", "Read_Header"}
  PROVE  dgo = "load_wait" /\ Mail(0, 0, 0) /\ Starting
<1>0. Typed BY TypedLemma DEF IInv
<1>q. cmd.queued BY DEF IInv, IsoInv
<1> QED BY <1>0, <1>q
    DEF Typed, IopTyped, DgoWaits, IInv, Handshake, Unused, Ahead, Active, Finished, Topping

(* The state machine starts afresh. *)
LEMMA InitStep ==
  ASSUME IInv, DGO_Init PROVE IInv'
<1> USE DEF IInv
<1>0. Typed BY TypedLemma
<1>g. /\ iso.pc = "callback" /\ cmd.dgo_state = "Init"
      /\ UNCHANGED <<ee, heapCur, rpc, dgo, mbx, iso, content>>
  BY DEF DGO_Init, Running, IsoVars
<1>s. dgo = "load_wait" /\ Mail(0, 0, 0) /\ Starting BY <1>g, StartingState
<1>w. rpc.started /\ ~rpc.finished /\ ee.pc \in {"idle", "wait"} BY <1>s, EEWaits
<1>c. cmd' = [cmd EXCEPT !.bytes_processed = 0, !.dgo_state = "Read_Header",
                         !.finished_first = FALSE, !.want_abort = FALSE]
  BY DEF DGO_Init
<1>f. /\ SameCall /\ SameFile /\ SameTop /\ cmd'.bytes_processed = 0
      /\ cmd'.dgo_state = "Read_Header" /\ ~cmd'.finished_first /\ ~cmd'.want_abort
      /\ cmd'.pages = cmd.pages
  BY <1>c, Zenon DEF TypeOK, CmdTypes, SameCall, SameFile, SameTop
<1>1. TypeOK'
  <2>1. 0 \in Nat OBVIOUS
  <2>2. cmd' \in CmdTypes BY <1>c, <2>1, Zenon DEF TypeOK, CmdTypes, DgoStates
  <2> QED BY <1>g, <2>2 DEF TypeOK
<1>2. Handshake' BY <1>g, <1>s, <1>f DEF Handshake, Mail, Starting, Active, SameCall
<1>3. Progress' BY <1>f DEF Progress
<1>4. IsoInv' BY <1>g, <1>f DEF IsoInv, SameCall, SameFile
<1>5. EEInv'
  BY <1>0, <1>g, <1>s, <1>w, <1>f
  DEF Typed, RpcTyped, EEInv, RpcInv, HeapInv, LinkInv, WaitInv, SameFile, SameTop
<1> QED BY <1>1, <1>2, <1>3, <1>4, <1>5

(* The number of bytes a step of the state machine consumes. *)
LEMMA LeastFacts ==
  ASSUME NEW a \in Nat, NEW b \in Nat
  PROVE  Least(a, b) \in Nat /\ Least(a, b) <= a /\ Least(a, b) <= b
BY DEF Least

(* Every file has objects, each with a size. *)
LEMMA CountFacts ==
  ASSUME NEW f \in Disc
  PROVE  /\ object_count(f) \in Nat /\ object_count(f) >= 1
         /\ \A n \in Nat : n < object_count(f) => Size[f][n + 1] \in Nat
<1>1. Size[f] \in Seq(Nat) /\ Len(Size[f]) >= 1 OBVIOUS
<1> QED BY <1>1 DEF object_count

(* Consuming part of a page. *)
LEMMA ConsumeEffect ==
  ASSUME TypeOK, NEW n \in Nat, n <= iso.left, iso' = [iso EXCEPT !.left = @ - n]
  PROVE  iso' \in IsoTypes /\ iso'.pc = iso.pc
<1>1. iso.left - n \in Nat BY DEF TypeOK, IsoTypes
<1> QED BY <1>1, Zenon DEF TypeOK, IsoTypes

(* The DGO header is read, in one piece or more. *)
LEMMA ReadHeaderStep ==
  ASSUME IInv, DGO_Read_Header PROVE IInv'
<1> USE DEF IInv
<1>0. Typed BY TypedLemma
<1> DEFINE n == Least(HeaderSize - cmd.bytes_processed, iso.left)
<1>g. /\ iso.pc = "callback" /\ cmd.dgo_state = "Read_Header"
      /\ UNCHANGED <<ee, heapCur, rpc, dgo, mbx, content>>
  BY DEF DGO_Read_Header, Running, IsoVars
<1>q. cmd.queued /\ cmd.file \in Disc /\ cmd.pages # <<>> BY <1>g DEF IsoInv
<1>n. n \in Nat /\ n <= HeaderSize - cmd.bytes_processed /\ n <= iso.left
  <2>1. cmd.bytes_processed <= HeaderSize BY <1>g, <1>q DEF Progress
  <2>2. HeaderSize - cmd.bytes_processed \in Nat /\ iso.left \in Nat
    BY <1>0, <2>1, SMTT(30) DEF Typed, CmdTyped, IopTyped
  <2> QED BY <2>2, LeastFacts
<1>j. iso' = [iso EXCEPT !.left = @ - n] BY Zenon DEF DGO_Read_Header
<1>x. /\ cmd.bytes_processed + n # HeaderSize => cmd' = [cmd EXCEPT !.bytes_processed = @ + n]
      /\ cmd.bytes_processed + n = HeaderSize =>
           cmd' = [cmd EXCEPT !.bytes_processed = 0, !.objects_loaded = 0,
                     !.buffer_toggle = IF object_count(cmd.file) = 1 THEN 0 ELSE 1,
                     !.dest = IF object_count(cmd.file) = 1 THEN "top" ELSE "b1",
                     !.destHeap = cmd.heap, !.destPos = cmd.heaptop,
                     !.dgo_state = "Read_Obj_Header"]
  BY Zenon DEF DGO_Read_Header
<1> HIDE DEF n
<1>i. iso' \in IsoTypes /\ iso'.pc = iso.pc BY <1>n, <1>j, ConsumeEffect
<1>s. dgo = "load_wait" /\ Mail(0, 0, 0) /\ Starting BY <1>g, StartingState
<1>w. rpc.started /\ ~rpc.finished /\ ee.pc \in {"idle", "wait"} BY <1>s, EEWaits
<1>a. CASE cmd.bytes_processed + n # HeaderSize
  <2>c. cmd' = [cmd EXCEPT !.bytes_processed = @ + n] BY <1>a, <1>x
  <2>f. /\ SameCall /\ SameFile /\ SameTop /\ SameState /\ SameDest /\ SameFirst /\ SameAbort
        /\ cmd'.bytes_processed = cmd.bytes_processed + n /\ cmd'.pages = cmd.pages
    BY <2>c, Zenon DEF TypeOK, CmdTypes, SameCall, SameFile, SameTop, SameState, SameDest,
                       SameFirst, SameAbort
  <2>1. TypeOK'
    <3>1. cmd.bytes_processed + n \in Nat BY <1>0, <1>n DEF Typed, CmdTyped
    <3>2. cmd' \in CmdTypes BY <2>c, <3>1, Zenon DEF TypeOK, CmdTypes
    <3> QED BY <1>g, <1>i, <3>2 DEF TypeOK
  <2>2. Handshake'
    BY <1>g, <1>s, <1>i, <2>f
    DEF Handshake, Mail, Starting, Active, SameCall, SameState, SameFirst, SameAbort
  <2>3. Progress' BY <1>0, <1>n, <1>g, <2>f DEF Typed, CmdTyped, Progress, SameState
  <2>4. IsoInv' BY <1>g, <1>i, <2>f DEF IsoInv, SameCall, SameFile
  <2>5. EEInv'
    BY <1>0, <1>g, <1>s, <1>w, <2>f
    DEF Typed, RpcTyped, EEInv, RpcInv, HeapInv, LinkInv, WaitInv, SameFile, SameTop
  <2> QED BY <2>1, <2>2, <2>3, <2>4, <2>5
<1>b. CASE cmd.bytes_processed + n = HeaderSize
  <2> DEFINE one == object_count(cmd.file) = 1
  <2>c. cmd' = [cmd EXCEPT !.bytes_processed = 0, !.objects_loaded = 0,
                     !.buffer_toggle = IF one THEN 0 ELSE 1,
                     !.dest = IF one THEN "top" ELSE "b1",
                     !.destHeap = cmd.heap, !.destPos = cmd.heaptop,
                     !.dgo_state = "Read_Obj_Header"]
    BY <1>b, <1>x
  <2>o. object_count(cmd.file) \in Nat /\ object_count(cmd.file) >= 1 BY <1>q, CountFacts
  <2>f. /\ SameCall /\ SameFile /\ SameTop /\ SameFirst /\ SameAbort
        /\ cmd'.bytes_processed = 0 /\ cmd'.objects_loaded = 0
        /\ cmd'.buffer_toggle = (IF one THEN 0 ELSE 1)
        /\ cmd'.dest = (IF one THEN "top" ELSE "b1") /\ cmd'.destHeap = cmd.heap
        /\ cmd'.destPos = cmd.heaptop /\ cmd'.dgo_state = "Read_Obj_Header"
        /\ cmd'.pages = cmd.pages
    BY <2>c, Zenon DEF TypeOK, CmdTypes, SameCall, SameFile, SameTop, SameFirst, SameAbort
  <2>1. TypeOK'
    <3>1. /\ 0 \in Nat /\ (IF one THEN 0 ELSE 1) \in 0..2
          /\ (IF one THEN "top" ELSE "b1") \in Bufs /\ "Read_Obj_Header" \in DgoStates
          /\ cmd.heap \in Heaps /\ cmd.heaptop \in Nat
      BY <1>0 DEF Bufs, DgoStates, Typed, CmdTyped
    <3>2. cmd' \in CmdTypes BY <2>c, <3>1, Zenon DEF TypeOK, CmdTypes
    <3> QED BY <1>g, <1>i, <3>2 DEF TypeOK
  <2>2. Handshake'
    BY <1>g, <1>s, <1>i, <2>f
    DEF Handshake, Mail, Starting, Active, SameCall, SameFirst, SameTop, SameAbort
  <2>3. Progress'
    BY <2>o, <2>f DEF Progress, BufOf, SameFile
  <2>4. IsoInv' BY <1>g, <1>i, <2>f DEF IsoInv, SameCall, SameFile
  <2>5. EEInv'
    BY <1>0, <1>g, <1>s, <1>w, <2>f
    DEF Typed, RpcTyped, EEInv, RpcInv, HeapInv, LinkInv, WaitInv, SameFile, SameTop
  <2> QED BY <2>1, <2>2, <2>3, <2>4, <2>5
<1> QED BY <1>a, <1>b

(* What returning an object does to sLoadDGO. *)
LEMMA ReturnObjectEffect ==
  ASSUME TypeOK, cmd.buffer_toggle # 0, cmd' = ReturnObject
  PROVE  /\ cmd' \in CmdTypes /\ cmd'.cmd_id = cmd.cmd_id /\ cmd'.queued = cmd.queued
         /\ cmd'.status = "IN_PROGRESS" /\ SameFile /\ SameTop /\ SamePlace /\ SameAbort
         /\ cmd'.finished_first /\ cmd'.pages = cmd.pages
         /\ cmd'.selected = BufOf(cmd.buffer_toggle)
         /\ cmd'.buffer_toggle \in {1, 2} /\ cmd'.buffer_toggle # cmd.buffer_toggle
         /\ cmd'.dest = BufOf(cmd'.buffer_toggle) /\ cmd'.destHeap = cmd.heap
         /\ cmd'.dgo_state = IF cmd.objects_loaded + 1 = object_count(cmd.file)
                               THEN "Read_Last_Obj" ELSE "Read_Obj_Header"
<1> DEFINE other == IF cmd.buffer_toggle = 1 THEN 2 ELSE 1
           next == IF cmd.objects_loaded + 1 = object_count(cmd.file)
                     THEN "Read_Last_Obj" ELSE "Read_Obj_Header"
           sel == BufOf(cmd.buffer_toggle)
           dst == BufOf(other)
<1>0. cmd.buffer_toggle \in {1, 2} /\ cmd.heap \in Heaps BY DEF TypeOK, CmdTypes
<1>b. BufOf(1) = "b1" /\ BufOf(2) = "b2" BY DEF BufOf
<1>s. /\ sel = (IF cmd.buffer_toggle = 1 THEN "b1" ELSE "b2")
      /\ dst = (IF other = 1 THEN "b1" ELSE "b2")
  BY <1>0, <1>b
<1>1. cmd' = [cmd EXCEPT !.finished_first = TRUE, !.status = "IN_PROGRESS",
                 !.selected = sel, !.dest = dst, !.destHeap = cmd.heap,
                 !.buffer_toggle = other, !.dgo_state = next]
  <2>1. cmd' = [cmd EXCEPT !.finished_first = TRUE, !.status = "IN_PROGRESS",
                 !.selected = IF cmd.buffer_toggle = 1 THEN "b1" ELSE "b2",
                 !.dest = IF other = 1 THEN "b1" ELSE "b2", !.destHeap = cmd.heap,
                 !.buffer_toggle = other, !.dgo_state = next]
    BY Zenon DEF ReturnObject
  <2> QED BY <2>1, <1>s, Zenon
<1>2. /\ sel \in Bufs /\ dst \in Bufs /\ other \in 0..2 /\ next \in DgoStates
      /\ other \in {1, 2} /\ other # cmd.buffer_toggle
  BY <1>0, <1>s DEF Bufs, DgoStates
<1> HIDE DEF other, next, sel, dst
<1>3. cmd' \in CmdTypes
  <2> DEFINE c == [cmd EXCEPT !.finished_first = TRUE, !.status = "IN_PROGRESS", !.selected = sel]
  <2>1. c \in CmdTypes BY <1>2, Zenon DEF TypeOK, CmdTypes
  <2>2. cmd' = [c EXCEPT !.dest = dst, !.destHeap = cmd.heap, !.buffer_toggle = other,
                         !.dgo_state = next]
    BY <1>1, Zenon
  <2> HIDE DEF c
  <2> QED BY <1>0, <1>2, <2>1, <2>2, ZenonT(60) DEF CmdTypes
<1>4. /\ cmd'.cmd_id = cmd.cmd_id /\ cmd'.queued = cmd.queued /\ cmd'.status = "IN_PROGRESS"
      /\ SameFile /\ SameTop /\ SamePlace /\ SameAbort /\ cmd'.finished_first
      /\ cmd'.pages = cmd.pages
  BY <1>1, Zenon DEF TypeOK, CmdTypes, SameFile, SameTop, SamePlace, SameAbort
<1>5. /\ cmd'.selected = sel /\ cmd'.dest = dst /\ cmd'.buffer_toggle = other
      /\ cmd'.dgo_state = next /\ cmd'.destHeap = cmd.heap
  BY <1>1, Zenon DEF TypeOK, CmdTypes
<1> QED BY <1>2, <1>3, <1>4, <1>5 DEF sel, dst, next

(* A returned object lies in `selected`, the machine aims at the other     *)
(* buffer: what both returns establish.                                    *)
LEMMA ReturnedAhead ==
  ASSUME IInv, iso.pc = "callback", cmd.dgo_state = "Finish_Obj", Active, cmd' = ReturnObject,
         UNCHANGED <<iso, content>>
  PROVE  Ahead' /\ Progress' /\ cmd' \in CmdTypes /\ SameFile /\ SameTop /\ SameAbort
         /\ cmd'.objects_loaded = cmd.objects_loaded
         /\ cmd'.cmd_id = cmd.cmd_id /\ cmd'.queued = cmd.queued /\ cmd'.pages = cmd.pages
         /\ cmd'.selected = BufOf(cmd.buffer_toggle) /\ Returned' = cmd.objects_loaded
         /\ cmd'.buffer_toggle # 0 /\ cmd'.status = "IN_PROGRESS"
<1> USE DEF IInv
<1>0. Typed BY TypedLemma
<1>p. /\ 1 <= cmd.objects_loaded /\ cmd.objects_loaded < object_count(cmd.file)
      /\ cmd.buffer_toggle # 0 /\ cmd.dest = BufOf(cmd.buffer_toggle)
      /\ Holds(cmd.dest, cmd.objects_loaded) /\ cmd.bytes_processed = 0 /\ cmd.file \in Disc
  BY DEF Active, Progress, IsoInv
<1>f. /\ cmd' \in CmdTypes /\ cmd'.cmd_id = cmd.cmd_id /\ cmd'.queued = cmd.queued
      /\ cmd'.status = "IN_PROGRESS" /\ SameFile /\ SameTop /\ SamePlace /\ SameAbort
      /\ cmd'.finished_first /\ cmd'.pages = cmd.pages
      /\ cmd'.selected = BufOf(cmd.buffer_toggle)
      /\ cmd'.buffer_toggle \in {1, 2} /\ cmd'.buffer_toggle # cmd.buffer_toggle
      /\ cmd'.dest = BufOf(cmd'.buffer_toggle) /\ cmd'.destHeap = cmd.heap
      /\ cmd'.dgo_state = IF cmd.objects_loaded + 1 = object_count(cmd.file)
                            THEN "Read_Last_Obj" ELSE "Read_Obj_Header"
  BY <1>p, ReturnObjectEffect
<1>b. BufOf(1) = "b1" /\ BufOf(2) = "b2" BY DEF BufOf
<1>t. cmd.buffer_toggle \in {1, 2} BY <1>0, <1>p DEF Typed, CmdTyped
<1>r. Returned' = cmd.objects_loaded
  BY <1>f DEF Returned, SamePlace
<1>h. Holds(cmd.selected, Returned)'
  BY <1>p, <1>f, <1>r DEF Holds, SameFile
<1>1. Ahead'
  BY <1>p, <1>f, <1>b, <1>t, <1>r, <1>h DEF Ahead, Active
<1>2. Progress'
  BY <1>0, <1>p, <1>f, CountFacts DEF Typed, CmdTyped, Progress, SameFile, SamePlace
<1> QED BY <1>1, <1>2, <1>f, <1>r DEF SamePlace

(* The first object is returned without waiting for the EE. *)
LEMMA FinishFirstStep ==
  ASSUME IInv, DGO_Finish_FirstObj PROVE IInv'
<1> USE DEF IInv
<1>0. Typed BY TypedLemma
<1>g. /\ iso.pc = "callback" /\ cmd.dgo_state = "Finish_Obj" /\ ~cmd.finished_first
      /\ UNCHANGED <<ee, heapCur, rpc, dgo, iso, content>>
  BY DEF DGO_Finish_FirstObj, Running, IsoVars
<1>c. cmd' = ReturnObject BY DEF DGO_Finish_FirstObj
<1>b. mbx' = [mbx EXCEPT !["dgo"] = @ + 1] BY DEF DGO_Finish_FirstObj
<1>q. cmd.queued BY <1>g DEF IsoInv
<1>s. dgo = "load_wait" /\ Mail(0, 0, 0) /\ Active /\ ~cmd.want_abort
      /\ cmd.objects_loaded = 1 /\ cmd.buffer_toggle = 1
  BY <1>0, <1>g, <1>q
  DEF Typed, IopTyped, DgoWaits, Handshake, Unused, Ahead, Active, Finished, Starting, Topping
<1>w. rpc.started /\ ~rpc.finished /\ ee.pc \in {"idle", "wait"} BY <1>s, EEWaits
<1>m. /\ mbx' \in [{"iso", "sync", "dgo"} -> Nat]
      /\ mbx'["iso"] = mbx["iso"] /\ mbx'["sync"] = mbx["sync"] /\ mbx'["dgo"] = mbx["dgo"] + 1
  <2>1. mbx \in [{"iso", "sync", "dgo"} -> Nat] BY DEF TypeOK
  <2> QED BY <1>b, <2>1
<1>f. Ahead' /\ Progress' /\ cmd' \in CmdTypes /\ SameFile /\ SameTop /\ SameAbort
      /\ cmd'.objects_loaded = cmd.objects_loaded
      /\ cmd'.cmd_id = cmd.cmd_id /\ cmd'.queued = cmd.queued /\ cmd'.pages = cmd.pages
      /\ cmd'.selected = BufOf(cmd.buffer_toggle) /\ Returned' = cmd.objects_loaded
      /\ cmd'.buffer_toggle # 0 /\ cmd'.status = "IN_PROGRESS"
  BY <1>g, <1>c, <1>s, ReturnedAhead
<1>1. TypeOK' BY <1>g, <1>m, <1>f DEF TypeOK
<1>2. Handshake'
  <2>1. BufOf(1) = "b1" BY DEF BufOf
  <2> QED BY <1>g, <1>s, <1>m, <1>f, <2>1 DEF Handshake, Mail, SameAbort
<1>4. IsoInv' BY <1>g, <1>f DEF IsoInv, SameFile
<1>5. EEInv'
  BY <1>0, <1>g, <1>s, <1>w, <1>f
  DEF Typed, RpcTyped, EEInv, RpcInv, HeapInv, LinkInv, WaitInv, SameFile, SameTop
<1> QED BY <1>1, <1>2, <1>f, <1>4, <1>5

(* A sync is in the mailbox only while the DGO thread waits for it to be   *)
(* acted upon, with one object returned and the next under way or ready.   *)
LEMMA SyncWaiting ==
  ASSUME IInv, mbx["sync"] > 0
  PROVE  /\ Mail(0, 1, 0) /\ Ahead
         /\ \/ dgo = "next_wait" /\ ~cmd.want_abort
            \/ dgo \in {"abort_wait", "cancel_wait"} /\ cmd.want_abort
<1>0. Typed BY TypedLemma DEF IInv
<1> QED BY <1>0 DEF Typed, IopTyped, DgoWaits, IInv, Handshake, Mail

(* What taking the sync does. *)
LEMMA TakeSyncEffect ==
  ASSUME TypeOK, mbx["sync"] > 0, mbx' = [mbx EXCEPT !["sync"] = @ - 1]
  PROVE  /\ mbx' \in [{"iso", "sync", "dgo"} -> Nat]
         /\ mbx'["iso"] = mbx["iso"] /\ mbx'["sync"] = mbx["sync"] - 1 /\ mbx'["dgo"] = mbx["dgo"]
<1>1. mbx \in [{"iso", "sync", "dgo"} -> Nat] BY DEF TypeOK
<1> QED BY <1>1

(* want_abort is seen: the machine goes to its end. *)
LEMMA AbortSeen ==
  ASSUME IInv, cmd.want_abort, mbx["sync"] > 0, iso.pc = "callback",
         cmd' = [cmd EXCEPT !.dgo_state = "Finish_Dgo"],
         mbx' = [mbx EXCEPT !["sync"] = @ - 1],
         UNCHANGED <<ee, heapCur, rpc, dgo, iso, content>>
  PROVE  IInv'
<1> USE DEF IInv
<1>0. Typed BY TypedLemma
<1>s. Mail(0, 1, 0) /\ Ahead /\ dgo \in {"abort_wait", "cancel_wait"} BY SyncWaiting
<1>w. rpc.started /\ ~rpc.finished /\ ee.pc \in {"idle", "wait"} BY <1>s, EEWaits
<1>m. /\ mbx' \in [{"iso", "sync", "dgo"} -> Nat]
      /\ mbx'["iso"] = mbx["iso"] /\ mbx'["sync"] = mbx["sync"] - 1 /\ mbx'["dgo"] = mbx["dgo"]
  BY TakeSyncEffect
<1>f. /\ SameCall /\ SameFile /\ SameTop /\ SamePlace /\ SameDest /\ SameFirst /\ SameAbort
      /\ cmd'.dgo_state = "Finish_Dgo" /\ cmd'.pages = cmd.pages
  BY Zenon DEF TypeOK, CmdTypes, SameCall, SameFile, SameTop, SamePlace, SameDest, SameFirst, SameAbort
<1>1. TypeOK'
  <2>1. cmd' \in CmdTypes BY Zenon DEF TypeOK, CmdTypes, DgoStates
  <2> QED BY <1>m, <2>1 DEF TypeOK
<1>2. Handshake'
  BY <1>s, <1>m, <1>f DEF Handshake, Mail, Ahead, Active, SameCall, SameAbort
<1>3. Progress' BY <1>f DEF Progress, SameAbort
<1>4. IsoInv' BY <1>f DEF IsoInv, SameCall, SameFile
<1>r. rpc.fno \in {"LOAD", "CANCEL"} BY <1>s DEF EEInv, RpcInv
<1>5. EEInv'
  BY <1>0, <1>s, <1>r, <1>w, <1>f
  DEF Typed, RpcTyped, EEInv, RpcInv, HeapInv, LinkInv, WaitInv, Ours, SameFile, SameTop
<1> QED BY <1>1, <1>2, <1>3, <1>4, <1>5

(* Another object is returned, on the EE's go-ahead. *)
LEMMA FinishObjStep ==
  ASSUME IInv, DGO_Finish_Obj PROVE IInv'
<1> USE DEF IInv
<1>0. Typed BY TypedLemma
<1>g. /\ iso.pc = "callback" /\ cmd.dgo_state = "Finish_Obj" /\ mbx["sync"] > 0
      /\ UNCHANGED <<ee, heapCur, rpc, dgo, iso, content>>
  BY DEF DGO_Finish_Obj, Running, IsoVars
<1>a. CASE cmd.want_abort
  <2>1. cmd' = [cmd EXCEPT !.dgo_state = "Finish_Dgo"] BY <1>a DEF DGO_Finish_Obj
  <2>2. mbx' = [mbx EXCEPT !["sync"] = @ - 1] BY <1>a DEF DGO_Finish_Obj
  <2> QED BY <1>a, <1>g, <2>1, <2>2, AbortSeen
<1>b. CASE ~cmd.want_abort
  <2>c. cmd' = ReturnObject BY <1>b DEF DGO_Finish_Obj
  <2>b. mbx' = [mbx EXCEPT !["sync"] = @ - 1, !["dgo"] = @ + 1] BY <1>b DEF DGO_Finish_Obj
  <2>s. Mail(0, 1, 0) /\ Ahead /\ dgo = "next_wait" BY <1>b, <1>g, SyncWaiting
  <2>w. rpc.started /\ ~rpc.finished /\ ee.pc \in {"idle", "wait"} BY <2>s, EEWaits
  <2>m. /\ mbx' \in [{"iso", "sync", "dgo"} -> Nat]
        /\ mbx'["iso"] = mbx["iso"] /\ mbx'["sync"] = mbx["sync"] - 1 /\ mbx'["dgo"] = mbx["dgo"] + 1
    <3>1. mbx \in [{"iso", "sync", "dgo"} -> Nat] BY DEF TypeOK
    <3> QED BY <1>g, <2>b, <3>1
  <2>f. Ahead' /\ Progress' /\ cmd' \in CmdTypes /\ SameFile /\ SameTop /\ SameAbort
        /\ cmd'.objects_loaded = cmd.objects_loaded
        /\ cmd'.cmd_id = cmd.cmd_id /\ cmd'.queued = cmd.queued /\ cmd'.pages = cmd.pages
        /\ cmd'.selected = BufOf(cmd.buffer_toggle) /\ Returned' = cmd.objects_loaded
        /\ cmd'.buffer_toggle # 0 /\ cmd'.status = "IN_PROGRESS"
    <3>1. Active BY <2>s DEF Ahead
    <3> QED BY <1>g, <2>c, <3>1, ReturnedAhead
  <2>1. TypeOK' BY <1>g, <2>m, <2>f DEF TypeOK
  <2>2. Handshake' BY <1>b, <1>g, <2>s, <2>m, <2>f DEF Handshake, Mail, SameAbort
  <2>4. IsoInv' BY <1>g, <2>f DEF IsoInv, SameFile
  <2>5. EEInv'
    <3>1. RpcInv' BY <1>g, <2>s, <2>w, <2>f DEF EEInv, RpcInv, SameTop
    <3>2. HeapInv' /\ LinkInv' BY <1>g, <2>w DEF EEInv, HeapInv, LinkInv
    <3>3. ee.pc = "wait" => /\ Ours /\ rpc.top = heapCur[ee.heap] /\ heapCur[ee.heap] = Returned
                            /\ rpc.fno = "LOAD_NEXT"
      BY <2>s, <2>w DEF EEInv, RpcInv, WaitInv, Mail
    <3>4. Returned = cmd.objects_loaded - 1 BY <1>g DEF Returned
    <3>5. cmd.objects_loaded - 1 + 1 = cmd.objects_loaded BY <1>0 DEF Typed, CmdTyped
    <3>6. ~Topping' /\ ~Finished' BY <2>f DEF Topping, Finished
    <3>7. WaitInv'
      BY <1>g, <2>s, <2>w, <2>m, <2>f, <3>3, <3>4, <3>5, <3>6 DEF WaitInv, Mail, Ours, SameFile
    <3> QED BY <3>1, <3>2, <3>7 DEF EEInv
  <2> QED BY <2>1, <2>2, <2>f, <2>4, <2>5
<1> QED BY <1>a, <1>b

(* The last object is started only when the EE has linked all the others:  *)
(* it goes to the heap's end as LoadNextDGO passed it on.                  *)
LEMMA ReadLastStep ==
  ASSUME IInv, DGO_Read_Last_Obj PROVE IInv'
<1> USE DEF IInv
<1>0. Typed BY TypedLemma
<1>g. /\ iso.pc = "callback" /\ cmd.dgo_state = "Read_Last_Obj" /\ mbx["sync"] > 0
      /\ UNCHANGED <<ee, heapCur, rpc, dgo, iso, content>>
  BY DEF DGO_Read_Last_Obj, Running, IsoVars
<1>2. mbx' = [mbx EXCEPT !["sync"] = @ - 1] BY DEF DGO_Read_Last_Obj
<1>a. CASE cmd.want_abort
  <2>1. cmd' = [cmd EXCEPT !.dgo_state = "Finish_Dgo"] BY <1>a DEF DGO_Read_Last_Obj
  <2> QED BY <1>a, <1>g, <1>2, <2>1, AbortSeen
<1>b. CASE ~cmd.want_abort
  <2>c. cmd' = [cmd EXCEPT !.dest = "top", !.destHeap = cmd.heap, !.destPos = cmd.heaptop,
                           !.buffer_toggle = 0, !.dgo_state = "Read_Obj_Header"]
    BY <1>b DEF DGO_Read_Last_Obj
  <2>s. Mail(0, 1, 0) /\ Ahead /\ dgo = "next_wait" BY <1>b, <1>g, SyncWaiting
  <2>w. rpc.started /\ ~rpc.finished /\ ee.pc \in {"idle", "wait"} BY <2>s, EEWaits
  <2>m. /\ mbx' \in [{"iso", "sync", "dgo"} -> Nat]
        /\ mbx'["iso"] = mbx["iso"] /\ mbx'["sync"] = mbx["sync"] - 1 /\ mbx'["dgo"] = mbx["dgo"]
    BY <1>g, <1>2, TakeSyncEffect
  <2>f. /\ SameCall /\ SameFile /\ SameTop /\ SamePlace /\ SameFirst /\ SameAbort
        /\ cmd'.dest = "top" /\ cmd'.destHeap = cmd.heap /\ cmd'.destPos = cmd.heaptop
        /\ cmd'.buffer_toggle = 0 /\ cmd'.dgo_state = "Read_Obj_Header" /\ cmd'.pages = cmd.pages
    BY <2>c, Zenon DEF TypeOK, CmdTypes, SameCall, SameFile, SameTop, SamePlace, SameFirst, SameAbort
  <2>p. cmd.objects_loaded + 1 = object_count(cmd.file) /\ cmd.bytes_processed = 0 /\ cmd.queued
    BY <1>g, <2>s DEF Progress, Ahead, Active
  <2>1. TypeOK'
    <3>1. 0 \in 0..2 /\ "top" \in Bufs /\ cmd.heap \in Heaps /\ cmd.heaptop \in Nat
      BY <1>0 DEF Bufs, Typed, CmdTyped
    <3>2. cmd' \in CmdTypes BY <2>c, <3>1, Zenon DEF TypeOK, CmdTypes, DgoStates
    <3> QED BY <1>g, <2>m, <3>2 DEF TypeOK
  <2>2. Handshake'
    BY <1>b, <1>g, <2>s, <2>m, <2>f
    DEF Handshake, Mail, Ahead, Active, Topping, SameCall, SameTop, SameFirst, SameAbort
  <2>3. Progress'
    BY <1>0, <2>p, <2>f DEF Typed, CmdTyped, Progress, BufOf, SameFile, SamePlace
  <2>4. IsoInv' BY <1>g, <2>f DEF IsoInv, SameCall, SameFile
  <2>5. EEInv'
    <3>1. RpcInv' BY <1>g, <2>s, <2>w, <2>f DEF EEInv, RpcInv, SameTop
    <3>2. HeapInv' /\ LinkInv' BY <1>g, <2>w DEF EEInv, HeapInv, LinkInv
    <3>3. ee.pc = "wait" => /\ Ours /\ rpc.top = heapCur[ee.heap]
                            /\ heapCur[ee.heap] = cmd.objects_loaded /\ rpc.fno = "LOAD_NEXT"
      BY <1>g, <2>s, <2>w DEF EEInv, RpcInv, WaitInv, Mail, Returned
    <3>7. WaitInv'
      BY <1>g, <2>s, <2>w, <2>m, <2>f, <2>p, <3>3 DEF WaitInv, Mail, Ours, SameFile
    <3> QED BY <3>1, <3>2, <3>7 DEF EEInv
  <2> QED BY <2>1, <2>2, <2>3, <2>4, <2>5
<1> QED BY <1>a, <1>b

(* What a transfer to EE memory may change. *)
Written ==
  /\ \A h \in Heaps : h # cmd.destHeap => content'[h] = content[h]
  /\ cmd.dest # "top" =>
       \A b \in Bufs : b # cmd.dest => content'[cmd.destHeap][b] = content[cmd.destHeap][b]

Sent(full) ==
  LET it == content'[cmd.destHeap][cmd.dest]
  IN it.file = cmd.file /\ it.obj = cmd.objects_loaded + 1 /\ it.full = full /\ it.pos = cmd.destPos

(* DMA_SendToEE writes the buffer the machine aims at, and leaves every    *)
(* other buffer alone unless it aims at the heap's top.                    *)
LEMMA SendEffect ==
  ASSUME TypeOK, NEW full \in BOOLEAN, Send(full)
  PROVE  content' \in [Heaps -> [Bufs -> Contents]] /\ Written /\ Sent(full)
<1> DEFINE it == [file |-> cmd.file, obj |-> cmd.objects_loaded + 1, full |-> full,
                  pos |-> cmd.destPos]
           row == [b \in Bufs |-> IF b = cmd.dest THEN it
                                  ELSE IF cmd.dest = "top" THEN Nothing
                                  ELSE content[cmd.destHeap][b]]
<1>0. /\ cmd.file \in Disc \cup {NoFile} /\ cmd.objects_loaded \in Nat /\ cmd.destPos \in Nat
      /\ cmd.dest \in Bufs /\ cmd.destHeap \in Heaps
      /\ content \in [Heaps -> [Bufs -> Contents]]
  BY DEF TypeOK, CmdTypes
<1>1. content' = [content EXCEPT ![cmd.destHeap] = row] BY Zenon DEF Send
<1>2. it \in Contents /\ Nothing \in Contents BY <1>0 DEF Contents, Nothing
<1>3. it.file = cmd.file /\ it.obj = cmd.objects_loaded + 1 /\ it.full = full /\ it.pos = cmd.destPos
  OBVIOUS
<1> HIDE DEF it
<1>4. row \in [Bufs -> Contents] BY <1>0, <1>2
<1>5. row[cmd.dest] = it BY <1>0
<1>6. cmd.dest # "top" => \A b \in Bufs : b # cmd.dest => row[b] = content[cmd.destHeap][b]
  BY <1>0
<1> HIDE DEF row
<1>7. content' \in [Heaps -> [Bufs -> Contents]] BY <1>0, <1>1, <1>4
<1>8. content'[cmd.destHeap] = row /\ \A h \in Heaps : h # cmd.destHeap => content'[h] = content[h]
  BY <1>0, <1>1
<1>9. Written BY <1>6, <1>8 DEF Written
<1>10. Sent(full) BY <1>3, <1>5, <1>8 DEF Sent
<1> QED BY <1>7, <1>9, <1>10

(* The machine at work on an object: loading goes on, the object is        *)
(* complete, or it is complete and was the last one.                       *)
LEMMA WorkStep ==
  ASSUME IInv, iso.pc = "callback", cmd.dgo_state \in {"Read_Obj_Header", "Read_Obj_data"},
         UNCHANGED <<ee, heapCur, rpc, dgo, mbx>>, iso'.pc = iso.pc, Written,
         SameCall, SameFile, SameTop, SameDest, SameFirst, SameAbort, cmd'.pages = cmd.pages,
         \/ /\ cmd'.dgo_state \in {"Read_Obj_Header", "Read_Obj_data"}
            /\ cmd'.objects_loaded = cmd.objects_loaded
         \/ /\ cmd'.dgo_state = "Finish_Obj" /\ cmd'.objects_loaded = cmd.objects_loaded + 1
            /\ cmd.objects_loaded + 1 # object_count(cmd.file)
         \/ /\ cmd'.dgo_state = "Finish_Dgo" /\ cmd'.objects_loaded = cmd.objects_loaded + 1
            /\ cmd.objects_loaded + 1 = object_count(cmd.file)
  PROVE  Handshake' /\ IsoInv' /\ EEInv'
<1> USE DEF IInv
<1>0. Typed BY TypedLemma
<1>q. cmd.queued /\ cmd.file \in Disc BY DEF IsoInv
<1>p. /\ cmd.objects_loaded < object_count(cmd.file)
      /\ cmd.dest = BufOf(cmd.buffer_toggle) /\ cmd.destHeap = cmd.heap
      /\ cmd.buffer_toggle = 0 <=> cmd.objects_loaded + 1 = object_count(cmd.file)
  BY <1>q DEF Progress
<1>c. \/ Ahead
      \/ dgo = "load_wait" /\ Mail(0, 0, 0) /\ Starting
      \/ dgo = "next_wait" /\ Mail(0, 0, 0) /\ Topping
  BY <1>0, <1>q DEF Typed, IopTyped, DgoWaits, Handshake, Unused, Finished
<1>a. Ahead => Ahead' /\ Returned' = Returned
  <2> SUFFICES ASSUME Ahead PROVE Ahead' /\ Returned' = Returned
    OBVIOUS
  <2>1. cmd.buffer_toggle \in {1, 2} /\ cmd.buffer_toggle # 0
    BY <1>0 DEF Ahead, Typed, CmdTyped
  <2>2. cmd.dest # "top" BY <1>p, <2>1 DEF BufOf
  <2>3. cmd'.dgo_state # "Finish_Dgo" BY <1>p, <2>1
  <2>4. Returned' = Returned
    <3>1. Returned = cmd.objects_loaded BY DEF Returned
    <3>2. cmd'.dgo_state = "Finish_Obj" => Returned' = (cmd.objects_loaded + 1) - 1
      BY DEF Returned
    <3>3. cmd'.dgo_state # "Finish_Obj" => Returned' = cmd.objects_loaded
      BY <2>3 DEF Returned
    <3>4. (cmd.objects_loaded + 1) - 1 = cmd.objects_loaded BY <1>0 DEF Typed, CmdTyped
    <3> QED BY <3>1, <3>2, <3>3, <3>4
  <2>5. content'[cmd.heap][cmd.selected] = content[cmd.heap][cmd.selected]
    BY <1>0, <1>p, <2>2 DEF Written, Ahead, Typed, CmdTyped
  <2>6. Ahead'
    BY <2>1, <2>3, <2>4, <2>5 DEF Ahead, Active, Holds, SameCall, SameFile, SameDest, SameFirst
  <2> QED BY <2>4, <2>6
<1>s. Starting => Starting'
  BY <1>0, <1>p
  DEF Typed, CmdTyped, Starting, Active, SameCall, SameFile, SameTop, SameDest, SameFirst, SameAbort
<1>t. Topping => Topping'
  BY <1>0, <1>p
  DEF Typed, CmdTyped, Topping, Active, SameCall, SameFile, SameTop, SameDest, SameFirst, SameAbort
<1>1. Handshake'
  <2>1. Ahead => Handshake'
    BY <1>0, <1>a, <1>q
    DEF Typed, IopTyped, DgoWaits, Handshake, Mail, Unused, Ahead, Active, Starting, Topping,
        Finished, SameAbort, SameFirst
  <2>2. dgo = "load_wait" /\ Mail(0, 0, 0) /\ Starting => Handshake' BY <1>s DEF Handshake, Mail
  <2>3. dgo = "next_wait" /\ Mail(0, 0, 0) /\ Topping => Handshake' BY <1>t DEF Handshake, Mail
  <2> QED BY <1>c, <2>1, <2>2, <2>3
<1>2. IsoInv' BY DEF IsoInv, Mail, SameCall, SameFile
<1>3. EEInv'
  <2>1. RpcInv' BY <1>a DEF EEInv, RpcInv, SameFile, SameTop
  <2>2. HeapInv' BY DEF EEInv, HeapInv
  <2>3. LinkInv' BY <1>a, <1>q DEF EEInv, LinkInv, Unused, Ours, SameFile, SameFirst
  <2>4. WaitInv'
    <3>1. ~Finished' /\ (Topping' => Topping)
      BY <1>0, <1>q DEF Topping, Finished, Active, SameCall, SameDest, SameFirst, SameTop, SameAbort
    <3>2. ~Ahead => (dgo # "sleep" /\ mbx["sync"] = 0 /\ mbx["dgo"] = 0) BY <1>c DEF Mail
    <3>3. ~Ahead => rpc.started /\ ~rpc.finished BY <3>2, EEWaits
    <3> QED BY <1>a, <1>q, <3>1, <3>2, <3>3
        DEF EEInv, WaitInv, Unused, Ours, SameCall, SameFile, SameFirst
  <2> QED BY <2>1, <2>2, <2>3, <2>4 DEF EEInv
<1> QED BY <1>1, <1>2, <1>3

(* The header of an object is read, and sent once it is complete. *)
LEMMA ReadObjHeaderStep ==
  ASSUME IInv, DGO_Read_Obj_Header PROVE IInv'
<1> USE DEF IInv
<1>0. Typed BY TypedLemma
<1> DEFINE n == Least(HeaderSize - cmd.bytes_processed, iso.left)
<1>g. /\ iso.pc = "callback" /\ cmd.dgo_state = "Read_Obj_Header"
      /\ UNCHANGED <<ee, heapCur, rpc, dgo, mbx>>
  BY DEF DGO_Read_Obj_Header, Running, IsoVars
<1>q. cmd.queued /\ cmd.file \in Disc /\ cmd.pages # <<>> BY <1>g DEF IsoInv
<1>n. n \in Nat /\ n <= HeaderSize - cmd.bytes_processed /\ n <= iso.left
  <2>1. cmd.bytes_processed <= HeaderSize BY <1>g, <1>q DEF Progress
  <2>2. HeaderSize - cmd.bytes_processed \in Nat /\ iso.left \in Nat
    BY <1>0, <2>1 DEF Typed, CmdTyped, IopTyped
  <2> QED BY <2>2, LeastFacts
<1>j. iso' = [iso EXCEPT !.left = @ - n] BY Zenon DEF DGO_Read_Obj_Header
<1>x. IF cmd.bytes_processed + n # HeaderSize
        THEN cmd' = [cmd EXCEPT !.bytes_processed = @ + n] /\ UNCHANGED content
        ELSE cmd' = [cmd EXCEPT !.bytes_processed = 0, !.dgo_state = "Read_Obj_data"] /\ Send(FALSE)
  BY Zenon DEF DGO_Read_Obj_Header
<1> HIDE DEF n
<1>i. iso' \in IsoTypes /\ iso'.pc = iso.pc BY <1>n, <1>j, ConsumeEffect
<1>a. CASE cmd.bytes_processed + n # HeaderSize
  <2>c. cmd' = [cmd EXCEPT !.bytes_processed = @ + n] /\ UNCHANGED content BY <1>a, <1>x
  <2>f. /\ SameCall /\ SameFile /\ SameTop /\ SameState /\ SameDest /\ SameFirst /\ SameAbort
        /\ cmd'.bytes_processed = cmd.bytes_processed + n /\ cmd'.pages = cmd.pages
        /\ cmd'.objects_loaded = cmd.objects_loaded
    BY <2>c, Zenon DEF TypeOK, CmdTypes, SameCall, SameFile, SameTop, SameState, SameDest,
                       SameFirst, SameAbort
  <2>1. TypeOK'
    <3>1. cmd.bytes_processed + n \in Nat BY <1>0, <1>n DEF Typed, CmdTyped
    <3>2. cmd' \in CmdTypes BY <2>c, <3>1, Zenon DEF TypeOK, CmdTypes
    <3> QED BY <1>g, <1>i, <2>c, <3>2 DEF TypeOK
  <2>2. Written BY <2>c DEF Written
  <2>3. Handshake' /\ IsoInv' /\ EEInv' BY <1>g, <1>i, <2>f, <2>2, WorkStep DEF SameState
  <2>4. Progress'
    BY <1>0, <1>n, <1>g, <1>q, <2>f DEF Typed, CmdTyped, Progress, SameFile, SameState, SameDest
  <2> QED BY <2>1, <2>3, <2>4
<1>b. CASE cmd.bytes_processed + n = HeaderSize
  <2>c. cmd' = [cmd EXCEPT !.bytes_processed = 0, !.dgo_state = "Read_Obj_data"] BY <1>b, <1>x
  <2>s. Send(FALSE) BY <1>b, <1>x
  <2>w. content' \in [Heaps -> [Bufs -> Contents]] /\ Written BY <2>s, SendEffect
  <2>f. /\ SameCall /\ SameFile /\ SameTop /\ SameDest /\ SameFirst /\ SameAbort
        /\ cmd'.bytes_processed = 0 /\ cmd'.dgo_state = "Read_Obj_data" /\ cmd'.pages = cmd.pages
        /\ cmd'.objects_loaded = cmd.objects_loaded
    BY <2>c, Zenon DEF TypeOK, CmdTypes, SameCall, SameFile, SameTop, SameDest, SameFirst, SameAbort
  <2>1. TypeOK'
    <3>1. 0 \in Nat OBVIOUS
    <3>2. cmd' \in CmdTypes BY <2>c, <3>1, Zenon DEF TypeOK, CmdTypes, DgoStates
    <3> QED BY <1>g, <1>i, <2>w, <3>2 DEF TypeOK
  <2>3. Handshake' /\ IsoInv' /\ EEInv' BY <1>g, <1>i, <2>f, <2>w, WorkStep
  <2>4. Progress'
    <3>1. Size[cmd.file][cmd.objects_loaded + 1] \in Nat
      BY <1>0, <1>g, <1>q, CountFacts DEF Typed, CmdTyped, Progress
    <3> QED BY <1>g, <1>q, <2>f, <3>1 DEF Progress, SameFile, SameDest
  <2> QED BY <2>1, <2>3, <2>4
<1> QED BY <1>a, <1>b

(* The data of an object is sent piece by piece. *)
LEMMA ReadObjDataStep ==
  ASSUME IInv, DGO_Read_Obj_data PROVE IInv'
<1> USE DEF IInv
<1>0. Typed BY TypedLemma
<1> DEFINE size == Size[cmd.file][cmd.objects_loaded + 1]
           n == Least(size - cmd.bytes_processed, iso.left)
           whole == cmd.bytes_processed + n = size
           last == cmd.objects_loaded + 1 = object_count(cmd.file)
<1>g. /\ iso.pc = "callback" /\ cmd.dgo_state = "Read_Obj_data"
      /\ UNCHANGED <<ee, heapCur, rpc, dgo, mbx>>
  BY DEF DGO_Read_Obj_data, Running, IsoVars
<1>q. cmd.queued /\ cmd.file \in Disc /\ cmd.pages # <<>> BY <1>g DEF IsoInv
<1>p. /\ cmd.objects_loaded < object_count(cmd.file)
      /\ cmd.dest = BufOf(cmd.buffer_toggle) /\ cmd.destHeap = cmd.heap
      /\ cmd.buffer_toggle = 0 <=> last
      /\ cmd.bytes_processed <= size
  BY <1>g, <1>q DEF Progress
<1>o. size \in Nat /\ object_count(cmd.file) \in Nat
  BY <1>0, <1>p, <1>q, CountFacts DEF Typed, CmdTyped
<1>j. iso' = [iso EXCEPT !.left = @ - n] /\ Send(whole) BY Zenon DEF DGO_Read_Obj_data
<1>x. cmd' = IF whole
               THEN [cmd EXCEPT !.objects_loaded = @ + 1,
                                !.bytes_processed = IF last THEN @ + n ELSE 0,
                                !.dgo_state = IF last THEN "Finish_Dgo" ELSE "Finish_Obj"]
               ELSE [cmd EXCEPT !.bytes_processed = @ + n]
  BY Zenon DEF DGO_Read_Obj_data
<1>l. whole \in BOOLEAN /\ last \in BOOLEAN OBVIOUS
<1> HIDE DEF size
<1>n. n \in Nat /\ n <= size - cmd.bytes_processed /\ n <= iso.left
  <2>1. cmd.bytes_processed \in Nat /\ iso.left \in Nat
    BY <1>0 DEF Typed, CmdTyped, IopTyped
  <2>2. size - cmd.bytes_processed \in Nat
    BY <1>o, <1>p, <2>1
  <2> QED BY <2>1, <2>2, LeastFacts
<1> HIDE DEF n, last
<1>i. iso' \in IsoTypes /\ iso'.pc = iso.pc BY <1>n, <1>j, ConsumeEffect
<1>w. content' \in [Heaps -> [Bufs -> Contents]] /\ Written /\ Sent(whole)
  BY <1>j, <1>l, SendEffect
<1>a. CASE ~whole
  <2>c. cmd' = [cmd EXCEPT !.bytes_processed = @ + n] BY <1>a, <1>x
  <2>f. /\ SameCall /\ SameFile /\ SameTop /\ SameState /\ SameDest /\ SameFirst /\ SameAbort
        /\ cmd'.bytes_processed = cmd.bytes_processed + n /\ cmd'.pages = cmd.pages
        /\ cmd'.objects_loaded = cmd.objects_loaded
    BY <2>c, Zenon DEF TypeOK, CmdTypes, SameCall, SameFile, SameTop, SameState, SameDest,
                       SameFirst, SameAbort
  <2>1. TypeOK'
    <3>1. cmd.bytes_processed + n \in Nat BY <1>0, <1>n DEF Typed, CmdTyped
    <3>2. cmd' \in CmdTypes BY <2>c, <3>1, Zenon DEF TypeOK, CmdTypes
    <3> QED BY <1>g, <1>i, <1>w, <3>2 DEF TypeOK
  <2>3. Handshake' /\ IsoInv' /\ EEInv' BY <1>g, <1>i, <1>w, <2>f, WorkStep DEF SameState
  <2>4. Progress'
    <3>1. cmd.bytes_processed + n <= size
      BY <1>0, <1>n, <1>o DEF Typed, CmdTyped
    <3>2. /\ cmd'.dgo_state = "Read_Obj_data" /\ cmd'.file = cmd.file /\ cmd'.heap = cmd.heap
          /\ cmd'.dest = cmd.dest /\ cmd'.destHeap = cmd.destHeap
          /\ cmd'.buffer_toggle = cmd.buffer_toggle
      BY <1>g, <2>f DEF SameFile, SameState, SameDest
    <3>3. /\ cmd'.objects_loaded < object_count(cmd'.file)
          /\ cmd'.dest = BufOf(cmd'.buffer_toggle) /\ cmd'.destHeap = cmd'.heap
          /\ cmd'.buffer_toggle = 0 <=> cmd'.objects_loaded + 1 = object_count(cmd'.file)
      BY <1>p, <2>f, <3>2 DEF last
    <3>4. cmd'.bytes_processed <= Size[cmd'.file][cmd'.objects_loaded + 1]
      BY <2>f, <3>1, <3>2 DEF size
    <3> QED BY <3>2, <3>3, <3>4 DEF Progress
  <2> QED BY <2>1, <2>3, <2>4
<1>b. CASE whole
  <2> DEFINE bytes == IF last THEN cmd.bytes_processed + n ELSE 0
             state == IF last THEN "Finish_Dgo" ELSE "Finish_Obj"
  <2>c. cmd' = [cmd EXCEPT !.objects_loaded = @ + 1, !.bytes_processed = bytes,
                           !.dgo_state = state]
    BY <1>b, <1>x
  <2>b. /\ bytes \in Nat /\ state \in DgoStates /\ cmd.objects_loaded + 1 \in Nat
        /\ last => state = "Finish_Dgo"
        /\ ~last => state = "Finish_Obj" /\ bytes = 0
    BY <1>0, <1>n DEF Typed, CmdTyped, DgoStates
  <2> HIDE DEF bytes, state
  <2>f. /\ SameCall /\ SameFile /\ SameTop /\ SameDest /\ SameFirst /\ SameAbort
        /\ cmd'.bytes_processed = bytes /\ cmd'.dgo_state = state /\ cmd'.pages = cmd.pages
        /\ cmd'.objects_loaded = cmd.objects_loaded + 1
    BY <2>c, Zenon DEF TypeOK, CmdTypes, SameCall, SameFile, SameTop, SameDest, SameFirst, SameAbort
  <2>1. TypeOK'
    <3>2. cmd' \in CmdTypes BY <2>b, <2>c, Zenon DEF TypeOK, CmdTypes
    <3> QED BY <1>g, <1>i, <1>w, <3>2 DEF TypeOK
  <2>3. Handshake' /\ IsoInv' /\ EEInv'
    BY <1>g, <1>i, <1>w, <2>b, <2>f, WorkStep DEF last
  <2>h. /\ content'[cmd.heap][cmd.dest].file = cmd.file
        /\ content'[cmd.heap][cmd.dest].full
        /\ content'[cmd.heap][cmd.dest].obj = cmd.objects_loaded + 1
        /\ content'[cmd.heap][cmd.dest].pos = cmd.destPos
    BY <1>b, <1>p, <1>w DEF Sent
  <2>4. Progress'
    <3>1. CASE last
      <4>1. cmd.dest = "top" BY <1>p, <3>1 DEF BufOf
      <4> QED BY <2>b, <2>f, <2>h, <3>1, <4>1 DEF last, Progress, Holds, SameFile, SameDest
    <3>2. CASE ~last
      <4>1. cmd.objects_loaded \in Nat BY <1>0 DEF Typed, CmdTyped
      <4>2. /\ 1 <= cmd.objects_loaded + 1 /\ cmd.objects_loaded + 1 < object_count(cmd.file)
            /\ cmd.buffer_toggle # 0
        BY <1>o, <1>p, <3>2, <4>1 DEF last
      <4>4. /\ cmd'.dgo_state = "Finish_Obj" /\ cmd'.bytes_processed = 0
            /\ cmd'.objects_loaded = cmd.objects_loaded + 1 /\ cmd'.file = cmd.file
            /\ cmd'.dest = cmd.dest /\ cmd'.buffer_toggle = cmd.buffer_toggle
        BY <2>b, <2>f, <3>2 DEF SameFile, SameDest
      <4>5. Holds(cmd.dest, cmd.objects_loaded)'
        BY <2>f, <2>h DEF Holds, SameFile, SameDest
      <4> QED BY <1>p, <4>2, <4>4, <4>5 DEF Progress
    <3> QED BY <3>1, <3>2
  <2> QED BY <2>1, <2>3, <2>4
<1> QED BY <1>a, <1>b

(* The end: sLoadDGO goes back to the DGO thread. *)
LEMMA FinishDgoStep ==
  ASSUME IInv, DGO_Finish_Dgo PROVE IInv'
<1> USE DEF IInv
<1>0. Typed BY TypedLemma
<1>g. /\ iso.pc = "callback" /\ cmd.dgo_state = "Finish_Dgo"
      /\ UNCHANGED <<ee, heapCur, rpc, dgo, content>>
  BY DEF DGO_Finish_Dgo, Running, IsoVars
<1>c. cmd' = [cmd EXCEPT !.status = "DONE", !.pages = <<>>, !.queued = FALSE] BY DEF DGO_Finish_Dgo
<1>i. iso' = [iso EXCEPT !.pc = "after", !.left = 0, !.readInfo = FALSE] BY DEF DGO_Finish_Dgo
<1>b. mbx' = [mbx EXCEPT !["dgo"] = @ + 1] BY DEF DGO_Finish_Dgo
<1>q. cmd.queued BY <1>g DEF IsoInv
<1>s. /\ Mail(0, 0, 0) /\ Active /\ dgo # "sleep"
      /\ \/ dgo \in {"abort_wait", "cancel_wait"} /\ cmd.want_abort
         \/ /\ dgo = "load_wait" /\ object_count(cmd.file) = 1 /\ cmd.destPos = cmd.heaptop
            /\ ~cmd.want_abort
         \/ dgo = "next_wait" /\ Topping
  BY <1>0, <1>g, <1>q
  DEF Typed, IopTyped, DgoWaits, Handshake, Unused, Ahead, Active, Finished, Starting, Topping
<1>w. rpc.started /\ ~rpc.finished /\ ee.pc \in {"idle", "wait"} BY <1>s, EEWaits
<1>t. ~cmd.want_abort => LastOnTop
  BY <1>g, <1>q, <1>s DEF Progress, LastOnTop, Topping
<1>m. /\ mbx' \in [{"iso", "sync", "dgo"} -> Nat]
      /\ mbx'["iso"] = mbx["iso"] /\ mbx'["sync"] = mbx["sync"] /\ mbx'["dgo"] = mbx["dgo"] + 1
  <2>1. mbx \in [{"iso", "sync", "dgo"} -> Nat] BY DEF TypeOK
  <2> QED BY <1>b, <2>1
<1>f. /\ cmd'.cmd_id = cmd.cmd_id /\ ~cmd'.queued /\ cmd'.status = "DONE"
      /\ SameFile /\ SameTop /\ SameAbort /\ iso'.pc = "after"
  BY <1>c, <1>i, Zenon DEF TypeOK, CmdTypes, IsoTypes, SameFile, SameTop, SameAbort
<1>1. TypeOK'
  <2>1. <<>> \in Seq(Nat) /\ 0 \in Nat OBVIOUS
  <2>2. cmd' \in CmdTypes BY <1>c, <2>1, Zenon DEF TypeOK, CmdTypes
  <2>3. iso' \in IsoTypes BY <1>i, <2>1, Zenon DEF TypeOK, IsoTypes, IsoStates
  <2> QED BY <1>g, <1>m, <2>2, <2>3 DEF TypeOK
<1>2. Handshake'
  <2>1. Finished' /\ Mail(0, 0, 1)' BY <1>s, <1>m, <1>f DEF Finished, Active, Mail
  <2>2. LastOnTop => LastOnTop' BY <1>g, <1>f DEF LastOnTop, Holds, SameFile, SameTop
  <2>3. cmd'.want_abort = cmd.want_abort /\ cmd'.file = cmd.file BY <1>f DEF SameAbort, SameFile
  <2>4. Topping => ~cmd.want_abort BY DEF Topping
  <2> QED BY <1>g, <1>s, <1>t, <2>1, <2>2, <2>3, <2>4 DEF Handshake
<1>3. Progress' BY <1>f DEF Progress
<1>4. IsoInv' BY <1>g, <1>f DEF IsoInv, SameFile
<1>5. EEInv'
  <2>1. RpcInv' BY <1>g, <1>w, <1>f DEF EEInv, RpcInv, SameFile, SameTop
  <2>2. HeapInv' /\ LinkInv' BY <1>g, <1>w DEF EEInv, HeapInv, LinkInv
  <2>3. rpc.fno = "LOAD_NEXT" => Topping
    BY <1>s DEF EEInv, RpcInv
  <2>4. WaitInv'
    BY <1>0, <1>g, <1>s, <1>w, <1>f, <1>m, <2>3
    DEF Typed, IopTyped, EEInv, WaitInv, Mail, Ours, SameFile
  <2> QED BY <2>1, <2>2, <2>4 DEF EEInv
<1> QED BY <1>1, <1>2, <1>3, <1>4, <1>5

-----------------------------------------------------------------------------
(***************************************************************************)
(* The theorems.                                                           *)
(***************************************************************************)
(* Every step of the EE, the DGO thread and the ISO thread preserves IInv. *)
LEMMA NextIInv == IInv /\ [Next]_vars => IInv'
<1> SUFFICES ASSUME IInv, [Next]_vars PROVE IInv'
  OBVIOUS
<1>1. CASE EE
  <2>1. ASSUME NEW f \in Disc \cup NotFound, NEW h \in Heaps, BeginLoadingDGO(f, h)
        PROVE  IInv'
    BY <2>1, BeginStep
  <2> QED BY <1>1, <2>1, GetNextStep, LinkDoneStep, ContinueStep, UnloadStep DEF EE
<1>2. CASE DgoThread
  BY <1>2, LoadDGOStep, LoadDGO_AbortedStep, AnswerStep, LoadNextDGOStep, CancelDGOStep,
     CancelDGO_AnswerStep
  DEF DgoThread
<1>3. CASE IsoThread
  BY <1>3, PollMessageStep, OpenedStep, LoopStep, SyncReadStep, LeaveStep, InitStep,
     ReadHeaderStep, FinishFirstStep, FinishObjStep, ReadLastStep, ReadObjHeaderStep,
     ReadObjDataStep, FinishDgoStep
  DEF IsoThread
<1>4. CASE UNCHANGED vars
  <2>1. UNCHANGED <<ee, heapCur, rpc, dgo, mbx, cmd, iso, content>> BY <1>4 DEF vars
  <2>2. TypeOK' BY <2>1 DEF IInv, TypeOK
  <2>3. Handshake' /\ Progress' /\ IsoInv' BY <2>1, IopUntouched
  <2>4. RpcInv' BY <2>1 DEF IInv, EEInv, RpcInv, Ahead, Active, Holds, Returned
  <2>5. HeapInv' BY <2>1 DEF IInv, EEInv, HeapInv
  <2>6. LinkInv'
    BY <2>1 DEF IInv, EEInv, LinkInv, Ahead, Active, Holds, Returned, Ours, Unused, LastAtEnd
  <2>7. WaitInv'
    <3>1. (Ahead' <=> Ahead) /\ Returned' = Returned
      BY <2>1, AheadKept DEF SameCall, SameFile, SameState, SamePlace, SameDest, SameFirst
    <3>2. /\ Ours' <=> Ours
          /\ Unused' <=> Unused
          /\ Finished' <=> Finished
          /\ Topping' <=> Topping
      BY <2>1 DEF Ours, Unused, Finished, Topping, Active
    <3>3. LastAtEnd(content[ee.heap]["top"])' <=> LastAtEnd(content[ee.heap]["top"])
      BY <2>1 DEF LastAtEnd
    <3> QED BY <2>1, <3>1, <3>2, <3>3 DEF IInv, EEInv, WaitInv
  <2> QED BY <2>2, <2>3, <2>4, <2>5, <2>6, <2>7 DEF IInv, EEInv
<1> QED BY <1>1, <1>2, <1>3, <1>4 DEF Next

(* Loading a DGO keeps the inductive invariant for ever, for all files,    *)
(* object sizes, page sizes and heaps.                                     *)
THEOREM Invariance == Spec => []IInv
<1>1. Init => IInv BY InitIInv
<1>2. IInv /\ [Next]_vars => IInv' BY NextIInv
<1> QED BY <1>1, <1>2, PTL DEF Spec

(* The state of the four parties always has its type. *)
THEOREM TypeCorrectness == Spec => []TypeOK
<1>1. IInv => TypeOK BY DEF IInv
<1> QED BY <1>1, Invariance, PTL

(* The EE links the objects of its file in order, each intact in the       *)
(* buffer the IOP reported: double buffering never overwrites one in use.  *)
THEOREM LinksIntact == Spec => []LinksIntactObject
<1>1. IInv => LinksIntactObject
  <2> SUFFICES ASSUME IInv, ee.pc = "linking"
               PROVE  LET it == content[ee.heap][ee.buf]
                      IN it.file = ee.file /\ it.full /\ it.obj = heapCur[ee.heap] + 1
    BY DEF LinksIntactObject
  <2>0. Typed BY TypedLemma DEF IInv
  <2>1. CASE ee.last
    BY <2>1 DEF IInv, EEInv, LinkInv, LastAtEnd
  <2>2. CASE ~ee.last
    BY <2>2 DEF IInv, EEInv, LinkInv, Ahead, Holds, Ours
  <2> QED BY <2>0, <2>1, <2>2 DEF Typed, EETyped
<1> QED BY <1>1, Invariance, PTL

(* The object reported as last is the last and lies at the heap's end,     *)
(* where level.gc links it without looking at the reported address.        *)
THEOREM LastAtHeapTop == Spec => []LastObjectAtHeapTop
<1>1. IInv => LastObjectAtHeapTop
  <2> SUFFICES ASSUME IInv, ee.pc = "linking"
               PROVE  /\ ee.last <=> (heapCur[ee.heap] + 1 = object_count(ee.file))
                      /\ ee.last => /\ ee.buf = "top"
                                    /\ content[ee.heap]["top"].pos = heapCur[ee.heap]
    BY DEF LastObjectAtHeapTop
  <2>0. Typed BY TypedLemma DEF IInv
  <2>1. CASE ee.last
    BY <2>1 DEF IInv, EEInv, LinkInv, LastAtEnd
  <2>2. CASE ~ee.last
    <3>1. Ahead /\ Ours /\ heapCur[ee.heap] + 1 = Returned
      BY <2>2 DEF IInv, EEInv, LinkInv
    <3>2. iso.pc # "open" /\ cmd.queued /\ dgo = "sleep"
      BY <2>0, <2>2, <3>1
      DEF IInv, IsoInv, Ahead, Active, EEInv, LinkInv, RpcInv, Typed, RpcTyped
    <3>3. cmd.file \in Disc BY <3>2 DEF IInv, IsoInv
    <3>4. Returned < object_count(cmd.file)
      BY <2>0, <3>1, <3>2, <3>3, CountFacts
      DEF IInv, Progress, Ahead, Returned, Typed, CmdTyped
    <3> QED BY <2>2, <3>1, <3>4, <3>3, CountFacts, <2>0 DEF Ours, Typed, EETyped
  <2> QED BY <2>0, <2>1, <2>2 DEF Typed, EETyped
<1> QED BY <1>1, Invariance, PTL

(* Between two calls no message is left over, and sLoadDGO says it is in   *)
(* use exactly while the ISO thread has it queued.                         *)
THEOREM QuietBetweenCalls == Spec => []ChannelQuietBetweenCalls
<1>1. IInv => ChannelQuietBetweenCalls
  <2> SUFFICES ASSUME IInv, rpc.finished
               PROVE  (\A m \in DOMAIN mbx : mbx[m] = 0) /\ (cmd.cmd_id <=> cmd.queued)
    BY DEF ChannelQuietBetweenCalls, rpc_busy
  <2>0. Typed BY TypedLemma DEF IInv
  <2>1. dgo = "sleep" BY <2>0 DEF Typed, RpcTyped, IInv, EEInv, RpcInv
  <2>2. Mail(0, 0, 0) /\ (Unused \/ Ahead) BY <2>1 DEF IInv, Handshake
  <2>3. DOMAIN mbx = {"iso", "sync", "dgo"} BY DEF IInv, TypeOK
  <2> QED BY <2>0, <2>2, <2>3 DEF Mail, Unused, Ahead, Active, Typed, CmdTyped
<1> QED BY <1>1, Invariance, PTL

(* A load is refused only for a missing file, going on never is.           *)
THEOREM RefusedOnlyIfMissing == Spec => []ErrorOnlyIfMissing
<1>1. IInv => ErrorOnlyIfMissing
  <2>0. ASSUME IInv PROVE Typed BY <2>0, TypedLemma DEF IInv
  <2> QED BY <2>0 DEF IInv, EEInv, RpcInv, ErrorOnlyIfMissing, rpc_busy, Typed, RpcTyped
<1> QED BY <1>1, Invariance, PTL

(* Only the two states that transfer objects write EE memory, and only     *)
(* where the state machine aims.                                           *)
LEMMA WritesWhereAimed ==
  ASSUME IInv, [Next]_vars, ee.pc \in {"linking", "linked"}, NEW h \in Heaps, h # ee.heap
  PROVE  content'[h] = content[h]
<1>1. CASE DGO_Read_Obj_Header \/ DGO_Read_Obj_data
  <2>1. iso.pc = "callback" /\ cmd.dgo_state \in {"Read_Obj_Header", "Read_Obj_data"}
    BY <1>1 DEF DGO_Read_Obj_Header, DGO_Read_Obj_data, Running
  <2>2. cmd.queued /\ iso.pc # "open" BY <2>1 DEF IInv, IsoInv
  <2>3. Ours BY <2>2 DEF IInv, EEInv, LinkInv, Unused
  <2>4. cmd.destHeap = ee.heap BY <2>1, <2>2, <2>3 DEF IInv, Progress, Ours
  <2>5. \E full \in BOOLEAN : Send(full) \/ UNCHANGED content
    BY <1>1, Zenon DEF DGO_Read_Obj_Header, DGO_Read_Obj_data
  <2>6. Written
    BY <2>5, SendEffect DEF IInv, Written
  <2> QED BY <2>4, <2>6 DEF Written
<1>2. CASE ~(DGO_Read_Obj_Header \/ DGO_Read_Obj_data)
  <2>1. CASE EE
    BY <2>1 DEF EE, BeginLoadingDGO, GetNextDGO, LinkDone, ContinueLoadingDGO, CancelLoadingDGO, Unload
  <2>2. CASE DgoThread
    BY <2>2 DEF DgoThread, LoadDGO, LoadDGO_Aborted, LoadDGO_Answer, LoadNextDGO,
                LoadNextDGO_Answer, CancelDGO, CancelDGO_Answer, AnswerByStatus
  <2>3. CASE IsoThread
    BY <1>2, <2>3 DEF IsoThread, ISO_PollMessage, ISO_Opened, ISO_PollEmpty, ISO_ReadComplete,
                ISO_SyncRead, ISO_DelayOver, DGO_OutOfData, DGO_Init, DGO_Read_Header,
                DGO_Finish_FirstObj, DGO_Finish_Obj, DGO_Read_Last_Obj, DGO_NotReady, DGO_Finish_Dgo
  <2>4. CASE UNCHANGED vars BY <2>4 DEF vars
  <2> QED BY <2>1, <2>2, <2>3, <2>4 DEF Next
<1> QED BY <1>1, <1>2

(* While the EE has an object of its load, no abandoned load writes to     *)
(* another heap.                                                           *)
THEOREM NoLate == Spec => NoLateWrites
<1>1. IInv /\ [Next]_vars =>
        [ee.pc \in {"linking", "linked"} =>
           \A h \in Heaps \ {ee.heap} : content'[h] = content[h]]_vars
  BY WritesWhereAimed
<1> QED BY <1>1, Invariance, PTL DEF Spec, NoLateWrites
=============================================================================
