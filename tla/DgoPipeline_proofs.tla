------------------------ MODULE DgoPipeline_proofs ------------------------
(***************************************************************************)
(* TLAPS proof that DgoLoad implements DgoPipeline, for all files, object  *)
(* sizes, page sizes and heaps.  IInv says where every party is; PipeInv   *)
(* adds what it has to remember of the past: how far the state machine got *)
(* before it returned sLoadDGO, and what an answer was an answer to.       *)
(***************************************************************************)
EXTENDS DgoLoad_proofs

(* sLoadDGO is returned only at the end of the file or by an abort. *)
EndInv ==
  /\ mbx["dgo"] = 1 /\ Finished => cmd.dgo_state = "Finish_Dgo"
  /\ /\ cmd.dgo_state = "Finish_Dgo" /\ dgo \in {"load_wait", "next_wait"}
     /\ mbx["iso"] = 0 /\ iso.pc # "open"
     => cmd.objects_loaded = object_count(cmd.file)

(* The EE cancels between two objects. *)
CancelInv ==
  ee.pc = "wait" /\ rpc.fno = "CANCEL" =>
    /\ heapCur[ee.heap] > 0
    /\ ~rpc.finished /\ (mbx["sync"] = 1 \/ ~rpc.started) => heapCur[ee.heap] = Returned

(* The answer the EE is about to look at is about its own load. *)
AnswerInv ==
  /\ ~rpc.finished => rpc.result = "INIT"
  /\ ee.pc = "wait" /\ rpc.finished =>
       /\ rpc.result # "INIT"
       /\ rpc.result = "ERROR" => rpc.file = ee.file
       /\ rpc.result = "ABORTED" => rpc.fno = "CANCEL" /\ Unused
       /\ rpc.result = "DONE" =>
            cmd.dgo_state = "Finish_Dgo" /\ cmd.objects_loaded = object_count(ee.file)

(* A load is the load of some file. *)
FileInv == ee.pc # "idle" => ee.file # NoFile

PipeInv == EndInv /\ CancelInv /\ AnswerInv /\ FileInv

(* The pipeline's variables, as DgoLoad's state shows them. *)
Phase == IF Loading THEN "loading" ELSE ee.pc
SentObjects == IF Loading /\ HeaderRead THEN cmd.objects_loaded ELSE 0
Given == IF Loading THEN heapCur[ee.heap] + (IF ee.pc = "linking" THEN 1 ELSE 0) ELSE 0
Linked == IF Loading THEN heapCur[ee.heap] ELSE 0
View == <<Phase, ee.file, SentObjects, Given, Linked>>

-----------------------------------------------------------------------------
(***************************************************************************)
(* Initial states, and steps of the IOP seen from the EE.                  *)
(***************************************************************************)
LEMMA PipeInit == Init => PipeInv /\ Pipeline!Init
<1> SUFFICES ASSUME Init PROVE PipeInv /\ Pipeline!Init
  OBVIOUS
<1>1. /\ ee.pc = "idle" /\ ee.file = NoFile /\ cmd.dgo_state = "Init" /\ mbx["dgo"] = 0
      /\ rpc.finished
  BY DEF Init
<1> QED BY <1>1 DEF PipeInv, EndInv, CancelInv, AnswerInv, FileInv, Pipeline!Init, Loading

(* A step of the IOP that leaves `sent` alone cannot be seen. *)
LEMMA Unseen ==
  ASSUME UNCHANGED <<ee, heapCur>>, Loading => SentObjects' = SentObjects
  PROVE  UNCHANGED View
BY DEF View, Phase, SentObjects, Given, Linked, Loading

(* sLoadDGO is out of use while the EE has, or is about to take, the last  *)
(* object, and after a refusal or an abort.                                *)
LEMMA AnsweredAtRest ==
  ASSUME IInv, ee.pc = "wait", rpc.finished
  PROVE  dgo = "sleep" /\ Mail(0, 0, 0) /\ rpc.started
<1>0. Typed BY TypedLemma DEF IInv
<1> QED BY <1>0 DEF Typed, RpcTyped, IInv, EEInv, RpcInv, Handshake

(* A step of the ISO thread that neither returns sLoadDGO nor counts an    *)
(* object nor moves it through its first states.                           *)
LEMMA QuietStep ==
  ASSUME IInv, PipeInv, UNCHANGED <<ee, heapCur, rpc, dgo>>,
         mbx'["iso"] = mbx["iso"], mbx'["dgo"] = mbx["dgo"], mbx'["sync"] = mbx["sync"],
         SameCall, SameFile, SameState, cmd'.objects_loaded = cmd.objects_loaded,
         iso'.pc = "open" <=> iso.pc = "open"
  PROVE  PipeInv' /\ UNCHANGED View
<1>1. EndInv' BY DEF PipeInv, EndInv, Finished, SameCall, SameFile, SameState
<1>2. CancelInv' BY DEF PipeInv, CancelInv, Returned, SameState
<1>3. AnswerInv' BY DEF PipeInv, AnswerInv, Unused, SameCall, SameState
<1>4. FileInv' BY DEF PipeInv, FileInv
<1>5. UNCHANGED View
  BY Unseen DEF SentObjects, Loading, HeaderRead, SameState
<1> QED BY <1>1, <1>2, <1>3, <1>4, <1>5 DEF PipeInv

-----------------------------------------------------------------------------
(***************************************************************************)
(* The EE's steps.                                                         *)
(***************************************************************************)
(* Asking for a file begins the pipeline's load of it. *)
LEMMA BeginMaps ==
  ASSUME IInv, PipeInv, NEW f \in Disc \cup NotFound, NEW h \in Heaps, BeginLoadingDGO(f, h)
  PROVE  PipeInv' /\ Pipeline!Begin(f)
<1>0. Typed BY TypedLemma DEF IInv
<1>u. UNCHANGED <<heapCur, dgo, mbx, cmd, iso>> BY DEF BeginLoadingDGO
<1>g. ee.pc = "idle" /\ rpc.finished BY DEF BeginLoadingDGO, rpc_busy
<1>e. ee'.pc = "wait" /\ ee'.file = f /\ ee'.heap = h
  <2>1. ee' = [ee EXCEPT !.pc = "wait", !.file = f, !.heap = h] BY DEF BeginLoadingDGO
  <2> QED BY <2>1, Zenon DEF IInv, TypeOK, EETypes
<1>r. rpc'.fno = "LOAD" /\ ~rpc'.finished /\ rpc'.result = "INIT" BY DEF BeginLoadingDGO, RpcCall
<1>h. heapCur[h] = 0 BY <1>g DEF IInv, EEInv, HeapInv
<1>d. dgo # "load_wait" BY <1>0, <1>g DEF Typed, RpcTyped, IInv, EEInv, RpcInv
<1>1. PipeInv'
  BY <1>u, <1>e, <1>r, DiscAssumption
  DEF PipeInv, EndInv, CancelInv, AnswerInv, FileInv, Finished, Unused
<1>2. Pipeline!Begin(f)
  BY <1>u, <1>g, <1>e, <1>r, <1>h, <1>d DEF Pipeline!Begin, Loading, HeaderRead
<1> QED BY <1>1, <1>2

(* Taking an answer is being given an object, or failing. *)
LEMMA GetNextMaps ==
  ASSUME IInv, PipeInv, GetNextDGO
  PROVE  PipeInv' /\ (Pipeline!Give \/ Pipeline!Fail)
<1>0. Typed BY TypedLemma DEF IInv
<1>u. UNCHANGED <<heapCur, rpc, dgo, mbx, cmd, iso>> BY DEF GetNextDGO
<1>g. ee.pc = "wait" /\ rpc.finished BY DEF GetNextDGO, rpc_busy
<1>s. dgo = "sleep" /\ Mail(0, 0, 0) BY <1>g, AnsweredAtRest
<1>h. heapCur[ee.heap] \in Nat /\ cmd.objects_loaded \in Nat BY <1>0 DEF Typed, EETyped, CmdTyped
<1>a. CASE rpc.result \in {"MORE", "DONE"}
  <2>e. ee'.pc = "linking" /\ ee'.file = ee.file /\ ee'.heap = ee.heap
    <3> DEFINE last == rpc.result = "DONE"
    <3>1. ee' = [ee EXCEPT !.pc = "linking", !.buf = rpc.buf, !.last = last]
      BY <1>a, Zenon DEF GetNextDGO
    <3> HIDE DEF last
    <3> QED BY <3>1, Zenon DEF IInv, TypeOK, EETypes
  <2>1. PipeInv'
    BY <1>u, <1>g, <2>e DEF PipeInv, EndInv, CancelInv, AnswerInv, FileInv, Finished, Unused
  <2>2. cmd.dgo_state \notin {"Init", "Read_Header"} /\ heapCur[ee.heap] < cmd.objects_loaded
    <3>1. CASE rpc.result = "MORE"
      <4>1. Ahead /\ heapCur[ee.heap] + 1 = Returned BY <1>g, <3>1 DEF IInv, EEInv, WaitInv
      <4> QED BY <1>h, <4>1 DEF Ahead, Returned
    <3>2. CASE rpc.result = "DONE"
      <4>1. heapCur[ee.heap] + 1 = object_count(ee.file)
        BY <1>g, <3>2 DEF IInv, EEInv, WaitInv, LastAtEnd
      <4>2. cmd.dgo_state = "Finish_Dgo" /\ cmd.objects_loaded = object_count(ee.file)
        BY <1>g, <3>2 DEF PipeInv, AnswerInv
      <4> QED BY <1>h, <4>1, <4>2
    <3> QED BY <1>a, <3>1, <3>2
  <2>3. iso.pc # "open" BY <1>s DEF IInv, IsoInv
  <2>4. HeaderRead BY <1>a, <1>g, <2>2, <2>3 DEF HeaderRead
  <2>5. HeaderRead' BY <2>e DEF HeaderRead
  <2>6. Pipeline!Give
    BY <1>u, <1>g, <1>h, <2>e, <2>2, <2>4, <2>5 DEF Pipeline!Give, Loading
  <2> QED BY <2>1, <2>6
<1>b. CASE rpc.result \notin {"MORE", "DONE"}
  <2>e. ee'.pc = "failed" /\ ee'.file = ee.file /\ ee'.heap = ee.heap
    <3>1. ee' = [ee EXCEPT !.pc = "failed"] BY <1>b DEF GetNextDGO
    <3> QED BY <3>1, Zenon DEF IInv, TypeOK, EETypes
  <2>1. PipeInv'
    BY <1>u, <1>g, <2>e DEF PipeInv, EndInv, CancelInv, AnswerInv, FileInv, Finished, Unused
  <2>2. ee.file \notin Disc \/ heapCur[ee.heap] > 0
    <3>1. rpc.result \in {"ERROR", "ABORTED"}
      BY <1>0, <1>b, <1>g DEF Typed, RpcTyped, Results, PipeInv, AnswerInv
    <3>2. CASE rpc.result = "ERROR"
      BY <1>g, <3>2 DEF PipeInv, AnswerInv, IInv, EEInv, RpcInv
    <3>3. CASE rpc.result = "ABORTED"
      BY <1>g, <3>3 DEF PipeInv, AnswerInv, CancelInv
    <3> QED BY <3>1, <3>2, <3>3
  <2>3. Pipeline!Fail
    BY <1>u, <1>g, <1>h, <2>e, <2>2 DEF Pipeline!Fail, Loading
  <2> QED BY <2>1, <2>3
<1> QED BY <1>a, <1>b

(* Linking an object is linking it; the last one ends the load. *)
LEMMA LinkMaps ==
  ASSUME IInv, PipeInv, LinkDone
  PROVE  PipeInv' /\ Pipeline!Link
<1>0. Typed BY TypedLemma DEF IInv
<1>u. UNCHANGED <<rpc, dgo, mbx, cmd, iso>> BY DEF LinkDone
<1>g. ee.pc = "linking" BY DEF LinkDone
<1>e. /\ ee'.pc = (IF ee.last THEN "loaded" ELSE "linked")
      /\ ee'.file = ee.file /\ ee'.heap = ee.heap
  <2>1. ee' = [ee EXCEPT !.pc = IF ee.last THEN "loaded" ELSE "linked"] BY DEF LinkDone
  <2> QED BY <2>1, Zenon DEF IInv, TypeOK, EETypes
<1>h. heapCur'[ee.heap] = heapCur[ee.heap] + 1 /\ heapCur[ee.heap] \in Nat
  <2>1. heapCur \in [Heaps -> Nat] /\ ee.heap \in Heaps BY DEF IInv, TypeOK, EETypes
  <2>2. heapCur' = [heapCur EXCEPT ![ee.heap] = @ + 1] BY DEF LinkDone
  <2> QED BY <2>1, <2>2
<1>1. PipeInv'
  BY <1>u, <1>g, <1>e DEF PipeInv, EndInv, CancelInv, AnswerInv, FileInv, Finished, Unused
<1>2. HeaderRead /\ HeaderRead' BY <1>g, <1>e DEF HeaderRead
<1>3. ee.file \in Disc /\ (ee.last <=> heapCur[ee.heap] + 1 = object_count(ee.file))
  <2>1. CASE ee.last
    <3>1. LastAtEnd(content[ee.heap]["top"]) BY <1>g, <2>1 DEF IInv, EEInv, LinkInv
    <3>2. content[ee.heap]["top"] \in Contents
      BY <1>0 DEF IInv, TypeOK, Typed, EETyped, Bufs
    <3>3. content[ee.heap]["top"].file \in Disc \cup {NoFile} BY <3>2 DEF Contents
    <3>4. ee.file # NoFile BY <1>g DEF PipeInv, FileInv
    <3> QED BY <2>1, <3>1, <3>3, <3>4 DEF LastAtEnd
  <2>2. CASE ~ee.last
    <3>1. Ahead /\ Ours /\ heapCur[ee.heap] + 1 = Returned
      BY <1>g, <2>2 DEF IInv, EEInv, LinkInv
    <3>2. cmd.queued /\ cmd.file \in Disc /\ iso.pc # "open"
      BY <1>0, <1>g, <3>1
      DEF IInv, IsoInv, Ahead, Active, EEInv, LinkInv, RpcInv, Typed, RpcTyped
    <3>3. Returned < object_count(cmd.file)
      BY <1>0, <3>1, <3>2, CountFacts DEF IInv, Progress, Ahead, Returned, Typed, CmdTyped
    <3> QED BY <1>h, <2>2, <3>1, <3>2, <3>3, CountFacts DEF Ours
  <2> QED BY <2>1, <2>2
<1>4. Pipeline!Link
  <2>1. CASE ee.last
    BY <1>g, <1>e, <1>h, <1>2, <1>3, <2>1 DEF Pipeline!Link, Loading
  <2>2. CASE ~ee.last
    BY <1>u, <1>g, <1>e, <1>h, <1>2, <1>3, <2>2 DEF Pipeline!Link, Loading
  <2> QED BY <2>1, <2>2
<1> QED BY <1>1, <1>4

(* Asking for the next object, or to cancel, cannot be seen. *)
LEMMA ContinueMaps ==
  ASSUME IInv, PipeInv, ContinueLoadingDGO \/ CancelLoadingDGO
  PROVE  PipeInv' /\ UNCHANGED View
<1>0. Typed BY TypedLemma DEF IInv
<1>u. UNCHANGED <<heapCur, dgo, mbx, cmd, iso>>
  BY DEF ContinueLoadingDGO, CancelLoadingDGO
<1>g. ee.pc = "linked" BY DEF ContinueLoadingDGO, CancelLoadingDGO
<1>e. ee'.pc = "wait" /\ ee'.file = ee.file /\ ee'.heap = ee.heap
  <2>1. ee' = [ee EXCEPT !.pc = "wait"] BY DEF ContinueLoadingDGO, CancelLoadingDGO
  <2> QED BY <2>1, Zenon DEF IInv, TypeOK, EETypes
<1>r. rpc'.fno # "LOAD" /\ ~rpc'.finished /\ rpc'.result = "INIT"
  BY DEF ContinueLoadingDGO, CancelLoadingDGO, RpcCall
<1>h. Ahead /\ heapCur[ee.heap] = Returned BY <1>g DEF IInv, EEInv, LinkInv
<1>1. PipeInv'
  <2>1. EndInv' BY <1>u DEF PipeInv, EndInv, Finished
  <2>2. CancelInv' BY <1>0, <1>u, <1>e, <1>h DEF CancelInv, Returned, Ahead, Typed, CmdTyped
  <2>3. AnswerInv' /\ FileInv' BY <1>g, <1>e, <1>r DEF PipeInv, AnswerInv, FileInv
  <2> QED BY <2>1, <2>2, <2>3 DEF PipeInv
<1>2. UNCHANGED View
  BY <1>u, <1>g, <1>e, <1>r DEF View, Phase, SentObjects, Given, Linked, Loading, HeaderRead
<1> QED BY <1>1, <1>2

(* Giving a load up is unloading. *)
LEMMA UnloadMaps ==
  ASSUME IInv, PipeInv, Unload
  PROVE  PipeInv' /\ Pipeline!Unload
<1>u. UNCHANGED <<rpc, dgo, mbx, cmd, iso>> BY DEF Unload
<1>g. ee.pc # "idle" BY DEF Unload
<1>e. ee'.pc = "idle" /\ ee'.file = ee.file
  <2>1. ee' = [ee EXCEPT !.pc = "idle"] BY DEF Unload
  <2> QED BY <2>1, Zenon DEF IInv, TypeOK, EETypes
<1>1. PipeInv'
  BY <1>u, <1>e DEF PipeInv, EndInv, CancelInv, AnswerInv, FileInv, Finished, Unused
<1>2. Pipeline!Unload
  BY <1>g, <1>e DEF Pipeline!Unload, Loading
<1> QED BY <1>1, <1>2

-----------------------------------------------------------------------------
(***************************************************************************)
(* The DGO thread's steps: none can be seen, for none sends an object.     *)
(***************************************************************************)
(* What a step of the DGO thread leaves alone. *)
LEMMA DgoKeeps ==
  ASSUME IInv, DgoThread
  PROVE  UNCHANGED <<ee, heapCur, iso>> /\ SameState /\ SamePlace
<1>0. Typed BY TypedLemma DEF IInv
<1>1. UNCHANGED <<ee, heapCur, iso>>
  BY DEF DgoThread, LoadDGO, LoadDGO_Aborted, LoadDGO_Answer, LoadNextDGO, LoadNextDGO_Answer,
         CancelDGO, CancelDGO_Answer, AnswerByStatus
<1>2. \/ UNCHANGED cmd
      \/ cmd' = [cmd EXCEPT !.want_abort = TRUE]
      \/ cmd' = [cmd EXCEPT !.cmd_id = TRUE, !.file = rpc.file, !.heap = rpc.heap,
                            !.heaptop = rpc.top]
      \/ cmd' = [cmd EXCEPT !.cmd_id = FALSE]
      \/ cmd' = [cmd EXCEPT !.heaptop = rpc.top]
  <2>1. LoadDGO => \/ UNCHANGED cmd
                   \/ cmd' = [cmd EXCEPT !.want_abort = TRUE]
                   \/ cmd' = [cmd EXCEPT !.cmd_id = TRUE, !.file = rpc.file, !.heap = rpc.heap,
                                         !.heaptop = rpc.top]
    BY DEF LoadDGO, StartAbort, StartLoad
  <2>2. LoadDGO_Aborted => cmd' = [cmd EXCEPT !.cmd_id = TRUE, !.file = rpc.file, !.heap = rpc.heap,
                                              !.heaptop = rpc.top]
    BY DEF LoadDGO_Aborted, StartLoad
  <2>3. LoadDGO_Answer \/ LoadNextDGO_Answer =>
          UNCHANGED cmd \/ cmd' = [cmd EXCEPT !.cmd_id = FALSE]
    BY <1>0 DEF LoadDGO_Answer, LoadNextDGO_Answer, AnswerByStatus, Typed, CmdTyped
  <2>4. LoadNextDGO => UNCHANGED cmd \/ cmd' = [cmd EXCEPT !.heaptop = rpc.top]
    BY DEF LoadNextDGO
  <2>5. CancelDGO => UNCHANGED cmd \/ cmd' = [cmd EXCEPT !.want_abort = TRUE]
    BY DEF CancelDGO, StartAbort
  <2>6. CancelDGO_Answer => cmd' = [cmd EXCEPT !.cmd_id = FALSE]
    BY DEF CancelDGO_Answer
  <2> QED BY <2>1, <2>2, <2>3, <2>4, <2>5, <2>6 DEF DgoThread
<1>3. SameState /\ SamePlace
  BY <1>2, ZenonT(60) DEF IInv, TypeOK, CmdTypes, SameState, SamePlace
<1> QED BY <1>1, <1>3

(* LoadDGO: what it sends to EE memory is for the ISO thread to send. *)
LEMMA LoadDGOMaps ==
  ASSUME IInv, PipeInv, LoadDGO
  PROVE  PipeInv' /\ UNCHANGED View
<1>0. Typed /\ TypeOK BY TypedLemma DEF IInv
<1>k. UNCHANGED <<ee, heapCur, iso>> /\ SameState /\ SamePlace BY DgoKeeps DEF DgoThread
<1>g. dgo = "sleep" /\ ~rpc.started /\ rpc.fno = "LOAD" BY DEF LoadDGO
<1>s. Mail(0, 0, 0) /\ ~rpc.finished BY <1>0, <1>g DEF IInv, Handshake, EEInv, RpcInv
<1>1. CASE rpc.file \notin Disc
  <2>1. Answer("ERROR", rpc.buf) /\ UNCHANGED <<dgo, mbx, cmd>> BY <1>1 DEF LoadDGO
  <2>2. Answered("ERROR", rpc.buf)
    BY <1>0, <2>1, AnswerEffect DEF Typed, RpcTyped, Results
  <2>3. ee.pc = "wait" => rpc.file = ee.file BY <1>g, <1>s DEF IInv, EEInv, WaitInv
  <2>4. PipeInv'
    BY <1>k, <1>g, <2>1, <2>2, <2>3
    DEF PipeInv, EndInv, CancelInv, AnswerInv, FileInv, Finished, Unused, Answered
  <2>5. UNCHANGED View
    BY <1>k, <1>g, <1>s, <2>1, <2>2, Unseen DEF SentObjects, Loading, HeaderRead, Answered
  <2> QED BY <2>4, <2>5
<1>2. CASE rpc.file \in Disc
  <2>1. rpc' = [rpc EXCEPT !.started = TRUE] BY <1>2 DEF LoadDGO
  <2>2. Taken BY <1>0, <2>1, TakenEffect
  <2>3. \/ dgo' = "abort_wait" /\ mbx'["iso"] = 0 /\ mbx'["dgo"] = 0
        \/ dgo' = "load_wait" /\ mbx'["iso"] = 1 /\ mbx'["dgo"] = 0
    <3>1. CASE cmd.cmd_id
      <4>1. StartAbort("abort_wait") BY <1>2, <3>1 DEF LoadDGO
      <4> QED BY <1>0, <1>s, <4>1, StartAbortEffect DEF DgoWaits, Mail
    <3>2. CASE ~cmd.cmd_id
      <4>1. StartLoad(mbx) BY <1>2, <3>2 DEF LoadDGO
      <4>2. mbx \in [{"iso", "sync", "dgo"} -> Nat] BY <1>0 DEF TypeOK
      <4>3. dgo' = "load_wait" /\ mbx'["iso"] = mbx["iso"] + 1 /\ mbx'["dgo"] = mbx["dgo"]
        BY <1>0, <1>2, <4>1, <4>2, StartLoadEffect
      <4> QED BY <1>s, <4>3 DEF Mail
    <3> QED BY <3>1, <3>2
  <2>4. PipeInv'
    BY <1>k, <1>g, <1>s, <2>2, <2>3
    DEF PipeInv, EndInv, CancelInv, AnswerInv, FileInv, Taken
  <2>5. UNCHANGED View
    BY <1>k, <1>g, <1>s, <2>2, <2>3, Unseen DEF SentObjects, Loading, HeaderRead, Taken, SamePlace
  <2> QED BY <2>4, <2>5
<1> QED BY <1>1, <1>2

(* LoadDGO goes on after the abort of the abandoned load. *)
LEMMA AbortedMaps ==
  ASSUME IInv, PipeInv, LoadDGO_Aborted
  PROVE  PipeInv' /\ UNCHANGED View
<1>0. Typed /\ TypeOK BY TypedLemma DEF IInv
<1>k. UNCHANGED <<ee, heapCur, iso>> /\ SameState /\ SamePlace BY DgoKeeps DEF DgoThread
<1>g. dgo = "abort_wait" /\ mbx["dgo"] > 0 /\ rpc' = rpc BY DEF LoadDGO_Aborted
<1>s. Mail(0, 0, 1) /\ ~rpc.finished /\ rpc.fno = "LOAD" /\ rpc.file \in Disc
  BY <1>0, <1>g, EEWaits DEF IInv, Handshake, Mail, EEInv, RpcInv
<1> DEFINE m == [mbx EXCEPT !["dgo"] = @ - 1]
<1>m. m \in [{"iso", "sync", "dgo"} -> Nat] /\ m["iso"] = 0 /\ m["dgo"] = 0
  <2>1. mbx \in [{"iso", "sync", "dgo"} -> Nat] BY <1>0 DEF TypeOK
  <2> QED BY <1>s, <2>1 DEF Mail
<1>l. StartLoad(m) BY DEF LoadDGO_Aborted
<1> HIDE DEF m
<1>f. dgo' = "load_wait" /\ mbx'["iso"] = 1 /\ mbx'["dgo"] = 0
  <2>1. dgo' = "load_wait" /\ mbx'["iso"] = m["iso"] + 1 /\ mbx'["dgo"] = m["dgo"]
    BY <1>0, <1>s, <1>m, <1>l, StartLoadEffect
  <2> QED BY <1>m, <2>1
<1>1. PipeInv'
  BY <1>k, <1>g, <1>s, <1>f DEF PipeInv, EndInv, CancelInv, AnswerInv, FileInv
<1>2. UNCHANGED View
  BY <1>k, <1>g, <1>s, <1>f, Unseen DEF SentObjects, Loading, HeaderRead, SamePlace
<1> QED BY <1>1, <1>2

(* The answer to LOAD and LOAD_NEXT: the object was sent before. *)
LEMMA AnswerMaps ==
  ASSUME IInv, PipeInv, LoadDGO_Answer \/ LoadNextDGO_Answer
  PROVE  PipeInv' /\ UNCHANGED View
<1>0. Typed /\ TypeOK BY TypedLemma DEF IInv
<1>k. UNCHANGED <<ee, heapCur, iso>> /\ SameState /\ SamePlace BY DgoKeeps DEF DgoThread
<1>g. /\ dgo \in {"load_wait", "next_wait"} /\ mbx["dgo"] > 0 /\ dgo' = "sleep"
      /\ mbx' = [mbx EXCEPT !["dgo"] = @ - 1]
  BY DEF LoadDGO_Answer, LoadNextDGO_Answer, AnswerByStatus
<1>s. /\ Mail(0, 0, 1) /\ ~rpc.finished /\ rpc.fno # "CANCEL"
      /\ Ahead \/ Finished
  BY <1>0, <1>g, EEWaits DEF IInv, Handshake, Mail, EEInv, RpcInv
<1>m. mbx'["iso"] = 0 /\ mbx'["dgo"] = 0
  <2>1. mbx \in [{"iso", "sync", "dgo"} -> Nat] BY <1>0 DEF TypeOK
  <2> QED BY <1>g, <1>s, <2>1 DEF Mail
<1>r. PICK result \in {"MORE", "DONE"}, buf \in Bufs :
        Answer(result, buf) /\ (result = "DONE" => cmd.status = "DONE")
  BY <1>0 DEF LoadDGO_Answer, LoadNextDGO_Answer, AnswerByStatus, Typed, CmdTyped, Bufs
<1>a. Answered(result, buf) BY <1>0, <1>r, AnswerEffect DEF Results
<1>o. iso.pc # "open" BY <1>s DEF IInv, IsoInv, Mail
<1>d. ee.pc = "wait" /\ result = "DONE" =>
        cmd.dgo_state = "Finish_Dgo" /\ cmd.objects_loaded = object_count(ee.file)
  <2> SUFFICES ASSUME ee.pc = "wait", result = "DONE"
               PROVE  cmd.dgo_state = "Finish_Dgo" /\ cmd.objects_loaded = object_count(ee.file)
    OBVIOUS
  <2>1. Finished BY <1>r, <1>s DEF Ahead, Active
  <2>2. cmd.dgo_state = "Finish_Dgo" /\ cmd.objects_loaded = object_count(cmd.file)
    BY <1>g, <1>s, <1>o, <2>1 DEF PipeInv, EndInv, Mail
  <2>3. cmd.file = ee.file BY <1>g, <1>s DEF IInv, EEInv, RpcInv, WaitInv, Ours
  <2> QED BY <2>2, <2>3
<1>i. cmd.dgo_state \notin {"Init", "Read_Header"}
  BY <1>s DEF Ahead, PipeInv, EndInv, Mail
<1>1. PipeInv'
  <2>1. EndInv' BY <1>g, <1>m DEF EndInv
  <2>2. CancelInv' BY <1>s, <1>a DEF CancelInv, Answered
  <2>3. AnswerInv' BY <1>k, <1>a, <1>d DEF AnswerInv, Answered, SameState, SamePlace
  <2>4. FileInv' BY <1>k DEF PipeInv, FileInv
  <2> QED BY <2>1, <2>2, <2>3, <2>4 DEF PipeInv
<1>2. UNCHANGED View
  <2>1. rpc.result = "INIT" BY <1>s DEF PipeInv, AnswerInv
  <2>2. rpc.fno = "LOAD" => dgo = "load_wait" BY <1>g DEF IInv, EEInv, RpcInv
  <2>3. HeaderRead BY <1>s, <1>o, <1>i, <2>1, <2>2 DEF HeaderRead, Mail
  <2>4. HeaderRead' BY <1>k, <1>a, <1>o, <1>i DEF HeaderRead, Answered, SameState
  <2> QED BY <1>k, <2>3, <2>4, Unseen DEF SentObjects, Loading, SamePlace
<1> QED BY <1>1, <1>2

(* LoadNextDGO and CancelDGO find the load they were asked about. *)
LEMMA NextAndCancelMaps ==
  ASSUME IInv, PipeInv, LoadNextDGO \/ CancelDGO
  PROVE  PipeInv' /\ UNCHANGED View
<1>0. Typed /\ TypeOK BY TypedLemma DEF IInv
<1>k. UNCHANGED <<ee, heapCur, iso>> /\ SameState /\ SamePlace BY DgoKeeps DEF DgoThread
<1>g. dgo = "sleep" /\ ~rpc.started /\ rpc.fno # "LOAD" BY DEF LoadNextDGO, CancelDGO
<1>s. Mail(0, 0, 0) /\ ~rpc.finished /\ Ahead
  BY <1>0, <1>g DEF IInv, Handshake, EEInv, RpcInv
<1>c. cmd.cmd_id BY <1>s DEF Ahead, Active
<1>r. rpc' = [rpc EXCEPT !.started = TRUE] BY <1>c DEF LoadNextDGO, CancelDGO
<1>t. Taken BY <1>0, <1>r, TakenEffect
<1>m. mbx' = [mbx EXCEPT !["sync"] = @ + 1] BY <1>c DEF LoadNextDGO, CancelDGO, StartAbort
<1>n. mbx'["dgo"] = 0
  <2>1. mbx \in [{"iso", "sync", "dgo"} -> Nat] BY <1>0 DEF TypeOK
  <2> QED BY <1>s, <1>m, <2>1 DEF Mail
<1>1. PipeInv'
  <2>1. EndInv'
    BY <1>k, <1>s, <1>n DEF EndInv, Ahead, SameState
  <2>2. CancelInv'
    BY <1>k, <1>g, <1>s, <1>t DEF PipeInv, CancelInv, Taken, Returned, SameState, SamePlace
  <2>3. AnswerInv' /\ FileInv' BY <1>k, <1>s, <1>t DEF PipeInv, AnswerInv, FileInv, Taken
  <2> QED BY <2>1, <2>2, <2>3 DEF PipeInv
<1>2. UNCHANGED View
  BY <1>k, <1>g, <1>t, Unseen DEF SentObjects, Loading, HeaderRead, Taken, SamePlace
<1> QED BY <1>1, <1>2

(* The answer to CANCEL. *)
LEMMA CancelAnswerMaps ==
  ASSUME IInv, PipeInv, CancelDGO_Answer
  PROVE  PipeInv' /\ UNCHANGED View
<1>0. Typed /\ TypeOK BY TypedLemma DEF IInv
<1>k. UNCHANGED <<ee, heapCur, iso>> /\ SameState /\ SamePlace BY DgoKeeps DEF DgoThread
<1>g. /\ dgo = "cancel_wait" /\ mbx["dgo"] > 0 /\ dgo' = "sleep" /\ Answer("ABORTED", rpc.buf)
      /\ mbx' = [mbx EXCEPT !["dgo"] = @ - 1]
  BY DEF CancelDGO_Answer
<1>s. Mail(0, 0, 1) /\ rpc.fno = "CANCEL"
  BY <1>0, <1>g DEF IInv, Handshake, Mail, EEInv, RpcInv
<1>m. mbx'["dgo"] = 0
  <2>1. mbx \in [{"iso", "sync", "dgo"} -> Nat] BY <1>0 DEF TypeOK
  <2> QED BY <1>g, <1>s, <2>1 DEF Mail
<1>a. Answered("ABORTED", rpc.buf) BY <1>0, <1>g, AnswerEffect DEF Typed, RpcTyped, Results
<1>n. Unused'
  <2>1. cmd' = [cmd EXCEPT !.cmd_id = FALSE] BY DEF CancelDGO_Answer
  <2>2. ~cmd'.cmd_id BY <1>0, <2>1, ReleaseEffect
  <2>3. IInv' BY NextIInv DEF Next, DgoThread
  <2> QED BY <1>g, <2>2, <2>3 DEF IInv, Handshake, Ahead, Active, Unused
<1>1. PipeInv'
  <2>1. EndInv' BY <1>g, <1>m DEF EndInv
  <2>2. CancelInv' BY <1>k, <1>s, <1>a DEF PipeInv, CancelInv, Answered
  <2>3. AnswerInv' /\ FileInv' BY <1>k, <1>s, <1>a, <1>n DEF PipeInv, AnswerInv, FileInv, Answered
  <2> QED BY <2>1, <2>2, <2>3 DEF PipeInv
<1>2. UNCHANGED View
  BY <1>k, <1>s, <1>a, Unseen DEF SentObjects, Loading, HeaderRead, Answered, SamePlace
<1> QED BY <1>1, <1>2

-----------------------------------------------------------------------------
(***************************************************************************)
(* The ISO thread's steps: one of them sends, when it completes an object  *)
(* of the load the EE is waiting for.                                      *)
(***************************************************************************)
(* The command arrives, and its file is opened, before the header is read. *)
LEMMA PollOpenMaps ==
  ASSUME IInv, PipeInv, ISO_PollMessage \/ ISO_Opened
  PROVE  PipeInv' /\ UNCHANGED View
<1>0. Typed /\ TypeOK BY TypedLemma DEF IInv
<1>g. UNCHANGED <<ee, heapCur, rpc, dgo>> BY DEF ISO_PollMessage, ISO_Opened, IsoVars
<1>s. dgo = "load_wait" /\ mbx["dgo"] = 0 /\ (mbx["iso"] = 1 \/ iso.pc = "open")
  BY <1>0 DEF ISO_PollMessage, ISO_Opened, Typed, IopTyped, DgoWaits, IInv, IsoInv, Handshake, Mail
<1>w. ~rpc.finished /\ ee.pc \in {"idle", "wait"} /\ rpc.fno = "LOAD"
  BY <1>s, EEWaits DEF IInv, EEInv, RpcInv
<1>f. mbx'["dgo"] = 0 /\ (iso'.pc = "open" \/ cmd'.dgo_state = "Init")
  <2>1. CASE ISO_PollMessage
    <3>1. iso' = [iso EXCEPT !.pc = "open"] /\ mbx' = [mbx EXCEPT !["iso"] = @ - 1]
      BY <2>1 DEF ISO_PollMessage
    <3>2. mbx \in [{"iso", "sync", "dgo"} -> Nat] BY <1>0 DEF TypeOK
    <3>3. iso'.pc = "open" BY <1>0, <3>1, Zenon DEF TypeOK, IsoTypes
    <3> QED BY <1>s, <3>1, <3>2, <3>3
  <2>2. CASE ISO_Opened
    <3>1. cmd' = [cmd EXCEPT !.status = "IN_PROGRESS", !.dgo_state = "Init"] /\ mbx' = mbx
      BY <2>2 DEF ISO_Opened
    <3>2. cmd'.dgo_state = "Init" BY <1>0, <3>1, Zenon DEF TypeOK, CmdTypes
    <3> QED BY <1>s, <3>1, <3>2
  <2> QED BY <2>1, <2>2
<1>1. PipeInv'
  BY <1>g, <1>w, <1>f DEF PipeInv, EndInv, CancelInv, AnswerInv, FileInv
<1>2. UNCHANGED View
  BY <1>g, <1>s, <1>w, <1>f, Unseen DEF SentObjects, Loading, HeaderRead
<1> QED BY <1>1, <1>2

(* Moving pages. *)
LEMMA PagesMaps ==
  ASSUME IInv, PipeInv,
         \/ ISO_PollEmpty \/ ISO_ReadComplete \/ ISO_SyncRead \/ ISO_DelayOver
         \/ DGO_OutOfData \/ DGO_NotReady
  PROVE  PipeInv' /\ UNCHANGED View
<1>0. TypeOK /\ iso \in IsoTypes /\ cmd \in CmdTypes BY DEF IInv, TypeOK
<1>g. UNCHANGED <<ee, heapCur, rpc, dgo, mbx>> /\ iso.pc # "open"
  BY DEF ISO_PollEmpty, ISO_ReadComplete, ISO_SyncRead, ISO_DelayOver, DGO_OutOfData,
         DGO_NotReady, Running, IsoVars
<1>c. SameCmd
  <2>1. CASE cmd' = cmd
    BY <2>1, Zenon
    DEF SameCmd, SameCall, SameFile, SameTop, SameState, SamePlace, SameDest, SameFirst, SameAbort
  <2>2. CASE cmd' # cmd
    <3>1. \E p : cmd' = [cmd EXCEPT !.pages = p]
      BY <2>2, Zenon
      DEF ISO_PollEmpty, ISO_ReadComplete, ISO_SyncRead, ISO_DelayOver, DGO_OutOfData,
          DGO_NotReady, Leave
    <3>2. SameCall /\ SameFile /\ SameTop /\ SameState
      BY <1>0, <3>1, Zenon DEF CmdTypes, SameCall, SameFile, SameTop, SameState
    <3>3. SamePlace /\ SameDest /\ SameFirst /\ SameAbort
      BY <1>0, <3>1, Zenon DEF CmdTypes, SamePlace, SameDest, SameFirst, SameAbort
    <3> QED BY <3>2, <3>3 DEF SameCmd
  <2> QED BY <2>1, <2>2
<1>i. iso'.pc # "open"
  <2>1. CASE ISO_PollEmpty
    <3>1. CASE GetMessage(cmd)
      <4>1. iso' = [iso EXCEPT !.pc = "read"] BY <2>1, <3>1 DEF ISO_PollEmpty
      <4>2. iso'.pc = "read" BY <1>0, <4>1, Zenon DEF IsoTypes
      <4> QED BY <4>2
    <3>2. CASE ~GetMessage(cmd)
      <4>1. iso' = ProcessMessageData(iso, cmd) BY <2>1, <3>2 DEF ISO_PollEmpty
      <4>2. iso'.pc \in {"callback", "after"} BY <1>0, <4>1, ProcessEffect
      <4> QED BY <4>2
    <3> QED BY <3>1, <3>2
  <2>2. CASE ISO_ReadComplete
    <3> DEFINE i == [iso EXCEPT !.reading = TRUE, !.readInfo = TRUE]
    <3>1. iso' = ProcessMessageData(i, cmd) BY <2>2, Zenon DEF ISO_ReadComplete
    <3>2. i \in IsoTypes BY <1>0, Zenon DEF IsoTypes
    <3> HIDE DEF i
    <3>3. iso'.pc \in {"callback", "after"} BY <1>0, <3>1, <3>2, ProcessEffect
    <3> QED BY <3>3
  <2>3. CASE ISO_SyncRead
    <3>1. PICK pc \in {"poll", "delay"} :
            iso' = [iso EXCEPT !.pc = pc, !.reading = FALSE, !.readInfo = FALSE]
      BY <2>3 DEF ISO_SyncRead
    <3>2. iso'.pc = pc BY <1>0, <3>1, Zenon DEF IsoTypes
    <3> QED BY <3>2
  <2>4. CASE ISO_DelayOver
    <3>1. iso' = [iso EXCEPT !.pc = "poll"] BY <2>4 DEF ISO_DelayOver
    <3>2. iso'.pc = "poll" BY <1>0, <3>1, Zenon DEF IsoTypes
    <3> QED BY <3>2
  <2>5. CASE DGO_OutOfData \/ DGO_NotReady
    <3>1. iso' = [iso EXCEPT !.pc = "after", !.left = 0]
      BY <2>5 DEF DGO_OutOfData, DGO_NotReady, Leave
    <3>2. iso'.pc = "after" BY <1>0, <3>1, Zenon DEF IsoTypes
    <3> QED BY <3>2
  <2> QED BY <2>1, <2>2, <2>3, <2>4, <2>5
<1> QED BY <1>g, <1>c, <1>i, QuietStep DEF SameCmd, SamePlace

(* The state machine starts afresh and reads the header: no object counts  *)
(* until the header is complete, and then none is loaded.                  *)
LEMMA HeaderMaps ==
  ASSUME IInv, PipeInv, DGO_Init \/ DGO_Read_Header
  PROVE  PipeInv' /\ UNCHANGED View
<1>0. Typed /\ TypeOK BY TypedLemma DEF IInv
<1>g. /\ iso.pc = "callback" /\ cmd.dgo_state \in {"Init", "Read_Header"}
      /\ UNCHANGED <<ee, heapCur, rpc, dgo, mbx>>
  BY DEF DGO_Init, DGO_Read_Header, Running, IsoVars
<1>s. dgo = "load_wait" /\ Mail(0, 0, 0) BY <1>g, StartingState
<1>w. ~rpc.finished /\ ee.pc \in {"idle", "wait"} /\ rpc.fno = "LOAD"
  BY <1>s, EEWaits DEF IInv, EEInv, RpcInv
<1>f. \/ cmd'.dgo_state = "Read_Header"
      \/ cmd'.dgo_state = "Read_Obj_Header" /\ cmd'.objects_loaded = 0
  <2>1. CASE DGO_Init
    <3>1. cmd' = [cmd EXCEPT !.bytes_processed = 0, !.dgo_state = "Read_Header",
                             !.finished_first = FALSE, !.want_abort = FALSE]
      BY <2>1 DEF DGO_Init
    <3>2. cmd'.dgo_state = "Read_Header" BY <1>0, <3>1, Zenon DEF TypeOK, CmdTypes
    <3> QED BY <3>2
  <2>2. CASE DGO_Read_Header
    <3> DEFINE n == Least(HeaderSize - cmd.bytes_processed, iso.left)
               one == object_count(cmd.file) = 1
    <3>1. \/ cmd' = [cmd EXCEPT !.bytes_processed = @ + n]
          \/ cmd' = [cmd EXCEPT !.bytes_processed = 0, !.objects_loaded = 0,
                                !.buffer_toggle = IF one THEN 0 ELSE 1,
                                !.dest = IF one THEN "top" ELSE "b1",
                                !.destHeap = cmd.heap, !.destPos = cmd.heaptop,
                                !.dgo_state = "Read_Obj_Header"]
      BY <2>2, Zenon DEF DGO_Read_Header
    <3> HIDE DEF n, one
    <3>2. cmd.dgo_state = "Read_Header" BY <2>2 DEF DGO_Read_Header, Running
    <3> QED BY <1>0, <3>1, <3>2, Zenon DEF TypeOK, CmdTypes
  <2> QED BY <2>1, <2>2
<1>1. PipeInv'
  BY <1>g, <1>s, <1>w, <1>f DEF PipeInv, EndInv, CancelInv, AnswerInv, FileInv, Mail
<1>2. UNCHANGED View
  BY <1>g, <1>s, <1>w, <1>f, Unseen DEF SentObjects, Loading, HeaderRead
<1> QED BY <1>1, <1>2

(* Returning an object, or aiming at the heap's top, sends nothing. *)
LEMMA ReturnMaps ==
  ASSUME IInv, PipeInv, UNCHANGED <<ee, heapCur, rpc, dgo, iso>>,
         iso.pc = "callback", cmd.dgo_state \in {"Finish_Obj", "Read_Last_Obj"},
         dgo \in {"load_wait", "next_wait"},
         mbx'["iso"] = mbx["iso"], SamePlace, cmd'.queued,
         cmd'.dgo_state \in {"Read_Obj_Header", "Read_Last_Obj"}
  PROVE  PipeInv' /\ UNCHANGED View
<1>w. ~rpc.finished /\ rpc.fno # "CANCEL" BY EEWaits DEF IInv, EEInv, RpcInv
<1>1. PipeInv'
  BY <1>w DEF PipeInv, EndInv, CancelInv, AnswerInv, FileInv, Finished, Unused
<1>2. UNCHANGED View
  BY Unseen DEF SentObjects, Loading, HeaderRead, SamePlace
<1> QED BY <1>1, <1>2

(* An abort is seen: the object under way will not be sent. *)
LEMMA AbortMaps ==
  ASSUME IInv, PipeInv, cmd.want_abort, mbx["sync"] > 0, iso.pc = "callback",
         cmd.dgo_state \in {"Finish_Obj", "Read_Last_Obj"},
         cmd' = [cmd EXCEPT !.dgo_state = "Finish_Dgo"],
         mbx' = [mbx EXCEPT !["sync"] = @ - 1],
         UNCHANGED <<ee, heapCur, rpc, dgo, iso>>
  PROVE  PipeInv' /\ UNCHANGED View
<1>0. Typed /\ TypeOK BY TypedLemma DEF IInv
<1>s. Mail(0, 1, 0) /\ dgo \in {"abort_wait", "cancel_wait"} BY SyncWaiting
<1>w. rpc.started /\ ~rpc.finished /\ (dgo = "cancel_wait" => rpc.fno = "CANCEL")
  BY <1>s, EEWaits DEF IInv, EEInv, RpcInv
<1>m. mbx'["iso"] = 0 /\ mbx'["sync"] = 0 /\ mbx'["dgo"] = 0
  <2>1. mbx'["iso"] = mbx["iso"] /\ mbx'["sync"] = mbx["sync"] - 1 /\ mbx'["dgo"] = mbx["dgo"]
    BY <1>0, TakeSyncEffect
  <2> QED BY <1>s, <2>1 DEF Mail
<1>f. cmd'.dgo_state = "Finish_Dgo" /\ SamePlace
  BY <1>0, Zenon DEF TypeOK, CmdTypes, SamePlace
<1>1. PipeInv'
  BY <1>s, <1>w, <1>m, <1>f DEF PipeInv, EndInv, CancelInv, AnswerInv, FileInv
<1>2. UNCHANGED View
  BY <1>s, <1>w, <1>m, <1>f, Unseen DEF SentObjects, Loading, HeaderRead, SamePlace, Mail
<1> QED BY <1>1, <1>2

(* The places where the state machine waits for the EE. *)
LEMMA WaitMaps ==
  ASSUME IInv, PipeInv, DGO_Finish_FirstObj \/ DGO_Finish_Obj \/ DGO_Read_Last_Obj
  PROVE  PipeInv' /\ UNCHANGED View
<1>0. Typed /\ TypeOK BY TypedLemma DEF IInv
<1>g. /\ iso.pc = "callback" /\ cmd.dgo_state \in {"Finish_Obj", "Read_Last_Obj"}
      /\ UNCHANGED <<ee, heapCur, rpc, dgo, iso>>
  BY DEF DGO_Finish_FirstObj, DGO_Finish_Obj, DGO_Read_Last_Obj, Running, IsoVars
<1>q. cmd.queued BY <1>g DEF IInv, IsoInv
<1>b. mbx \in [{"iso", "sync", "dgo"} -> Nat] BY <1>0 DEF TypeOK
<1>r. ASSUME cmd' = ReturnObject, cmd.dgo_state = "Finish_Obj"
      PROVE  SamePlace /\ cmd'.queued /\ cmd'.dgo_state \in {"Read_Obj_Header", "Read_Last_Obj"}
  <2>1. cmd.buffer_toggle # 0 BY <1>g, <1>q, <1>r DEF IInv, Progress
  <2>2. /\ cmd'.queued = cmd.queued /\ SamePlace
        /\ cmd'.dgo_state = IF cmd.objects_loaded + 1 = object_count(cmd.file)
                              THEN "Read_Last_Obj" ELSE "Read_Obj_Header"
    BY <1>0, <1>r, <2>1, ReturnObjectEffect
  <2> QED BY <1>q, <2>2
<1>1. CASE DGO_Finish_FirstObj
  <2>1. cmd' = ReturnObject /\ cmd.dgo_state = "Finish_Obj" /\ ~cmd.finished_first
        /\ mbx' = [mbx EXCEPT !["dgo"] = @ + 1]
    BY <1>1 DEF DGO_Finish_FirstObj, Running
  <2>2. dgo = "load_wait"
    BY <1>0, <1>q, <2>1
    DEF Typed, IopTyped, DgoWaits, IInv, Handshake, Unused, Ahead, Active, Finished,
        Starting, Topping
  <2>3. mbx'["iso"] = mbx["iso"] BY <1>b, <2>1
  <2> QED BY <1>g, <1>r, <2>1, <2>2, <2>3, ReturnMaps
<1>2. CASE (DGO_Finish_Obj \/ DGO_Read_Last_Obj) /\ cmd.want_abort
  <2>1. /\ mbx["sync"] > 0 /\ mbx' = [mbx EXCEPT !["sync"] = @ - 1]
        /\ cmd' = [cmd EXCEPT !.dgo_state = "Finish_Dgo"]
    BY <1>2 DEF DGO_Finish_Obj, DGO_Read_Last_Obj
  <2> QED BY <1>2, <1>g, <2>1, AbortMaps
<1>3. CASE DGO_Finish_Obj /\ ~cmd.want_abort
  <2>1. /\ mbx["sync"] > 0 /\ mbx' = [mbx EXCEPT !["sync"] = @ - 1, !["dgo"] = @ + 1]
        /\ cmd' = ReturnObject /\ cmd.dgo_state = "Finish_Obj"
    BY <1>3 DEF DGO_Finish_Obj, Running
  <2>2. dgo = "next_wait" BY <1>3, <2>1, SyncWaiting
  <2>3. mbx'["iso"] = mbx["iso"] BY <1>b, <2>1
  <2> QED BY <1>g, <1>r, <2>1, <2>2, <2>3, ReturnMaps
<1>4. CASE DGO_Read_Last_Obj /\ ~cmd.want_abort
  <2>1. /\ mbx["sync"] > 0 /\ mbx' = [mbx EXCEPT !["sync"] = @ - 1]
        /\ cmd' = [cmd EXCEPT !.dest = "top", !.destHeap = cmd.heap, !.destPos = cmd.heaptop,
                              !.buffer_toggle = 0, !.dgo_state = "Read_Obj_Header"]
    BY <1>4 DEF DGO_Read_Last_Obj
  <2>2. dgo = "next_wait" BY <1>4, <2>1, SyncWaiting
  <2>3. mbx'["iso"] = mbx["iso"] BY <1>b, <2>1
  <2>4. SamePlace /\ cmd'.queued = cmd.queued /\ cmd'.dgo_state = "Read_Obj_Header"
    BY <1>0, <2>1, Zenon DEF TypeOK, CmdTypes, SamePlace
  <2> QED BY <1>g, <1>q, <2>2, <2>3, <2>4, ReturnMaps
<1> QED BY <1>1, <1>2, <1>3, <1>4

(* The machine at work: where the object goes to, and whose it is. *)
LEMMA SendsOurs ==
  ASSUME IInv, PipeInv, iso.pc = "callback", cmd.dgo_state \in {"Read_Obj_Header", "Read_Obj_data"},
         Loading, HeaderRead
  PROVE  /\ cmd.file = ee.file
         /\ IF cmd.objects_loaded + 1 = object_count(cmd.file)
              THEN heapCur[ee.heap] = cmd.objects_loaded
              ELSE cmd.objects_loaded <= heapCur[ee.heap] + 1
<1>0. Typed BY TypedLemma DEF IInv
<1>n. cmd.objects_loaded \in Nat /\ heapCur[ee.heap] \in Nat
  BY <1>0 DEF Typed, EETyped, CmdTyped
<1>q. cmd.queued /\ cmd.file \in Disc BY DEF IInv, IsoInv
<1>c. object_count(cmd.file) \in Nat BY <1>q, CountFacts
<1>t. cmd.buffer_toggle = 0 <=> cmd.objects_loaded + 1 = object_count(cmd.file)
  BY <1>q DEF IInv, Progress
<1>r. Returned = cmd.objects_loaded BY DEF Returned
<1>d. ASSUME Ahead, Ours, heapCur[ee.heap] = Returned \/ heapCur[ee.heap] + 1 = Returned
      PROVE  /\ cmd.file = ee.file /\ cmd.objects_loaded + 1 # object_count(cmd.file)
             /\ cmd.objects_loaded <= heapCur[ee.heap] + 1
  BY <1>n, <1>t, <1>r, <1>d DEF Ahead, Ours
<1>1. CASE ee.pc = "linked"
  <2>1. Ahead /\ Ours /\ heapCur[ee.heap] = Returned BY <1>1 DEF IInv, EEInv, LinkInv
  <2> QED BY <1>d, <2>1
<1>2. CASE ee.pc = "linking"
  <2>1. ~ee.last BY <1>q, <1>2 DEF IInv, EEInv, LinkInv, Unused
  <2>2. Ahead /\ Ours /\ heapCur[ee.heap] + 1 = Returned
    BY <1>2, <2>1 DEF IInv, EEInv, LinkInv
  <2> QED BY <1>d, <2>2
<1>3. CASE ee.pc = "wait" /\ rpc.finished
  <2>1. dgo = "sleep" /\ Mail(0, 0, 0) BY <1>3, AnsweredAtRest
  <2>2. Ahead BY <1>q, <2>1 DEF IInv, Handshake, Unused
  <2>3. rpc.result = "MORE"
    <3>1. rpc.result # "DONE" BY <1>q, <1>3 DEF IInv, EEInv, WaitInv, Unused
    <3>2. rpc.result # "INIT" BY <1>3 DEF PipeInv, AnswerInv
    <3>3. rpc.result # "ERROR"
      BY <1>3 DEF HeaderRead, IInv, EEInv, RpcInv
    <3>4. rpc.result # "ABORTED" BY <1>q, <1>3 DEF PipeInv, AnswerInv, Unused
    <3> QED BY <1>0, <3>1, <3>2, <3>3, <3>4 DEF Typed, RpcTyped, Results
  <2>4. Ahead /\ Ours /\ heapCur[ee.heap] + 1 = Returned
    BY <1>3, <2>3 DEF IInv, EEInv, WaitInv
  <2> QED BY <1>d, <2>4
<1>4. CASE ee.pc = "wait" /\ ~rpc.finished
  <2>1. CASE rpc.fno = "LOAD"
    <3>1. dgo = "load_wait" /\ mbx["iso"] # 1 /\ iso.pc # "open"
      BY <1>4, <2>1 DEF HeaderRead
    <3>2. cmd.file = ee.file /\ heapCur[ee.heap] = 0
      BY <1>4, <2>1, <3>1 DEF IInv, EEInv, RpcInv, WaitInv
    <3>3. Starting \/ (Ahead /\ Returned = 1)
      BY <1>q, <3>1 DEF IInv, Handshake, Mail, Finished
    <3>4. CASE Starting
      <4>1. cmd.objects_loaded = 0 BY <3>4 DEF Starting
      <4> QED BY <3>2, <4>1
    <3>5. CASE Ahead /\ Returned = 1
      <4>1. cmd.objects_loaded + 1 # object_count(cmd.file) BY <1>t, <3>5 DEF Ahead
      <4> QED BY <1>r, <3>2, <3>5, <4>1
    <3> QED BY <3>3, <3>4, <3>5
  <2>2. CASE rpc.fno # "LOAD"
    <3>1. Ours BY <1>4, <2>2 DEF IInv, EEInv, WaitInv
    <3>2. CASE ~rpc.started
      <4>1. Ahead BY <2>2, <3>2 DEF IInv, EEInv, RpcInv
      <4>2. heapCur[ee.heap] = Returned
        BY <1>0, <1>4, <2>2, <3>2
        DEF IInv, EEInv, WaitInv, PipeInv, CancelInv, Typed, RpcTyped, Fnos
      <4> QED BY <1>d, <3>1, <4>1, <4>2
    <3>3. CASE rpc.started
      <4>1. dgo \in {"next_wait", "cancel_wait"}
        BY <1>0, <1>4, <2>2, <3>3 DEF IInv, EEInv, RpcInv, Typed, IopTyped, DgoWaits
      <4>2. CASE dgo = "next_wait"
        <5>0. rpc.fno = "LOAD_NEXT" BY <4>2 DEF IInv, EEInv, RpcInv
        <5>1. \/ Mail(0, 1, 0) /\ Ahead
              \/ Topping
              \/ Mail(0, 0, 1) /\ Ahead
          BY <1>q, <4>2 DEF IInv, Handshake, Finished
        <5>2. CASE Ahead
          <6>1. heapCur[ee.heap] = Returned \/ heapCur[ee.heap] + 1 = Returned
            BY <1>4, <1>q, <5>0, <5>1, <5>2 DEF IInv, EEInv, WaitInv, Mail, Topping, Ahead
          <6> QED BY <1>d, <3>1, <5>2, <6>1
        <5>3. CASE Topping
          <6>1. heapCur[ee.heap] + 1 = object_count(ee.file)
            BY <1>4, <5>0, <5>3 DEF IInv, EEInv, WaitInv
          <6>2. cmd.objects_loaded + 1 = object_count(cmd.file) BY <1>t, <5>3 DEF Topping
          <6> QED BY <1>n, <3>1, <6>1, <6>2 DEF Ours
        <5> QED BY <5>1, <5>2, <5>3
      <4>3. CASE dgo = "cancel_wait"
        <5>0. rpc.fno = "CANCEL" BY <4>3 DEF IInv, EEInv, RpcInv
        <5>1. Mail(0, 1, 0) /\ Ahead BY <1>q, <4>3 DEF IInv, Handshake, Finished
        <5>2. heapCur[ee.heap] = Returned BY <1>4, <5>0, <5>1 DEF PipeInv, CancelInv, Mail
        <5> QED BY <1>d, <3>1, <5>1, <5>2
      <4> QED BY <4>1, <4>2, <4>3
    <3> QED BY <3>2, <3>3
  <2> QED BY <2>1, <2>2
<1> QED BY <1>1, <1>2, <1>3, <1>4 DEF Loading

(* Reading, and sending, the header of an object is not sending it. *)
LEMMA ObjHeaderMaps ==
  ASSUME IInv, PipeInv, DGO_Read_Obj_Header
  PROVE  PipeInv' /\ UNCHANGED View
<1>0. TypeOK BY DEF IInv
<1>g. /\ iso.pc = "callback" /\ cmd.dgo_state = "Read_Obj_Header"
      /\ UNCHANGED <<ee, heapCur, rpc, dgo, mbx>>
  BY DEF DGO_Read_Obj_Header, Running, IsoVars
<1> DEFINE n == Least(HeaderSize - cmd.bytes_processed, iso.left)
<1>x. \/ cmd' = [cmd EXCEPT !.bytes_processed = @ + n]
      \/ cmd' = [cmd EXCEPT !.bytes_processed = 0, !.dgo_state = "Read_Obj_data"]
  BY Zenon DEF DGO_Read_Obj_Header
<1>j. iso' = [iso EXCEPT !.left = @ - n] BY Zenon DEF DGO_Read_Obj_Header
<1> HIDE DEF n
<1>f. /\ SameCall /\ SameFile /\ cmd'.objects_loaded = cmd.objects_loaded
      /\ cmd'.dgo_state \in {"Read_Obj_Header", "Read_Obj_data"}
  BY <1>0, <1>g, <1>x, Zenon DEF TypeOK, CmdTypes, SameCall, SameFile
<1>i. iso'.pc = iso.pc BY <1>0, <1>j, Zenon DEF TypeOK, IsoTypes
<1>1. EndInv' BY <1>g, <1>f DEF PipeInv, EndInv, Finished, SameCall
<1>2. CancelInv' BY <1>g, <1>f DEF PipeInv, CancelInv, Returned
<1>3. AnswerInv' BY <1>g, <1>f DEF PipeInv, AnswerInv, Unused, SameCall
<1>4. FileInv' BY <1>g DEF PipeInv, FileInv
<1>5. UNCHANGED View
  BY <1>g, <1>f, <1>i, Unseen DEF SentObjects, Loading, HeaderRead
<1> QED BY <1>1, <1>2, <1>3, <1>4, <1>5 DEF PipeInv

(* An object that is complete is sent, if it is the EE's. *)
LEMMA ObjDataMaps ==
  ASSUME IInv, PipeInv, DGO_Read_Obj_data
  PROVE  PipeInv' /\ (Pipeline!Send \/ UNCHANGED View)
<1>0. Typed /\ TypeOK BY TypedLemma DEF IInv
<1>g. /\ iso.pc = "callback" /\ cmd.dgo_state = "Read_Obj_data"
      /\ UNCHANGED <<ee, heapCur, rpc, dgo, mbx>>
  BY DEF DGO_Read_Obj_data, Running, IsoVars
<1>q. cmd.queued /\ cmd.file \in Disc BY <1>g DEF IInv, IsoInv
<1>p. /\ cmd.objects_loaded < object_count(cmd.file)
      /\ cmd.buffer_toggle = 0 <=> cmd.objects_loaded + 1 = object_count(cmd.file)
  BY <1>g, <1>q DEF IInv, Progress
<1>n. cmd.objects_loaded \in Nat /\ heapCur[ee.heap] \in Nat
  BY <1>0 DEF Typed, EETyped, CmdTyped
<1> DEFINE size == Size[cmd.file][cmd.objects_loaded + 1]
           n == Least(size - cmd.bytes_processed, iso.left)
           whole == cmd.bytes_processed + n = size
           last == cmd.objects_loaded + 1 = object_count(cmd.file)
           bytes == IF last THEN cmd.bytes_processed + n ELSE 0
           state == IF last THEN "Finish_Dgo" ELSE "Finish_Obj"
<1>j. iso' = [iso EXCEPT !.left = @ - n] BY Zenon DEF DGO_Read_Obj_data
<1>x. cmd' = IF whole
               THEN [cmd EXCEPT !.objects_loaded = @ + 1, !.bytes_processed = bytes,
                                !.dgo_state = state]
               ELSE [cmd EXCEPT !.bytes_processed = @ + n]
  BY Zenon DEF DGO_Read_Obj_data
<1>s. state = (IF last THEN "Finish_Dgo" ELSE "Finish_Obj") OBVIOUS
<1> HIDE DEF size, n, whole, bytes, state
<1>i. iso'.pc = iso.pc BY <1>0, <1>j, Zenon DEF TypeOK, IsoTypes
<1>a. CASE ~whole
  <2>1. cmd' = [cmd EXCEPT !.bytes_processed = @ + n] BY <1>a, <1>x
  <2>2. SameCall /\ SameFile /\ SameState /\ cmd'.objects_loaded = cmd.objects_loaded
    BY <1>0, <2>1, Zenon DEF TypeOK, CmdTypes, SameCall, SameFile, SameState
  <2> QED BY <1>g, <1>i, <2>2, QuietStep
<1>b. CASE whole
  <2>1. cmd' = [cmd EXCEPT !.objects_loaded = @ + 1, !.bytes_processed = bytes,
                           !.dgo_state = state]
    BY <1>b, <1>x
  <2>f. /\ SameCall /\ SameFile /\ cmd'.objects_loaded = cmd.objects_loaded + 1
        /\ cmd'.dgo_state = state
    BY <1>0, <2>1, Zenon DEF TypeOK, CmdTypes, SameCall, SameFile
  <2>2. EndInv'
    BY <1>q, <1>s, <2>f DEF EndInv, Finished, SameCall, SameFile
  <2>3. CancelInv'
    <3>1. CASE last
      <4>1. ~Ahead BY <1>p, <3>1 DEF Ahead
      <4>2. mbx["sync"] # 1 BY <4>1, SyncWaiting
      <4>3. rpc.fno = "CANCEL" => rpc.started BY <4>1 DEF IInv, EEInv, RpcInv
      <4> QED BY <1>g, <4>2, <4>3 DEF PipeInv, CancelInv
    <3>2. CASE ~last
      <4>1. Returned' = (cmd.objects_loaded + 1) - 1 /\ Returned = cmd.objects_loaded
        BY <1>g, <1>s, <2>f, <3>2 DEF Returned
      <4>2. Returned' = Returned BY <1>n, <4>1
      <4> QED BY <1>g, <4>2 DEF PipeInv, CancelInv
    <3> QED BY <3>1, <3>2
  <2>4. AnswerInv'
    <3>1. ee.pc = "wait" /\ rpc.finished => rpc.result # "DONE"
      BY <1>q DEF IInv, EEInv, WaitInv, Unused
    <3> QED BY <1>g, <2>f, <3>1 DEF PipeInv, AnswerInv, Unused, SameCall
  <2>5. FileInv' BY <1>g DEF PipeInv, FileInv
  <2>6. HeaderRead' = HeaderRead BY <1>g, <1>i, <1>s, <2>f DEF HeaderRead
  <2>7. CASE Loading /\ HeaderRead
    <3>1. /\ cmd.file = ee.file
          /\ IF last THEN heapCur[ee.heap] = cmd.objects_loaded
                     ELSE cmd.objects_loaded <= heapCur[ee.heap] + 1
      BY <1>g, <2>7, SendsOurs
    <3>2. Pipeline!Send
      BY <1>g, <1>n, <1>p, <1>q, <2>f, <2>6, <2>7, <3>1 DEF Pipeline!Send, Loading
    <3> QED BY <2>2, <2>3, <2>4, <2>5, <3>2 DEF PipeInv
  <2>8. CASE ~(Loading /\ HeaderRead)
    <3>1. UNCHANGED View BY <1>g, <2>6, <2>8, Unseen DEF SentObjects, Loading
    <3> QED BY <2>2, <2>3, <2>4, <2>5, <3>1 DEF PipeInv
  <2> QED BY <2>7, <2>8
<1> QED BY <1>a, <1>b

(* The end: sLoadDGO goes back to the DGO thread, all objects having been  *)
(* sent, or none to be sent any more.                                      *)
LEMMA FinishMaps ==
  ASSUME IInv, PipeInv, DGO_Finish_Dgo
  PROVE  PipeInv' /\ UNCHANGED View
<1>0. Typed /\ TypeOK BY TypedLemma DEF IInv
<1>g. /\ iso.pc = "callback" /\ cmd.dgo_state = "Finish_Dgo"
      /\ UNCHANGED <<ee, heapCur, rpc, dgo>>
      /\ mbx' = [mbx EXCEPT !["dgo"] = @ + 1]
  BY DEF DGO_Finish_Dgo, Running, IsoVars
<1>q. cmd.queued BY <1>g DEF IInv, IsoInv
<1>m. mbx'["iso"] = mbx["iso"] /\ mbx'["sync"] = mbx["sync"]
  <2>1. mbx \in [{"iso", "sync", "dgo"} -> Nat] BY <1>0 DEF TypeOK
  <2> QED BY <1>g, <2>1
<1>f. SameFile /\ SameState /\ SamePlace
  <2>1. cmd' = [cmd EXCEPT !.status = "DONE", !.pages = <<>>, !.queued = FALSE]
    BY DEF DGO_Finish_Dgo
  <2> QED BY <1>0, <2>1, Zenon DEF TypeOK, CmdTypes, SameFile, SameState, SamePlace
<1>i. iso'.pc = "after"
  <2>1. iso' = [iso EXCEPT !.pc = "after", !.left = 0, !.readInfo = FALSE] BY DEF DGO_Finish_Dgo
  <2> QED BY <1>0, <2>1, Zenon DEF TypeOK, IsoTypes
<1>w. ~rpc.finished
  <2>1. dgo # "sleep" BY <1>g, <1>q DEF IInv, Handshake, Unused, Ahead
  <2> QED BY <2>1, EEWaits
<1>1. EndInv' BY <1>g, <1>m, <1>f, <1>i DEF PipeInv, EndInv, SameFile, SameState, SamePlace
<1>2. CancelInv' BY <1>g, <1>m, <1>f DEF PipeInv, CancelInv, Returned, SameState, SamePlace
<1>3. AnswerInv' /\ FileInv' BY <1>g, <1>w DEF PipeInv, AnswerInv, FileInv
<1>4. UNCHANGED View
  BY <1>g, <1>m, <1>f, <1>i, Unseen DEF SentObjects, Loading, HeaderRead, SameState, SamePlace
<1> QED BY <1>1, <1>2, <1>3, <1>4 DEF PipeInv

-----------------------------------------------------------------------------
(***************************************************************************)
(* The theorem.                                                            *)
(***************************************************************************)
(* Every step is a step of the pipeline or cannot be seen there. *)
LEMMA StepMaps == IInv /\ PipeInv /\ [Next]_vars => PipeInv' /\ [Pipeline!Next]_(Pipeline!vars)
<1> SUFFICES ASSUME IInv, PipeInv, [Next]_vars
             PROVE  PipeInv' /\ (Pipeline!Next \/ UNCHANGED View)
  BY DEF Pipeline!vars, View, Phase, SentObjects, Given, Linked
<1>1. CASE EE
  <2>1. ASSUME NEW f \in Disc \cup NotFound, NEW h \in Heaps, BeginLoadingDGO(f, h)
        PROVE  PipeInv' /\ Pipeline!Next
    BY <2>1, BeginMaps DEF Pipeline!Next
  <2>2. CASE GetNextDGO BY <2>2, GetNextMaps DEF Pipeline!Next
  <2>3. CASE LinkDone BY <2>3, LinkMaps DEF Pipeline!Next
  <2>4. CASE ContinueLoadingDGO \/ CancelLoadingDGO BY <2>4, ContinueMaps
  <2>5. CASE Unload BY <2>5, UnloadMaps DEF Pipeline!Next
  <2> QED BY <1>1, <2>1, <2>2, <2>3, <2>4, <2>5 DEF EE
<1>2. CASE DgoThread
  BY <1>2, LoadDGOMaps, AbortedMaps, AnswerMaps, NextAndCancelMaps, CancelAnswerMaps DEF DgoThread
<1>3. CASE IsoThread
  <2>1. CASE DGO_Read_Obj_data BY <2>1, ObjDataMaps DEF Pipeline!Next
  <2>2. CASE ~DGO_Read_Obj_data
    BY <1>3, <2>2, PollOpenMaps, PagesMaps, HeaderMaps, WaitMaps, ObjHeaderMaps, FinishMaps
    DEF IsoThread
  <2> QED BY <2>1, <2>2
<1>4. CASE UNCHANGED vars
  <2>1. PipeInv'
    BY <1>4 DEF vars, PipeInv, EndInv, CancelInv, AnswerInv, FileInv, Finished, Returned, Unused
  <2>2. UNCHANGED View
    BY <1>4 DEF vars, View, Phase, SentObjects, Given, Linked, Loading, HeaderRead
  <2> QED BY <2>1, <2>2
<1> QED BY <1>1, <1>2, <1>3, <1>4 DEF Next

(* Loading a DGO implements the pipeline, whatever the files, the sizes of *)
(* objects and pages and the heaps are: objects are sent in file order, at *)
(* most two unlinked, the last one only when all the others are linked,    *)
(* and the EE is given each of them once.                                  *)
THEOREM Implements == Spec => ImplementsPipeline
<1>1. Init => PipeInv /\ Pipeline!Init BY PipeInit
<1>2. IInv /\ PipeInv /\ [Next]_vars => PipeInv' /\ [Pipeline!Next]_(Pipeline!vars)
  BY StepMaps
<1> QED BY <1>1, <1>2, Invariance, PTL DEF Spec, ImplementsPipeline, Pipeline!Spec
=============================================================================
