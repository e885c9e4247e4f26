----------------------------- MODULE DgoPipeline -----------------------------
(***************************************************************************)
(* What loading a DGO promises the EE, without threads, mailboxes, pages   *)
(* or buffers: objects arrive in file order, at most two of them are in    *)
(* memory unlinked, and the last one is sent only when all the others have *)
(* been linked, for it goes where the heap ends by then.                   *)
(***************************************************************************)
EXTENDS Naturals

CONSTANTS Disc,      \* the files there are
          NotFound,  \* names of files there are not
          Count,     \* Count[f]: number of objects of file f
          NoFile

VARIABLES phase,     \* "idle", "loading", "loaded" or "failed"
          file,      \* the file being loaded
          sent,      \* objects completely in EE memory
          given,     \* objects the EE has been told of
          linked     \* objects linked

vars == <<phase, file, sent, given, linked>>

Init == phase = "idle" /\ file = NoFile /\ sent = 0 /\ given = 0 /\ linked = 0

Begin(f) ==
  /\ phase = "idle"
  /\ phase' = "loading" /\ file' = f
  /\ sent' = 0 /\ given' = 0 /\ linked' = 0

Send ==
  /\ phase = "loading" /\ file \in Disc /\ sent < Count[file]
  /\ IF sent + 1 = Count[file] THEN linked = sent ELSE sent <= linked + 1
  /\ sent' = sent + 1
  /\ UNCHANGED <<phase, file, given, linked>>

Give ==
  /\ phase = "loading" /\ given = linked /\ given < sent
  /\ given' = given + 1
  /\ UNCHANGED <<phase, file, sent, linked>>

Link ==
  /\ phase = "loading" /\ linked < given
  /\ IF linked + 1 = Count[file]
       THEN phase' = "loaded" /\ sent' = 0 /\ given' = 0 /\ linked' = 0
       ELSE linked' = linked + 1 /\ UNCHANGED <<phase, sent, given>>
  /\ UNCHANGED file

(* The file is missing, or the EE asked to cancel between two objects. *)
Fail ==
  /\ phase = "loading"
  /\ file \notin Disc \/ (given = linked /\ given > 0)
  /\ phase' = "failed" /\ sent' = 0 /\ given' = 0 /\ linked' = 0
  /\ UNCHANGED file

Unload ==
  /\ phase # "idle"
  /\ phase' = "idle" /\ sent' = 0 /\ given' = 0 /\ linked' = 0
  /\ UNCHANGED file

Next == \/ \E f \in Disc \cup NotFound : Begin(f)
        \/ Send \/ Give \/ Link \/ Fail \/ Unload

Spec == Init /\ [][Next]_vars
=============================================================================
