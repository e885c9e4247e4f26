------------------------------ MODULE MemCard ------------------------------
(***************************************************************************)
(* Saving and loading the game.  Two state machines, one in C++            *)
(* (game/kernel/common/kmemcard.cpp, run once a frame by MC_run) and one   *)
(* in GOAL (the auto-save process of engine/game/game-save.gc), talk       *)
(* through the record op.  A save file is two banks, two files on the      *)
(* disk; a save overwrites the bank that does not hold the newest save.    *)
(*                                                                         *)
(* A save is a number: saves are numbered in the order they are asked for. *)
(* A bank is abstracted to what the code can tell of its file: it does not *)
(* exist, it is shorter than a bank ("short"), it has the size of a bank   *)
(* but only zeros ("zeros"), only the header of a save ("torn"), or a      *)
(* whole save with matching header, footer and checksum ("good").          *)
(*                                                                         *)
(* The machine can fail: the game or the power can die at any moment, the  *)
(* file calls can fail, the player can delete a save's files.              *)
(***************************************************************************)
EXTENDS Naturals

CONSTANTS
  Files,        \* the save slots
  CountLimit,   \* save counts are computed modulo CountLimit (2^32)
  Leftovers,    \* what a crash can leave of the bank being written
  MaxSaves,     \* bound: saves asked for
  MaxCrashes,   \* bound: crashes
  MaxErrors     \* bound: failing file calls and deleted saves

ASSUME FilesAssumption == Files # {}
ASSUME CountAssumption == CountLimit \in Nat /\ CountLimit > 2
ASSUME LeftoversAssumption == Leftovers \subseteq {"short", "zeros", "torn", "good"}
ASSUME BoundsAssumption == MaxSaves \in Nat /\ MaxCrashes \in Nat /\ MaxErrors \in Nat

VARIABLES
  proc,       \* the auto-save process
  told,       \* its last notification
  op,         \* the requested memory card operation
  p,          \* the save being written: save count (p2), bank (p4), file open
  mc_files,   \* what pc_update_card last found
  disk,       \* the two banks of every save file
  buffer,     \* the save at the address a load was given, 0 if none
  issued,     \* number of saves asked for
  acked,      \* last save of each file that gave the result OK (0: none)
  faults      \* crashes and errors so far

vars == <<proc, told, op, p, mc_files, disk, buffer, issued, acked, faults>>

Banks == {0, 1}
Kinds == {"none", "short", "zeros", "torn", "good"}
McStatusCode == {"BUSY", "OK", "INTERNAL_ERROR", "READ_ERROR", "NEW_GAME", "NO_MEMORY"}

NoBank == [kind |-> "none", count |-> 0, save |-> 0]

NoProc(f) == [pc |-> "none", mode |-> "save", file |-> f]
NoOp(f) == [operation |-> "NO_OP", file |-> f, save |-> 0, result |-> "BUSY"]
NoSave == [count |-> 0, bank |-> 0, open |-> FALSE]
NoCard == [f \in Files |-> [present |-> FALSE, count |-> 0, bank |-> 0, preview |-> 0]]

(* kmemcard_init_globals; no save file exists yet.  file is not meaningful *)
(* in an empty op and in a process that does not run.                      *)
Init ==
  /\ \E f \in Files : /\ proc = NoProc(f)
                      /\ told = [what |-> "nothing", mode |-> "save", file |-> f]
                      /\ op = NoOp(f)
  /\ p = NoSave
  /\ mc_files = NoCard
  /\ disk = [f \in Files |-> [b \in Banks |-> NoBank]]
  /\ buffer = 0
  /\ issued = 0
  /\ acked = [f \in Files |-> 0]
  /\ faults = [crashes |-> 0, errors |-> 0]

-----------------------------------------------------------------------------
(***************************************************************************)
(* Looking at the banks.                                                   *)
(***************************************************************************)
exists(bank) == bank.kind # "none"

(* The file exists and has the size of a bank. *)
file_is_present(bank) == bank.kind \in {"zeros", "torn", "good"}

(* Fault: the second bank is taken whenever it is there. *)
RecentBank_Second(banks) == IF file_is_present(banks[1]) THEN 1 ELSE 0

(* The bank pc_update_card takes for the most recent one, by its header. *)
RecentBank(banks) ==
  IF file_is_present(banks[1]) /\ banks[1].count > banks[0].count THEN 1 ELSE 0

pc_update_card ==
  [f \in Files |->
     LET b == RecentBank(disk[f]) IN
     IF file_is_present(disk[f][0])
     THEN [present |-> TRUE, count |-> disk[f][b].count, bank |-> b,
           preview |-> disk[f][b].save]
     ELSE [mc_files[f] EXCEPT !.present = FALSE]]

(* The save count after count; 0 is reserved for "I never saved". *)
NextCount(count) == IF count + 1 = CountLimit THEN 1 ELSE count + 1

(* Fault: a save is written over the most recent one. *)
SaveBank_Same(banks) == RecentBank(banks)

(* The bank and the save count of the next save of a file. *)
SaveBank(banks) == IF file_is_present(banks[0]) THEN 1 - RecentBank(banks) ELSE 0

SaveCount(banks) ==
  IF file_is_present(banks[0]) THEN NextCount(banks[RecentBank(banks)].count) ELSE 1

(* ok[] of pc_game_load_open_file: header, footer and checksum agree. *)
Verified(bank) == bank.kind = "good"

(* Fault: the first of two good banks is loaded. *)
LoadBank_First(banks) == IF Verified(banks[0]) THEN 0 ELSE 1

(* The bank a load delivers, one of them being verified. *)
LoadBank(banks) ==
  IF Verified(banks[0]) /\ Verified(banks[1])
  THEN IF banks[0].count <= banks[1].count THEN 1 ELSE 0
  ELSE IF Verified(banks[1]) THEN 1 ELSE 0

(* The results a load can have when no bank is verified.  The header of a  *)
(* bank that was not read is whatever the buffer held.                     *)
BadResults(banks) ==
  IF banks[0].kind # "zeros" \/ banks[1].kind = "torn" THEN {"READ_ERROR"}
  ELSE IF exists(banks[1]) THEN {"NEW_GAME"} ELSE {"NEW_GAME", "READ_ERROR"}

-----------------------------------------------------------------------------
(***************************************************************************)
(* The auto-save process.  There is at most one.  It looks at the card and *)
(* asks for the operation in the same frame, then polls the result.        *)
(***************************************************************************)
(* MC_save and MC_load do nothing, and are called again in the next frame, *)
(* while an operation is under way.                                        *)
MC_save(f, save) ==
  /\ op.operation = "NO_OP"
  /\ op' = [operation |-> "SAVE", file |-> f, save |-> save, result |-> "BUSY"]

MC_load(f) ==
  /\ op.operation = "NO_OP"
  /\ op' = [operation |-> "LOAD", file |-> f, save |-> 0, result |-> "BUSY"]

AutoSave_Save(f) ==
  /\ proc.pc = "none"
  /\ ~p.open
  /\ issued < MaxSaves
  /\ issued' = issued + 1
  /\ proc' = [pc |-> "wait", mode |-> "save", file |-> f]
  /\ told' = [what |-> "nothing", mode |-> "save", file |-> f]
  /\ MC_save(f, issued + 1)
  /\ mc_files' = pc_update_card
  /\ UNCHANGED <<p, disk, buffer, acked, faults>>

AutoSave_Restore(f) ==
  /\ proc.pc = "none"
  /\ ~p.open
  /\ file_is_present(disk[f][0])
  /\ proc' = [pc |-> "wait", mode |-> "restore", file |-> f]
  /\ told' = [what |-> "nothing", mode |-> "restore", file |-> f]
  /\ MC_load(f)
  /\ mc_files' = pc_update_card
  /\ buffer' = 0
  /\ UNCHANGED <<p, disk, issued, acked, faults>>

(* The file is not present: the process ends without asking for a load. *)
AutoSave_NoSave(f) ==
  /\ proc.pc = "none"
  /\ ~p.open
  /\ ~file_is_present(disk[f][0])
  /\ told' = [what |-> "no-save", mode |-> "restore", file |-> f]
  /\ mc_files' = pc_update_card
  /\ buffer' = 0
  /\ UNCHANGED <<proc, op, p, disk, issued, acked, faults>>

(* mc-check-result says OK: the process notifies whoever asked and ends. *)
AutoSave_Done ==
  /\ proc.pc = "wait"
  /\ op.result = "OK"
  /\ proc' = [proc EXCEPT !.pc = "none"]
  /\ told' = [told EXCEPT !.what = "done"]
  /\ UNCHANGED <<op, p, mc_files, disk, buffer, issued, acked, faults>>

(* Fault: an internal error is polled again, as a read error is. *)
AutoSave_Error_Poll ==
  /\ proc.pc = "wait"
  /\ op.result \in {"NEW_GAME", "NO_MEMORY"}
  /\ proc' = [proc EXCEPT !.pc = "none"]
  /\ told' = [told EXCEPT !.what = IF op.result = "NEW_GAME" THEN "no-save" ELSE "error"]
  /\ UNCHANGED <<op, p, mc_files, disk, buffer, issued, acked, faults>>

(* It says there was an error.  On a read error the process neither asks   *)
(* again nor ends: it polls the result it has.                             *)
AutoSave_Error ==
  /\ proc.pc = "wait"
  /\ op.result \in {"INTERNAL_ERROR", "NEW_GAME", "NO_MEMORY"}
  /\ proc' = [proc EXCEPT !.pc = "none"]
  /\ told' = [told EXCEPT !.what = IF op.result = "NEW_GAME" THEN "no-save" ELSE "error"]
  /\ UNCHANGED <<op, p, mc_files, disk, buffer, issued, acked, faults>>

(* The menus look at the card whenever they are drawn. *)
MC_get_status ==
  /\ ~p.open
  /\ mc_files' = pc_update_card
  /\ UNCHANGED <<proc, told, op, p, disk, buffer, issued, acked, faults>>

-----------------------------------------------------------------------------
(***************************************************************************)
(* MC_run: a save.  The files are written synchronously: nothing but a     *)
(* crash comes between the opening of the bank and the result.             *)
(***************************************************************************)
Error == faults.errors < MaxErrors /\ faults' = [faults EXCEPT !.errors = @ + 1]

Finish(result) == op' = [op EXCEPT !.operation = "NO_OP", !.result = result]

(* The bank is opened for writing, which truncates it. *)
SaveOpen ==
  /\ op.operation = "SAVE"
  /\ ~p.open
  /\ mc_files' = pc_update_card
  /\ LET b == SaveBank(disk[op.file]) IN
       /\ p' = [count |-> SaveCount(disk[op.file]), bank |-> b, open |-> TRUE]
       /\ disk' = [disk EXCEPT ![op.file][b] = [kind |-> "short", count |-> 0, save |-> 0]]
  /\ UNCHANGED <<proc, told, op, buffer, issued, acked, faults>>

SaveOpenFailed ==
  /\ op.operation = "SAVE"
  /\ ~p.open
  /\ Error
  /\ Finish("INTERNAL_ERROR")
  /\ mc_files' = pc_update_card
  /\ UNCHANGED <<proc, told, p, disk, buffer, issued, acked>>

(* Header, data and footer are written and the file is closed. *)
SaveDone ==
  /\ p.open
  /\ disk' = [disk EXCEPT ![op.file][p.bank] =
                [kind |-> "good", count |-> p.count, save |-> op.save]]
  /\ mc_files' = [mc_files EXCEPT ![op.file] =
                    [present |-> TRUE, count |-> p.count, bank |-> p.bank,
                     preview |-> op.save]]
  /\ p' = [p EXCEPT !.open = FALSE]
  /\ Finish("OK")
  /\ acked' = [acked EXCEPT ![op.file] = op.save]
  /\ UNCHANGED <<proc, told, buffer, issued, faults>>

(* A write or the close fails; the bank stays short. *)
SaveFailed ==
  /\ p.open
  /\ Error
  /\ p' = [p EXCEPT !.open = FALSE]
  /\ Finish("INTERNAL_ERROR")
  /\ UNCHANGED <<proc, told, mc_files, disk, buffer, issued, acked>>

(***************************************************************************)
(* MC_run: a load.                                                         *)
(***************************************************************************)
LoadNoFile ==
  /\ op.operation = "LOAD"
  /\ ~file_is_present(disk[op.file][0])
  /\ Finish("NO_MEMORY")
  /\ UNCHANGED <<proc, told, p, mc_files, disk, buffer, issued, acked, faults>>

(* The second bank is read whenever its file exists, whatever its size. *)
ReadsShortBank == disk[op.file][1].kind = "short"

Loading ==
  /\ op.operation = "LOAD"
  /\ file_is_present(disk[op.file][0])

LoadFailed ==
  /\ Loading
  /\ IF ReadsShortBank THEN UNCHANGED faults ELSE Error
  /\ Finish("INTERNAL_ERROR")
  /\ mc_files' = pc_update_card
  /\ UNCHANGED <<proc, told, p, disk, buffer, issued, acked>>

LoadBad ==
  /\ Loading
  /\ ~ReadsShortBank
  /\ \A b \in Banks : ~Verified(disk[op.file][b])
  /\ \E result \in BadResults(disk[op.file]) : Finish(result)
  /\ mc_files' = pc_update_card
  /\ UNCHANGED <<proc, told, p, disk, buffer, issued, acked, faults>>

LoadGood ==
  /\ Loading
  /\ ~ReadsShortBank
  /\ \E b \in Banks : Verified(disk[op.file][b])
  /\ LET b == LoadBank(disk[op.file]) IN
       /\ buffer' = disk[op.file][b].save
       /\ mc_files' = [pc_update_card EXCEPT ![op.file].count = disk[op.file][b].count,
                                             ![op.file].bank = b]
  /\ Finish("OK")
  /\ UNCHANGED <<proc, told, p, disk, issued, acked, faults>>

-----------------------------------------------------------------------------
(***************************************************************************)
(* The environment.                                                        *)
(***************************************************************************)
(* The game dies and is started again.  A bank being written is left in    *)
(* one of the conditions Leftovers allows.                                 *)
Left(kind) ==
  CASE kind = "good" -> [kind |-> "good", count |-> p.count, save |-> op.save]
    [] kind = "torn" -> [kind |-> "torn", count |-> p.count, save |-> op.save]
    [] OTHER -> [kind |-> kind, count |-> 0, save |-> 0]

Crash ==
  /\ faults.crashes < MaxCrashes
  /\ faults' = [faults EXCEPT !.crashes = @ + 1]
  /\ IF p.open
     THEN \E kind \in Leftovers : disk' = [disk EXCEPT ![op.file][p.bank] = Left(kind)]
     ELSE UNCHANGED disk
  /\ proc' = NoProc(op.file)
  /\ told' = [what |-> "nothing", mode |-> "save", file |-> op.file]
  /\ op' = NoOp(op.file)
  /\ p' = NoSave
  /\ mc_files' = NoCard
  /\ buffer' = 0
  /\ UNCHANGED <<issued, acked>>

(* The player deletes the files of a save. *)
DeleteFile(f) ==
  /\ ~p.open
  /\ Error
  /\ \E b \in Banks : exists(disk[f][b])
  /\ disk' = [disk EXCEPT ![f] = [b \in Banks |-> NoBank]]
  /\ acked' = [acked EXCEPT ![f] = 0]
  /\ UNCHANGED <<proc, told, op, p, mc_files, buffer, issued>>

MC_run ==
  \/ SaveOpen \/ SaveOpenFailed \/ SaveDone \/ SaveFailed
  \/ LoadNoFile \/ LoadFailed \/ LoadBad \/ LoadGood

AutoSave_Check == AutoSave_Done \/ AutoSave_Error

Next ==
  \/ \E f \in Files : AutoSave_Save(f) \/ AutoSave_Restore(f) \/ AutoSave_NoSave(f)
  \/ AutoSave_Check
  \/ MC_get_status
  \/ MC_run
  \/ Crash
  \/ \E f \in Files : DeleteFile(f)

(* The main loop runs MC_run once a frame and the process polls once a     *)
(* frame.                                                                  *)
Fairness == WF_vars(MC_run) /\ WF_vars(AutoSave_Check)

Spec == Init /\ [][Next]_vars /\ Fairness

-----------------------------------------------------------------------------
(***************************************************************************)
(* Properties.                                                             *)
(***************************************************************************)
SaveIds == 0 .. MaxSaves
Counts == 0 .. CountLimit - 1

ProcTypes == [pc : {"none", "wait"}, mode : {"save", "restore"}, file : Files]
ToldTypes == [what : {"nothing", "done", "error", "no-save"},
              mode : {"save", "restore"}, file : Files]
OpTypes == [operation : {"NO_OP", "SAVE", "LOAD"}, file : Files, save : SaveIds,
            result : McStatusCode]
CardTypes == [present : BOOLEAN, count : Counts, bank : Banks, preview : SaveIds]
BankTypes == [kind : Kinds, count : Counts, save : SaveIds]

(* Type correctness; the save counts in headers stay below CountLimit.     *)
TypeOK ==
  /\ proc \in ProcTypes
  /\ told \in ToldTypes
  /\ op \in OpTypes
  /\ p \in [count : Counts, bank : Banks, open : BOOLEAN]
  /\ mc_files \in [Files -> CardTypes]
  /\ disk \in [Files -> [Banks -> BankTypes]]
  /\ buffer \in SaveIds
  /\ issued \in SaveIds
  /\ acked \in [Files -> SaveIds]
  /\ faults \in [crashes : 0 .. MaxCrashes, errors : 0 .. MaxErrors]

(* Once a save of a file has given OK, a whole save of the file is on *)
(* the disk at every moment, also while the next save is being written and *)
(* after that one is cut short (the choice of p4 in pc_game_save_synch).   *)
SomeSaveSurvives ==
  \A f \in Files : acked[f] # 0 => \E b \in Banks : disk[f][b].kind = "good"

Restored == told.what = "done" /\ told.mode = "restore"

(* The save a load delivers is the one whose preview the menus show: the   *)
(* comparison of the save counts in pc_update_card (>) and the one in      *)
(* pc_game_load_open_file (<=) choose the same bank.                       *)
PreviewMatchesLoad == Restored => mc_files[told.file].preview = buffer

(* A load delivers no save older than the last one that gave OK.           *)
LoadedNotOlder == Restored => buffer >= acked[told.file]

(* Nothing failed, died or was deleted, and the save counts cannot have    *)
(* wrapped.                                                                *)
Quiet == faults = [crashes |-> 0, errors |-> 0] /\ issued < CountLimit

(* Without crashes, failing calls and deleted files the banks take turns   *)
(* such that a load delivers the newest save of its file.                  *)
NewestLoaded == Quiet => LoadedNotOlder

(* The auto-save process ends, whatever the result of the operation; but   *)
(* for READ_ERROR, to which only a bank of full size without valid data    *)
(* leads (AutoSave_Error).                                                 *)
RequestEnds == proc.pc = "wait" ~> proc.pc = "none"

-----------------------------------------------------------------------------
(***************************************************************************)
(* The inductive invariant behind SomeSaveSurvives.                        *)
(***************************************************************************)
(* Only a bank with a whole save has a save count, and it is not 0.        *)
BankInv ==
  \A f \in Files, b \in Banks :
    /\ disk[f][b].kind # "torn"
    /\ disk[f][b].kind = "good" <=> disk[f][b].count # 0

(* The process waits for the operation it asked for.                       *)
OpInv ==
  /\ op.operation # "NO_OP" => proc.pc = "wait" /\ op.result = "BUSY"
  /\ proc.pc = "wait" =>
       /\ op.file = proc.file
       /\ op.operation = "NO_OP" => op.result # "BUSY"
       /\ op.operation = "SAVE" => proc.mode = "save"
       /\ op.operation = "LOAD" => proc.mode = "restore"

(* A save was asked for and its bank is truncated.                         *)
OpenInv ==
  p.open => /\ op.operation = "SAVE"
            /\ disk[op.file][p.bank].kind = "short"
            /\ p.count # 0

(* A save that succeeded is on the disk, unless its files were deleted.    *)
IInv == TypeOK /\ BankInv /\ OpInv /\ OpenInv /\ SomeSaveSurvives

-----------------------------------------------------------------------------
(***************************************************************************)
(* The inductive invariant behind PreviewMatchesLoad, for crashes that     *)
(* leave a short bank or a whole one.                                      *)
(***************************************************************************)
(* The two banks of a file never have the same save count, not even when   *)
(* the count wraps: the second bank gets the count 1 only while the first  *)
(* has the largest count, and then it is the second that is overwritten.   *)
CountInv ==
  /\ \A f \in Files :
       /\ \A b \in Banks : disk[f][b].kind # "zeros"
       /\ disk[f][1].count = 1 => disk[f][0].count = CountLimit - 1
       /\ disk[f][0].count # 0 => disk[f][0].count # disk[f][1].count
  /\ p.open =>
       /\ p.count # disk[op.file][1 - p.bank].count
       /\ p.bank = 1 /\ p.count = 1 => disk[op.file][0].count = CountLimit - 1

(* What is loaded is what the menus show, and what they will show when     *)
(* they look again.                                                        *)
Shown(f) ==
  /\ mc_files[f].preview = buffer
  /\ file_is_present(disk[f][0]) => disk[f][RecentBank(disk[f])].save = buffer

PreviewInv ==
  /\ proc.pc = "wait" =>
       told.what = "nothing" /\ told.mode = proc.mode /\ told.file = proc.file
  /\ proc.pc = "wait" /\ proc.mode = "restore" /\ op.result = "OK" => Shown(proc.file)
  /\ Restored => Shown(told.file)

(* The menus and a load choose the same bank.                              *)
KillInv == IInv /\ CountInv /\ PreviewInv

-----------------------------------------------------------------------------
(***************************************************************************)
(* What the card promises: the state SaveStore knows of.                   *)
(***************************************************************************)
GoodBanks(f) == {b \in Banks : disk[f][b].kind = "good"}

WholeSaves(f) == {disk[f][b].save : b \in GoodBanks(f)}

Store == INSTANCE SaveStore WITH
  holds <- [f \in Files |-> WholeSaves(f)],
  newest <- acked,
  task <- op,
  waiting <- (proc.pc = "wait"),
  calm <- Quiet

(* Saving over one of two banks never loses the last whole save of a file, *)
(* nor the newest while nothing went wrong; then a load delivers the       *)
(* newest, and no request is refused (pc_game_save_synch,                  *)
(* pc_game_load_open_file and pc_update_card against a crash at any        *)
(* moment).                                                                *)
ImplementsStore == Store!Spec
=============================================================================
