--------------------------- MODULE MemCard_proofs ---------------------------
(***************************************************************************)
(* TypeOK holds for every value of the constants; if a crash never leaves  *)
(* a bank of full size with the header of a save but not the rest, a save  *)
(* file that was saved once always has a whole save in one of its banks;   *)
(* if the game can only be killed, the menus show what a load delivers;    *)
(* without faults, a load delivers the newest save.                        *)
(***************************************************************************)
EXTENDS MemCard, TLAPS

(* The bank and the count chosen for the next save are a bank and a count. *)
LEMMA RecentBankType == \A banks : RecentBank(banks) \in Banks
BY DEF RecentBank, Banks

LEMMA SaveBankType == \A banks : SaveBank(banks) \in Banks
BY RecentBankType DEF SaveBank, Banks

LEMMA LoadBankType == \A banks : LoadBank(banks) \in Banks
BY DEF LoadBank, Banks

LEMMA NextCountType ==
  ASSUME NEW n \in Counts
  PROVE  NextCount(n) \in Counts /\ NextCount(n) # 0
BY CountAssumption DEF NextCount, Counts

LEMMA SaveCountType ==
  ASSUME NEW banks \in [Banks -> BankTypes]
  PROVE  SaveCount(banks) \in Counts /\ SaveCount(banks) # 0
<1>1. banks[RecentBank(banks)].count \in Counts
  BY RecentBankType, Zenon DEF BankTypes
<1>2. 1 \in Counts
  BY CountAssumption DEF Counts
<1> QED BY <1>1, <1>2, NextCountType DEF SaveCount

LEMMA BadResultsType == \A banks : BadResults(banks) \subseteq McStatusCode
BY DEF BadResults, McStatusCode

LEMMA CardType == ASSUME TypeOK PROVE pc_update_card \in [Files -> CardTypes]
<1> SUFFICES ASSUME NEW f \in Files PROVE pc_update_card[f] \in CardTypes
  BY Zenon DEF pc_update_card
<1> DEFINE b == RecentBank(disk[f])
<1>1. b \in Banks
  BY RecentBankType
<1>2. disk[f][b] \in BankTypes
  <2>1. disk \in [Files -> [Banks -> BankTypes]]
    BY DEF TypeOK
  <2> QED BY <1>1, <2>1, Zenon
<1>3. [present |-> TRUE, count |-> disk[f][b].count, bank |-> b,
       preview |-> disk[f][b].save] \in CardTypes
  BY <1>1, <1>2, Zenon DEF BankTypes, CardTypes
<1>4. [mc_files[f] EXCEPT !.present = FALSE] \in CardTypes
  BY Zenon DEF TypeOK, CardTypes
<1> QED BY <1>3, <1>4, Zenon DEF pc_update_card

(* What Finish and Error do. *)
LEMMA FinishType ==
  ASSUME TypeOK, NEW r \in McStatusCode, Finish(r)
  PROVE  /\ op' \in OpTypes
         /\ op'.operation = "NO_OP" /\ op'.file = op.file /\ op'.result = r
<1>1. op' = [op EXCEPT !.operation = "NO_OP", !.result = r]
  BY DEF Finish
<1> QED BY <1>1 DEF TypeOK, OpTypes

LEMMA ErrorType ==
  ASSUME TypeOK, Error
  PROVE  faults' \in [crashes : 0 .. MaxCrashes, errors : 0 .. MaxErrors]
BY BoundsAssumption DEF TypeOK, Error

-----------------------------------------------------------------------------
(* Type correctness, one action after the other. *)
LEMMA InitType == Init => TypeOK
<1> SUFFICES ASSUME Init PROVE TypeOK
  OBVIOUS
<1> USE FilesAssumption, CountAssumption, BoundsAssumption DEF Init
<1>1. proc \in ProcTypes /\ told \in ToldTypes /\ op \in OpTypes
  BY DEF NoProc, NoOp, ProcTypes, ToldTypes, OpTypes, McStatusCode, SaveIds
<1>2. 0 \in Counts /\ 0 \in Banks /\ 0 \in SaveIds
  BY DEF Counts, Banks, SaveIds
<1>3. p \in [count : Counts, bank : Banks, open : BOOLEAN]
  BY <1>2 DEF NoSave
<1>4. mc_files \in [Files -> CardTypes]
  BY <1>2 DEF NoCard, CardTypes
<1>5. disk \in [Files -> [Banks -> BankTypes]]
  <2>1. NoBank \in BankTypes
    BY <1>2 DEF NoBank, BankTypes, Kinds
  <2> QED BY <2>1, Zenon
<1>6. /\ buffer \in SaveIds /\ issued \in SaveIds
      /\ acked \in [Files -> SaveIds]
      /\ faults \in [crashes : 0 .. MaxCrashes, errors : 0 .. MaxErrors]
  BY <1>2
<1> QED BY <1>1, <1>3, <1>4, <1>5, <1>6 DEF TypeOK

LEMMA SaveRequestType ==
  ASSUME TypeOK, NEW f \in Files, AutoSave_Save(f)
  PROVE  TypeOK'
<1> USE DEF AutoSave_Save, MC_save
<1>1. issued' \in SaveIds /\ issued + 1 \in SaveIds
  BY BoundsAssumption DEF TypeOK, SaveIds
<1>2. proc' \in ProcTypes /\ told' \in ToldTypes
  BY DEF ProcTypes, ToldTypes
<1>3. op' \in OpTypes
  BY <1>1 DEF OpTypes, McStatusCode
<1>4. mc_files' \in [Files -> CardTypes]
  BY CardType
<1> QED BY <1>1, <1>2, <1>3, <1>4 DEF TypeOK

LEMMA RestoreRequestType ==
  ASSUME TypeOK, NEW f \in Files, AutoSave_Restore(f) \/ AutoSave_NoSave(f)
  PROVE  TypeOK'
<1>1. 0 \in SaveIds
  BY BoundsAssumption DEF SaveIds
<1>2. mc_files' \in [Files -> CardTypes]
  BY CardType DEF AutoSave_Restore, AutoSave_NoSave
<1>3. CASE AutoSave_Restore(f)
  <2>1. proc' \in ProcTypes /\ told' \in ToldTypes
    BY <1>3 DEF AutoSave_Restore, MC_load, ProcTypes, ToldTypes
  <2>2. op' \in OpTypes
    BY <1>1, <1>3 DEF AutoSave_Restore, MC_load, OpTypes, McStatusCode
  <2> QED BY <1>1, <1>2, <1>3, <2>1, <2>2 DEF AutoSave_Restore, TypeOK
<1>4. CASE AutoSave_NoSave(f)
  <2>1. told' \in ToldTypes
    BY <1>4 DEF AutoSave_NoSave, ToldTypes
  <2> QED BY <1>1, <1>2, <1>4, <2>1 DEF AutoSave_NoSave, TypeOK
<1> QED BY <1>3, <1>4

LEMMA CheckType == ASSUME TypeOK, AutoSave_Check PROVE TypeOK'
<1>1. proc' \in ProcTypes
  <2>1. proc' = [proc EXCEPT !.pc = "none"]
    BY DEF AutoSave_Check, AutoSave_Done, AutoSave_Error
  <2> QED BY <2>1, Zenon DEF TypeOK, ProcTypes
<1>2. told' \in ToldTypes
  <2>1. PICK what \in {"done", "no-save", "error"} : told' = [told EXCEPT !.what = what]
    BY DEF AutoSave_Check, AutoSave_Done, AutoSave_Error
  <2> QED BY <2>1, Zenon DEF TypeOK, ToldTypes
<1> QED BY <1>1, <1>2 DEF TypeOK, AutoSave_Check, AutoSave_Done, AutoSave_Error

LEMMA StatusType == ASSUME TypeOK, MC_get_status PROVE TypeOK'
BY CardType DEF TypeOK, MC_get_status

(* A bank of a save file is replaced by another one. *)
LEMMA DiskType ==
  ASSUME TypeOK, NEW f \in Files, NEW b \in Banks, NEW bank \in BankTypes,
         disk' = [disk EXCEPT ![f][b] = bank]
  PROVE  disk' \in [Files -> [Banks -> BankTypes]]
BY Zenon DEF TypeOK

LEMMA SaveOpenType == ASSUME TypeOK, SaveOpen PROVE TypeOK'
<1> DEFINE short == [kind |-> "short", count |-> 0, save |-> 0]
<1>1. op.file \in Files /\ disk[op.file] \in [Banks -> BankTypes]
  BY DEF TypeOK, OpTypes
<1>2. p' \in [count : Counts, bank : Banks, open : BOOLEAN]
  BY <1>1, SaveBankType, SaveCountType DEF SaveOpen
<1>3. short \in BankTypes
  BY CountAssumption, BoundsAssumption DEF BankTypes, Kinds, Counts, SaveIds
<1>4. disk' \in [Files -> [Banks -> BankTypes]]
  BY <1>1, <1>3, SaveBankType, DiskType DEF SaveOpen
<1> QED BY <1>2, <1>4, CardType DEF TypeOK, SaveOpen

LEMMA SaveOpenFailedType == ASSUME TypeOK, SaveOpenFailed PROVE TypeOK'
<1>1. op' \in OpTypes
  BY FinishType DEF SaveOpenFailed, McStatusCode
<1> QED BY <1>1, ErrorType, CardType DEF SaveOpenFailed, TypeOK

LEMMA SaveDoneType == ASSUME TypeOK, SaveDone PROVE TypeOK'
<1> DEFINE bank == [kind |-> "good", count |-> p.count, save |-> op.save]
           card == [present |-> TRUE, count |-> p.count, bank |-> p.bank,
                    preview |-> op.save]
<1>1. /\ op.file \in Files /\ op.save \in SaveIds
      /\ p.bank \in Banks /\ p.count \in Counts
  BY DEF TypeOK, OpTypes
<1>2. bank \in BankTypes /\ card \in CardTypes
  BY <1>1 DEF BankTypes, Kinds, CardTypes
<1>3. disk' \in [Files -> [Banks -> BankTypes]]
  BY <1>1, <1>2, DiskType DEF SaveDone
<1>4. mc_files' \in [Files -> CardTypes]
  BY <1>1, <1>2, Zenon DEF SaveDone, TypeOK
<1>5. op' \in OpTypes
  BY FinishType DEF SaveDone, McStatusCode
<1>6. p' \in [count : Counts, bank : Banks, open : BOOLEAN]
  BY DEF SaveDone, TypeOK
<1>7. acked' \in [Files -> SaveIds]
  BY <1>1 DEF SaveDone, TypeOK
<1> QED BY <1>3, <1>4, <1>5, <1>6, <1>7 DEF SaveDone, TypeOK

LEMMA SaveFailedType == ASSUME TypeOK, SaveFailed PROVE TypeOK'
<1>1. op' \in OpTypes
  BY FinishType DEF SaveFailed, McStatusCode
<1>2. p' \in [count : Counts, bank : Banks, open : BOOLEAN]
  BY DEF SaveFailed, TypeOK
<1> QED BY <1>1, <1>2, ErrorType DEF SaveFailed, TypeOK

LEMMA LoadType ==
  ASSUME TypeOK, LoadNoFile \/ LoadFailed \/ LoadBad \/ LoadGood
  PROVE  TypeOK'
<1>1. CASE LoadNoFile
  BY <1>1, FinishType DEF LoadNoFile, McStatusCode, TypeOK
<1>2. CASE LoadFailed
  <2>1. op' \in OpTypes
    BY <1>2, FinishType DEF LoadFailed, McStatusCode
  <2>2. faults' \in [crashes : 0 .. MaxCrashes, errors : 0 .. MaxErrors]
    BY <1>2, ErrorType DEF LoadFailed, TypeOK
  <2> QED BY <1>2, <2>1, <2>2, CardType DEF LoadFailed, TypeOK
<1>3. CASE LoadBad
  <2>1. op' \in OpTypes
    BY <1>3, FinishType, BadResultsType DEF LoadBad
  <2> QED BY <1>3, <2>1, CardType DEF LoadBad, TypeOK
<1>4. CASE LoadGood
  <2> DEFINE b == LoadBank(disk[op.file])
             bank == disk[op.file][b]
             card == pc_update_card
  <2>1. op.file \in Files /\ b \in Banks
    BY LoadBankType DEF TypeOK, OpTypes
  <2>2. bank.save \in SaveIds /\ bank.count \in Counts
    <3>1. bank \in BankTypes
      <4>1. disk \in [Files -> [Banks -> BankTypes]]
        BY DEF TypeOK
      <4> QED BY <2>1, <4>1, Zenon
    <3> QED BY <3>1, Zenon DEF BankTypes
  <2>3. /\ buffer' = bank.save
        /\ mc_files' = [card EXCEPT ![op.file].count = bank.count, ![op.file].bank = b]
    BY <1>4 DEF LoadGood
  <2>4. card \in [Files -> CardTypes]
    BY CardType
  <2>5. mc_files' \in [Files -> CardTypes]
    <3> HIDE DEF b, card, bank
    <3> DEFINE card1 == [card EXCEPT ![op.file].count = bank.count]
    <3>1. card1 \in [Files -> CardTypes]
      BY <2>1, <2>2, <2>4, Zenon DEF CardTypes
    <3>2. [card1 EXCEPT ![op.file].bank = b] \in [Files -> CardTypes]
      <4> HIDE DEF card1
      <4> QED BY <2>1, <3>1, Zenon DEF CardTypes
    <3> QED BY <2>3, <3>2
  <2>6. op' \in OpTypes
    BY <1>4, FinishType DEF LoadGood, McStatusCode
  <2>7. buffer' \in SaveIds
    BY <2>2, <2>3
  <2> QED BY <1>4, <2>5, <2>6, <2>7 DEF LoadGood, TypeOK
<1> QED BY <1>1, <1>2, <1>3, <1>4

LEMMA LeftType ==
  ASSUME TypeOK, NEW kind \in Leftovers
  PROVE  Left(kind) \in BankTypes /\ Left(kind).kind = kind
<1>1. /\ op.save \in SaveIds /\ p.count \in Counts
      /\ 0 \in SaveIds /\ 0 \in Counts
  BY BoundsAssumption, CountAssumption DEF TypeOK, OpTypes, SaveIds, Counts
<1> QED BY <1>1, LeftoversAssumption DEF Left, BankTypes, Kinds

LEMMA CrashType == ASSUME TypeOK, Crash PROVE TypeOK'
<1>1. op.file \in Files /\ p.bank \in Banks
  BY DEF TypeOK, OpTypes
<1>2. 0 \in SaveIds /\ 0 \in Counts /\ 0 \in Banks
  BY BoundsAssumption, CountAssumption DEF SaveIds, Counts, Banks
<1>3. disk' \in [Files -> [Banks -> BankTypes]]
  <2>1. CASE p.open
    <3>1. PICK kind \in Leftovers : disk' = [disk EXCEPT ![op.file][p.bank] = Left(kind)]
      BY <2>1 DEF Crash
    <3> QED BY <1>1, <3>1, LeftType, DiskType
  <2>2. CASE ~p.open
    BY <2>2 DEF Crash, TypeOK
  <2> QED BY <2>1, <2>2
<1>4. proc' \in ProcTypes /\ told' \in ToldTypes /\ op' \in OpTypes
  BY <1>1, <1>2 DEF Crash, NoProc, NoOp, ProcTypes, ToldTypes, OpTypes, McStatusCode
<1>5. p' \in [count : Counts, bank : Banks, open : BOOLEAN]
  BY <1>2 DEF Crash, NoSave
<1>6. mc_files' \in [Files -> CardTypes]
  BY <1>2 DEF Crash, NoCard, CardTypes
<1>7. faults' \in [crashes : 0 .. MaxCrashes, errors : 0 .. MaxErrors]
  BY BoundsAssumption DEF Crash, TypeOK
<1> QED BY <1>2, <1>3, <1>4, <1>5, <1>6, <1>7 DEF Crash, TypeOK

LEMMA DeleteType == ASSUME TypeOK, NEW f \in Files, DeleteFile(f) PROVE TypeOK'
<1>1. NoBank \in BankTypes /\ 0 \in SaveIds
  BY BoundsAssumption, CountAssumption
     DEF NoBank, BankTypes, Kinds, Counts, SaveIds
<1>2. disk' \in [Files -> [Banks -> BankTypes]]
  BY <1>1, Zenon DEF DeleteFile, TypeOK
<1>3. acked' \in [Files -> SaveIds]
  BY <1>1 DEF DeleteFile, TypeOK
<1>4. faults' \in [crashes : 0 .. MaxCrashes, errors : 0 .. MaxErrors]
  BY ErrorType DEF DeleteFile
<1> QED BY <1>2, <1>3, <1>4 DEF DeleteFile, TypeOK

LEMMA NextType == TypeOK /\ [Next]_vars => TypeOK'
<1> SUFFICES ASSUME TypeOK, [Next]_vars PROVE TypeOK'
  OBVIOUS
<1>1. CASE UNCHANGED vars
  BY <1>1 DEF vars, TypeOK
<1>2. ASSUME NEW f \in Files,
             \/ AutoSave_Save(f) \/ AutoSave_Restore(f) \/ AutoSave_NoSave(f)
             \/ DeleteFile(f)
      PROVE  TypeOK'
  BY <1>2, SaveRequestType, RestoreRequestType, DeleteType
<1>3. CASE AutoSave_Check \/ MC_get_status \/ Crash
  BY <1>3, CheckType, StatusType, CrashType
<1>4. CASE MC_run
  BY <1>4, SaveOpenType, SaveOpenFailedType, SaveDoneType, SaveFailedType, LoadType
     DEF MC_run
<1> QED BY <1>1, <1>2, <1>3, <1>4 DEF Next

(* Every variable keeps its type, for every number of files, limit of the  *)
(* save counts, kind of crash and bound.                                   *)
THEOREM TypeCorrectness == Spec => []TypeOK
<1> QED BY InitType, NextType, PTL DEF Spec

-----------------------------------------------------------------------------
(* The inductive invariant. *)
LEMMA InitInv == Init => IInv
<1> SUFFICES ASSUME Init PROVE IInv
  OBVIOUS
<1>1. TypeOK
  BY InitType
<1>2. \A f \in Files, b \in Banks : disk[f][b] = NoBank
  BY DEF Init
<1>3. BankInv
  BY <1>2 DEF BankInv, NoBank
<1>4. OpInv /\ OpenInv /\ SomeSaveSurvives
  BY DEF Init, OpInv, OpenInv, SomeSaveSurvives, NoOp, NoProc, NoSave
<1> QED BY <1>1, <1>3, <1>4 DEF IInv

(* One bank of one file is replaced, the rest of the disk stays. *)
LEMMA DiskStep ==
  ASSUME TypeOK, NEW f \in Files, NEW b \in Banks, NEW bank,
         disk' = [disk EXCEPT ![f][b] = bank]
  PROVE  /\ disk'[f][b] = bank
         /\ 1 - b \in Banks
         /\ \A c \in Banks : c # b => c = 1 - b /\ disk'[f][c] = disk[f][c]
         /\ \A g \in Files : g # f => disk'[g] = disk[g]
<1>1. DOMAIN disk = Files /\ DOMAIN disk[f] = Banks
  BY DEF TypeOK
<1>2. 1 - b \in Banks /\ \A c \in Banks : c # b => c = 1 - b
  BY DEF Banks
<1>3. /\ disk'[f][b] = bank
      /\ \A c \in Banks : c # b => disk'[f][c] = disk[f][c]
      /\ \A g \in Files : g # f => disk'[g] = disk[g]
  BY <1>1, Zenon
<1> QED BY <1>2, <1>3

(* The bank the next save is written to is not the only whole one: a bank  *)
(* with a save count is whole, and the bank with the larger one is spared. *)
LEMMA SaveBankSpares ==
  ASSUME TypeOK, BankInv, NEW f \in Files,
         \E b \in Banks : disk[f][b].kind = "good"
  PROVE  disk[f][1 - SaveBank(disk[f])].kind = "good"
<1> DEFINE k(b) == disk[f][b].kind
           c(b) == disk[f][b].count
<1>1. \A b \in Banks : /\ k(b) \in Kinds \ {"torn"}
                       /\ c(b) \in Nat
                       /\ k(b) = "good" <=> c(b) # 0
  <2> SUFFICES ASSUME NEW b \in Banks
               PROVE  /\ k(b) \in Kinds \ {"torn"}
                      /\ c(b) \in Nat
                      /\ k(b) = "good" <=> c(b) # 0
    BY Zenon
  <2>1. disk[f][b] \in BankTypes
    <3>1. disk \in [Files -> [Banks -> BankTypes]]
      BY DEF TypeOK
    <3>2. disk[f] \in [Banks -> BankTypes]
      BY <3>1, Zenon
    <3> QED BY <3>2, Zenon
  <2>2. k(b) \in Kinds /\ c(b) \in Counts
    BY <2>1, Zenon DEF BankTypes
  <2>3. c(b) \in Nat
    BY <2>2 DEF Counts
  <2> QED BY <2>2, <2>3 DEF BankInv
<1>2. k(0) = "good" \/ k(1) = "good"
  BY DEF Banks
<1>3. 0 \in Banks /\ 1 \in Banks
  BY DEF Banks
<1> HIDE DEF k, c
<1>4. SaveBank(disk[f]) =
        IF k(0) \in {"zeros", "torn", "good"}
        THEN IF k(1) \in {"zeros", "torn", "good"} /\ c(1) > c(0) THEN 0 ELSE 1
        ELSE 0
  BY DEF SaveBank, RecentBank, file_is_present, k, c
<1>5. k(1 - SaveBank(disk[f])) = "good"
  BY <1>1, <1>2, <1>3, <1>4
<1> QED BY <1>5 DEF k

(* Steps that leave the disk and the acknowledged saves alone. *)
LEMMA SameDisk ==
  ASSUME IInv, UNCHANGED <<disk, acked>>
  PROVE  BankInv' /\ SomeSaveSurvives'
BY DEF IInv, BankInv, SomeSaveSurvives

LEMMA NotOpenStep ==
  ASSUME IInv, UNCHANGED <<disk, acked>>, ~p'.open, TypeOK', OpInv'
  PROVE  IInv'
BY SameDisk DEF IInv, OpenInv

LEMMA RequestInv ==
  ASSUME IInv, NEW f \in Files,
         AutoSave_Save(f) \/ AutoSave_Restore(f) \/ AutoSave_NoSave(f)
  PROVE  IInv'
<1>1. TypeOK'
  BY SaveRequestType, RestoreRequestType DEF IInv
<1>2. UNCHANGED <<disk, acked, p>> /\ ~p.open
  BY DEF AutoSave_Save, AutoSave_Restore, AutoSave_NoSave,
          MC_save, MC_load
<1>3. OpInv'
  BY DEF IInv, OpInv, AutoSave_Save, AutoSave_Restore, AutoSave_NoSave,
          MC_save, MC_load
<1> QED BY <1>1, <1>2, <1>3, NotOpenStep

LEMMA CheckInv == ASSUME IInv, AutoSave_Check PROVE IInv'
<1> USE DEF AutoSave_Check, AutoSave_Done, AutoSave_Error
<1>1. TypeOK'
  BY CheckType DEF IInv
<1>2. op.result # "BUSY" /\ op' = op /\ UNCHANGED <<disk, acked, p>>
  OBVIOUS
<1>3. op.operation = "NO_OP"
  BY <1>2 DEF IInv, OpInv
<1>4. ~p.open
  BY <1>3 DEF IInv, OpenInv
<1>5. proc'.pc = "none"
  BY DEF IInv, TypeOK, ProcTypes
<1>6. OpInv'
  BY <1>2, <1>3, <1>5 DEF OpInv
<1> QED BY <1>1, <1>2, <1>4, <1>6, NotOpenStep

LEMMA StatusInv == ASSUME IInv, MC_get_status PROVE IInv'
<1>1. TypeOK'
  BY StatusType DEF IInv
<1>2. UNCHANGED <<disk, acked, p, op, proc>> /\ ~p.open
  BY DEF MC_get_status
<1>3. OpInv'
  BY <1>2 DEF IInv, OpInv
<1> QED BY <1>1, <1>2, <1>3, NotOpenStep

LEMMA SaveOpenInv == ASSUME IInv, SaveOpen PROVE IInv'
<1> DEFINE f == op.file
           b == SaveBank(disk[f])
<1>1. TypeOK /\ TypeOK'
  BY SaveOpenType DEF IInv
<1>2. f \in Files /\ disk[f] \in [Banks -> BankTypes] /\ b \in Banks
  BY SaveBankType DEF IInv, TypeOK, OpTypes
<1>3. /\ op.operation = "SAVE" /\ op' = op /\ proc' = proc /\ acked' = acked
      /\ p' = [count |-> SaveCount(disk[f]), bank |-> b, open |-> TRUE]
      /\ disk' = [disk EXCEPT ![f][b] = [kind |-> "short", count |-> 0, save |-> 0]]
  BY DEF SaveOpen
<1> HIDE DEF b
<1>4. /\ disk'[f][b] = [kind |-> "short", count |-> 0, save |-> 0]
      /\ 1 - b \in Banks
      /\ \A c \in Banks : c # b => c = 1 - b /\ disk'[f][c] = disk[f][c]
      /\ \A g \in Files : g # f => disk'[g] = disk[g]
  BY <1>1, <1>2, <1>3, DiskStep
<1>5. BankInv'
  <2> SUFFICES ASSUME NEW g \in Files, NEW c \in Banks
               PROVE  /\ disk'[g][c].kind # "torn"
                      /\ disk'[g][c].kind = "good" <=> disk'[g][c].count # 0
    BY DEF BankInv
  <2>1. CASE g = f /\ c = b
    BY <1>4, <2>1
  <2>2. CASE ~(g = f /\ c = b)
    BY <1>4, <2>2 DEF IInv, BankInv
  <2> QED BY <2>1, <2>2
<1>6. OpInv'
  BY <1>3 DEF IInv, OpInv
<1>7. OpenInv'
  BY <1>2, <1>3, <1>4, SaveCountType DEF OpenInv
<1>8. SomeSaveSurvives'
  <2> SUFFICES ASSUME NEW g \in Files, acked[g] # 0
               PROVE  \E c \in Banks : disk'[g][c].kind = "good"
    BY <1>3 DEF SomeSaveSurvives
  <2>1. \E c \in Banks : disk[g][c].kind = "good"
    BY DEF IInv, SomeSaveSurvives
  <2>2. CASE g = f
    <3>1. disk[f][1 - b].kind = "good"
      BY <1>1, <1>2, <2>1, <2>2, SaveBankSpares DEF IInv, b
    <3>2. 1 - b # b
      BY <1>2 DEF Banks
    <3> QED BY <1>4, <2>2, <3>1, <3>2
  <2>3. CASE g # f
    BY <1>4, <2>1, <2>3
  <2> QED BY <2>2, <2>3
<1> QED BY <1>1, <1>5, <1>6, <1>7, <1>8 DEF IInv

(* An operation ends without touching the disk. *)
LEMMA FinishInv ==
  ASSUME IInv, TypeOK', UNCHANGED <<disk, acked, proc>>, ~p'.open,
         NEW r \in McStatusCode \ {"BUSY"}, Finish(r)
  PROVE  IInv'
<1>1. op'.operation = "NO_OP" /\ op'.file = op.file /\ op'.result = r
  BY FinishType DEF IInv
<1>2. OpInv'
  BY <1>1 DEF IInv, OpInv
<1> QED BY <1>2, NotOpenStep

LEMMA SaveOpenFailedInv == ASSUME IInv, SaveOpenFailed PROVE IInv'
<1>1. TypeOK'
  BY SaveOpenFailedType DEF IInv
<1> QED BY <1>1, FinishInv DEF SaveOpenFailed, McStatusCode

LEMMA SaveFailedInv == ASSUME IInv, SaveFailed PROVE IInv'
<1>1. TypeOK'
  BY SaveFailedType DEF IInv
<1>2. ~p'.open
  BY DEF SaveFailed, IInv, TypeOK
<1> QED BY <1>1, <1>2, FinishInv DEF SaveFailed, McStatusCode

LEMMA LoadInv ==
  ASSUME IInv, LoadNoFile \/ LoadFailed \/ LoadBad \/ LoadGood
  PROVE  IInv'
<1>1. TypeOK'
  BY LoadType DEF IInv
<1>2. op.operation = "LOAD" /\ UNCHANGED <<disk, acked, proc, p>>
  BY DEF LoadNoFile, LoadFailed, LoadBad, LoadGood, Loading
<1>3. ~p'.open
  BY <1>2 DEF IInv, OpenInv
<1>4. \E r \in McStatusCode \ {"BUSY"} : Finish(r)
  <2>1. \A banks : BadResults(banks) \subseteq McStatusCode \ {"BUSY"}
    BY DEF BadResults, McStatusCode
  <2> QED BY <2>1 DEF LoadNoFile, LoadFailed, LoadBad, LoadGood, McStatusCode
<1> QED BY <1>1, <1>2, <1>3, <1>4, FinishInv

(* The bank being written becomes something a crash or a write leaves. *)
LEMMA WrittenBank ==
  ASSUME IInv, p.open, NEW bank,
         disk'[op.file][p.bank] = bank,
         \A c \in Banks : c # p.bank => disk'[op.file][c] = disk[op.file][c],
         \A g \in Files : g # op.file => disk'[g] = disk[g],
         bank.kind # "torn", bank.kind = "good" <=> bank.count # 0
  PROVE  /\ BankInv'
         /\ acked' = acked => SomeSaveSurvives'
<1> DEFINE f == op.file
           b == p.bank
<1>1. f \in Files /\ b \in Banks /\ disk[f][b].kind = "short"
  BY DEF IInv, TypeOK, OpTypes, OpenInv
<1>2. /\ disk'[f][b] = bank
      /\ \A c \in Banks : c # b => disk'[f][c] = disk[f][c]
      /\ \A g \in Files : g # f => disk'[g] = disk[g]
  OBVIOUS
<1> HIDE DEF f, b
<1>3. BankInv'
  <2> SUFFICES ASSUME NEW g \in Files, NEW c \in Banks
               PROVE  /\ disk'[g][c].kind # "torn"
                      /\ disk'[g][c].kind = "good" <=> disk'[g][c].count # 0
    BY DEF BankInv
  <2>1. CASE g = f /\ c = b
    BY <1>2, <2>1
  <2>2. CASE ~(g = f /\ c = b)
    BY <1>2, <2>2 DEF IInv, BankInv
  <2> QED BY <2>1, <2>2
<1>4. ASSUME acked' = acked, NEW g \in Files, acked[g] # 0
      PROVE  \E c \in Banks : disk'[g][c].kind = "good"
  <2>1. PICK c \in Banks : disk[g][c].kind = "good"
    BY <1>4 DEF IInv, SomeSaveSurvives
  <2>2. CASE g = f
    <3>1. c # b
      BY <1>1, <2>1, <2>2
    <3> QED BY <1>2, <2>1, <2>2, <3>1
  <2>3. CASE g # f
    BY <1>2, <2>1, <2>3
  <2> QED BY <2>2, <2>3
<1> QED BY <1>3, <1>4 DEF SomeSaveSurvives

(* What SaveDone and Crash do to the disk. *)
LEMMA WriteStep ==
  ASSUME IInv, NEW bank, disk' = [disk EXCEPT ![op.file][p.bank] = bank]
  PROVE  /\ op.file \in Files /\ p.bank \in Banks
         /\ disk'[op.file][p.bank] = bank
         /\ \A c \in Banks : c # p.bank => disk'[op.file][c] = disk[op.file][c]
         /\ \A g \in Files : g # op.file => disk'[g] = disk[g]
<1>1. op.file \in Files /\ p.bank \in Banks
  BY DEF IInv, TypeOK, OpTypes
<1>2. DOMAIN disk = Files /\ DOMAIN disk[op.file] = Banks
  BY <1>1 DEF IInv, TypeOK
<1>3. /\ disk'[op.file][p.bank] = bank
      /\ \A c \in Banks : c # p.bank => disk'[op.file][c] = disk[op.file][c]
      /\ \A g \in Files : g # op.file => disk'[g] = disk[g]
  BY <1>1, <1>2, Zenon
<1> QED BY <1>1, <1>3

LEMMA SaveDoneInv == ASSUME IInv, SaveDone PROVE IInv'
<1> DEFINE bank == [kind |-> "good", count |-> p.count, save |-> op.save]
<1>1. TypeOK /\ TypeOK'
  BY SaveDoneType DEF IInv
<1>2. /\ p.open
      /\ disk' = [disk EXCEPT ![op.file][p.bank] = bank]
      /\ acked' = [acked EXCEPT ![op.file] = op.save]
      /\ p' = [p EXCEPT !.open = FALSE]
      /\ Finish("OK") /\ proc' = proc
  BY DEF SaveDone
<1>3. p.count # 0 /\ ~p'.open
  BY <1>1, <1>2 DEF IInv, OpenInv, TypeOK
<1>4. bank.kind = "good" /\ bank.count # 0
  BY <1>3
<1> HIDE DEF bank
<1>5. /\ op.file \in Files /\ p.bank \in Banks
      /\ disk'[op.file][p.bank] = bank
      /\ \A c \in Banks : c # p.bank => disk'[op.file][c] = disk[op.file][c]
      /\ \A g \in Files : g # op.file => disk'[g] = disk[g]
  BY <1>2, WriteStep, Zenon
<1>6. BankInv'
  BY <1>2, <1>4, <1>5, WrittenBank
<1>7. SomeSaveSurvives'
  <2>1. \A g \in Files : g # op.file => acked'[g] = acked[g]
    BY <1>1, <1>2, <1>5 DEF TypeOK
  <2> QED BY <1>4, <1>5, <2>1 DEF IInv, SomeSaveSurvives
<1>8. op'.operation = "NO_OP" /\ op'.file = op.file /\ op'.result = "OK"
  BY <1>1, <1>2, FinishType DEF McStatusCode
<1>9. OpInv' /\ OpenInv'
  BY <1>2, <1>3, <1>8 DEF IInv, OpInv, OpenInv
<1> QED BY <1>1, <1>6, <1>7, <1>9 DEF IInv

LEMMA CrashInv == ASSUME "torn" \notin Leftovers, IInv, Crash PROVE IInv'
<1>1. TypeOK /\ TypeOK'
  BY CrashType DEF IInv
<1>2. /\ acked' = acked
      /\ proc'.pc = "none" /\ op'.operation = "NO_OP" /\ ~p'.open
  BY DEF Crash, NoProc, NoOp, NoSave
<1>3. BankInv' /\ SomeSaveSurvives'
  <2>1. CASE p.open
    <3>1. PICK kind \in Leftovers : disk' = [disk EXCEPT ![op.file][p.bank] = Left(kind)]
      BY <2>1 DEF Crash
    <3>2. Left(kind).kind # "torn"
      BY <1>1, LeftType
    <3>3. p.count # 0
      BY <2>1 DEF IInv, OpenInv
    <3>4. Left(kind).kind = "good" <=> Left(kind).count # 0
      BY <3>3, LeftoversAssumption DEF Left
    <3>5. /\ disk'[op.file][p.bank] = Left(kind)
          /\ \A c \in Banks : c # p.bank => disk'[op.file][c] = disk[op.file][c]
          /\ \A g \in Files : g # op.file => disk'[g] = disk[g]
      BY <3>1, WriteStep, Zenon
    <3> QED BY <1>2, <2>1, <3>2, <3>4, <3>5, WrittenBank
  <2>2. CASE ~p.open
    BY <1>2, <2>2, SameDisk DEF Crash
  <2> QED BY <2>1, <2>2
<1>4. OpInv' /\ OpenInv'
  BY <1>2 DEF OpInv, OpenInv
<1> QED BY <1>1, <1>3, <1>4 DEF IInv

LEMMA DeleteInv == ASSUME IInv, NEW f \in Files, DeleteFile(f) PROVE IInv'
<1>1. TypeOK /\ TypeOK'
  BY DeleteType DEF IInv
<1>2. /\ \A b \in Banks : disk'[f][b] = NoBank
      /\ \A g \in Files : g # f => disk'[g] = disk[g] /\ acked'[g] = acked[g]
      /\ acked'[f] = 0
  BY <1>1, Zenon DEF DeleteFile, TypeOK
<1>3. BankInv'
  <2> SUFFICES ASSUME NEW g \in Files, NEW c \in Banks
               PROVE  /\ disk'[g][c].kind # "torn"
                      /\ disk'[g][c].kind = "good" <=> disk'[g][c].count # 0
    BY DEF BankInv
  <2>1. CASE g = f
    BY <1>2, <2>1 DEF NoBank
  <2>2. CASE g # f
    BY <1>2, <2>2 DEF IInv, BankInv
  <2> QED BY <2>1, <2>2
<1>4. SomeSaveSurvives'
  BY <1>2 DEF IInv, SomeSaveSurvives
<1>5. OpInv' /\ OpenInv'
  BY DEF DeleteFile, IInv, OpInv, OpenInv
<1> QED BY <1>1, <1>3, <1>4, <1>5 DEF IInv

LEMMA NextInv ==
  ASSUME "torn" \notin Leftovers
  PROVE  IInv /\ [Next]_vars => IInv'
<1> SUFFICES ASSUME IInv, [Next]_vars PROVE IInv'
  OBVIOUS
<1>1. CASE UNCHANGED vars
  BY <1>1 DEF vars, IInv, TypeOK, BankInv, OpInv, OpenInv, SomeSaveSurvives
<1>2. ASSUME NEW f \in Files,
             \/ AutoSave_Save(f) \/ AutoSave_Restore(f) \/ AutoSave_NoSave(f)
             \/ DeleteFile(f)
      PROVE  IInv'
  BY <1>2, RequestInv, DeleteInv
<1>3. CASE AutoSave_Check \/ MC_get_status \/ Crash
  BY <1>3, CheckInv, StatusInv, CrashInv
<1>4. CASE MC_run
  BY <1>4, SaveOpenInv, SaveOpenFailedInv, SaveDoneInv, SaveFailedInv, LoadInv
     DEF MC_run
<1> QED BY <1>1, <1>2, <1>3, <1>4 DEF Next

(* The banks, the operation under way and the open file fit together in    *)
(* every state, unless a crash can leave a full bank with a header only.   *)
THEOREM Invariant ==
  ASSUME "torn" \notin Leftovers
  PROVE  Spec => []IInv
BY InitInv, NextInv, PTL DEF Spec

(* Whatever a crash leaves of the bank being written, except a bank of     *)
(* full size with a new header and no more, and wherever it strikes: a     *)
(* file that was saved once has a whole save in one of its banks.          *)
THEOREM SaveSurvives ==
  ASSUME "torn" \notin Leftovers
  PROVE  Spec => []SomeSaveSurvives
<1>1. IInv => SomeSaveSurvives
  BY DEF IInv
<1> QED BY <1>1, Invariant, PTL

-----------------------------------------------------------------------------
(***************************************************************************)
(* The menus and a load choose the same bank, if a crash leaves a short    *)
(* bank or a whole one.                                                    *)
(***************************************************************************)
LEMMA BankFacts ==
  ASSUME KillInv, NEW f \in Files, NEW b \in Banks
  PROVE  /\ disk[f][b].kind \in {"none", "short", "good"}
         /\ disk[f][b].count \in 0 .. CountLimit - 1
         /\ disk[f][b].kind = "good" <=> disk[f][b].count # 0
<1>1. disk[f][b] \in BankTypes
  <2>1. disk \in [Files -> [Banks -> BankTypes]]
    BY DEF KillInv, IInv, TypeOK
  <2>2. disk[f] \in [Banks -> BankTypes]
    BY <2>1, Zenon
  <2> QED BY <2>2, Zenon
<1>2. disk[f][b].kind \in Kinds /\ disk[f][b].count \in Counts
  BY <1>1, Zenon DEF BankTypes
<1> QED BY <1>2 DEF Kinds, Counts, KillInv, IInv, BankInv, CountInv

LEMMA InitKill == Init => KillInv
<1> SUFFICES ASSUME Init PROVE KillInv
  OBVIOUS
<1>1. IInv
  BY InitInv
<1>2. CountInv
  <2>1. \A f \in Files, b \in Banks : disk[f][b] = NoBank
    BY DEF Init
  <2>2. ~p.open /\ 0 \in Banks /\ 1 \in Banks
    BY DEF Init, NoSave, Banks
  <2> QED BY <2>1, <2>2 DEF CountInv, NoBank
<1>3. PreviewInv
  BY DEF Init, PreviewInv, NoProc, Restored
<1> QED BY <1>1, <1>2, <1>3 DEF KillInv

LEMMA SameCounts ==
  ASSUME CountInv, disk' = disk, ~p'.open
  PROVE  CountInv'
BY DEF CountInv

(* The count of the next save differs from the other bank's. *)
LEMMA SaveOpenCount == ASSUME KillInv, SaveOpen PROVE CountInv'
<1> DEFINE f == op.file
           b == SaveBank(disk[f])
           k0 == disk[f][0].kind
           k1 == disk[f][1].kind
           c0 == disk[f][0].count
           c1 == disk[f][1].count
           n == SaveCount(disk[f])
           short == [kind |-> "short", count |-> 0, save |-> 0]
<1>1. f \in Files /\ b \in Banks /\ 0 \in Banks /\ 1 \in Banks
  BY SaveBankType DEF KillInv, IInv, TypeOK, OpTypes, Banks
<1>2. /\ k0 \in {"none", "short", "good"} /\ k1 \in {"none", "short", "good"}
      /\ c0 \in 0 .. CountLimit - 1 /\ c1 \in 0 .. CountLimit - 1
      /\ k0 = "good" <=> c0 # 0
      /\ k1 = "good" <=> c1 # 0
  BY <1>1, BankFacts
<1>3. /\ c1 = 1 => c0 = CountLimit - 1
      /\ c0 # 0 => c0 # c1
  BY <1>1 DEF KillInv, CountInv
<1>4. /\ p' = [count |-> n, bank |-> b, open |-> TRUE] /\ op' = op
      /\ disk' = [disk EXCEPT ![f][b] = short]
  BY DEF SaveOpen
<1>5. \/ k0 # "good" /\ b = 0 /\ n = 1
      \/ k0 = "good" /\ k1 = "good" /\ c1 > c0 /\ b = 0 /\ n = NextCount(c1)
      \/ k0 = "good" /\ b = 1 /\ n = NextCount(c0)
  <2>1. file_is_present(disk[f][0]) <=> k0 = "good"
    BY <1>2 DEF file_is_present
  <2>2. file_is_present(disk[f][1]) <=> k1 = "good"
    BY <1>2 DEF file_is_present
  <2>3. RecentBank(disk[f]) = IF k1 = "good" /\ c1 > c0 THEN 1 ELSE 0
    BY <2>2 DEF RecentBank
  <2>4. CASE k0 # "good"
    BY <2>1, <2>4 DEF SaveBank, SaveCount
  <2>5. CASE k0 = "good" /\ k1 = "good" /\ c1 > c0
    <3>1. RecentBank(disk[f]) = 1
      BY <2>3, <2>5
    <3>2. b = 0 /\ n = NextCount(disk[f][1].count)
      BY <2>1, <2>5, <3>1 DEF SaveBank, SaveCount
    <3> QED BY <2>5, <3>2
  <2>6. CASE k0 = "good" /\ ~(k1 = "good" /\ c1 > c0)
    <3>1. RecentBank(disk[f]) = 0
      BY <2>3, <2>6
    <3>2. b = 1 /\ n = NextCount(disk[f][0].count)
      BY <2>1, <2>6, <3>1 DEF SaveBank, SaveCount
    <3> QED BY <2>6, <3>2
  <2> QED BY <2>4, <2>5, <2>6
<1> HIDE DEF b, n, short
<1>6. /\ disk'[f][b] = short
      /\ \A c \in Banks : c # b => disk'[f][c] = disk[f][c]
      /\ \A g \in Files : g # f => disk'[g] = disk[g]
  <2>1. DOMAIN disk = Files /\ DOMAIN disk[f] = Banks
    BY <1>1 DEF KillInv, IInv, TypeOK
  <2> QED BY <1>1, <1>4, <2>1, Zenon
<1>7. short.count = 0 /\ short.kind = "short"
  BY DEF short
<1>8. /\ b = 0 => disk'[f][0].count = 0 /\ disk'[f][1].count = c1
      /\ b = 1 => disk'[f][1].count = 0 /\ disk'[f][0].count = c0
  BY <1>1, <1>6, <1>7
<1> HIDE DEF k0, k1, c0, c1
<1>9. /\ b = 0 => c1 # 1 /\ n # c1
      /\ b = 1 => n # c0 /\ (n = 1 => c0 = CountLimit - 1)
  BY <1>2, <1>3, <1>5, CountAssumption DEF NextCount
<1>10. /\ disk'[f][1].count = 1 => disk'[f][0].count = CountLimit - 1
       /\ disk'[f][0].count # 0 => disk'[f][0].count # disk'[f][1].count
  BY <1>1, <1>8, <1>9 DEF Banks
<1>11. /\ n # disk'[f][1 - b].count
       /\ b = 1 /\ n = 1 => disk'[f][0].count = CountLimit - 1
  BY <1>1, <1>8, <1>9 DEF Banks
<1>12. \A c \in Banks : disk'[f][c].kind # "zeros"
  BY <1>1, <1>6, <1>7 DEF KillInv, CountInv
<1>13. /\ op'.file = f /\ p'.bank = b /\ p'.count = n
  BY <1>4
<1>14. ASSUME NEW g \in Files
       PROVE  /\ \A c \in Banks : disk'[g][c].kind # "zeros"
              /\ disk'[g][1].count = 1 => disk'[g][0].count = CountLimit - 1
              /\ disk'[g][0].count # 0 => disk'[g][0].count # disk'[g][1].count
  <2>1. CASE g = f
    BY <1>10, <1>12, <2>1
  <2>2. CASE g # f
    <3>1. disk'[g] = disk[g]
      BY <1>6, <2>2
    <3> QED BY <3>1 DEF KillInv, CountInv
  <2> QED BY <2>1, <2>2
<1> HIDE DEF f
<1> QED BY <1>11, <1>13, <1>14 DEF CountInv

(* The bank being written gets the count chosen for it, or none. *)
LEMMA WrittenCount ==
  ASSUME KillInv, p.open, ~p'.open, NEW bank,
         bank.kind \in {"short", "good"}, bank.count \in {0, p.count},
         disk'[op.file][p.bank] = bank,
         \A c \in Banks : c # p.bank => disk'[op.file][c] = disk[op.file][c],
         \A g \in Files : g # op.file => disk'[g] = disk[g]
  PROVE  CountInv'
<1> DEFINE f == op.file
           b == p.bank
           c0 == disk[f][0].count
           c1 == disk[f][1].count
           n == p.count
<1>1. /\ f \in Files /\ b \in Banks /\ 0 \in Banks /\ 1 \in Banks
      /\ disk[f][b].kind = "short"
  BY DEF KillInv, IInv, TypeOK, OpTypes, OpenInv, Banks
<1>2. /\ disk[f][b].count = 0
      /\ c0 \in 0 .. CountLimit - 1 /\ c1 \in 0 .. CountLimit - 1
  BY <1>1, BankFacts
<1>3. /\ c1 = 1 => c0 = CountLimit - 1
      /\ n # disk[f][1 - b].count
      /\ b = 1 /\ n = 1 => c0 = CountLimit - 1
  BY <1>1 DEF KillInv, CountInv
<1>4. /\ b = 0 => c0 = 0 /\ n # c1 /\ disk'[f][0] = bank /\ disk'[f][1] = disk[f][1]
      /\ b = 1 => c1 = 0 /\ n # c0 /\ disk'[f][1] = bank /\ disk'[f][0] = disk[f][0]
  BY <1>1, <1>2, <1>3
<1>5. /\ disk'[f][1].count = 1 => disk'[f][0].count = CountLimit - 1
      /\ disk'[f][0].count # 0 => disk'[f][0].count # disk'[f][1].count
  BY <1>1, <1>2, <1>3, <1>4, CountAssumption DEF Banks
<1>6. \A c \in Banks : disk'[f][c].kind # "zeros"
  BY <1>1 DEF KillInv, CountInv
<1>7. ASSUME NEW g \in Files
      PROVE  /\ \A c \in Banks : disk'[g][c].kind # "zeros"
             /\ disk'[g][1].count = 1 => disk'[g][0].count = CountLimit - 1
             /\ disk'[g][0].count # 0 => disk'[g][0].count # disk'[g][1].count
  <2>1. CASE g = f
    BY <1>5, <1>6, <2>1
  <2>2. CASE g # f
    <3>1. disk'[g] = disk[g]
      BY <2>2
    <3> QED BY <3>1 DEF KillInv, CountInv
  <2> QED BY <2>1, <2>2
<1> QED BY <1>7 DEF CountInv

LEMMA CountStep ==
  ASSUME Leftovers \subseteq {"short", "good"}, KillInv, [Next]_vars
  PROVE  CountInv'
<1>1. CASE UNCHANGED vars
  BY <1>1 DEF vars, KillInv, CountInv
<1>2. ASSUME NEW f \in Files,
             AutoSave_Save(f) \/ AutoSave_Restore(f) \/ AutoSave_NoSave(f)
      PROVE  CountInv'
  BY <1>2, SameCounts DEF KillInv, AutoSave_Save, AutoSave_Restore, AutoSave_NoSave,
          MC_save, MC_load
<1>3. CASE AutoSave_Check
  <2>1. disk' = disk /\ p' = p /\ op.result # "BUSY" /\ proc.pc = "wait"
    BY <1>3 DEF AutoSave_Check, AutoSave_Done, AutoSave_Error
  <2>2. ~p.open
    BY <2>1 DEF KillInv, IInv, OpInv, OpenInv
  <2> QED BY <2>1, <2>2, SameCounts DEF KillInv
<1>4. CASE MC_get_status
  BY <1>4, SameCounts DEF KillInv, MC_get_status
<1>5. CASE SaveOpen
  BY <1>5, SaveOpenCount
<1>6. CASE SaveDone
  <2> DEFINE bank == [kind |-> "good", count |-> p.count, save |-> op.save]
  <2>1. p.open /\ disk' = [disk EXCEPT ![op.file][p.bank] = bank]
    BY <1>6 DEF SaveDone
  <2>2. ~p'.open
    BY <1>6 DEF SaveDone, KillInv, IInv, TypeOK
  <2>3. bank.kind = "good" /\ bank.count = p.count
    OBVIOUS
  <2> HIDE DEF bank
  <2>4. /\ disk'[op.file][p.bank] = bank
        /\ \A c \in Banks : c # p.bank => disk'[op.file][c] = disk[op.file][c]
        /\ \A g \in Files : g # op.file => disk'[g] = disk[g]
    BY <2>1, WriteStep, Zenon DEF KillInv
  <2> QED BY <2>1, <2>2, <2>3, <2>4, WrittenCount
<1>7. CASE SaveOpenFailed \/ SaveFailed
  <2>1. disk' = disk /\ ~p'.open
    BY <1>7 DEF SaveOpenFailed, SaveFailed, KillInv, IInv, TypeOK
  <2> QED BY <2>1, SameCounts DEF KillInv
<1>8. CASE LoadNoFile \/ LoadFailed \/ LoadBad \/ LoadGood
  <2>1. op.operation = "LOAD" /\ disk' = disk /\ p' = p
    BY <1>8 DEF LoadNoFile, LoadFailed, LoadBad, LoadGood, Loading
  <2>2. ~p.open
    BY <2>1 DEF KillInv, IInv, OpenInv
  <2> QED BY <2>1, <2>2, SameCounts DEF KillInv
<1>9. CASE Crash
  <2>1. ~p'.open
    BY <1>9 DEF Crash, NoSave
  <2>2. CASE p.open
    <3>1. PICK kind \in Leftovers : disk' = [disk EXCEPT ![op.file][p.bank] = Left(kind)]
      BY <1>9, <2>2 DEF Crash
    <3>2. /\ disk'[op.file][p.bank] = Left(kind)
          /\ \A c \in Banks : c # p.bank => disk'[op.file][c] = disk[op.file][c]
          /\ \A g \in Files : g # op.file => disk'[g] = disk[g]
      BY <3>1, WriteStep, Zenon DEF KillInv
    <3>3. Left(kind).kind \in {"short", "good"} /\ Left(kind).count \in {0, p.count}
      BY DEF Left
    <3> QED BY <2>1, <2>2, <3>2, <3>3, WrittenCount
  <2>3. CASE ~p.open
    BY <1>9, <2>1, <2>3, SameCounts DEF KillInv, Crash
  <2> QED BY <2>2, <2>3
<1>10. ASSUME NEW f \in Files, DeleteFile(f) PROVE CountInv'
  <2>1. /\ \A b \in Banks : disk'[f][b] = NoBank
        /\ \A g \in Files : g # f => disk'[g] = disk[g]
        /\ ~p'.open
    BY <1>10, Zenon DEF DeleteFile, KillInv, IInv, TypeOK
  <2>2. 0 \in Banks /\ 1 \in Banks
    BY DEF Banks
  <2> QED BY <2>1, <2>2 DEF KillInv, CountInv, NoBank
<1> QED BY <1>1, <1>2, <1>3, <1>4, <1>5, <1>6, <1>7, <1>8, <1>9, <1>10
        DEF Next, MC_run

(* With both banks whole the counts differ, so that > and <= agree; with   *)
(* one whole bank, the other is not even taken for a bank.                 *)
LEMMA SameBank ==
  ASSUME KillInv, NEW f \in Files, disk[f][1].kind # "short",
         file_is_present(disk[f][0])
  PROVE  LoadBank(disk[f]) = RecentBank(disk[f])
<1> DEFINE k0 == disk[f][0].kind
           k1 == disk[f][1].kind
           c0 == disk[f][0].count
           c1 == disk[f][1].count
<1>1. 0 \in Banks /\ 1 \in Banks
  BY DEF Banks
<1>2. /\ k0 = "good" /\ c0 \in Nat \ {0} /\ c1 \in Nat
      /\ k1 \in {"none", "good"}
  BY <1>1, BankFacts DEF file_is_present
<1>3. c0 # c1
  BY <1>2 DEF KillInv, CountInv
<1>4. LoadBank(disk[f]) = IF k1 = "good" THEN (IF c0 <= c1 THEN 1 ELSE 0) ELSE 0
  BY <1>2 DEF LoadBank, Verified
<1>5. RecentBank(disk[f]) = IF k1 = "good" /\ c1 > c0 THEN 1 ELSE 0
  BY <1>2 DEF RecentBank, file_is_present
<1> HIDE DEF k0, k1, c0, c1
<1> QED BY <1>2, <1>3, <1>4, <1>5

LEMMA ScanFacts ==
  ASSUME NEW f \in Files
  PROVE  pc_update_card[f].preview = IF file_is_present(disk[f][0])
                                     THEN disk[f][RecentBank(disk[f])].save
                                     ELSE [mc_files[f] EXCEPT !.present = FALSE].preview
BY DEF pc_update_card

LEMMA CheckPreview == ASSUME KillInv, AutoSave_Check PROVE PreviewInv'
<1>1. /\ proc.pc = "wait"
      /\ proc' = [proc EXCEPT !.pc = "none"]
      /\ UNCHANGED <<op, disk, mc_files, buffer>>
      /\ \/ op.result = "OK" /\ told' = [told EXCEPT !.what = "done"]
         \/ told' = [told EXCEPT !.what = "no-save"]
         \/ told' = [told EXCEPT !.what = "error"]
  BY DEF AutoSave_Check, AutoSave_Done, AutoSave_Error
<1>2. told.mode = proc.mode /\ told.file = proc.file
  BY <1>1 DEF KillInv, PreviewInv
<1>3. proc'.pc = "none" /\ told'.mode = told.mode /\ told'.file = told.file
  BY <1>1 DEF KillInv, IInv, TypeOK, ProcTypes, ToldTypes
<1>4. Restored' => op.result = "OK" /\ proc.mode = "restore"
  <2>1. told'.what = "done" => op.result = "OK"
    BY <1>1 DEF KillInv, IInv, TypeOK, ToldTypes
  <2> QED BY <1>2, <1>3, <2>1 DEF Restored
<1>5. Restored' => Shown(told'.file)
  BY <1>1, <1>2, <1>3, <1>4 DEF KillInv, PreviewInv
<1>6. Restored' => Shown(told.file)'
  BY <1>1, <1>5 DEF Shown
<1> QED BY <1>3, <1>6 DEF PreviewInv

(* Looking at the card again shows the bank that was loaded. *)
LEMMA StatusPreview == ASSUME KillInv, MC_get_status PROVE PreviewInv'
<1>1. UNCHANGED <<proc, told, op, disk, buffer>> /\ mc_files' = pc_update_card
  BY DEF MC_get_status
<1>2. proc.file \in Files /\ told.file \in Files
  BY DEF KillInv, IInv, TypeOK, ProcTypes, ToldTypes
<1>3. Shown(proc.file) => Shown(proc.file)'
  <2>1. Shown(proc.file) => mc_files'[proc.file].preview = buffer
    <3>1. [mc_files[proc.file] EXCEPT !.present = FALSE].preview
            = mc_files[proc.file].preview
      BY <1>2 DEF KillInv, IInv, TypeOK, CardTypes
    <3> QED BY <1>1, <1>2, <3>1, ScanFacts DEF Shown
  <2> QED BY <1>1, <2>1 DEF Shown
<1>4. Shown(told.file) => Shown(told.file)'
  <2>1. Shown(told.file) => mc_files'[told.file].preview = buffer
    <3>1. [mc_files[told.file] EXCEPT !.present = FALSE].preview
            = mc_files[told.file].preview
      BY <1>2 DEF KillInv, IInv, TypeOK, CardTypes
    <3> QED BY <1>1, <1>2, <3>1, ScanFacts DEF Shown
  <2> QED BY <1>1, <2>1 DEF Shown
<1> QED BY <1>1, <1>3, <1>4 DEF KillInv, PreviewInv, Restored

(* MC_run works for a waiting process; only a load gives it a save. *)
LEMMA RunPreview ==
  ASSUME KillInv, MC_run, ~LoadGood
  PROVE  PreviewInv'
<1>1. UNCHANGED <<proc, told>> /\ op.operation # "NO_OP"
  BY DEF MC_run, SaveOpen, SaveOpenFailed, SaveDone, SaveFailed, LoadNoFile,
         LoadFailed, LoadBad, LoadGood, Loading, KillInv, IInv, OpenInv
<1>2. proc.pc = "wait" /\ op.result = "BUSY"
  BY <1>1 DEF KillInv, IInv, OpInv
<1>3. told.what = "nothing" /\ told.mode = proc.mode /\ told.file = proc.file
  BY <1>2 DEF KillInv, PreviewInv
<1>4. proc.mode = "restore" => op'.result # "OK"
  <2>1. CASE SaveOpen
    BY <1>2, <2>1 DEF SaveOpen
  <2>2. CASE SaveDone
    <3>1. proc.mode = "save"
      BY <1>2, <2>2 DEF SaveDone, KillInv, IInv, OpInv, OpenInv
    <3> QED BY <3>1
  <2>3. ASSUME ~SaveOpen, ~SaveDone PROVE op'.result # "OK"
    <3>1. PICK r \in McStatusCode \ {"OK"} : Finish(r)
      <4>1. \A banks : BadResults(banks) \subseteq McStatusCode \ {"OK"}
        BY DEF BadResults, McStatusCode
      <4> QED BY <2>3, <4>1 DEF MC_run, SaveOpenFailed, SaveFailed, LoadNoFile,
                                 LoadFailed, LoadBad, McStatusCode
    <3> QED BY <3>1, FinishType DEF KillInv, IInv
  <2> QED BY <2>1, <2>2, <2>3
<1> QED BY <1>1, <1>3, <1>4 DEF PreviewInv, Restored

LEMMA LoadPreview == ASSUME KillInv, LoadGood PROVE PreviewInv'
<1> DEFINE f == op.file
           b == LoadBank(disk[f])
           bank == disk[f][b]
           card == pc_update_card
<1>1. /\ op.operation = "LOAD" /\ file_is_present(disk[f][0])
      /\ disk[f][1].kind # "short"
      /\ buffer' = bank.save
      /\ mc_files' = [card EXCEPT ![f].count = bank.count, ![f].bank = b]
      /\ UNCHANGED <<proc, told, disk>>
  BY DEF LoadGood, Loading, ReadsShortBank
<1>2. /\ f \in Files /\ f = proc.file /\ proc.pc = "wait"
  BY <1>1 DEF KillInv, IInv, TypeOK, OpTypes, OpInv
<1>3. b = RecentBank(disk[f])
  BY <1>1, <1>2, SameBank
<1>4. card[f].preview = bank.save
  BY <1>1, <1>2, <1>3, ScanFacts
<1>5. card \in [Files -> CardTypes]
  BY CardType DEF KillInv, IInv
<1>6. mc_files'[f].preview = bank.save
  <2> HIDE DEF f, b, bank, card
  <2> QED BY <1>1, <1>2, <1>4, <1>5 DEF CardTypes
<1>7. Shown(proc.file)'
  <2>1. proc'.file = f /\ disk' = disk
    BY <1>1, <1>2
  <2>2. mc_files'[f].preview = buffer' /\ disk[f][RecentBank(disk[f])].save = buffer'
    BY <1>1, <1>3, <1>6
  <2> HIDE DEF f
  <2> QED BY <2>1, <2>2 DEF Shown
<1>8. told.what = "nothing" /\ told.mode = proc.mode /\ told.file = proc.file
  BY <1>2 DEF KillInv, PreviewInv
<1> QED BY <1>1, <1>2, <1>7, <1>8 DEF PreviewInv, Restored

LEMMA DeletePreview == ASSUME KillInv, NEW f \in Files, DeleteFile(f) PROVE PreviewInv'
<1>1. /\ UNCHANGED <<proc, told, op, mc_files, buffer>>
      /\ disk' = [disk EXCEPT ![f] = [b \in Banks |-> NoBank]]
  BY DEF DeleteFile
<1>2. /\ \A b \in Banks : disk'[f][b] = NoBank
      /\ \A g \in Files : g # f => disk'[g] = disk[g]
  BY <1>1, Zenon DEF KillInv, IInv, TypeOK
<1>3. ~file_is_present(disk'[f][0])
  BY <1>2 DEF file_is_present, NoBank, Banks
<1>4. proc.file \in Files /\ told.file \in Files
  BY DEF KillInv, IInv, TypeOK, ProcTypes, ToldTypes
<1>5. Shown(proc.file) => Shown(proc.file)'
  BY <1>1, <1>2, <1>3, <1>4 DEF Shown
<1>6. Shown(told.file) => Shown(told.file)'
  BY <1>1, <1>2, <1>3, <1>4 DEF Shown
<1> QED BY <1>1, <1>5, <1>6 DEF KillInv, PreviewInv, Restored

LEMMA NextKill ==
  ASSUME Leftovers \subseteq {"short", "good"}
  PROVE  KillInv /\ [Next]_vars => KillInv'
<1> SUFFICES ASSUME KillInv, [Next]_vars PROVE KillInv'
  OBVIOUS
<1>1. IInv'
  BY NextInv DEF KillInv
<1>2. CountInv'
  BY CountStep
<1>3. PreviewInv'
  <2>1. CASE UNCHANGED vars
    BY <2>1 DEF vars, KillInv, PreviewInv, Restored, Shown
  <2>2. ASSUME NEW f \in Files, AutoSave_Save(f) \/ AutoSave_Restore(f)
        PROVE  PreviewInv'
    BY <2>2 DEF AutoSave_Save, AutoSave_Restore, MC_save, MC_load, PreviewInv, Restored
  <2>3. ASSUME NEW f \in Files, AutoSave_NoSave(f) PROVE PreviewInv'
    BY <2>3 DEF AutoSave_NoSave, PreviewInv, Restored
  <2>4. CASE Crash
    BY <2>4 DEF Crash, NoProc, PreviewInv, Restored
  <2>5. CASE MC_run
    BY <2>5, RunPreview, LoadPreview
  <2> QED BY <2>1, <2>2, <2>3, <2>4, <2>5, CheckPreview, StatusPreview, DeletePreview
          DEF Next
<1> QED BY <1>1, <1>2, <1>3 DEF KillInv

(* The previews and the save counts agree in every state, if the game can  *)
(* only be killed.                                                         *)
THEOREM KillInvariant ==
  ASSUME Leftovers \subseteq {"short", "good"}
  PROVE  Spec => []KillInv
BY InitKill, NextKill, PTL DEF Spec

(* Whenever the game is killed, and however often the save count wraps:    *)
(* what a restore delivers is what the menus show for the file.            *)
THEOREM PreviewIsLoaded ==
  ASSUME Leftovers \subseteq {"short", "good"}
  PROVE  Spec => []PreviewMatchesLoad
<1>1. KillInv => PreviewMatchesLoad
  BY DEF KillInv, PreviewInv, PreviewMatchesLoad, Shown
<1> QED BY <1>1, KillInvariant, PTL

-----------------------------------------------------------------------------
(***************************************************************************)
(* Without faults a load delivers the newest save.                         *)
(***************************************************************************)
(* Bank b holds the newest save of file f, and its count shows it. *)
Newest(f, b) ==
  /\ disk[f][b].kind = "good" /\ disk[f][b].save = acked[f]
  /\ disk[f][1 - b].count < disk[f][b].count

Writing(f, b) == p.open /\ op.file = f /\ p.bank = b

(* The banks of a file take turns. *)
Turns(f) ==
  /\ acked[f] <= issued
  /\ \A b \in Banks : disk[f][b].count <= acked[f]
  /\ acked[f] = 0 => \A b \in Banks : disk[f][b].kind = "none" \/ Writing(f, b)
  /\ acked[f] # 0 => /\ \E b \in Banks : Newest(f, b)
                     /\ disk[f][0].kind = "good" \/ Writing(f, 0)

(* The save under way is newer than every other one. *)
SaveTurn ==
  /\ op.operation = "SAVE" => op.save = issued /\ \A f \in Files : acked[f] < issued
  /\ p.open => /\ p.count <= acked[op.file] + 1
               /\ disk[op.file][1 - p.bank].count < p.count
               /\ p.bank = 1 => acked[op.file] # 0

(* What was loaded is the newest save. *)
LoadTurn ==
  /\ proc.pc = "wait" =>
       /\ told.what = "nothing" /\ told.mode = proc.mode /\ told.file = proc.file
       /\ proc.mode = "restore" /\ op.result = "OK" => buffer >= acked[proc.file]
  /\ LoadedNotOlder

TurnsInv == (\A f \in Files : Turns(f)) /\ SaveTurn /\ LoadTurn

QuietInv == TypeOK /\ (Quiet => IInv /\ TurnsInv)

LEMMA TurnFacts ==
  ASSUME IInv
  PROVE  /\ issued \in Nat
         /\ \A f \in Files : acked[f] \in Nat
         /\ \A f \in Files, b \in Banks :
              /\ disk[f][b].count \in Counts /\ disk[f][b].count \in Nat
              /\ disk[f][b].count < CountLimit
              /\ disk[f][b].kind = "good" <=> disk[f][b].count # 0
<1>1. TypeOK
  BY DEF IInv
<1>2. issued \in Nat
  BY <1>1, BoundsAssumption DEF TypeOK, SaveIds
<1>3. \A f \in Files : acked[f] \in Nat
  BY <1>1, BoundsAssumption DEF TypeOK, SaveIds
<1>4. ASSUME NEW f \in Files, NEW b \in Banks
      PROVE  /\ disk[f][b].count \in Counts /\ disk[f][b].count \in Nat
             /\ disk[f][b].count < CountLimit
             /\ disk[f][b].kind = "good" <=> disk[f][b].count # 0
  <2>1. disk[f][b] \in BankTypes
    <3>1. disk \in [Files -> [Banks -> BankTypes]]
      BY <1>1 DEF TypeOK
    <3>2. disk[f] \in [Banks -> BankTypes]
      BY <3>1, Zenon
    <3> QED BY <3>2, Zenon
  <2>2. disk[f][b].count \in Counts
    BY <2>1, Zenon DEF BankTypes
  <2>3. disk[f][b].count \in Nat /\ disk[f][b].count < CountLimit
    BY <2>2, CountAssumption DEF Counts
  <2> QED BY <2>2, <2>3 DEF IInv, BankInv
<1> QED BY <1>2, <1>3, <1>4

LEMMA BanksAre == 0 \in Banks /\ 1 \in Banks /\ \A b \in Banks : b \in {0, 1} /\ 1 - b \in Banks /\ 1 - b # b
BY DEF Banks

(* Steps that leave the disk alone, while no bank is open. *)
LEMMA SameTurns ==
  ASSUME IInv, \A f \in Files : Turns(f), UNCHANGED <<disk, acked>>,
         issued' \in Nat, issued' >= issued, ~p.open
  PROVE  \A f \in Files : Turns(f)'
<1> SUFFICES ASSUME NEW f \in Files PROVE Turns(f)'
  OBVIOUS
<1>1. acked[f] <= issued'
  BY TurnFacts DEF Turns
<1>2. \A b \in Banks : Newest(f, b) => Newest(f, b)'
  BY DEF Newest
<1> QED BY <1>1, <1>2 DEF Turns, Writing

LEMMA RequestTurns ==
  ASSUME IInv, TurnsInv, NEW f \in Files,
         AutoSave_Save(f) \/ AutoSave_Restore(f) \/ AutoSave_NoSave(f)
  PROVE  TurnsInv'
<1>1. /\ UNCHANGED <<disk, acked, p>> /\ ~p.open
      /\ issued' \in Nat /\ issued' >= issued
  BY TurnFacts DEF AutoSave_Save, AutoSave_Restore, AutoSave_NoSave
<1>2. \A g \in Files : Turns(g)'
  BY <1>1, SameTurns DEF TurnsInv
<1>3. CASE AutoSave_Save(f)
  <2>1. /\ issued' = issued + 1 /\ op'.save = issued' /\ ~p'.open
        /\ op'.result = "BUSY" /\ told'.what = "nothing" /\ told'.mode = proc'.mode
        /\ told'.file = proc'.file
    BY <1>1, <1>3 DEF AutoSave_Save, MC_save
  <2>2. \A g \in Files : acked'[g] < issued'
    BY <1>1, <2>1, TurnFacts DEF TurnsInv, Turns
  <2> QED BY <1>2, <2>1, <2>2 DEF TurnsInv, SaveTurn, LoadTurn, LoadedNotOlder, Restored
<1>4. CASE AutoSave_Restore(f)
  <2>1. /\ op'.operation = "LOAD" /\ op'.result = "BUSY" /\ told'.what = "nothing"
        /\ told'.mode = proc'.mode /\ told'.file = proc'.file /\ ~p'.open
    BY <1>1, <1>4 DEF AutoSave_Restore, MC_load
  <2> QED BY <1>2, <2>1 DEF TurnsInv, SaveTurn, LoadTurn, LoadedNotOlder, Restored
<1>5. CASE AutoSave_NoSave(f)
  <2>1. op' = op /\ issued' = issued /\ proc' = proc /\ proc.pc = "none" /\ told'.what = "no-save"
    BY <1>5 DEF AutoSave_NoSave
  <2> QED BY <1>1, <1>2, <2>1 DEF TurnsInv, SaveTurn, LoadTurn, LoadedNotOlder, Restored
<1> QED BY <1>3, <1>4, <1>5

LEMMA CheckTurns ==
  ASSUME IInv, TurnsInv, AutoSave_Check
  PROVE  TurnsInv'
<1>1. /\ UNCHANGED <<op, p, mc_files, disk, buffer, issued, acked, faults>>
      /\ proc.pc = "wait" /\ op.result # "BUSY"
      /\ proc' = [proc EXCEPT !.pc = "none"]
      /\ \/ op.result = "OK" /\ told' = [told EXCEPT !.what = "done"]
         \/ told' = [told EXCEPT !.what = "no-save"]
         \/ told' = [told EXCEPT !.what = "error"]
  BY DEF AutoSave_Check, AutoSave_Done, AutoSave_Error
<1>2. op.operation = "NO_OP" /\ ~p.open
  BY <1>1 DEF IInv, OpInv, OpenInv
<1>3. \A f \in Files : Turns(f)'
  BY <1>1, <1>2, SameTurns, TurnFacts DEF TurnsInv
<1>4. /\ proc'.pc = "none" /\ told'.mode = told.mode /\ told'.file = told.file
      /\ told'.what = "done" => op.result = "OK"
  BY <1>1 DEF IInv, TypeOK, ProcTypes, ToldTypes
<1>5. LoadTurn'
  BY <1>1, <1>4 DEF TurnsInv, LoadTurn, LoadedNotOlder, Restored
<1> QED BY <1>1, <1>2, <1>3, <1>5 DEF TurnsInv, SaveTurn

(* The newest bank is the one the code takes for the most recent one. *)
LEMMA NewestIsRecent ==
  ASSUME IInv, NEW f \in Files, NEW b \in Banks, Newest(f, b), disk[f][0].kind = "good"
  PROVE  RecentBank(disk[f]) = b
<1>1. b \in {0, 1} /\ disk[f][0].count \in Nat /\ disk[f][1].count \in Nat
  BY BanksAre, TurnFacts
<1> QED BY <1>1 DEF Newest, RecentBank, file_is_present

LEMMA NewestIsLoaded ==
  ASSUME IInv, NEW f \in Files, NEW b \in Banks, Newest(f, b)
  PROVE  LoadBank(disk[f]) = b
<1>1. b \in {0, 1} /\ disk[f][0].count \in Nat /\ disk[f][1].count \in Nat
  BY BanksAre, TurnFacts
<1> QED BY <1>1 DEF Newest, LoadBank, Verified

(* A save goes to the bank that does not hold the newest one, with a count *)
(* one larger: no count wraps.                                             *)
LEMMA SaveOpenTurns ==
  ASSUME IInv, TurnsInv, issued < CountLimit, SaveOpen
  PROVE  TurnsInv'
<1> SUFFICES ASSUME NEW f \in Files, f = op.file, NEW b \in Banks, b = SaveBank(disk[f]),
                    NEW n, n = SaveCount(disk[f]),
                    NEW short, short = [kind |-> "short", count |-> 0, save |-> 0]
             PROVE  TurnsInv'
  BY SaveBankType DEF IInv, TypeOK, OpTypes
<1>1. /\ op.operation = "SAVE" /\ ~p.open
      /\ p' = [count |-> n, bank |-> b, open |-> TRUE]
      /\ disk' = [disk EXCEPT ![f][b] = short]
      /\ UNCHANGED <<proc, told, op, buffer, issued, acked>>
  BY DEF SaveOpen
<1>2. TypeOK /\ b \in {0, 1}
  BY BanksAre DEF IInv
<1>3. short.kind = "short" /\ short.count = 0
  OBVIOUS
<1>4. /\ disk'[f][b] = short
      /\ \A c \in Banks : c # b => c = 1 - b /\ disk'[f][c] = disk[f][c]
      /\ \A g \in Files : g # f => disk'[g] = disk[g]
  <2>1. DOMAIN disk = Files /\ DOMAIN disk[f] = Banks
    BY <1>2 DEF TypeOK
  <2>2. /\ disk'[f][b] = short
        /\ \A c \in Banks : c # b => disk'[f][c] = disk[f][c]
        /\ \A g \in Files : g # f => disk'[g] = disk[g]
    BY <1>1, <2>1, Zenon
  <2>3. \A c \in Banks : c # b => c = 1 - b
    BY DEF Banks
  <2> QED BY <2>2, <2>3
<1>5. Turns(f) /\ acked[f] < issued /\ acked[f] \in Nat /\ issued \in Nat
  BY <1>1, <1>2, TurnFacts DEF TurnsInv, SaveTurn
<1>6. \/ acked[f] = 0 /\ b = 0 /\ n = 1 /\ disk[f][1].count = 0
      \/ /\ acked[f] # 0 /\ disk[f][0].kind = "good" /\ Newest(f, 1 - b)
         /\ n = disk[f][1 - b].count + 1
  <2>1. CASE acked[f] = 0
    <3>1. disk[f][0].kind = "none" /\ disk[f][1].kind = "none"
      BY <1>1, <1>5, <2>1, BanksAre DEF Turns, Writing
    <3>2. disk[f][1].count = 0
      BY <1>2, <3>1, BanksAre, TurnFacts
    <3> QED BY <2>1, <3>1, <3>2 DEF SaveBank, SaveCount, file_is_present
  <2>2. CASE acked[f] # 0
    <3>1. PICK c \in Banks : Newest(f, c)
      BY <1>5, <2>2 DEF Turns
    <3>2. disk[f][0].kind = "good"
      BY <1>1, <1>5, <2>2 DEF Turns, Writing
    <3>3. RecentBank(disk[f]) = c
      BY <1>2, <3>1, <3>2, NewestIsRecent
    <3>4. b = 1 - c /\ n = NextCount(disk[f][c].count)
      BY <3>2, <3>3 DEF SaveBank, SaveCount, file_is_present
    <3>5. disk[f][c].count <= acked[f] /\ disk[f][c].count \in Nat
      BY <1>2, <1>5, TurnFacts DEF Turns
    <3>6. n = disk[f][c].count + 1
      BY <1>5, <3>4, <3>5, CountAssumption DEF NextCount
    <3>7. c = 1 - b
      BY <3>4, BanksAre
    <3> QED BY <2>2, <3>1, <3>2, <3>6, <3>7
  <2> QED BY <2>1, <2>2
<1>7. p'.open /\ p'.count = n /\ p'.bank = b /\ op' = op
  BY <1>1
<1>8. /\ 1 - b \in Banks /\ 1 - b # b /\ disk'[f][1 - b] = disk[f][1 - b]
      /\ disk[f][1 - b].count \in Nat /\ disk[f][1 - b].count <= acked[f]
  BY <1>2, <1>4, <1>5, BanksAre, TurnFacts DEF Turns
<1>9. SaveTurn'
  <2>1. n <= acked[f] + 1 /\ disk[f][1 - b].count < n /\ (b = 1 => acked[f] # 0)
    BY <1>5, <1>6, <1>8
  <2> QED BY <1>1, <1>7, <1>8, <2>1 DEF TurnsInv, SaveTurn
<1>10. Turns(f)'
  <2>1. \A c \in Banks : disk'[f][c].count <= acked[f]
    BY <1>2, <1>3, <1>4, <1>5 DEF Turns
  <2>2. acked[f] = 0 => \A c \in Banks : disk'[f][c].kind = "none" \/ Writing(f, c)'
    <3> SUFFICES ASSUME acked[f] = 0, NEW c \in Banks, c # b PROVE disk'[f][c].kind = "none"
      BY <1>7 DEF Writing
    <3> QED BY <1>1, <1>4, <1>5 DEF Turns, Writing
  <2>3. ASSUME acked[f] # 0
        PROVE  /\ \E c \in Banks : Newest(f, c)'
               /\ disk'[f][0].kind = "good" \/ Writing(f, 0)'
    <3>1. disk[f][0].kind = "good" /\ Newest(f, 1 - b)
      BY <1>6, <2>3
    <3>2. disk'[f][1 - (1 - b)].count < disk'[f][1 - b].count
      <4>1. 1 - (1 - b) = b /\ disk'[f][b].count = 0
        BY <1>2, <1>3, <1>4
      <4>2. disk[f][1 - b].count # 0
        BY <1>2, <1>8, <3>1, TurnFacts DEF Newest
      <4> QED BY <1>8, <4>1, <4>2
    <3>3. Newest(f, 1 - b)'
      BY <1>1, <1>8, <3>1, <3>2 DEF Newest
    <3>4. disk'[f][0].kind = "good" \/ Writing(f, 0)'
      BY <1>4, <1>7, <3>1, BanksAre DEF Writing
    <3> QED BY <1>8, <3>3, <3>4
  <2> QED BY <1>1, <1>5, <2>1, <2>2, <2>3 DEF Turns
<1>11. ASSUME NEW g \in Files, g # f PROVE Turns(g)'
  <2>1. disk'[g] = disk[g] /\ Turns(g)
    BY <1>4, <1>11 DEF TurnsInv
  <2>2. \A c \in Banks : Newest(g, c) => Newest(g, c)'
    BY <1>1, <2>1 DEF Newest
  <2> QED BY <1>1, <2>1, <2>2 DEF Turns, Writing
<1>12. LoadTurn'
  BY <1>1 DEF TurnsInv, LoadTurn, LoadedNotOlder, Restored
<1> QED BY <1>9, <1>10, <1>11, <1>12 DEF TurnsInv

(* The save that is done is the newest one, with the largest count. *)
LEMMA SaveDoneTurns ==
  ASSUME IInv, TurnsInv, SaveDone
  PROVE  TurnsInv'
<1> SUFFICES ASSUME NEW f \in Files, f = op.file, NEW b \in Banks, b = p.bank,
                    NEW bank, bank = [kind |-> "good", count |-> p.count, save |-> op.save]
             PROVE  TurnsInv'
  BY DEF IInv, TypeOK, OpTypes
<1>1. /\ p.open /\ op.operation = "SAVE" /\ proc.pc = "wait" /\ proc.mode = "save"
      /\ disk' = [disk EXCEPT ![f][b] = bank]
      /\ p' = [p EXCEPT !.open = FALSE]
      /\ op' = [op EXCEPT !.operation = "NO_OP", !.result = "OK"]
      /\ acked' = [acked EXCEPT ![f] = op.save]
      /\ UNCHANGED <<proc, told, buffer, issued>>
  BY DEF SaveDone, Finish, IInv, OpenInv, OpInv
<1>2. b \in {0, 1} /\ p.count \in Nat
  <2>1. p.count \in Counts
    BY DEF IInv, TypeOK
  <2> QED BY <2>1, BanksAre, CountAssumption DEF Counts
<1>3. bank.kind = "good" /\ bank.count = p.count /\ bank.save = op.save
  OBVIOUS
<1>4. /\ disk'[f][b] = bank
      /\ \A c \in Banks : c # b => disk'[f][c] = disk[f][c]
      /\ \A g \in Files : g # f => disk'[g] = disk[g]
  <2>1. DOMAIN disk = Files /\ DOMAIN disk[f] = Banks
    BY DEF IInv, TypeOK
  <2>2. disk' = [disk EXCEPT ![f][b] = bank]
    BY <1>1
  <2> QED BY <2>1, <2>2, Zenon
<1>5. acked'[f] = op.save /\ \A g \in Files : g # f => acked'[g] = acked[g]
  BY <1>1, <1>2 DEF IInv, TypeOK
<1>6. ~p'.open /\ op'.operation = "NO_OP"
  BY <1>1 DEF IInv, TypeOK, OpTypes
<1>7. /\ op.save = issued /\ acked[f] < issued /\ p.count <= acked[f] + 1
      /\ disk[f][1 - b].count < p.count /\ (b = 1 => acked[f] # 0)
      /\ acked[f] \in Nat /\ issued \in Nat
  BY <1>1, <1>2, TurnFacts DEF TurnsInv, SaveTurn
<1>8. Turns(f)'
  <2>1. \A c \in Banks : disk'[f][c].count <= issued
    <3> SUFFICES ASSUME NEW c \in Banks PROVE disk'[f][c].count <= issued
      OBVIOUS
    <3>1. disk[f][c].count \in Nat /\ disk[f][c].count <= acked[f]
      BY <1>2, TurnFacts DEF TurnsInv, Turns
    <3> QED BY <1>2, <1>3, <1>4, <1>7, <3>1
  <2>2. Newest(f, b)'
    <3>1. disk'[f][1 - b] = disk[f][1 - b]
      BY <1>2, <1>4, BanksAre
    <3> QED BY <1>1, <1>3, <1>4, <1>5, <1>7, <3>1 DEF Newest
  <2>3. disk'[f][0].kind = "good"
    <3>1. CASE b = 0
      BY <1>3, <1>4, <3>1
    <3>2. CASE b = 1
      BY <1>2, <1>4, <1>7, <3>2, BanksAre DEF TurnsInv, Turns, Writing
    <3> QED BY <1>2, <3>1, <3>2
  <2> QED BY <1>1, <1>2, <1>5, <1>7, <2>1, <2>2, <2>3 DEF Turns
<1>9. ASSUME NEW g \in Files, g # f PROVE Turns(g)'
  <2>1. disk'[g] = disk[g] /\ acked'[g] = acked[g] /\ Turns(g)
    BY <1>4, <1>5, <1>9 DEF TurnsInv
  <2>2. \A c \in Banks : Newest(g, c) => Newest(g, c)'
    BY <2>1 DEF Newest
  <2> QED BY <1>1, <1>9, <2>1, <2>2 DEF Turns, Writing
<1>10. SaveTurn' /\ LoadTurn'
  BY <1>1, <1>6 DEF TurnsInv, SaveTurn, LoadTurn, LoadedNotOlder, Restored
<1> QED BY <1>8, <1>9, <1>10 DEF TurnsInv

(* A load that gives OK delivers the newest save. *)
LEMMA LoadTurns ==
  ASSUME IInv, TurnsInv, LoadNoFile \/ LoadFailed \/ LoadBad \/ LoadGood
  PROVE  TurnsInv'
<1>1. /\ op.operation = "LOAD" /\ UNCHANGED <<disk, acked, proc, told, p, issued>>
      /\ \E r \in McStatusCode : Finish(r)
  <2>1. \A banks : BadResults(banks) \subseteq McStatusCode
    BY DEF BadResults, McStatusCode
  <2> QED BY <2>1 DEF LoadNoFile, LoadFailed, LoadBad, LoadGood, Loading, McStatusCode
<1>2. /\ proc.pc = "wait" /\ ~p.open /\ op.file = proc.file /\ told.what = "nothing"
      /\ op'.operation = "NO_OP"
  BY <1>1, FinishType DEF IInv, OpInv, OpenInv, TurnsInv, LoadTurn
<1>3. \A f \in Files : Turns(f)'
  BY <1>1, <1>2, SameTurns, TurnFacts DEF TurnsInv
<1>4. op'.result = "OK" => buffer' >= acked[proc.file]
  <2>1. CASE LoadGood
    <3>1. /\ op.file \in Files /\ \E b \in Banks : disk[op.file][b].kind = "good"
          /\ buffer' = disk[op.file][LoadBank(disk[op.file])].save
      BY <2>1 DEF LoadGood, Verified, IInv, TypeOK, OpTypes
    <3>2. acked[op.file] # 0
      BY <1>2, <3>1 DEF TurnsInv, Turns, Writing
    <3>3. PICK b \in Banks : Newest(op.file, b)
      BY <3>1, <3>2 DEF TurnsInv, Turns
    <3>4. LoadBank(disk[op.file]) = b
      BY <3>1, <3>3, NewestIsLoaded
    <3>5. buffer' = acked[op.file] /\ acked[op.file] \in Nat
      BY <3>1, <3>3, <3>4, TurnFacts DEF Newest
    <3> QED BY <1>2, <3>5
  <2>2. CASE ~LoadGood
    <3>1. PICK r \in McStatusCode \ {"OK"} : Finish(r)
      <4>1. \A banks : BadResults(banks) \subseteq McStatusCode \ {"OK"}
        BY DEF BadResults, McStatusCode
      <4> QED BY <2>2, <4>1 DEF LoadNoFile, LoadFailed, LoadBad, McStatusCode
    <3> QED BY <3>1, FinishType DEF IInv
  <2> QED BY <2>1, <2>2
<1>5. LoadTurn'
  BY <1>1, <1>2, <1>4 DEF TurnsInv, LoadTurn, LoadedNotOlder, Restored
<1> QED BY <1>1, <1>2, <1>3, <1>5 DEF TurnsInv, SaveTurn

(* Without faults there is no failing call, no crash and no deleted file.  *)
LEMMA QuietSteps ==
  ASSUME TypeOK, Next, Quiet'
  PROVE  /\ Quiet /\ ~Crash /\ ~SaveOpenFailed /\ ~SaveFailed
         /\ \A f \in Files : ~DeleteFile(f)
<1>1. faults \in [crashes : Nat, errors : Nat] /\ issued \in Nat
  BY BoundsAssumption DEF TypeOK, SaveIds
<1>2. ~Error
  BY <1>1 DEF Error, Quiet
<1>3. ~Crash
  BY <1>1 DEF Crash, Quiet
<1>4. /\ ~SaveOpenFailed /\ ~SaveFailed /\ \A f \in Files : ~DeleteFile(f)
  BY <1>2 DEF SaveOpenFailed, SaveFailed, DeleteFile
<1>5. faults' = faults
  <2>1. LoadFailed => faults' = faults
    BY <1>2 DEF LoadFailed
  <2> QED BY <1>3, <1>4, <2>1 DEF Next, MC_run, AutoSave_Save, AutoSave_Restore, AutoSave_NoSave,
       AutoSave_Check, AutoSave_Done, AutoSave_Error, MC_get_status, SaveOpen, SaveDone,
       LoadNoFile, LoadBad, LoadGood
<1>6. issued' = issued \/ issued' = issued + 1
  BY <1>3, <1>4 DEF Next, MC_run, AutoSave_Save, AutoSave_Restore, AutoSave_NoSave,
       AutoSave_Check, AutoSave_Done, AutoSave_Error, MC_get_status, SaveOpen, SaveDone,
       LoadNoFile, LoadFailed, LoadBad, LoadGood
<1> QED BY <1>1, <1>3, <1>4, <1>5, <1>6, CountAssumption DEF Quiet

LEMMA NextQuiet == QuietInv /\ [Next]_vars => QuietInv'
<1> SUFFICES ASSUME QuietInv, [Next]_vars PROVE QuietInv'
  OBVIOUS
<1>1. TypeOK'
  BY NextType DEF QuietInv
<1>2. CASE UNCHANGED vars
  <2>1. UNCHANGED <<proc, told, op, p, mc_files, disk, buffer, issued, acked, faults>>
    BY <1>2 DEF vars
  <2>2. Quiet' <=> Quiet
    BY <2>1 DEF Quiet
  <2>3. (BankInv' <=> BankInv) /\ (OpInv' <=> OpInv) /\ (OpenInv' <=> OpenInv)
    BY <2>1 DEF BankInv, OpInv, OpenInv
  <2>4. SomeSaveSurvives' <=> SomeSaveSurvives
    BY <2>1 DEF SomeSaveSurvives, Restored, Writing
  <2>5. IInv => IInv'
    BY <1>1, <2>3, <2>4 DEF IInv
  <2>6. TurnsInv' <=> TurnsInv
    BY <2>1 DEF TurnsInv, Turns, Newest, Writing, SaveTurn, LoadTurn, LoadedNotOlder, Restored
  <2> QED BY <1>1, <2>2, <2>5, <2>6 DEF QuietInv
<1>3. ASSUME Next, Quiet' PROVE IInv' /\ TurnsInv'
  <2>1. Quiet /\ ~Crash /\ ~SaveOpenFailed /\ ~SaveFailed /\ \A f \in Files : ~DeleteFile(f)
    BY <1>3, QuietSteps DEF QuietInv
  <2>2. IInv /\ TurnsInv /\ issued < CountLimit
    BY <2>1 DEF QuietInv, Quiet
  <2>3. ASSUME NEW f \in Files, AutoSave_Save(f) \/ AutoSave_Restore(f) \/ AutoSave_NoSave(f)
        PROVE  IInv' /\ TurnsInv'
    BY <2>2, <2>3, RequestInv, RequestTurns
  <2>4. CASE AutoSave_Check
    BY <2>2, <2>4, CheckInv, CheckTurns
  <2>5. CASE MC_get_status
    <3>1. UNCHANGED <<proc, told, op, p, disk, buffer, issued, acked>> /\ ~p.open
      BY <2>5 DEF MC_get_status
    <3>2. \A f \in Files : Turns(f)'
      BY <2>2, <3>1, SameTurns, TurnFacts DEF TurnsInv
    <3>3. TurnsInv'
      BY <2>2, <3>1, <3>2 DEF TurnsInv, SaveTurn, LoadTurn, LoadedNotOlder, Restored
    <3> QED BY <2>2, <2>5, <3>3, StatusInv
  <2>6. CASE MC_run
    BY <2>1, <2>2, <2>6, SaveOpenInv, SaveDoneInv, LoadInv, SaveOpenTurns, SaveDoneTurns, LoadTurns
       DEF MC_run
  <2> QED BY <1>3, <2>1, <2>3, <2>4, <2>5, <2>6 DEF Next
<1> QED BY <1>1, <1>2, <1>3 DEF QuietInv

LEMMA InitQuiet == Init => QuietInv
<1> SUFFICES ASSUME Init PROVE QuietInv
  OBVIOUS
<1>1. IInv
  BY InitInv
<1>2. /\ \A f \in Files : acked[f] = 0 /\ \A b \in Banks : disk[f][b] = NoBank
      /\ issued = 0 /\ ~p.open /\ op.operation = "NO_OP" /\ proc.pc = "none" /\ told.what = "nothing"
  BY DEF Init, NoSave, NoOp, NoProc
<1> QED BY <1>1, <1>2 DEF QuietInv, IInv, TurnsInv, Turns, SaveTurn, LoadTurn, LoadedNotOlder,
     Restored, NoBank

(* As long as nothing fails, nobody dies and the save counts have not      *)
(* wrapped, the banks take turns such that a load delivers the newest save *)
(* of its file, for every number of files and saves.                       *)
THEOREM NewestIsDelivered == Spec => []NewestLoaded
<1>1. QuietInv => NewestLoaded
  BY DEF QuietInv, Quiet, TurnsInv, LoadTurn, NewestLoaded
<1> QED BY <1>1, InitQuiet, NextQuiet, PTL DEF Spec

-----------------------------------------------------------------------------
(***************************************************************************)
(* SaveStore is implemented.                                               *)
(***************************************************************************)
(* Without faults every bank that exists is whole but for the one being    *)
(* written, and the file whose load was asked for is there.                *)
WholeInv ==
  /\ \A f \in Files, b \in Banks : disk[f][b].kind \in {"none", "good"} \/ Writing(f, b)
  /\ op.operation = "LOAD" => disk[op.file][0].kind = "good"

StoreInv == IInv /\ QuietInv /\ (Quiet => WholeInv)

(* Steps that leave the disk alone while no bank is open. *)
LEMMA SameWhole ==
  ASSUME WholeInv, ~p.open, disk' = disk, op'.operation # "LOAD" \/ op' = op
  PROVE  WholeInv'
<1>1. \A f \in Files, b \in Banks : disk'[f][b].kind \in {"none", "good"}
  BY DEF WholeInv, Writing
<1>2. op'.operation = "LOAD" => disk'[op'.file][0].kind = "good"
  BY DEF WholeInv
<1> QED BY <1>1, <1>2 DEF WholeInv

LEMMA RequestWhole ==
  ASSUME WholeInv, NEW f \in Files,
         AutoSave_Save(f) \/ AutoSave_Restore(f) \/ AutoSave_NoSave(f)
  PROVE  WholeInv'
<1>1. ~p.open /\ disk' = disk
  BY DEF AutoSave_Save, AutoSave_Restore, AutoSave_NoSave
<1>2. CASE AutoSave_Save(f) \/ AutoSave_NoSave(f)
  <2>1. op'.operation # "LOAD" \/ op' = op
    BY <1>2 DEF AutoSave_Save, AutoSave_NoSave, MC_save
  <2> QED BY <1>1, <2>1, SameWhole
<1>3. CASE AutoSave_Restore(f)
  <2>1. op'.file = f /\ file_is_present(disk[f][0])
    BY <1>3 DEF AutoSave_Restore, MC_load
  <2>2. \A g \in Files, b \in Banks : disk'[g][b].kind \in {"none", "good"}
    BY <1>1 DEF WholeInv, Writing
  <2>3. disk'[op'.file][0].kind = "good"
    BY <1>1, <2>1, <2>2, BanksAre DEF file_is_present
  <2> QED BY <2>2, <2>3 DEF WholeInv
<1> QED BY <1>2, <1>3

LEMMA SaveOpenWhole == ASSUME TypeOK, WholeInv, SaveOpen PROVE WholeInv'
<1> SUFFICES ASSUME NEW f \in Files, f = op.file, NEW b \in Banks, b = SaveBank(disk[f]),
                    NEW short, short = [kind |-> "short", count |-> 0, save |-> 0]
             PROVE  WholeInv'
  BY SaveBankType DEF TypeOK, OpTypes
<1>1. /\ op.operation = "SAVE" /\ ~p.open /\ op' = op
      /\ p'.open /\ p'.bank = b
      /\ disk' = [disk EXCEPT ![f][b] = short]
  BY DEF SaveOpen
<1>2. /\ \A c \in Banks : c # b => disk'[f][c] = disk[f][c]
      /\ \A g \in Files : g # f => disk'[g] = disk[g]
  BY <1>1, DiskStep
<1>3. Writing(f, b)'
  BY <1>1 DEF Writing
<1>4. \A g \in Files, c \in Banks : disk[g][c].kind \in {"none", "good"}
  BY <1>1 DEF WholeInv, Writing
<1>5. \A g \in Files, c \in Banks :
        disk'[g][c].kind \in {"none", "good"} \/ Writing(g, c)'
  BY <1>2, <1>3, <1>4
<1> QED BY <1>1, <1>5 DEF WholeInv

LEMMA SaveDoneWhole == ASSUME IInv, WholeInv, SaveDone PROVE WholeInv'
<1> SUFFICES ASSUME NEW f \in Files, f = op.file, NEW b \in Banks, b = p.bank,
                    NEW bank, bank = [kind |-> "good", count |-> p.count, save |-> op.save]
             PROVE  WholeInv'
  BY DEF IInv, TypeOK, OpTypes
<1>1. TypeOK /\ disk' = [disk EXCEPT ![f][b] = bank]
  BY DEF SaveDone, IInv
<1>2. /\ disk'[f][b] = bank
      /\ \A c \in Banks : c # b => disk'[f][c] = disk[f][c]
      /\ \A g \in Files : g # f => disk'[g] = disk[g]
  <2>1. DOMAIN disk = Files /\ DOMAIN disk[f] = Banks
    BY <1>1 DEF TypeOK
  <2> QED BY <1>1, <2>1, Zenon
<1>3. op'.operation = "NO_OP"
  BY FinishType DEF SaveDone, IInv, McStatusCode
<1>4. \A g \in Files, c \in Banks : disk'[g][c].kind \in {"none", "good"}
  BY <1>2 DEF WholeInv, Writing
<1> QED BY <1>3, <1>4 DEF WholeInv

LEMMA LoadWhole ==
  ASSUME IInv, WholeInv, LoadNoFile \/ LoadFailed \/ LoadBad \/ LoadGood
  PROVE  WholeInv'
<1>1. /\ op.operation = "LOAD" /\ disk' = disk
      /\ \E r \in McStatusCode : Finish(r)
  BY BadResultsType DEF LoadNoFile, LoadFailed, LoadBad, LoadGood, Loading, McStatusCode
<1>2. ~p.open
  BY <1>1 DEF IInv, OpenInv
<1>3. op'.operation = "NO_OP"
  BY <1>1, FinishType DEF IInv
<1> QED BY <1>1, <1>2, <1>3, SameWhole

LEMMA NextStore ==
  ASSUME "torn" \notin Leftovers
  PROVE  StoreInv /\ [Next]_vars => StoreInv'
<1> SUFFICES ASSUME StoreInv, [Next]_vars PROVE StoreInv'
  OBVIOUS
<1>1. IInv' /\ QuietInv'
  BY NextInv, NextQuiet DEF StoreInv
<1>2. CASE UNCHANGED vars
  BY <1>1, <1>2 DEF StoreInv, Quiet, WholeInv, Writing, vars
<1>3. ASSUME Next, Quiet' PROVE WholeInv'
  <2>1. Quiet /\ ~Crash /\ ~SaveOpenFailed /\ ~SaveFailed /\ \A f \in Files : ~DeleteFile(f)
    BY <1>3, QuietSteps DEF StoreInv, QuietInv
  <2>2. IInv /\ TypeOK /\ WholeInv
    BY <2>1 DEF StoreInv, IInv
  <2>3. ASSUME NEW f \in Files, AutoSave_Save(f) \/ AutoSave_Restore(f) \/ AutoSave_NoSave(f)
        PROVE  WholeInv'
    BY <2>2, <2>3, RequestWhole
  <2>4. CASE AutoSave_Check \/ MC_get_status
    <3>1. UNCHANGED <<op, p, disk>>
      BY <2>4 DEF AutoSave_Check, AutoSave_Done, AutoSave_Error, MC_get_status
    <3> QED BY <2>2, <3>1 DEF WholeInv, Writing
  <2>5. CASE MC_run
    BY <2>1, <2>2, <2>5, SaveOpenWhole, SaveDoneWhole, LoadWhole DEF MC_run
  <2> QED BY <1>3, <2>1, <2>3, <2>4, <2>5 DEF Next
<1> QED BY <1>1, <1>2, <1>3 DEF StoreInv

LEMMA InitStore == Init => StoreInv
<1> SUFFICES ASSUME Init PROVE StoreInv
  OBVIOUS
<1>1. IInv /\ QuietInv
  BY InitInv, InitQuiet
<1>2. /\ \A f \in Files, b \in Banks : disk[f][b].kind = "none"
      /\ op.operation = "NO_OP"
  BY DEF Init, NoBank, NoOp
<1> QED BY <1>1, <1>2 DEF StoreInv, WholeInv

(* The whole saves of the files, as SaveStore sees them. *)
Holds == [f \in Files |-> WholeSaves(f)]

LEMMA HoldsAt == \A f \in Files : Holds[f] = WholeSaves(f)
BY DEF Holds

LEMMA SameHolds == ASSUME disk' = disk PROVE Holds' = Holds
BY DEF Holds, WholeSaves, GoodBanks

LEMMA HoldsStep ==
  ASSUME NEW f \in Files, \A g \in Files : g # f => WholeSaves(g)' = WholeSaves(g)
  PROVE  Holds' = [Holds EXCEPT ![f] = WholeSaves(f)']
BY DEF Holds

(* One bank of a file is replaced. *)
LEMMA OtherHolds ==
  ASSUME TypeOK, NEW f \in Files, NEW b \in Banks, NEW bank,
         disk' = [disk EXCEPT ![f][b] = bank]
  PROVE  \A g \in Files : g # f => WholeSaves(g)' = WholeSaves(g)
<1>1. \A g \in Files : g # f => disk'[g] = disk[g]
  BY DiskStep
<1> QED BY <1>1 DEF WholeSaves, GoodBanks

LEMMA BankHolds ==
  ASSUME TypeOK, NEW f \in Files, NEW b \in Banks, NEW bank,
         disk' = [disk EXCEPT ![f][b] = bank]
  PROVE  /\ WholeSaves(f)' \subseteq WholeSaves(f) \cup {bank.save}
         /\ bank.kind # "good" => WholeSaves(f)' \subseteq WholeSaves(f)
         /\ bank.kind = "good" => bank.save \in WholeSaves(f)'
         /\ disk[f][b].kind # "good" => WholeSaves(f) \subseteq WholeSaves(f)'
         /\ disk[f][1 - b].kind = "good" => WholeSaves(f)' # {}
<1>1. /\ disk'[f][b] = bank /\ 1 - b \in Banks /\ 1 - b # b
      /\ \A c \in Banks : c # b => disk'[f][c] = disk[f][c]
  <2>1. /\ disk'[f][b] = bank
        /\ \A c \in Banks : c # b => disk'[f][c] = disk[f][c]
    <3>1. DOMAIN disk = Files /\ DOMAIN disk[f] = Banks
      BY DEF TypeOK
    <3> QED BY <3>1, Zenon
  <2> QED BY <2>1, BanksAre
<1>2. /\ \A c \in Banks : disk'[f][c].kind = "good" => disk'[f][c].save \in WholeSaves(f)'
      /\ \A x \in WholeSaves(f)' :
           \E c \in Banks : disk'[f][c].kind = "good" /\ x = disk'[f][c].save
  BY DEF WholeSaves, GoodBanks
<1>3. /\ \A c \in Banks : disk[f][c].kind = "good" => disk[f][c].save \in WholeSaves(f)
      /\ \A x \in WholeSaves(f) :
           \E c \in Banks : disk[f][c].kind = "good" /\ x = disk[f][c].save
  BY DEF WholeSaves, GoodBanks
<1> QED BY <1>1, <1>2, <1>3

LEMMA QuietSame == ASSUME UNCHANGED <<faults, issued>> PROVE Quiet' = Quiet
BY DEF Quiet

(* A call that fails, a crash and a deleted file end the quiet. *)
LEMMA QuietEnds ==
  ASSUME TypeOK, Error \/ Crash
  PROVE  Quiet' = FALSE
<1>1. faults \in [crashes : Nat, errors : Nat]
  BY BoundsAssumption DEF TypeOK
<1>2. faults' # [crashes |-> 0, errors |-> 0]
  BY <1>1 DEF Error, Crash
<1>3. ~Quiet'
  BY <1>2 DEF Quiet
<1> QED BY <1>3, Zenon DEF Quiet

-----------------------------------------------------------------------------
(* The initial states and the steps of SaveStore. *)
LEMMA StoreInit == Init => Store!Init
<1> SUFFICES ASSUME Init PROVE Store!Init
  OBVIOUS
<1>1. \A f \in Files : WholeSaves(f) = {}
  BY DEF Init, NoBank, WholeSaves, GoodBanks
<1>2. Holds = [f \in Files |-> {}]
  BY <1>1 DEF Holds
<1>3. /\ \E f \in Files : /\ op = NoOp(f)
                          /\ told = [what |-> "nothing", mode |-> "save", file |-> f]
      /\ proc.pc = "none" /\ buffer = 0 /\ issued = 0 /\ acked = [f \in Files |-> 0]
  BY DEF Init, NoProc
<1>4. Quiet
  BY <1>3, CountAssumption DEF Init, Quiet
<1> QED BY <1>2, <1>3, <1>4 DEF Store!Init, Store!Nothing, NoOp, Holds

LEMMA AskSaveStep ==
  ASSUME StoreInv, NEW f \in Files, AutoSave_Save(f)
  PROVE  Store!AskSave(f)
<1>1. /\ proc.pc = "none" /\ op.operation = "NO_OP" /\ proc'.pc = "wait"
      /\ issued' = issued + 1
      /\ op' = [operation |-> "SAVE", file |-> f, save |-> issued + 1, result |-> "BUSY"]
      /\ told' = [what |-> "nothing", mode |-> "save", file |-> f]
      /\ UNCHANGED <<disk, acked, buffer, faults>>
  BY DEF AutoSave_Save, MC_save
<1>2. Quiet' \in {Quiet, FALSE}
  <2>1. issued \in Nat
    BY TurnFacts DEF StoreInv
  <2>2. Quiet' => Quiet
    BY <1>1, <2>1, CountAssumption DEF Quiet
  <2>3. Quiet \in BOOLEAN /\ Quiet' \in BOOLEAN
    BY Zenon DEF Quiet
  <2> QED BY <2>2, <2>3, Zenon
<1>3. Holds' = Holds
  BY <1>1, SameHolds
<1> QED BY <1>1, <1>2, <1>3 DEF Store!AskSave, Holds

LEMMA AskLoadStep ==
  ASSUME StoreInv, NEW f \in Files, AutoSave_Restore(f)
  PROVE  Store!AskLoad(f)
<1>1. /\ proc.pc = "none" /\ op.operation = "NO_OP" /\ proc'.pc = "wait"
      /\ op' = [operation |-> "LOAD", file |-> f, save |-> 0, result |-> "BUSY"]
      /\ told' = [what |-> "nothing", mode |-> "restore", file |-> f]
      /\ buffer' = 0 /\ UNCHANGED <<disk, acked, issued, faults>>
  BY DEF AutoSave_Restore, MC_load
<1>2. Holds' = Holds /\ Quiet' = Quiet
  BY <1>1, SameHolds, QuietSame
<1> QED BY <1>1, <1>2 DEF Store!AskLoad, Holds

LEMMA NoSaveStep ==
  ASSUME StoreInv, NEW f \in Files, AutoSave_NoSave(f)
  PROVE  Store!NoSave(f)
<1>1. /\ proc.pc = "none" /\ ~p.open /\ ~file_is_present(disk[f][0])
      /\ told' = [what |-> "no-save", mode |-> "restore", file |-> f]
      /\ buffer' = 0 /\ UNCHANGED <<proc, op, disk, issued, acked, faults>>
  BY DEF AutoSave_NoSave
<1>2. Holds' = Holds /\ Quiet' = Quiet
  BY <1>1, SameHolds, QuietSame
<1>3. Quiet => acked[f] = 0
  BY <1>1 DEF StoreInv, QuietInv, TurnsInv, Turns, Writing, file_is_present
<1> QED BY <1>1, <1>2, <1>3 DEF Store!NoSave, Holds

LEMMA AnswerStep ==
  ASSUME StoreInv, AutoSave_Check
  PROVE  Store!Answer
<1>1. /\ proc.pc = "wait" /\ proc'.pc = "none"
      /\ op.result \in {"OK", "INTERNAL_ERROR", "NEW_GAME", "NO_MEMORY"}
      /\ UNCHANGED <<op, disk, buffer, issued, acked, faults>>
  BY DEF AutoSave_Check, AutoSave_Done, AutoSave_Error, StoreInv, IInv, TypeOK, ProcTypes
<1>2. told' = [told EXCEPT !.what = Store!AnswerTo(op.result)]
  BY DEF AutoSave_Check, AutoSave_Done, AutoSave_Error, Store!AnswerTo
<1>3. Holds' = Holds /\ Quiet' = Quiet
  BY <1>1, SameHolds, QuietSame
<1> QED BY <1>1, <1>2, <1>3 DEF Store!Answer, Holds

(* A bank is truncated: the file keeps a whole save if it has one, and the *)
(* newest while nothing went wrong.                                        *)
LEMMA MakeRoomStep ==
  ASSUME StoreInv, StoreInv', SaveOpen
  PROVE  Store!MakeRoom
<1> SUFFICES ASSUME NEW f \in Files, f = op.file, NEW b \in Banks, b = SaveBank(disk[f]),
                    NEW short, short = [kind |-> "short", count |-> 0, save |-> 0]
             PROVE  Store!MakeRoom
  BY SaveBankType DEF StoreInv, IInv, TypeOK, OpTypes
<1>1. /\ op.operation = "SAVE" /\ disk' = [disk EXCEPT ![f][b] = short]
      /\ UNCHANGED <<proc, told, op, buffer, issued, acked, faults>>
  BY DEF SaveOpen
<1>2. TypeOK /\ BankInv
  BY DEF StoreInv, IInv
<1>3. WholeSaves(f)' \subseteq WholeSaves(f)
  <2>1. short.kind # "good"
    OBVIOUS
  <2> QED BY <1>1, <1>2, <2>1, BankHolds, Zenon
<1>4. WholeSaves(f) # {} => WholeSaves(f)' # {}
  <2> SUFFICES ASSUME WholeSaves(f) # {} PROVE WholeSaves(f)' # {}
    OBVIOUS
  <2>1. \E c \in Banks : disk[f][c].kind = "good"
    BY DEF WholeSaves, GoodBanks
  <2>2. disk[f][1 - b].kind = "good"
    BY <1>2, <2>1, SaveBankSpares
  <2> QED BY <1>1, <1>2, <2>2, BankHolds
<1>5. Quiet' = Quiet
  BY <1>1, QuietSame
<1>6. Quiet /\ acked[f] # 0 => acked[f] \in WholeSaves(f)'
  <2> SUFFICES ASSUME Quiet', acked'[f] # 0 PROVE acked'[f] \in WholeSaves(f)'
    BY <1>1, <1>5
  <2>1. PICK c \in Banks : Newest(f, c)'
    BY DEF StoreInv, QuietInv, TurnsInv, Turns
  <2> QED BY <2>1 DEF Newest, WholeSaves, GoodBanks
<1>7. Holds' = [Holds EXCEPT ![f] = WholeSaves(f)']
  BY <1>1, <1>2, OtherHolds, HoldsStep
<1>8. WholeSaves(f)' \in Store!Kept(f)
  BY <1>3, <1>4, <1>6, HoldsAt DEF Store!Kept, Holds
<1> QED BY <1>1, <1>5, <1>7, <1>8 DEF Store!MakeRoom, Holds

LEMMA StoredStep ==
  ASSUME StoreInv, SaveDone
  PROVE  Store!Stored
<1> SUFFICES ASSUME NEW f \in Files, f = op.file, NEW b \in Banks, b = p.bank,
                    NEW bank, bank = [kind |-> "good", count |-> p.count, save |-> op.save]
             PROVE  Store!Stored
  BY DEF StoreInv, IInv, TypeOK, OpTypes
<1>1. /\ op.operation = "SAVE" /\ disk[f][b].kind # "good"
      /\ disk' = [disk EXCEPT ![f][b] = bank]
      /\ op' = [op EXCEPT !.operation = "NO_OP", !.result = "OK"]
      /\ acked' = [acked EXCEPT ![f] = op.save]
      /\ UNCHANGED <<proc, told, buffer, issued, faults>>
  BY DEF SaveDone, Finish, StoreInv, IInv, OpenInv
<1>2. TypeOK /\ bank.kind = "good" /\ bank.save = op.save
  BY DEF StoreInv, IInv
<1>3. WholeSaves(f)' = WholeSaves(f) \cup {op.save}
  <2>1. /\ WholeSaves(f)' \subseteq WholeSaves(f) \cup {op.save}
        /\ op.save \in WholeSaves(f)' /\ WholeSaves(f) \subseteq WholeSaves(f)'
    BY <1>1, <1>2, BankHolds, ZenonT(60)
  <2> QED BY <2>1
<1>4. Holds' = [Holds EXCEPT ![f] = Holds[f] \cup {op.save}]
  BY <1>1, <1>2, <1>3, OtherHolds, HoldsStep, HoldsAt
<1>5. Quiet' = Quiet
  BY <1>1, QuietSame
<1> QED BY <1>1, <1>4, <1>5 DEF Store!Stored, Store!Finish, Holds

(* A request is refused only when something went wrong.  Of a load: the    *)
(* second bank is short, the first is not there or none is whole only      *)
(* after a fault.                                                          *)
LEMMA RefusedStep ==
  ASSUME StoreInv, SaveOpenFailed \/ SaveFailed \/ LoadNoFile \/ LoadFailed \/ LoadBad
  PROVE  Store!Refused
<1> SUFFICES ASSUME NEW f \in Files, f = op.file
             PROVE  Store!Refused
  BY DEF StoreInv, IInv, TypeOK, OpTypes
<1>1. UNCHANGED <<proc, told, disk, buffer, issued, acked>>
  BY DEF SaveOpenFailed, SaveFailed, LoadNoFile, LoadFailed, LoadBad
<1>2. op.operation # "NO_OP"
  BY DEF SaveOpenFailed, SaveFailed, LoadNoFile, LoadFailed, LoadBad, Loading, StoreInv, IInv,
         OpenInv
<1>3. \/ Finish("INTERNAL_ERROR")
      \/ op.operation = "LOAD" /\ Finish("NO_MEMORY")
      \/ /\ op.operation = "LOAD" /\ WholeSaves(f) = {}
         /\ Finish("NEW_GAME") \/ Finish("READ_ERROR")
  <2>1. CASE LoadBad
    <3>1. op.operation = "LOAD" /\ WholeSaves(f) = {}
      BY <2>1 DEF LoadBad, Loading, Verified, WholeSaves, GoodBanks
    <3>2. Finish("NEW_GAME") \/ Finish("READ_ERROR")
      BY <2>1 DEF LoadBad, BadResults
    <3> QED BY <3>1, <3>2
  <2>2. CASE LoadNoFile
    BY <2>2 DEF LoadNoFile
  <2>3. CASE SaveOpenFailed \/ SaveFailed \/ LoadFailed
    BY <2>3 DEF SaveOpenFailed, SaveFailed, LoadFailed
  <2> QED BY <2>1, <2>2, <2>3
<1>4. Quiet' = FALSE
  <2>1. CASE Error
    BY <2>1, QuietEnds DEF StoreInv, IInv
  <2>2. CASE ~Error
    <3>1. op.operation = "LOAD" /\ UNCHANGED <<faults, issued>>
      BY <1>1, <2>2 DEF SaveOpenFailed, SaveFailed, LoadNoFile, LoadFailed, LoadBad, Loading
    <3>2. ~p.open
      BY <3>1 DEF StoreInv, IInv, OpenInv
    <3>3. \/ ~file_is_present(disk[f][0])
          \/ disk[f][1].kind = "short"
          \/ \A b \in Banks : disk[f][b].kind # "good"
      BY <2>2 DEF SaveOpenFailed, SaveFailed, LoadNoFile, LoadFailed, LoadBad, ReadsShortBank,
                  Verified
    <3>4. ~WholeInv
      BY <3>1, <3>2, <3>3, BanksAre DEF WholeInv, Writing, file_is_present
    <3>5. ~Quiet /\ Quiet' = Quiet
      BY <3>1, <3>4, QuietSame DEF StoreInv
    <3> QED BY <3>5, Zenon DEF Quiet
  <2> QED BY <2>1, <2>2
<1>5. Holds' = Holds /\ Holds[f] = WholeSaves(f)
  BY <1>1, SameHolds, HoldsAt
<1> QED BY <1>1, <1>2, <1>3, <1>4, <1>5 DEF Store!Refused, Store!Finish, Finish, Holds

(* A load delivers the save of a whole bank, the newest one while nothing  *)
(* went wrong.                                                             *)
LEMMA DeliveredStep ==
  ASSUME StoreInv, LoadGood
  PROVE  Store!Delivered
<1> SUFFICES ASSUME NEW f \in Files, f = op.file, NEW b \in Banks, b = LoadBank(disk[f])
             PROVE  Store!Delivered
  BY LoadBankType DEF StoreInv, IInv, TypeOK, OpTypes
<1>1. /\ op.operation = "LOAD" /\ buffer' = disk[f][b].save
      /\ op' = [op EXCEPT !.operation = "NO_OP", !.result = "OK"]
      /\ UNCHANGED <<proc, told, p, disk, issued, acked, faults>>
  BY DEF LoadGood, Loading, Finish
<1>2. \E c \in Banks : disk[f][c].kind = "good"
  BY DEF LoadGood, Verified
<1>3. disk[f][b].kind = "good"
  BY <1>2 DEF LoadBank, Verified, Banks
<1>4. disk[f][b].save \in WholeSaves(f)
  BY <1>3 DEF WholeSaves, GoodBanks
<1>5. ASSUME Quiet PROVE disk[f][b].save = acked[f]
  <2>1. ~p.open
    BY <1>1 DEF StoreInv, IInv, OpenInv
  <2>2. IInv /\ Turns(f)
    BY <1>5 DEF StoreInv, QuietInv, TurnsInv
  <2>3. acked[f] # 0
    BY <1>2, <2>1, <2>2 DEF Turns, Writing
  <2>4. PICK c \in Banks : Newest(f, c)
    BY <2>2, <2>3 DEF Turns
  <2>5. b = c
    BY <2>2, <2>4, NewestIsLoaded
  <2> QED BY <2>4, <2>5 DEF Newest
<1>6. Holds' = Holds /\ Holds[f] = WholeSaves(f) /\ Quiet' = Quiet
  BY <1>1, SameHolds, HoldsAt, QuietSame
<1> QED BY <1>1, <1>4, <1>5, <1>6 DEF Store!Delivered, Store!Finish, Holds

(* A crash may have completed the save under way; every other one stays.   *)
LEMMA CrashStep ==
  ASSUME StoreInv, Crash
  PROVE  Store!Crash
<1> SUFFICES ASSUME NEW f \in Files, f = op.file, NEW b \in Banks, b = p.bank
             PROVE  Store!Crash
  BY DEF StoreInv, IInv, TypeOK, OpTypes
<1>1. /\ proc'.pc = "none" /\ op' = NoOp(f) /\ buffer' = 0
      /\ told' = [what |-> "nothing", mode |-> "save", file |-> f]
      /\ UNCHANGED <<issued, acked>>
  BY DEF Crash, NoProc
<1>2. TypeOK /\ Quiet' = FALSE
  BY QuietEnds DEF StoreInv, IInv
<1>3. \/ Holds' = Holds
      \/ op.operation = "SAVE" /\ Holds' = [Holds EXCEPT ![f] = Holds[f] \cup {op.save}]
  <2>1. CASE ~p.open
    BY <2>1, SameHolds DEF Crash
  <2>2. CASE p.open
    <3>1. PICK kind \in Leftovers : disk' = [disk EXCEPT ![f][b] = Left(kind)]
      BY <2>2 DEF Crash
    <3>2. /\ op.operation = "SAVE" /\ disk[f][b].kind # "good"
          /\ Left(kind).kind = kind
      BY <1>2, <2>2, LeftType DEF StoreInv, IInv, OpenInv
    <3>3. kind = "good" => Left(kind).save = op.save
      BY DEF Left
    <3> DEFINE bank == Left(kind)
    <3> HIDE DEF bank
    <3>4. disk' = [disk EXCEPT ![f][b] = bank] /\ bank.kind = kind
      BY <3>1, <3>2 DEF bank
    <3>5. /\ WholeSaves(f)' \subseteq WholeSaves(f) \cup {bank.save}
          /\ bank.kind # "good" => WholeSaves(f)' \subseteq WholeSaves(f)
          /\ bank.kind = "good" => bank.save \in WholeSaves(f)'
          /\ WholeSaves(f) \subseteq WholeSaves(f)'
      BY <1>2, <3>2, <3>4, BankHolds
    <3>6. \/ WholeSaves(f)' = WholeSaves(f)
          \/ WholeSaves(f)' = WholeSaves(f) \cup {op.save}
      BY <3>3, <3>4, <3>5 DEF bank
    <3>7. \A g \in Files : g # f => WholeSaves(g)' = WholeSaves(g)
      BY <1>2, <3>4, OtherHolds
    <3>8. Holds' = [Holds EXCEPT ![f] = WholeSaves(f)']
      BY <3>7, HoldsStep
    <3>9. Holds[f] = WholeSaves(f) /\ [Holds EXCEPT ![f] = Holds[f]] = Holds
      BY HoldsAt DEF Holds
    <3> QED BY <3>2, <3>6, <3>8, <3>9
  <2> QED BY <2>1, <2>2
<1> QED BY <1>1, <1>2, <1>3 DEF Store!Crash, Store!Nothing, NoOp, Holds

LEMMA DeleteStep ==
  ASSUME StoreInv, NEW f \in Files, DeleteFile(f)
  PROVE  Store!Delete(f)
<1>1. /\ disk' = [disk EXCEPT ![f] = [b \in Banks |-> NoBank]]
      /\ acked' = [acked EXCEPT ![f] = 0]
      /\ UNCHANGED <<proc, told, op, p, buffer, issued>>
  BY DEF DeleteFile
<1>2. TypeOK /\ Quiet' = FALSE
  BY QuietEnds DEF StoreInv, IInv, DeleteFile
<1>3. /\ \A b \in Banks : disk'[f][b].kind = "none"
      /\ \A g \in Files : g # f => disk'[g] = disk[g]
  BY <1>1, <1>2 DEF TypeOK, NoBank
<1>4. WholeSaves(f)' = {} /\ \A g \in Files : g # f => WholeSaves(g)' = WholeSaves(g)
  BY <1>3 DEF WholeSaves, GoodBanks
<1>5. Holds' = [Holds EXCEPT ![f] = {}]
  BY <1>4, HoldsStep
<1> QED BY <1>1, <1>2, <1>5 DEF Store!Delete, Holds

LEMMA StoreStutter ==
  ASSUME StoreInv, MC_get_status \/ UNCHANGED vars
  PROVE  UNCHANGED Store!cvars
<1>1. UNCHANGED <<proc, told, op, disk, buffer, issued, acked, faults>>
  BY DEF MC_get_status, vars
<1>2. Holds' = Holds /\ Quiet' = Quiet
  BY <1>1, SameHolds, QuietSame
<1> QED BY <1>1, <1>2 DEF Store!cvars, Holds

LEMMA StoreNext ==
  ASSUME StoreInv, StoreInv', [Next]_vars
  PROVE  [Store!Next]_(Store!cvars)
<1>1. CASE MC_get_status \/ UNCHANGED vars
  BY <1>1, StoreStutter
<1>2. ASSUME NEW f \in Files,
             \/ AutoSave_Save(f) \/ AutoSave_Restore(f) \/ AutoSave_NoSave(f)
             \/ DeleteFile(f)
      PROVE  Store!Next
  BY <1>2, AskSaveStep, AskLoadStep, NoSaveStep, DeleteStep DEF Store!Next
<1>3. CASE AutoSave_Check \/ Crash
  BY <1>3, AnswerStep, CrashStep DEF Store!Next
<1>4. CASE MC_run
  <2>1. Store!MakeRoom \/ Store!Stored \/ Store!Refused \/ Store!Delivered
    BY <1>4, MakeRoomStep, StoredStep, RefusedStep, DeliveredStep DEF MC_run
  <2> QED BY <2>1 DEF Store!Next
<1> QED BY <1>1, <1>2, <1>3, <1>4 DEF Next

(* The two banks, save counts and checks of kmemcard.cpp and the auto-save *)
(* process implement SaveStore, for every number of files and saves and    *)
(* every crash that leaves the bank being written short, empty or whole.   *)
THEOREM StoreImplemented ==
  ASSUME "torn" \notin Leftovers
  PROVE  Spec => ImplementsStore
<1>1. StoreInv /\ [Next]_vars => StoreInv'
  BY NextStore
<1>2. StoreInv /\ StoreInv' /\ [Next]_vars => [Store!Next]_(Store!cvars)
  BY StoreNext
<1> QED BY <1>1, <1>2, InitStore, StoreInit, PTL DEF Spec, ImplementsStore, Store!Spec

(* What follows from the promises of SaveStore follows for the code. *)
StoreFacts == INSTANCE SaveStore_proofs WITH
  holds <- [f \in Files |-> WholeSaves(f)],
  newest <- acked,
  task <- op,
  waiting <- (proc.pc = "wait"),
  calm <- Quiet

LEMMA SameStore ==
  /\ Store!Init => StoreFacts!Init
  /\ [Store!Next]_(Store!cvars) => [StoreFacts!Next]_(StoreFacts!cvars)
  /\ StoreFacts!CalmAnswers => Store!CalmAnswers
<1>1. Store!Init => StoreFacts!Init
  BY Zenon DEF Store!Init, StoreFacts!Init, Store!Nothing, StoreFacts!Nothing
<1>2. [Store!Next]_(Store!cvars) => [StoreFacts!Next]_(StoreFacts!cvars)
  BY Zenon DEF Store!Next, StoreFacts!Next, Store!cvars, StoreFacts!cvars,
     Store!AskSave, StoreFacts!AskSave, Store!AskLoad, StoreFacts!AskLoad,
     Store!NoSave, StoreFacts!NoSave, Store!Delete, StoreFacts!Delete,
     Store!Answer, StoreFacts!Answer, Store!AnswerTo, StoreFacts!AnswerTo,
     Store!MakeRoom, StoreFacts!MakeRoom, Store!Kept, StoreFacts!Kept,
     Store!Stored, StoreFacts!Stored, Store!Delivered, StoreFacts!Delivered,
     Store!Refused, StoreFacts!Refused, Store!Finish, StoreFacts!Finish,
     Store!Crash, StoreFacts!Crash, Store!Nothing, StoreFacts!Nothing
<1>3. StoreFacts!CalmAnswers => Store!CalmAnswers
  BY Zenon DEF Store!CalmAnswers, StoreFacts!CalmAnswers
<1> QED BY <1>1, <1>2, <1>3

(* While nothing goes wrong the auto-save process is never told of an      *)
(* error, of a missing save only for a file that was never saved, and a    *)
(* restore delivers the newest save, however the banks took turns.         *)
THEOREM AnswersRight ==
  ASSUME "torn" \notin Leftovers
  PROVE  Spec => []Store!CalmAnswers
<1>1. StoreFacts!Spec => []StoreFacts!CalmAnswers
  BY StoreFacts!StoreAnswersRight
<1>2. Store!Spec => StoreFacts!Spec
  BY SameStore, PTL DEF Store!Spec, StoreFacts!Spec
<1>3. Spec => Store!Spec
  BY StoreImplemented DEF ImplementsStore
<1>4. StoreFacts!CalmAnswers => Store!CalmAnswers
  BY SameStore
<1> QED BY <1>1, <1>2, <1>3, <1>4, PTL
=============================================================================
