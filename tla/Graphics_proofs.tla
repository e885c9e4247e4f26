-------------------------- MODULE Graphics_proofs --------------------------
(***************************************************************************)
(* Proofs about Graphics.  Its inductive invariant is the conjunction of   *)
(* one over the hand-over of frames (SyncInv) and one over the loader      *)
(* (LoaderInv); each step of a thread changes the variables of one half,   *)
(* or takes an action of each, so that the two are proved apart.           *)
(***************************************************************************)
EXTENDS Graphics, TLAPS, WellFoundedInduction

-----------------------------------------------------------------------------
(* The hand-over of frames                                                 *)

LEMMA SyncInitInv == SyncInit => SyncInv
<1> SUFFICES ASSUME SyncInit PROVE SyncInv
  OBVIOUS
<1>1. game.pc = "finish" /\ game.at = "test"
  BY DEF SyncInit, At
<1>2. SyncTypeOK
  <2>1. game \in [pc : GamePlaces, at : {"test", "block", "wait"}]
    BY DEF SyncInit, At, GamePlaces
  <2>2. buf \in [Frames -> {"empty", "drawing", "complete"}] /\ on_screen \in Frames /\ chain \in Frames
    BY DEF SyncInit, Frames
  <2> QED BY <2>1, <2>2 DEF SyncInit, SyncTypeOK, RenderPlaces
<1> QED BY <1>1, <1>2 DEF SyncInit, SyncInv, ShownBeforeNext, NoLostNotification, Game, SyncPlaces

(* What the game thread does leaves the invariant. *)
LEMMA GameKeepsSync ==
  ASSUME SyncInv,
         \/ KernelCheckAndDispatch \/ DrawFrame \/ gl_sync_path \/ display_frame_finish
         \/ gl_vsync \/ gl_send_chain \/ display_frame_start \/ Block
  PROVE  SyncInv'
<1> USE DEF SyncInv, SyncTypeOK, ShownBeforeNext, NoLostNotification, Game, At, Frames,
      SyncPlaces, GamePlaces, RenderPlaces
<1>1. CASE KernelCheckAndDispatch BY <1>1 DEF KernelCheckAndDispatch
<1>2. CASE DrawFrame BY <1>2 DEF DrawFrame
<1>3. CASE gl_sync_path BY <1>3 DEF gl_sync_path, Test
<1>4. CASE display_frame_finish BY <1>4 DEF display_frame_finish
<1>5. CASE gl_vsync BY <1>5 DEF gl_vsync, Test
<1>6. CASE gl_send_chain BY <1>6 DEF gl_send_chain
<1>7. CASE display_frame_start BY <1>7 DEF display_frame_start
<1>8. CASE Block BY <1>8 DEF Block
<1> QED BY <1>1, <1>2, <1>3, <1>4, <1>5, <1>6, <1>7, <1>8

(* So does what the graphics thread does. *)
LEMMA GraphicsKeepsSync ==
  ASSUME SyncInv,
         \/ PlayFrame \/ HoldFrame \/ LeaveLoop \/ WaitForChain \/ TakeChain \/ RenderChain
         \/ MarkRendered \/ EndFrame \/ Reboot \/ CloseWindow
  PROVE  SyncInv'
<1> USE DEF SyncInv, SyncTypeOK, ShownBeforeNext, NoLostNotification, Game, At, Frames,
      SyncPlaces, GamePlaces, RenderPlaces
<1>1. ASSUME NEW next \in {"wait", "tick"}, BeginFrame(next) PROVE SyncInv'
  <2>1. SyncTypeOK'
    BY <1>1 DEF BeginFrame
  <2>2. /\ ticked /\ game' = game /\ has_data' = has_data /\ buf' = buf /\ chain' = chain
        /\ on_screen' = on_screen /\ ticked' = ticked /\ passed' = passed /\ exiting' = exiting
        /\ render' = next
    BY <1>1 DEF BeginFrame
  <2>3. NoLostNotification'
    BY <1>1, <2>2 DEF BeginFrame
  <2> QED BY <2>1, <2>2, <2>3
<1>2. CASE LeaveLoop BY <1>2 DEF LeaveLoop
<1>3. CASE WaitForChain BY <1>3 DEF WaitForChain
<1>4. CASE TakeChain BY <1>4 DEF TakeChain
<1>5. CASE RenderChain BY <1>5 DEF RenderChain
<1>6. CASE MarkRendered BY <1>6 DEF MarkRendered, Notified
<1>7. CASE EndFrame BY <1>7 DEF EndFrame, Notified, SyncMutexFree
<1>8. CASE Reboot BY <1>8 DEF Reboot
<1>9. CASE CloseWindow BY <1>9 DEF CloseWindow, Notified, SyncMutexFree
<1> QED BY <1>1, <1>2, <1>3, <1>4, <1>5, <1>6, <1>7, <1>8, <1>9 DEF PlayFrame, HoldFrame

LEMMA SyncStutter == SyncInv /\ UNCHANGED syncVars => SyncInv'
BY DEF SyncInv, SyncTypeOK, ShownBeforeNext, NoLostNotification, Game, syncVars

(* The steps in which the game goes on past the loader, and the renderer.  *)
LEMMA PassesLoader ==
  ASSUME SyncInv,
         \/ Game({"update", "choose"}) /\ game' \in {At("choose"), At("check")}
              /\ render' = render
         \/ render = "load" /\ render' = "draw" /\ game' = game,
         UNCHANGED <<on_screen, buf, has_data, chain, ticked, passed, m_should_quit, exiting>>
  PROVE  SyncInv'
BY DEF SyncInv, SyncTypeOK, ShownBeforeNext, NoLostNotification, Game, At, Frames,
  SyncPlaces, GamePlaces, RenderPlaces

-----------------------------------------------------------------------------
(* The loader                                                              *)

LEMMA LoaderInitInv == LoaderInit => LoaderInv
<1> SUFFICES ASSUME LoaderInit PROVE LoaderInv
  OBVIOUS
<1>1. <<>> \in Wishes
  <2>1. <<>> \in [1 .. 0 -> Levels] /\ IsInjective(<<>>)
    BY DEF IsInjective
  <2>2. 0 \in 0 .. MaxWanted
    BY LoaderAssumption
  <2> QED BY <2>1, <2>2 DEF Wishes
<1>2. LoaderTypeOK
  <2>1. unused \in [Levels -> 0 .. Patience + 1] /\ merc \in [Levels -> Nat]
    BY LoaderAssumption DEF LoaderInit
  <2>2. upd \in [pc : UpdatePlaces, blocking : BOOLEAN, lev : Levels \cup {NoLevel}]
    BY DEF LoaderInit, UpdatePlaces
  <2>3. thread \in [pc : {"wait", "read"}, lev : Levels \cup {NoLevel}]
    BY DEF LoaderInit
  <2> QED BY <1>1, <2>1, <2>2, <2>3 DEF LoaderInit, LoaderTypeOK
<1>3. upd.pc = "idle" /\ thread.pc = "wait" /\ \A l \in Levels : merc[l] = 0
  BY DEF LoaderInit
<1> QED BY <1>2, <1>3, LoaderAssumption DEF LoaderInit, LoaderInv, IteratorKept,
      LevelInOnePlace, ModelsOfLoaded, CanLoad

(* A list of wanted levels is a sequence of levels. *)
LEMMA WishType ==
  ASSUME NEW levels \in Wishes
  PROVE  \E n \in Nat : levels \in [1 .. n -> Levels]
<1>1. PICK n \in 0 .. MaxWanted : levels \in [1 .. n -> Levels]
  BY DEF Wishes
<1> QED BY <1>1, LoaderAssumption

(* The level looked for is one that is not loaded, or none. *)
LEMMA FirstMissingType ==
  ASSUME LoaderTypeOK
  PROVE  FirstMissing = NoLevel \/ FirstMissing \in Levels \ loaded
<1> DEFINE missing == {i \in DOMAIN m_desired_levels : m_desired_levels[i] \notin loaded}
<1>1. PICK n \in Nat : m_desired_levels \in [1 .. n -> Levels]
  BY WishType DEF LoaderTypeOK
<1>2. CASE missing = {}
  BY <1>2 DEF FirstMissing
<1>3. CASE missing # {}
  <2>1. missing \subseteq Nat
    BY <1>1
  <2>2. \E i \in missing : \A j \in missing : ~ (<<j, i>> \in OpToRel(<, Nat))
    BY <2>1, <1>3, NatLessThanWellFounded, WFMin
  <2>3. \E i \in missing : \A j \in missing : i <= j
    <3>1. PICK i \in missing : \A j \in missing : ~ (<<j, i>> \in OpToRel(<, Nat))
      BY <2>2
    <3>2. ASSUME NEW j \in missing PROVE ~ (j < i)
      <4>1. j < i => <<j, i>> \in OpToRel(<, Nat)
        BY <2>1, <3>1 DEF OpToRel
      <4> QED BY <3>1, <4>1
    <3>3. ASSUME NEW j \in missing PROVE i <= j
      <4> HIDE DEF missing
      <4>1. i \in Nat /\ j \in Nat
        BY <2>1
      <4> QED BY <4>1, <3>2
    <3> QED BY <3>3
  <2>4. PICK i \in missing : FirstMissing = m_desired_levels[i]
    BY <1>3, <2>3 DEF FirstMissing
  <2> QED BY <2>4, <1>1
<1> QED BY <1>2, <1>3

(* Each of its steps, and those of the game in it, leaves the invariant.   *)
LEMMA GameKeepsLoader ==
  ASSUME LoaderInv,
         LookForLevel \/ \E levels \in Wishes : set_want_levels(levels)
  PROVE  LoaderInv'
<1> USE DEF LoaderInv, LoaderTypeOK, IteratorKept, LevelInOnePlace, ModelsOfLoaded, CanLoad
<1>1. CASE LookForLevel
  <2>1. FirstMissing = NoLevel \/ FirstMissing \in Levels \ loaded
    BY FirstMissingType
  <2> QED BY <1>1, <2>1, LoaderAssumption, ZenonT(60) DEF LookForLevel
<1>2. ASSUME NEW levels \in Wishes, set_want_levels(levels) PROVE LoaderInv'
  BY <1>2 DEF set_want_levels
<1> QED BY <1>1, <1>2

LEMMA ThreadKeepsLoader ==
  ASSUME LoaderInv, LoaderThread
  PROVE  LoaderInv'
<1> USE LoaderAssumption DEF LoaderInv, LoaderTypeOK, IteratorKept, LevelInOnePlace,
      ModelsOfLoaded, CanLoad, LoaderMutexFree
<1>1. CASE ThreadTakes BY <1>1 DEF ThreadTakes
<1>2. CASE ThreadDelivers
  <2>1. initializing = {} /\ ~merc_done /\ initializing' = {thread.lev} /\ thread.lev \in Levels
    BY <1>2 DEF ThreadDelivers
  <2> QED BY <1>2, <2>1 DEF ThreadDelivers
<1> QED BY <1>1, <1>2 DEF LoaderThread

(* What a step of update does to its record. *)
LEMMA UpdateRecord ==
  ASSUME LoaderTypeOK, NEW pc \in UpdatePlaces
  PROVE  /\ Update(pc) \in [pc : UpdatePlaces, blocking : BOOLEAN, lev : Levels \cup {NoLevel}]
         /\ Update(pc).pc = pc /\ Update(pc).lev = upd.lev
BY DEF LoaderTypeOK, Update

LEMMA UpdateLevel ==
  ASSUME LoaderTypeOK, NEW pc \in UpdatePlaces, NEW lev \in Levels,
         upd' = [upd EXCEPT !.pc = pc, !.lev = lev]
  PROVE  /\ upd' \in [pc : UpdatePlaces, blocking : BOOLEAN, lev : Levels \cup {NoLevel}]
         /\ upd'.pc = pc /\ upd'.lev = lev
BY DEF LoaderTypeOK

LEMMA ReturnRecord ==
  ASSUME LoaderTypeOK
  PROVE  /\ Return \in [pc : UpdatePlaces, blocking : BOOLEAN, lev : Levels \cup {NoLevel}]
         /\ Return.pc \in {"init", "done"} /\ Return.lev = upd.lev
<1>1. /\ Return = Update("init") \/ Return = Update("done")
      /\ "init" \in UpdatePlaces /\ "done" \in UpdatePlaces
  BY DEF Return, UpdatePlaces
<1>2. CASE Return = Update("init") BY <1>1, <1>2, UpdateRecord
<1>3. CASE Return = Update("done") BY <1>1, <1>3, UpdateRecord
<1> QED BY <1>1, <1>2, <1>3

(* The steps that only move on in update, to a place where nothing is held. *)
LEMMA MovesOn ==
  ASSUME LoaderInv,
         upd' \in [pc : UpdatePlaces, blocking : BOOLEAN, lev : Levels \cup {NoLevel}],
         upd'.pc \notin {"stages", "finish", "erase"},
         UNCHANGED <<m_desired_levels, m_level_to_load, initializing, loaded, unused, merc,
                     merc_done, looking, thread>>
  PROVE  LoaderInv'
BY DEF LoaderInv, LoaderTypeOK, IteratorKept, LevelInOnePlace, ModelsOfLoaded, CanLoad

LEMMA UpdateKeepsLoader ==
  ASSUME LoaderInv,
         UpdateStep \/ EndUpdate \/ \E blocking \in BOOLEAN : BeginUpdate(blocking)
  PROVE  LoaderInv'
<1>1. LoaderTypeOK
  BY DEF LoaderInv
<1>2. UpdatePlaces = {"idle", "await", "init", "missing", "want", "age", "pick", "stages",
                      "finish", "unload", "erase", "done"}
  BY DEF UpdatePlaces
<1> DEFINE UpdType == [pc : UpdatePlaces, blocking : BOOLEAN, lev : Levels \cup {NoLevel}]
<1>3. ASSUME UNCHANGED <<m_desired_levels, m_level_to_load, initializing, loaded, unused, merc,
                         merc_done, looking, thread>>,
             NEW pc \in UpdatePlaces \ {"stages", "finish", "erase"}, upd' = Update(pc)
      PROVE  LoaderInv'
  BY <1>1, <1>3, UpdateRecord, MovesOn
<1>4. CASE AwaitFile \/ UpdateAgain \/ CheckMissing
  BY <1>2, <1>3, <1>4 DEF AwaitFile, UpdateAgain, CheckMissing
<1>5. CASE EndUpdate \/ \E blocking \in BOOLEAN : BeginUpdate(blocking)
  <2>1. upd' \in UpdType /\ upd'.pc \notin {"stages", "finish", "erase"}
    <3>1. CASE EndUpdate
      BY <1>2, <3>1 DEF EndUpdate
    <3>2. ASSUME NEW blocking \in BOOLEAN, BeginUpdate(blocking)
          PROVE  upd' \in UpdType /\ upd'.pc \in {"await", "age"}
      <4>1. upd' = [pc |-> IF blocking THEN "await" ELSE "age", blocking |-> blocking, lev |-> NoLevel]
        BY <3>2 DEF BeginUpdate
      <4> QED BY <1>2, <4>1
    <3> QED BY <1>5, <3>1, <3>2
  <2> QED BY <1>5, <2>1, MovesOn DEF EndUpdate, BeginUpdate
<1>6. CASE WantAgain
  <2>1. FirstMissing = NoLevel \/ FirstMissing \in Levels \ loaded
    BY <1>1, FirstMissingType
  <2>2. upd' \in UpdType /\ upd'.pc = "await"
    <3>1. upd' = Update("await") /\ "await" \in UpdatePlaces
      BY <1>2, <1>6 DEF WantAgain
    <3> QED BY <1>1, <3>1, UpdateRecord
  <2>3. /\ m_level_to_load' = IF CanLoad THEN FirstMissing ELSE m_level_to_load
        /\ UNCHANGED <<m_desired_levels, initializing, loaded, unused, merc, merc_done,
                       looking, thread>>
        /\ ~looking
    BY <1>6 DEF WantAgain, LoaderMutexFree
  <2> QED BY <2>1, <2>2, <2>3, LoaderAssumption DEF LoaderInv, LoaderTypeOK, IteratorKept,
        LevelInOnePlace, ModelsOfLoaded, CanLoad
<1>7. CASE AgeLevels
  <2>1. upd' \in UpdType /\ upd'.pc = "pick"
    BY <1>1, <1>2, <1>7, UpdateRecord DEF AgeLevels
  <2>2. unused' \in [Levels -> 0 .. Patience + 1]
    BY <1>1, <1>7, LoaderAssumption DEF AgeLevels, LoaderTypeOK
  <2>3. UNCHANGED <<m_desired_levels, m_level_to_load, initializing, loaded, merc, merc_done,
                    looking, thread>>
    BY <1>7 DEF AgeLevels
  <2> QED BY <2>1, <2>2, <2>3 DEF LoaderInv, LoaderTypeOK, IteratorKept, LevelInOnePlace,
        ModelsOfLoaded, CanLoad
<1>8. CASE PickLevel
  <2>1. CASE initializing = {}
    BY <1>2, <1>3, <1>8, <2>1 DEF PickLevel
  <2>2. CASE initializing # {}
    <3>1. PICK l \in initializing : upd' = [upd EXCEPT !.pc = "stages", !.lev = l]
      BY <1>8, <2>2 DEF PickLevel
    <3>2. l \in Levels /\ initializing = {l}
      BY DEF LoaderInv, LoaderTypeOK, IteratorKept
    <3>3. upd' \in UpdType /\ upd'.pc = "stages" /\ upd'.lev = l
      <4>1. "stages" \in UpdatePlaces
        BY <1>2
      <4> QED BY <1>1, <3>1, <3>2, <4>1, UpdateLevel
    <3> QED BY <1>8, <3>2, <3>3 DEF PickLevel, LoaderInv, LoaderTypeOK, IteratorKept,
          LevelInOnePlace, ModelsOfLoaded, CanLoad
  <2> QED BY <2>1, <2>2
<1>9. CASE StagesUnfinished \/ StagesDone
  <2>1. initializing = {upd.lev} /\ upd.lev \in Levels
    BY <1>9 DEF StagesUnfinished, StagesDone, LoaderInv, LoaderTypeOK, IteratorKept
  <2>2. /\ upd' \in UpdType /\ upd'.lev = upd.lev /\ upd'.pc \in {"init", "done", "finish"}
        /\ upd'.pc = "finish" => merc_done'
    <3>1. CASE StagesUnfinished BY <1>1, <3>1, ReturnRecord DEF StagesUnfinished
    <3>2. CASE StagesDone BY <1>1, <1>2, <3>2, UpdateRecord DEF StagesDone
    <3> QED BY <1>9, <3>1, <3>2
  <2>3. /\ \/ merc' = EnterModels /\ merc_done' = TRUE
           \/ UNCHANGED <<merc, merc_done>>
        /\ UNCHANGED <<m_desired_levels, m_level_to_load, initializing, loaded, unused,
                       looking, thread>>
    BY <1>9 DEF StagesUnfinished, StagesDone
  <2>4. merc \in [Levels -> Nat] /\ initializing \cap loaded = {}
    BY <1>1 DEF LoaderInv, LevelInOnePlace, LoaderTypeOK
  <2>5. merc' \in [Levels -> Nat] /\ ModelsOfLoaded'
    BY <2>1, <2>3, <2>4 DEF EnterModels, LoaderInv, ModelsOfLoaded
  <2> QED BY <2>1, <2>2, <2>3, <2>5 DEF LoaderInv, LoaderTypeOK, IteratorKept, LevelInOnePlace,
        CanLoad
<1>10. CASE FinishLevel
  <2>1. initializing = {upd.lev} /\ upd.lev \in Levels /\ merc_done
    BY <1>10 DEF FinishLevel, LoaderInv, LoaderTypeOK, IteratorKept
  <2>2. upd' \in UpdType /\ upd'.pc \in {"init", "done"}
    BY <1>1, <1>10, ReturnRecord DEF FinishLevel
  <2>3. /\ loaded' = loaded \cup {upd.lev} /\ initializing' = {} /\ merc_done' = FALSE
        /\ UNCHANGED <<m_desired_levels, m_level_to_load, merc, looking, thread>>
    BY <1>10, <2>1 DEF FinishLevel
  <2>4. unused' \in [Levels -> 0 .. Patience + 1]
    BY <1>1, <1>10, <2>1, LoaderAssumption DEF FinishLevel, LoaderTypeOK
  <2>5. ModelsOfLoaded'
    BY <2>1, <2>3 DEF LoaderInv, ModelsOfLoaded
  <2> QED BY <2>1, <2>2, <2>3, <2>4, <2>5, LoaderAssumption DEF LoaderInv, LoaderTypeOK,
        IteratorKept, LevelInOnePlace, CanLoad
<1>11. CASE PickUnload
  <2>1. Unloadable \subseteq loaded
    BY DEF Unloadable
  <2>2. CASE upd' = Return
    BY <1>1, <1>11, <2>2, ReturnRecord, MovesOn DEF PickUnload
  <2>3. ASSUME NEW l \in Unloadable, upd' = [upd EXCEPT !.pc = "erase", !.lev = l]
        PROVE  LoaderInv'
    <3>1. l \in loaded /\ l \in Levels
      BY <1>1, <2>1 DEF LoaderTypeOK
    <3>2. upd' \in UpdType /\ upd'.pc = "erase" /\ upd'.lev = l
      <4>1. "erase" \in UpdatePlaces
        BY <1>2
      <4> QED BY <1>1, <2>3, <3>1, <4>1, UpdateLevel
    <3> QED BY <1>11, <3>1, <3>2 DEF PickUnload, LoaderInv, LoaderTypeOK, IteratorKept,
          LevelInOnePlace, ModelsOfLoaded, CanLoad
  <2> QED BY <1>11, <2>2, <2>3 DEF PickUnload
<1>12. CASE EraseLevel
  <2>1. upd.lev \in loaded /\ upd.lev \in Levels /\ upd.lev \notin initializing
    BY <1>12 DEF EraseLevel, LoaderInv, LoaderTypeOK, LevelInOnePlace
  <2>2. upd' \in UpdType /\ upd'.pc \in {"init", "done"}
    BY <1>1, <1>12, ReturnRecord DEF EraseLevel
  <2>3. /\ merc' = [merc EXCEPT ![upd.lev] = @ - 1] /\ loaded' = loaded \ {upd.lev}
        /\ UNCHANGED <<m_desired_levels, m_level_to_load, initializing, unused, merc_done,
                       looking, thread>>
    BY <1>12 DEF EraseLevel
  <2>4. merc[upd.lev] = 1 /\ merc \in [Levels -> Nat]
    BY <2>1 DEF LoaderInv, LoaderTypeOK, ModelsOfLoaded
  <2>5. merc' \in [Levels -> Nat] /\ ModelsOfLoaded'
    BY <2>1, <2>3, <2>4 DEF LoaderInv, ModelsOfLoaded
  <2> QED BY <2>2, <2>3, <2>5 DEF LoaderInv, LoaderTypeOK, IteratorKept, LevelInOnePlace, CanLoad
<1> QED BY <1>4, <1>5, <1>6, <1>7, <1>8, <1>9, <1>10, <1>11, <1>12 DEF UpdateStep

LEMMA UseKeepsLoader ==
  ASSUME LoaderInv, NEW used \in SUBSET loaded, UseLevels(used)
  PROVE  LoaderInv'
BY LoaderAssumption DEF LoaderInv, LoaderTypeOK, IteratorKept, LevelInOnePlace, ModelsOfLoaded,
  CanLoad, UseLevels

LEMMA LoaderStutter == LoaderInv /\ UNCHANGED loaderVars => LoaderInv'
BY DEF LoaderInv, LoaderTypeOK, IteratorKept, LevelInOnePlace, ModelsOfLoaded, CanLoad, loaderVars

-----------------------------------------------------------------------------
(* The two together                                                        *)

LEMMA InitIInv == Init => IInv
BY SyncInitInv, LoaderInitInv DEF Init, IInv

LEMMA StepIInv == IInv /\ [Next]_vars => IInv'
<1> SUFFICES ASSUME SyncInv, LoaderInv, [Next]_vars PROVE SyncInv' /\ LoaderInv'
  BY DEF IInv
<1>1. CASE GameThread
  <2>1. CASE /\ \/ KernelCheckAndDispatch \/ DrawFrame \/ gl_sync_path \/ display_frame_finish
                \/ gl_vsync \/ gl_send_chain \/ display_frame_start \/ Block
             /\ UNCHANGED loaderVars
    BY <2>1, GameKeepsSync, LoaderStutter
  <2>2. CASE SetLevels
    <3>1. SyncInv'
      BY <2>2, PassesLoader DEF SetLevels, Game
    <3> QED BY <2>2, <3>1, GameKeepsLoader DEF SetLevels
  <2>3. CASE ChooseLevel
    <3>1. SyncInv'
      BY <2>3, PassesLoader DEF ChooseLevel, Game
    <3> QED BY <2>3, <3>1, GameKeepsLoader DEF ChooseLevel
  <2> QED BY <1>1, <2>1, <2>2, <2>3 DEF GameThread
<1>2. CASE GraphicsThread
  <2>1. CASE /\ \/ PlayFrame \/ HoldFrame \/ LeaveLoop \/ WaitForChain \/ TakeChain
                \/ MarkRendered \/ EndFrame \/ Reboot \/ CloseWindow
             /\ UNCHANGED loaderVars
    BY <2>1, GraphicsKeepsSync, LoaderStutter
  <2>2. CASE UpdateLoader
    BY <2>2, UpdateKeepsLoader, SyncStutter DEF UpdateLoader
  <2>3. CASE LoaderUpdated
    <3>1. SyncInv'
      BY <2>3, PassesLoader DEF LoaderUpdated
    <3> QED BY <2>3, <3>1, UpdateKeepsLoader DEF LoaderUpdated
  <2>4. CASE DrawChain
    BY <2>4, GraphicsKeepsSync, UseKeepsLoader DEF DrawChain
  <2> QED BY <1>2, <2>1, <2>2, <2>3, <2>4 DEF GraphicsThread
<1>3. CASE ReadLevels
  BY <1>3, ThreadKeepsLoader, SyncStutter DEF ReadLevels
<1>4. CASE UNCHANGED vars
  BY <1>4, SyncStutter, LoaderStutter DEF vars
<1> QED BY <1>1, <1>2, <1>3, <1>4 DEF Next

(* The inductive invariant holds for any levels and bounds. *)
THEOREM Invariant == Spec => []IInv
BY InitIInv, StepIInv, PTL DEF Spec

(* Every variable keeps its type. *)
THEOREM Types == Spec => []TypeOK
<1>1. IInv => TypeOK
  BY DEF IInv, SyncInv, LoaderInv, TypeOK
<1> QED BY <1>1, Invariant, PTL

(* The renderer follows complete chains only, while the game, which shares *)
(* their memory, draws the next frame.                                     *)
THEOREM CompleteChains == Spec => []RendersCompleteChain
<1>1. IInv => RendersCompleteChain
  BY DEF IInv, SyncInv, RendersCompleteChain
<1> QED BY <1>1, Invariant, PTL

(* No chain is refused, and none is sent before the last one is shown. *)
THEOREM FramesInTurn == Spec => [](NeverRefused /\ ShownBeforeNext)
<1>1. IInv => NeverRefused /\ ShownBeforeNext
  BY DEF IInv, SyncInv, NeverRefused, Game
<1> QED BY <1>1, Invariant, PTL

(* A notification under the wrong mutex is made up for by the next one. *)
THEOREM NotificationsKept == Spec => []NoLostNotification
<1>1. IInv => NoLostNotification
  BY DEF IInv, SyncInv
<1> QED BY <1>1, Invariant, PTL

(* The iterator that update keeps without the mutex stays valid. *)
THEOREM IteratorValid == Spec => []IteratorKept
<1>1. IInv => IteratorKept
  BY DEF IInv, LoaderInv
<1> QED BY <1>1, Invariant, PTL

(* A level is never in two of the loader's places. *)
THEOREM OnePlace == Spec => []LevelInOnePlace
<1>1. IInv => LevelInOnePlace
  BY DEF IInv, LoaderInv
<1> QED BY <1>1, Invariant, PTL

(* The table of models agrees with the levels loaded. *)
THEOREM ModelsExact == Spec => []ModelsOfLoaded
<1>1. IInv => ModelsOfLoaded
  BY DEF IInv, LoaderInv
<1> QED BY <1>1, Invariant, PTL
=============================================================================
