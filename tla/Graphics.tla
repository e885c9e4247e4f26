------------------------------ MODULE Graphics ------------------------------
(***************************************************************************)
(* The game thread, the graphics thread and the loader thread together:    *)
(* the game names the levels it wants at the end of each turn of its       *)
(* display loop, and the graphics thread brings the loader up to date at   *)
(* the start of each chain (OpenGLRenderer::render), while the game may be *)
(* waiting for that chain.                                                 *)
(***************************************************************************)
EXTENDS GfxSync, GfxLoader

vars == <<syncVars, loaderVars>>

Init == SyncInit /\ LoaderInit

(* level-update ends with __pc-set-levels; then the frame is over. *)
SetLevels ==
  /\ Game({"update"})
  /\ \E levels \in Wishes : set_want_levels(levels)
  /\ game' = At(IF looking' THEN "choose" ELSE "check")
  /\ UNCHANGED <<on_screen, buf, has_data, chain, ticked, passed, render, m_should_quit, exiting>>

ChooseLevel ==
  /\ Game({"choose"})
  /\ LookForLevel
  /\ game' = At("check")
  /\ UNCHANGED <<on_screen, buf, has_data, chain, ticked, passed, render, m_should_quit, exiting>>

GameThread ==
  \/ /\ \/ KernelCheckAndDispatch \/ DrawFrame \/ gl_sync_path \/ display_frame_finish
        \/ gl_vsync \/ gl_send_chain \/ display_frame_start \/ Block
     /\ UNCHANGED loaderVars
  \/ SetLevels
  \/ ChooseLevel

(* Out of black, when the last chain was black and this one is not. *)
UpdateLoader ==
  /\ render = "load"
  /\ \/ \E blocking \in BOOLEAN : BeginUpdate(blocking)
     \/ UpdateStep
  /\ UNCHANGED syncVars

LoaderUpdated ==
  /\ render = "load"
  /\ EndUpdate
  /\ render' = "draw"
  /\ UNCHANGED <<game, on_screen, buf, has_data, chain, ticked, passed, m_should_quit, exiting>>

DrawChain ==
  /\ RenderChain
  /\ \E used \in SUBSET loaded : UseLevels(used)

GraphicsThread ==
  \/ /\ \/ PlayFrame \/ HoldFrame \/ LeaveLoop \/ WaitForChain \/ TakeChain
        \/ MarkRendered \/ EndFrame \/ Reboot \/ CloseWindow
     /\ UNCHANGED loaderVars
  \/ UpdateLoader
  \/ LoaderUpdated
  \/ DrawChain

ReadLevels == LoaderThread /\ UNCHANGED syncVars

Next == GameThread \/ GraphicsThread \/ ReadLevels

(* The three are threads of the system.  The debug window does not hold    *)
(* the frame for ever, and the stages of a level end after some frames.    *)
Fairness ==
  /\ WF_vars(GameThread) /\ WF_vars(GraphicsThread) /\ WF_vars(ReadLevels)
  /\ SF_vars(PlayFrame /\ UNCHANGED loaderVars)
  /\ SF_vars(render = "load" /\ StagesDone /\ UNCHANGED syncVars)

Spec == Init /\ [][Next]_vars /\ Fairness

-----------------------------------------------------------------------------
TypeOK == SyncTypeOK /\ LoaderTypeOK

(* The inductive invariant of the two halves. *)
IInv == SyncInv /\ LoaderInv

(* The game gets through sync-path, even when it arrives there while the   *)
(* renderer reads in every wanted level from the disc, and even when the   *)
(* notification comes between its test and its wait; unless the runtime is *)
(* ending.                                                                 *)
SyncPathReturns == Game(SyncPlaces) ~> (~Game(SyncPlaces) \/ exiting)

(* The game gets through syncv in any case, also when the runtime ends     *)
(* without a notification.                                                 *)
VsyncReturns == Game({"vsync"}) ~> ~Game({"vsync"})

(* A level the game goes on wanting is loaded, whatever is unloaded and    *)
(* however often the game changes its mind about the others, if chains are *)
(* rendered at all: one that comes in the moments between the end of the   *)
(* 40 milliseconds and MarkRendered never is.                              *)
WantedIsLoaded ==
  []<>(render = "draw") =>
    \A l \in Levels :
      l \in ToSet(m_desired_levels) ~> (l \in loaded \/ l \notin ToSet(m_desired_levels))

(* Coming out of black ends. *)
BlackoutEnds == upd.blocking ~> ~upd.blocking

(* When the runtime is told to end, the game thread and the graphics       *)
(* thread do (exec_runtime: "fully shut down EE first before stopping the  *)
(* other threads").                                                        *)
ExitEnds == exiting ~> (Game({"stopped"}) /\ render = "stopped")
=============================================================================
