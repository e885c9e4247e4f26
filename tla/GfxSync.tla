------------------------------ MODULE GfxSync ------------------------------
(***************************************************************************)
(* How the game thread and the graphics thread take turns over a frame:    *)
(* sync-path, syncv and the sending of the DMA chain in the display loop   *)
(* (engine/game/main.gc, engine/draw/drawable.gc), and gl_sync_path,       *)
(* gl_vsync, gl_send_chain and the loop around GLDisplay::render           *)
(* (graphics/pipelines/opengl.cpp), until one of them ends the runtime.    *)
(*                                                                         *)
(* There are two mutexes.  dma_mutex guards has_data_to_render where it is *)
(* set, awaited and cleared; each such section is one step here.           *)
(* sync_mutex guards frame_idx; the game holds it from a failed test until *)
(* it is in the wait set of sync_cv (at = "block").  The graphics thread   *)
(* clears has_data_to_render and notifies under the OTHER mutex, so its    *)
(* notification can fall between the game's test and its wait.             *)
(*                                                                         *)
(* The chain is rendered out of the game's memory (run_dma_copy is off):   *)
(* nothing but this protocol keeps the game from writing to it meanwhile.  *)
(*                                                                         *)
(* Of frame_idx and frame_idx_of_input_data only their comparison is kept. *)
(* Spurious wake-ups of sync_cv, which repeat a test, are left out.        *)
(***************************************************************************)
EXTENDS Naturals

VARIABLES
  game,       \* the game thread: place in the display loop, and in a wait
  on_screen,  \* frame of the display being drawn
  buf,        \* what the DMA buffers of the two frames hold
  has_data,   \* has_data_to_render
  chain,      \* the frame dma_copier points to
  ticked,     \* frame_idx > frame_idx_of_input_data
  passed,     \* frame_idx > init_frame of the gl_vsync that waits
  render,     \* the graphics thread: place in the loop
  m_should_quit,
  exiting     \* MasterExit # RUNNING

syncVars == <<game, on_screen, buf, has_data, chain, ticked, passed, render,
              m_should_quit, exiting>>

Frames == {0, 1}
SyncPlaces == {"sync_draw", "sync_display"}
GamePlaces == SyncPlaces \cup
              {"check", "draw", "finish", "vsync", "send", "start", "update", "choose", "stopped"}
RenderPlaces == {"loop", "wait", "take", "load", "draw", "mark", "tick", "reboot", "close", "stopped"}

Game(places) == game.pc \in places
At(pc) == [pc |-> pc, at |-> "test"]

(* The display loop after its first display-sync, which had nothing to     *)
(* send.                                                                   *)
SyncInit ==
  /\ game = At("finish") /\ on_screen = 1
  /\ buf = [f \in Frames |-> IF f = 1 THEN "drawing" ELSE "empty"]
  /\ has_data = FALSE /\ chain = 0
  /\ ticked = TRUE /\ passed = FALSE
  /\ render = "loop"
  /\ m_should_quit = FALSE /\ exiting = FALSE

-----------------------------------------------------------------------------
(* Waiting for sync_cv                                                     *)

(* sync_mutex is not held by the game. *)
SyncMutexFree == game.at # "block"

(* notify_all on sync_cv: who waits tests again. *)
Notified == IF game.at = "wait" THEN [game EXCEPT !.at = "test"] ELSE game

(* The wait with its predicate: on a failed test the game still holds the  *)
(* mutex, and joins the wait set in a step of its own.                     *)
Test(pred, next) ==
  /\ game.at = "test"
  /\ game' = IF pred THEN At(next) ELSE [game EXCEPT !.at = "block"]

Block ==
  /\ game.at = "block"
  /\ game' = [game EXCEPT !.at = "wait"]
  /\ UNCHANGED <<on_screen, buf, has_data, chain, ticked, passed, render, m_should_quit, exiting>>

-----------------------------------------------------------------------------
(* The game thread                                                         *)

(* Each turn takes a message of the listener, which may ask for a reset or *)
(* a shutdown, and runs the kernel once all the same.                      *)
KernelCheckAndDispatch ==
  /\ Game({"check"})
  /\ IF exiting THEN game' = At("stopped") /\ UNCHANGED exiting
     ELSE game' = At("draw") /\ exiting' \in BOOLEAN
  /\ UNCHANGED <<on_screen, buf, has_data, chain, ticked, passed, render, m_should_quit>>

(* The processes run and draw into the frame; one may call kernel-shutdown. *)
DrawFrame ==
  /\ Game({"draw"})
  /\ game' = At("sync_draw")
  /\ exiting' \in {exiting, TRUE}
  /\ UNCHANGED <<on_screen, buf, has_data, chain, ticked, passed, render, m_should_quit>>

(* Fault: the game does not wait for the renderer. *)
gl_sync_path_NoWait ==
  /\ Game(SyncPlaces)
  /\ Test(TRUE, IF Game({"sync_draw"}) THEN "finish" ELSE "vsync")
  /\ UNCHANGED <<on_screen, buf, has_data, chain, ticked, passed, render, m_should_quit, exiting>>

gl_sync_path ==
  /\ Game(SyncPlaces)
  /\ Test(~has_data, IF Game({"sync_draw"}) THEN "finish" ELSE "vsync")
  /\ UNCHANGED <<on_screen, buf, has_data, chain, ticked, passed, render, m_should_quit, exiting>>

(* The last drawing, and the end of the chain. *)
display_frame_finish ==
  /\ Game({"finish"})
  /\ game' = At("sync_display")
  /\ buf' = [buf EXCEPT ![on_screen] = "complete"]
  /\ UNCHANGED <<on_screen, has_data, chain, ticked, passed, render, m_should_quit, exiting>>

(* init_frame is frame_idx_of_input_data when the game gets the mutex; the *)
(* tests after a wait are against that frame. *)
gl_vsync ==
  /\ Game({"vsync"})
  /\ Test(exiting \/ ticked \/ passed, "send")
  /\ passed' = FALSE
  /\ UNCHANGED <<on_screen, buf, has_data, chain, ticked, render, m_should_quit, exiting>>

(* A chain that comes while one is pending is refused with an error. *)
gl_send_chain ==
  /\ Game({"send"})
  /\ game' = At("start")
  /\ IF has_data THEN UNCHANGED <<has_data, chain>>
     ELSE has_data' = TRUE /\ chain' = on_screen
  /\ UNCHANGED <<on_screen, buf, ticked, passed, render, m_should_quit, exiting>>

(* Fault: the game goes on drawing into the frame it has sent. *)
display_frame_start_Same ==
  /\ Game({"start"})
  /\ game' = At("update")
  /\ buf' = [buf EXCEPT ![on_screen] = "drawing"]
  /\ UNCHANGED <<on_screen, has_data, chain, ticked, passed, render, m_should_quit, exiting>>

(* display-sync goes on to the other frame and resets its buffers. *)
display_frame_start ==
  /\ Game({"start"})
  /\ game' = At("update")
  /\ on_screen' = 1 - on_screen
  /\ buf' = [buf EXCEPT ![1 - on_screen] = "drawing"]
  /\ UNCHANGED <<has_data, chain, ticked, passed, render, m_should_quit, exiting>>

-----------------------------------------------------------------------------
(* The graphics thread                                                     *)

(* One turn of Gfx::Loop: the events may ask to quit; the debug window may *)
(* hold the frame back.                                                    *)
BeginFrame(next) ==
  /\ render = "loop" /\ ~exiting
  /\ render' = next
  /\ m_should_quit' \in {m_should_quit, TRUE}
  /\ UNCHANGED <<game, on_screen, buf, has_data, chain, ticked, passed, exiting>>

PlayFrame == BeginFrame("wait")
HoldFrame == BeginFrame("tick")

LeaveLoop ==
  /\ render = "loop" /\ exiting
  /\ render' = "stopped"
  /\ UNCHANGED <<game, on_screen, buf, has_data, chain, ticked, passed, m_should_quit, exiting>>

(* dma_cv: a chain, or 40 milliseconds without one. *)
WaitForChain ==
  /\ render = "wait"
  /\ render' = IF has_data THEN "take" ELSE "mark"
  /\ UNCHANGED <<game, on_screen, buf, has_data, chain, ticked, passed, m_should_quit, exiting>>

(* Fault: the chain is marked as rendered when it is taken. *)
TakeChain_Marks ==
  /\ render = "take"
  /\ render' = "load"
  /\ ticked' = FALSE /\ has_data' = FALSE /\ game' = Notified
  /\ UNCHANGED <<on_screen, buf, chain, passed, m_should_quit, exiting>>

(* frame_idx_of_input_data = frame_idx, under no mutex. *)
TakeChain ==
  /\ render = "take"
  /\ render' = "load"
  /\ ticked' = FALSE
  /\ UNCHANGED <<game, on_screen, buf, has_data, chain, passed, m_should_quit, exiting>>

(* dispatch_buckets follows the chain through the game's memory. *)
RenderChain ==
  /\ render = "draw"
  /\ render' = "mark"
  /\ UNCHANGED <<game, on_screen, buf, has_data, chain, ticked, passed, m_should_quit, exiting>>

(* Whether or not there was a chain. *)
MarkRendered ==
  /\ render = "mark"
  /\ render' = "tick"
  /\ has_data' = FALSE
  /\ game' = Notified
  /\ UNCHANGED <<on_screen, buf, chain, ticked, passed, m_should_quit, exiting>>

(* Fault: the end of a frame wakes nobody. *)
EndFrame_Silent ==
  /\ render = "tick" /\ SyncMutexFree
  /\ render' = "reboot"
  /\ ticked' = TRUE /\ passed' = (passed \/ (Game({"vsync"}) /\ game.at = "wait"))
  /\ UNCHANGED <<game, on_screen, buf, has_data, chain, m_should_quit, exiting>>

(* frame_idx++ *)
EndFrame ==
  /\ render = "tick" /\ SyncMutexFree
  /\ render' = "reboot"
  /\ ticked' = TRUE /\ passed' = (passed \/ (Game({"vsync"}) /\ game.at = "wait"))
  /\ game' = Notified
  /\ UNCHANGED <<on_screen, buf, has_data, chain, m_should_quit, exiting>>

(* A reboot asked for in the debug window: no mutex, no notification. *)
Reboot ==
  /\ render = "reboot"
  /\ render' = "close"
  /\ exiting' \in {exiting, TRUE}
  /\ UNCHANGED <<game, on_screen, buf, has_data, chain, ticked, passed, m_should_quit>>

CloseWindow ==
  /\ render = "close"
  /\ render' = "loop"
  /\ IF m_should_quit THEN SyncMutexFree /\ exiting' = TRUE /\ game' = Notified
     ELSE UNCHANGED <<game, exiting>>
  /\ UNCHANGED <<on_screen, buf, has_data, chain, ticked, passed, m_should_quit>>

-----------------------------------------------------------------------------
SyncTypeOK ==
  /\ game \in [pc : GamePlaces, at : {"test", "block", "wait"}]
  /\ on_screen \in Frames /\ chain \in Frames
  /\ buf \in [Frames -> {"empty", "drawing", "complete"}]
  /\ render \in RenderPlaces
  /\ {has_data, ticked, passed, m_should_quit, exiting} \subseteq BOOLEAN

(* The renderer never follows a chain the game is writing to: from when it *)
(* is taken until it is marked, the buffers it lies in are complete, though *)
(* neither mutex is held and the buffers are the game's.                   *)
RendersCompleteChain ==
  render \in {"take", "load", "draw"} => has_data /\ buf[chain] = "complete"

(* gl_send_chain never has to refuse a chain ("Was this called multiple    *)
(* times per frame?"), however long frames take on either side.            *)
NeverRefused == Game({"send"}) => ~has_data

(* The next chain is sent only after the frame of the last one rendered is *)
(* over (display-sync: "do a vsync to get that frame on screen"), unless   *)
(* the runtime ends.                                                       *)
ShownBeforeNext == Game({"send"}) => ticked \/ exiting

(* No notification is lost for good.  A game that waits for its chain still *)
(* has it pending, or missed only the notification of the frame that is     *)
(* about to end with another one; a game that waits for the vsync does so   *)
(* in exactly that part of the frame, and the runtime cannot end before it, *)
(* so that an end that notifies nobody (Reboot) leaves it waiting for none. *)
NoLostNotification ==
  game.at \in {"block", "wait"} =>
    \/ Game(SyncPlaces) /\ (has_data \/ render = "tick")
    \/ Game({"vsync"}) /\ render = "tick" /\ ~ticked /\ ~passed

(* What they rest on: from the sending of a chain until it is marked the   *)
(* game is on the other frame, and the frame of a chain ends after it.     *)
SyncInv ==
  /\ SyncTypeOK
  /\ Game({"finish", "sync_display", "vsync", "send"}) => ~has_data
  /\ Game({"sync_display", "vsync", "send"}) => buf[on_screen] = "complete"
  /\ has_data => /\ buf[chain] = "complete"
                 /\ IF Game({"start"}) THEN chain = on_screen ELSE chain = 1 - on_screen
  /\ render \in {"take", "load", "draw"} => has_data
  /\ ~ticked => render = "tick" \/ (render \in {"load", "draw", "mark"} /\ has_data)
  /\ passed => Game({"vsync"}) /\ ticked
  /\ ShownBeforeNext /\ NoLostNotification
=============================================================================
