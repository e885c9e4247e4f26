----------------------------- MODULE GfxLoader -----------------------------
(***************************************************************************)
(* The loader of level data for the renderer                               *)
(* (graphics/opengl_renderer/loader/Loader.cpp, LoaderStages.cpp): the     *)
(* game names the levels it wants, a thread of its own reads and unpacks   *)
(* their files, and the graphics thread uploads them in stages, a budget   *)
(* per frame, or all of them at once when the screen comes out of black.   *)
(*                                                                         *)
(* m_loader_mutex guards most of it; each section is one step, but for     *)
(* set_want_levels, whose search for a level to load is a step of its own  *)
(* (looking), as the graphics thread reads m_desired_levels and changes    *)
(* m_loaded_tfrag3_levels without the mutex when it unloads a level.       *)
(*                                                                         *)
(* Of the stages, which are shared by all levels and reset after each one, *)
(* the one with a lasting effect is kept: MercLoaderStage enters the       *)
(* models of the level in m_all_merc_models.  The freeing of buffers and   *)
(* textures, and m_active_levels, which Jak 1 leaves empty, are left out.  *)
(***************************************************************************)
EXTENDS Naturals, Sequences, SequencesExt, FiniteSets

CONSTANTS
  Levels,    \* levels with an FR3 file
  NoLevel,
  MaxLevels, \* m_max_levels: from so many on a level is unloaded
  MaxWanted, \* levels the game asks for at once
  Patience   \* 180, the frames a level stays unused before it is unloaded

ASSUME LoaderAssumption ==
  NoLevel \notin Levels /\ MaxLevels \in Nat \ {0} /\ MaxWanted \in Nat /\ Patience \in Nat

VARIABLES
  m_desired_levels, \* in order
  m_level_to_load,
  initializing,     \* keys of m_initializing_tfrag3_levels
  loaded,           \* keys of m_loaded_tfrag3_levels
  unused,           \* frames_since_last_used of each loaded level
  merc,             \* references to a level's models in m_all_merc_models
  merc_done,        \* m_done of MercLoaderStage
  looking,          \* the game is in set_want_levels, with the mutex
  thread,           \* loader_thread
  upd               \* update, update_blocking

loaderVars == <<m_desired_levels, m_level_to_load, initializing, loaded, unused, merc,
                merc_done, looking, thread, upd>>

Wishes == UNION {{s \in [1 .. n -> Levels] : IsInjective(s)} : n \in 0 .. MaxWanted}

UpdatePlaces == {"idle", "await", "init", "missing", "want", "age", "pick", "stages",
                 "finish", "unload", "erase", "done"}

LoaderInit ==
  /\ m_desired_levels = <<>> /\ m_level_to_load = NoLevel
  /\ initializing = {} /\ loaded = {}
  /\ unused = [l \in Levels |-> 0] /\ merc = [l \in Levels |-> 0]
  /\ merc_done = FALSE /\ looking = FALSE
  /\ thread = [pc |-> "wait", lev |-> NoLevel]
  /\ upd = [pc |-> "idle", blocking |-> FALSE, lev |-> NoLevel]

Update(pc) == [upd EXCEPT !.pc = pc]
LoaderMutexFree == ~looking

-----------------------------------------------------------------------------
(* set_want_levels                                                         *)

(* Fault: a level that is being initialized does not make it wait. *)
CanLoad_Eager == m_level_to_load = NoLevel

CanLoad == m_level_to_load = NoLevel /\ initializing = {}

(* The first level wanted that is not loaded. *)
FirstMissing ==
  LET missing == {i \in DOMAIN m_desired_levels : m_desired_levels[i] \notin loaded}
  IN  IF missing = {} THEN NoLevel
      ELSE m_desired_levels[CHOOSE i \in missing : \A j \in missing : i <= j]

(* Fault: a list that has not changed is not looked through again. *)
set_want_levels_Changed(levels) ==
  /\ ~looking
  /\ m_desired_levels' = levels
  /\ looking' = (CanLoad /\ levels # m_desired_levels)
  /\ UNCHANGED <<m_level_to_load, initializing, loaded, unused, merc, merc_done, thread, upd>>

set_want_levels(levels) ==
  /\ ~looking
  /\ m_desired_levels' = levels
  /\ looking' = CanLoad
  /\ UNCHANGED <<m_level_to_load, initializing, loaded, unused, merc, merc_done, thread, upd>>

LookForLevel ==
  /\ looking
  /\ looking' = FALSE
  /\ m_level_to_load' = FirstMissing
  /\ UNCHANGED <<m_desired_levels, initializing, loaded, unused, merc, merc_done, thread, upd>>

-----------------------------------------------------------------------------
(* loader_thread                                                           *)

(* m_loader_cv: a level to load. *)
ThreadTakes ==
  /\ thread.pc = "wait" /\ LoaderMutexFree
  /\ m_level_to_load # NoLevel
  /\ thread' = [pc |-> "read", lev |-> m_level_to_load]
  /\ UNCHANGED <<m_desired_levels, m_level_to_load, initializing, loaded, unused, merc,
                 merc_done, looking, upd>>

(* The file has been read and unpacked without the mutex. *)
ThreadDelivers ==
  /\ thread.pc = "read" /\ LoaderMutexFree
  /\ initializing' = initializing \cup {thread.lev}
  /\ m_level_to_load' = NoLevel
  /\ thread' = [pc |-> "wait", lev |-> NoLevel]
  /\ UNCHANGED <<m_desired_levels, loaded, unused, merc, merc_done, looking, upd>>

LoaderThread == ThreadTakes \/ ThreadDelivers

-----------------------------------------------------------------------------
(* update_blocking                                                         *)

BeginUpdate(blocking) ==
  /\ upd.pc = "idle"
  /\ upd' = [pc |-> IF blocking THEN "await" ELSE "age", blocking |-> blocking, lev |-> NoLevel]
  /\ UNCHANGED <<m_desired_levels, m_level_to_load, initializing, loaded, unused, merc,
                 merc_done, looking, thread>>

(* m_file_load_done_cv *)
AwaitFile ==
  /\ upd.pc = "await" /\ LoaderMutexFree
  /\ m_level_to_load = NoLevel
  /\ upd' = Update("init")
  /\ UNCHANGED <<m_desired_levels, m_level_to_load, initializing, loaded, unused, merc,
                 merc_done, looking, thread>>

UpdateAgain ==
  /\ upd.pc = "init" /\ LoaderMutexFree
  /\ upd' = Update(IF initializing = {} THEN "missing" ELSE "age")
  /\ UNCHANGED <<m_desired_levels, m_level_to_load, initializing, loaded, unused, merc,
                 merc_done, looking, thread>>

CheckMissing ==
  /\ upd.pc = "missing" /\ LoaderMutexFree
  /\ upd' = Update(IF FirstMissing = NoLevel THEN "done" ELSE "want")
  /\ UNCHANGED <<m_desired_levels, m_level_to_load, initializing, loaded, unused, merc,
                 merc_done, looking, thread>>

(* Fault: the levels still missing are waited for, but not asked for. *)
WantAgain_Only ==
  /\ upd.pc = "want" /\ LoaderMutexFree
  /\ upd' = Update("await")
  /\ UNCHANGED <<m_desired_levels, m_level_to_load, initializing, loaded, unused, merc,
                 merc_done, looking, thread>>

(* set_want_levels(m_desired_levels): the argument is read under the mutex. *)
WantAgain ==
  /\ upd.pc = "want" /\ LoaderMutexFree
  /\ m_level_to_load' = IF CanLoad THEN FirstMissing ELSE m_level_to_load
  /\ upd' = Update("await")
  /\ UNCHANGED <<m_desired_levels, initializing, loaded, unused, merc, merc_done, looking, thread>>

-----------------------------------------------------------------------------
(* update                                                                  *)

Return == Update(IF upd.blocking THEN "init" ELSE "done")

AgeLevels ==
  /\ upd.pc = "age" /\ LoaderMutexFree
  /\ unused' = [l \in Levels |-> IF l \in loaded /\ unused[l] <= Patience
                                 THEN unused[l] + 1 ELSE unused[l]]
  /\ upd' = Update("pick")
  /\ UNCHANGED <<m_desired_levels, m_level_to_load, initializing, loaded, merc, merc_done,
                 looking, thread>>

PickLevel ==
  /\ upd.pc = "pick" /\ LoaderMutexFree
  /\ IF initializing = {} THEN upd' = Update("unload")
     ELSE \E l \in initializing : upd' = [upd EXCEPT !.pc = "stages", !.lev = l]
  /\ UNCHANGED <<m_desired_levels, m_level_to_load, initializing, loaded, unused, merc,
                 merc_done, looking, thread>>

(* MercLoaderStage::run, once per level. *)
EnterModels == IF merc_done THEN merc ELSE [merc EXCEPT ![upd.lev] = @ + 1]

(* The budget of the frame runs out, in a stage before or after the models. *)
StagesUnfinished ==
  /\ upd.pc = "stages"
  /\ upd' = Return
  /\ \/ merc' = EnterModels /\ merc_done' = TRUE
     \/ UNCHANGED <<merc, merc_done>>
  /\ UNCHANGED <<m_desired_levels, m_level_to_load, initializing, loaded, unused, looking, thread>>

StagesDone ==
  /\ upd.pc = "stages"
  /\ upd' = Update("finish")
  /\ merc' = EnterModels /\ merc_done' = TRUE
  /\ UNCHANGED <<m_desired_levels, m_level_to_load, initializing, loaded, unused, looking, thread>>

(* Fault: the stages are not reset for the next level. *)
FinishLevel_NoReset ==
  /\ upd.pc = "finish" /\ LoaderMutexFree
  /\ loaded' = loaded \cup {upd.lev} /\ initializing' = initializing \ {upd.lev}
  /\ unused' = [unused EXCEPT ![upd.lev] = 0]
  /\ upd' = Return
  /\ UNCHANGED <<m_desired_levels, m_level_to_load, merc, merc_done, looking, thread>>

(* The entry picked before the stages ran, by its iterator. *)
FinishLevel ==
  /\ upd.pc = "finish" /\ LoaderMutexFree
  /\ loaded' = loaded \cup {upd.lev} /\ initializing' = initializing \ {upd.lev}
  /\ unused' = [unused EXCEPT ![upd.lev] = 0]
  /\ merc_done' = FALSE
  /\ upd' = Return
  /\ UNCHANGED <<m_desired_levels, m_level_to_load, merc, looking, thread>>

(* get_most_unloadable_level: an unwanted level, or else any. *)
Unloadable ==
  LET stale == {l \in loaded : unused[l] > Patience}
      unwanted == stale \ ToSet(m_desired_levels)
  IN  IF unwanted = {} THEN stale ELSE unwanted

(* Nothing to upload: try to remove a level.  No mutex. *)
PickUnload ==
  /\ upd.pc = "unload"
  /\ IF Cardinality(loaded) >= MaxLevels /\ Unloadable # {}
     THEN \E l \in Unloadable : upd' = [upd EXCEPT !.pc = "erase", !.lev = l]
     ELSE upd' = Return
  /\ UNCHANGED <<m_desired_levels, m_level_to_load, initializing, loaded, unused, merc,
                 merc_done, looking, thread>>

EraseLevel ==
  /\ upd.pc = "erase"
  /\ merc' = [merc EXCEPT ![upd.lev] = @ - 1]
  /\ loaded' = loaded \ {upd.lev}
  /\ upd' = Return
  /\ UNCHANGED <<m_desired_levels, m_level_to_load, initializing, unused, merc_done, looking, thread>>

(* The renderers of the frame look up their levels: get_tfrag3_level. *)
UseLevels(used) ==
  /\ LoaderMutexFree
  /\ unused' = [l \in Levels |-> IF l \in used THEN 0 ELSE unused[l]]
  /\ UNCHANGED <<m_desired_levels, m_level_to_load, initializing, loaded, merc, merc_done,
                 looking, thread, upd>>

EndUpdate ==
  /\ upd.pc = "done"
  /\ upd' = [pc |-> "idle", blocking |-> FALSE, lev |-> NoLevel]
  /\ UNCHANGED <<m_desired_levels, m_level_to_load, initializing, loaded, unused, merc,
                 merc_done, looking, thread>>

UpdateStep == \/ AwaitFile \/ UpdateAgain \/ CheckMissing \/ WantAgain \/ AgeLevels
              \/ PickLevel \/ StagesUnfinished \/ StagesDone \/ FinishLevel
              \/ PickUnload \/ EraseLevel

-----------------------------------------------------------------------------
LoaderTypeOK ==
  /\ m_desired_levels \in Wishes
  /\ m_level_to_load \in Levels \cup {NoLevel}
  /\ initializing \subseteq Levels /\ loaded \subseteq Levels
  /\ unused \in [Levels -> 0 .. Patience + 1] /\ merc \in [Levels -> Nat]
  /\ merc_done \in BOOLEAN /\ looking \in BOOLEAN
  /\ thread \in [pc : {"wait", "read"}, lev : Levels \cup {NoLevel}]
  /\ upd \in [pc : UpdatePlaces, blocking : BOOLEAN, lev : Levels \cup {NoLevel}]

(* update holds an iterator and a reference into the map of initializing   *)
(* levels while it has given up the mutex ("we're the only place that      *)
(* erases, so it's okay to unlock and hold a reference"): an insertion     *)
(* meanwhile may rehash the map and invalidate the iterator it erases by.  *)
(* None comes, for no level is requested or read while one is initialized. *)
IteratorKept ==
  /\ upd.pc \in {"stages", "finish"} => initializing = {upd.lev}
  /\ initializing # {} => m_level_to_load = NoLevel /\ thread.pc = "wait" /\ ~looking
  /\ \A k, l \in initializing : k = l

(* A level is in one place: requested and read, initialized, or loaded.    *)
(* Otherwise the level entered second would replace the first one, with    *)
(* its buffers on the GPU and the references to its models still in use.   *)
LevelInOnePlace ==
  /\ m_level_to_load \notin initializing \cup loaded
  /\ initializing \cap loaded = {}
  /\ thread.pc = "read" => thread.lev = m_level_to_load

(* The table of models refers to the models of each loaded level exactly   *)
(* once and to no other level but the one whose stages have got so far:    *)
(* unloading finds what it removes (ASSERT "missing merc"), and get_merc_  *)
(* model finds no model of a level that is gone.                           *)
ModelsOfLoaded ==
  \A l \in Levels :
    merc[l] = IF l \in loaded \/ (merc_done /\ l \in initializing) THEN 1 ELSE 0

(* What they rest on. *)
LoaderInv ==
  /\ LoaderTypeOK
  /\ IteratorKept /\ LevelInOnePlace /\ ModelsOfLoaded
  /\ looking => CanLoad
  /\ thread.pc = "read" => thread.lev # NoLevel
  /\ merc_done => initializing # {}
  /\ upd.pc = "finish" => merc_done
  /\ upd.pc = "erase" => upd.lev \in loaded

(* One thread at a time uses m_loaded_tfrag3_levels ("only main thread can *)
(* touch this"): the graphics thread does not erase from it while the game *)
(* searches it in set_want_levels.                                         *)
MapsGuarded == ~(looking /\ upd.pc = "erase")
=============================================================================
