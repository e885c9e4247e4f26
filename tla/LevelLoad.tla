----------------------------- MODULE LevelLoad -----------------------------
(***************************************************************************)
(* The two level slots of the game and the load-state that fills them      *)
(* (engine/level/level.gc, engine/level/load-boundary.gc), over the DGO    *)
(* client (engine/load/load-dgo.gc, engine/ps2/rpc-h.gc), the linker       *)
(* (kernel/jak1/klink.cpp) and the IOP's loader.                           *)
(*                                                                         *)
(* The slots share four things that belong to nobody: the linker's saved   *)
(* state, the answer of the DGO channel, the global loading-level and the  *)
(* flag *texture-relocate-later*.  The questions are what happens to them  *)
(* when a level is discarded in the middle of its load, and when a second  *)
(* load begins before the first is through.                                *)
(*                                                                         *)
(* Each frame runs load-continue for both slots, then update!.  The game   *)
(* changes what it wants between two frames.  The IOP answers at any time; *)
(* that it does is EveryCallAnswered of DgoLoad.                           *)
(*                                                                         *)
(* A GOAL function that calls others is an operator from the state of the  *)
(* game (game) to its next one, so that its calls nest as in the code.     *)
(***************************************************************************)
EXTENDS Naturals, Sequences, FiniteSets

CONSTANTS
  Levels,     \* levels with a DGO file on the disc
  Missing,    \* levels without one
  NumObjs,    \* objects of the DGO of a level
  Work,       \* calls of link-resume an object takes after link-begin
  Tex,        \* the object that sets *texture-relocate-later* in slot 0, 0: none
  LoginWork,  \* calls of load-continue a login takes
  Wanted,     \* pairs of levels the game asks for
  Shown,      \* levels the game wants displayed
  OneAtATime, \* the game never has two levels under way (see Careful)
  NoLevel, NoSlot

ASSUME LevelAssumption ==
  /\ Levels \cap Missing = {} /\ NoLevel \notin Levels \cup Missing
  /\ NumObjs \in [Levels -> Nat \ {0}] /\ LoginWork \in Nat
  /\ Tex \in [Levels -> Nat] /\ Work \in [Levels -> Seq(Nat)]
  /\ \A l \in Levels : Tex[l] + 1 < NumObjs[l] /\ Len(Work[l]) = NumObjs[l]
  /\ Wanted \subseteq (Levels \cup Missing) \X (Levels \cup Missing \cup {NoLevel})
  /\ \A w \in Wanted : w[1] # w[2]
  /\ OneAtATime \in BOOLEAN /\ NoSlot \notin {0, 1}

VARIABLES
  game,   \* slots, linker, channel, and the IOP's loader
  want,   \* want of *load-state*: name and display? of two levels
  pc      \* where level-update is

vars == <<game, want, pc>>

Slots == {0, 1}
NoObj == <<NoLevel, 0>>
NoWant == [name |-> NoLevel, display |-> FALSE]
Statuses == {"inactive", "loading", "loading-bt", "login", "loaded", "active"}
LoadingStatuses == {"loading", "loading-bt", "login"}

Empty == [status |-> "inactive", name |-> NoLevel, display |-> FALSE, linking |-> FALSE,
          current |-> 0, bsp |-> NoLevel, ran |-> <<>>, login |-> 0]

AllObjects(l) == [i \in 1 .. NumObjs[l] |-> <<l, i>>]

(* play: the startup level has been loaded and shown. *)
Init ==
  /\ pc = "slot0"
  /\ \E l \in Levels :
       /\ want = [i \in Slots |-> IF i = 0 THEN [name |-> l, display |-> TRUE] ELSE NoWant]
       /\ game = [lev |-> [s \in Slots |->
                    IF s = 1 THEN Empty
                    ELSE [Empty EXCEPT !.status = "active", !.name = l, !.display = TRUE,
                            !.current = NumObjs[l], !.bsp = l, !.ran = AllObjects(l)]],
                  loadingLevel |-> NoSlot,
                  linker |-> [obj |-> NoObj, to |-> 0, left |-> 0],
                  relocate |-> FALSE,
                  rpc |-> [busy |-> FALSE, fno |-> "LOAD", level |-> l, to |-> 0, top |-> 0,
                           result |-> "DONE", obj |-> NoObj],
                  received |-> FALSE,
                  iop |-> [file |-> NoLevel, given |-> 0],
                  atTop |-> [s \in Slots |-> [obj |-> NoObj, pos |-> 0]]]
-----------------------------------------------------------------------------
(***************************************************************************)
(* The IOP serves the request: LoadDGO, LoadNextDGO.  The last object goes *)
(* to the heap top the request gave.                                       *)
(***************************************************************************)
Deliver(g, l, n) ==
  LET last == n = NumObjs[l] IN
  [g EXCEPT !.rpc.busy = FALSE,
            !.rpc.result = IF last THEN "DONE" ELSE "MORE",
            !.rpc.obj = <<l, n>>,
            !.iop = IF last THEN [file |-> NoLevel, given |-> 0] ELSE [file |-> l, given |-> n],
            !.atTop[g.rpc.to] = IF last THEN [obj |-> <<l, n>>, pos |-> g.rpc.top] ELSE @]

Refuse(g) == [g EXCEPT !.rpc.busy = FALSE, !.rpc.result = "ERROR"]

LoadDGO(g) ==
  IF g.rpc.level \in Missing THEN Refuse(g) ELSE Deliver(g, g.rpc.level, 1)

LoadNextDGO(g) ==
  IF g.iop.file = NoLevel THEN Refuse(g) ELSE Deliver(g, g.iop.file, g.iop.given + 1)

Served(g) ==
  IF ~g.rpc.busy THEN g
  ELSE IF g.rpc.fno = "LOAD" THEN LoadDGO(g) ELSE LoadNextDGO(g)

(* call of an rpc-buffer-pair: stall until the last call is answered, then *)
(* the new message is the one whose answer last-recv-buffer points to.     *)
call(g, fno, l, s) ==
  LET h == Served(g) IN
  [h EXCEPT !.rpc = [@ EXCEPT !.busy = TRUE, !.fno = fno, !.level = l, !.to = s,
                              !.top = h.lev[s].current],
            !.received = TRUE]

dgo_load_continue(g, s) == call(g, "NEXT", NoLevel, s)

check_busy(g) == g.rpc.busy
-----------------------------------------------------------------------------
(***************************************************************************)
(* The linker: one saved_link_control.  Finishing runs the object's top    *)
(* level; that of a level's last object sets the bsp of *level*'s          *)
(* loading-level, whichever slot was linking; a level's texture page has   *)
(* to move only in the slot whose page comes first in VRAM (slot 0).       *)
(***************************************************************************)
FinishLink(g) ==
  LET o == g.linker.obj
      ran == [g EXCEPT !.lev[g.linker.to].ran = Append(@, o)]
      bsp == o[2] = NumObjs[o[1]] /\ g.loadingLevel # NoSlot
      tex == o[2] = Tex[o[1]] /\ g.loadingLevel = 0
  IN IF o = NoObj THEN g
     ELSE CASE bsp -> [ran EXCEPT !.lev[g.loadingLevel].bsp = o[1]]
            [] ~bsp /\ tex -> [ran EXCEPT !.relocate = TRUE]
            [] ~bsp /\ ~tex -> ran

link_begin(g, s, o) ==
  LET h == [g EXCEPT !.linker = [obj |-> o, to |-> s,
                                 left |-> IF o = NoObj THEN 0 ELSE Work[o[1]][o[2]]],
                     !.lev[s].current = @ + 1]
  IN IF h.linker.left = 0 THEN FinishLink(h) ELSE h

(* Resuming a link that has finished finishes it once more. *)
link_resume(g) ==
  LET h == [g EXCEPT !.linker.left = IF @ = 0 THEN 0 ELSE @ - 1]
  IN IF h.linker.left = 0 THEN FinishLink(h) ELSE h

Linked(g) == g.linker.left = 0
-----------------------------------------------------------------------------
(***************************************************************************)
(* One slot.                                                               *)
(***************************************************************************)
(* Fault: loading-level is cleared whichever level is unloaded. *)
unload_Any(g, s) ==
  IF g.lev[s].status = "inactive" THEN g
  ELSE [g EXCEPT !.lev[s] = [@ EXCEPT !.status = "inactive", !.bsp = NoLevel,
                                      !.current = 0, !.ran = <<>>],
                 !.loadingLevel = NoSlot]

(* unload!: the linker and the channel are not told. *)
unload(g, s) ==
  IF g.lev[s].status = "inactive" THEN g
  ELSE [g EXCEPT !.lev[s] = [@ EXCEPT !.status = "inactive", !.bsp = NoLevel,
                                      !.current = 0, !.ran = <<>>],
                 !.loadingLevel = IF @ = s THEN NoSlot ELSE @]

(* Fault: a link of the previous level stays in progress. *)
load_begin_KeepLinking(g, s) ==
  call([g EXCEPT !.loadingLevel = s,
                 !.lev[s] = [@ EXCEPT !.bsp = NoLevel, !.status = "loading", !.ran = <<>>]],
       "LOAD", g.lev[s].name, s)

load_begin(g, s) ==
  call([g EXCEPT !.loadingLevel = s,
                 !.lev[s] = [@ EXCEPT !.bsp = NoLevel, !.linking = FALSE,
                                      !.status = "loading", !.ran = <<>>]],
       "LOAD", g.lev[s].name, s)

(* login-begin: without its bsp the level is given up. *)
login_begin(g, s) ==
  IF g.lev[s].bsp # NoLevel
    THEN [g EXCEPT !.lev[s].status = "login", !.lev[s].login = LoginWork]
    ELSE [unload(g, s) EXCEPT !.loadingLevel = NoSlot]

level_update_after_load(g, s) ==
  IF g.lev[s].login > 0 THEN [g EXCEPT !.lev[s].login = @ - 1]
  ELSE [g EXCEPT !.lev[s].status = "loaded", !.loadingLevel = NoSlot]

(* Fault: the load goes on although the texture page still has to move. *)
AfterLink_NoWait(g, s) ==
  CASE g.lev[s].status = "loading" -> dgo_load_continue(g, s)
    [] g.lev[s].status = "loading-bt" -> login_begin(g, s)
    [] OTHER -> g

(* An object of the slot is linked: ask for the next one, or log in. *)
AfterLink(g, s) ==
  CASE g.lev[s].status = "loading" -> IF g.relocate THEN g ELSE dgo_load_continue(g, s)
    [] g.lev[s].status = "loading-bt" -> login_begin(g, s)
    [] OTHER -> g

LinkOrLater(g, s, o) ==
  LET h == link_begin(g, s, o)
  IN IF Linked(h) THEN AfterLink(h, s) ELSE [h EXCEPT !.lev[s].linking = TRUE]

(* The last object was sent to heap->current of the slot that asked. *)
LinkLast(g, s) ==
  LinkOrLater(g, s, IF g.atTop[s].pos = g.lev[s].current THEN g.atTop[s].obj ELSE NoObj)

(* Fault: the answer is dropped when it comes with the last object. *)
GetNext_DropLast(g, s) ==
  LET h == [g EXCEPT !.received = FALSE] IN
  IF g.rpc.busy \/ ~g.received THEN g
  ELSE CASE g.rpc.result = "MORE"  -> LinkOrLater(h, s, g.rpc.obj)
         [] OTHER -> h

(* dgo-load-get-next: an answer is seen once, whoever asked. *)
GetNext(g, s) ==
  LET h == [g EXCEPT !.received = FALSE] IN
  IF g.rpc.busy \/ ~g.received THEN g
  ELSE CASE g.rpc.result = "ERROR" -> h
         [] g.rpc.result = "MORE"  -> LinkOrLater(h, s, g.rpc.obj)
         [] g.rpc.result = "DONE"  -> LinkLast([h EXCEPT !.lev[s].status = "loading-bt"], s)

(* load-continue of a slot, once a frame.  Any slot moves the texture page *)
(* and goes on with the load, with its own heap.                           *)
load_continue(g, s) ==
  LET linked == link_resume(g) IN
  CASE g.lev[s].linking ->
         IF ~Linked(linked) THEN linked
         ELSE AfterLink([linked EXCEPT !.lev[s].linking = FALSE], s)
    [] ~g.lev[s].linking /\ g.relocate ->
         dgo_load_continue([g EXCEPT !.relocate = FALSE], s)
    [] OTHER ->
         CASE g.lev[s].status = "loading"    -> GetNext(g, s)
           [] g.lev[s].status = "loading-bt" -> LinkLast(g, s)
           [] g.lev[s].status = "login"      -> level_update_after_load(g, s)
           [] OTHER                          -> g
-----------------------------------------------------------------------------
(***************************************************************************)
(* Both slots: level-get-for-use and update!.                              *)
(***************************************************************************)
InSlot(g, l) == \E s \in Slots : g.lev[s].status # "inactive" /\ g.lev[s].name = l

WantedNames == {want[i].name : i \in Slots} \ {NoLevel}

(* Fault: a slot that holds a level is taken before a free one. *)
Disposable_InUse(g) ==
  LET Of(S) == {s \in Slots : g.lev[s].status \in S}
      First(T) == IF 0 \in T THEN 0 ELSE 1
  IN IF Of({"loaded", "active"}) # {} THEN First(Of({"loaded", "active"}))
     ELSE First(Of({"inactive"}))

(* level-get-most-disposable, as far as it matters: an inactive slot. *)
Disposable(g) ==
  LET Of(S) == {s \in Slots : g.lev[s].status \in S}
      First(T) == IF 0 \in T THEN 0 ELSE 1
  IN CASE Of({"inactive"}) # {} -> First(Of({"inactive"}))
       [] Of({"inactive"}) = {} /\ Of({"loading", "loading-bt"}) # {} ->
            First(Of({"loading", "loading-bt"}))
       [] OTHER -> First(Of({"loaded", "active"}))

level_get_for_use(g, l, s) ==
  LET h == unload(g, s)
  IN load_begin([h EXCEPT !.lev[s] = [@ EXCEPT !.name = l, !.display = FALSE]], s)

Unwanted(g) == {s \in Slots : g.lev[s].status # "inactive" /\ g.lev[s].name \notin WantedNames}

DiscardUnwanted(g) ==
  LET one(h, s) == IF s \in Unwanted(g) THEN unload(h, s) ELSE h
  IN one(one(g, 0), 1)

Idle(g) == \A s \in Slots : g.lev[s].status = "inactive"

Absent(g) == {i \in Slots : want[i].name # NoLevel /\ ~InSlot(g, want[i].name)}

(* The level to add: the one to be displayed, else the first. *)
NextToLoad(g) ==
  IF Absent(g) = Slots THEN (IF want[1].display /\ ~want[0].display THEN 1 ELSE 0)
  ELSE CHOOSE i \in Absent(g) : TRUE

(* A second level may be begun when the channel is not busy. *)
MayAdd(g) == Idle(g) \/ ~check_busy(g)

(* update!, up to the wait for the level. *)
Update ==
  /\ pc = "update"
  /\ UNCHANGED want
  /\ CASE Unwanted(game) # {} ->
            game' = DiscardUnwanted(game) /\ pc' = "slot0"
       [] Unwanted(game) = {} /\ (Absent(game) = {} \/ ~MayAdd(game)) ->
            UNCHANGED game /\ pc' = "display"
       [] OTHER ->
            LET i == NextToLoad(game)
                s == Disposable(game)
            IN /\ game' = level_get_for_use(game, want[i].name, s)
               /\ pc' = IF Idle(game) /\ want[i].display
                          THEN IF s = 0 THEN "block0" ELSE "block1"
                          ELSE "display"

(* The loop that waits for a level with nothing else on the screen. *)
WaitForLevel(s) ==
  /\ pc = IF s = 0 THEN "block0" ELSE "block1"
  /\ IF game.lev[s].status \in LoadingStatuses
       THEN game' = load_continue(game, s) /\ UNCHANGED pc
       ELSE UNCHANGED game /\ pc' = "display"
  /\ UNCHANGED want

(* The rest of update!: turn the display of levels on and off. *)
Display ==
  /\ pc = "display"
  /\ game' = [game EXCEPT !.lev = [s \in Slots |->
       LET L == game.lev[s]
           wants == \E i \in Slots : want[i].name = L.name /\ want[i].display
       IN CASE L.status \in {"loaded", "active"} /\ wants ->
                 [L EXCEPT !.status = "active", !.display = TRUE]
            [] L.status # "inactive" /\ L.name \in WantedNames /\ L.display /\ ~wants ->
                 [L EXCEPT !.status = IF @ = "active" THEN "loaded" ELSE @, !.display = FALSE]
            [] OTHER -> L]]
  /\ pc' = "slot0"
  /\ UNCHANGED want

LoadContinue(s) ==
  /\ pc = IF s = 0 THEN "slot0" ELSE "slot1"
  /\ game' = load_continue(game, s)
  /\ pc' = IF s = 0 THEN "slot1" ELSE "update"
  /\ UNCHANGED want

Answer ==
  /\ game.rpc.busy
  /\ game' = Served(game)
  /\ UNCHANGED <<want, pc>>
-----------------------------------------------------------------------------
(***************************************************************************)
(* The rest of the game: load boundaries and cutscenes call want-levels    *)
(* and want-display-level.                                                 *)
(***************************************************************************)
UnderWay(s) == game.lev[s].status \in LoadingStatuses \/ game.lev[s].linking

(* A game that never has two levels under way: at most one of the levels   *)
(* of w is not in a slot yet, none of the others is being loaded, and a    *)
(* level that is given up in the middle of its load leaves its slot to the *)
(* next one.                                                               *)
Careful(w) ==
  LET names == {w[i].name : i \in Slots} \ {NoLevel}
      kept == {s \in Slots : game.lev[s].status # "inactive" /\ game.lev[s].name \in names}
  IN /\ Cardinality({l \in names : ~InSlot(game, l)}) <= 1
     /\ \A l \in names : ~InSlot(game, l) => \A s \in kept : ~UnderWay(s)
     /\ \A s \in Slots \ kept : UnderWay(s) => s = 0 \/ 0 \in kept

Place(w, l) ==
  IF l = NoLevel \/ (\A i \in Slots : w[i].name # NoLevel) THEN w
  ELSE [w EXCEPT ![IF w[0].name = NoLevel THEN 0 ELSE 1] = [name |-> l, display |-> FALSE]]

want_levels(a, b) ==
  LET kept == [i \in Slots |-> IF want[i].name \in {a, b} THEN want[i] ELSE NoWant]
      rest(l) == IF l \in WantedNames THEN NoLevel ELSE l
  IN Place(Place(kept, rest(a)), rest(b))

WantLevels(a, b) ==
  /\ pc = "slot0"
  /\ OneAtATime => Careful(want_levels(a, b))
  /\ want' = want_levels(a, b)
  /\ UNCHANGED <<game, pc>>

WantDisplay(i, d) ==
  /\ pc = "slot0"
  /\ want[i].name \in Shown
  /\ want' = [want EXCEPT ![i].display = d]
  /\ UNCHANGED <<game, pc>>

Next ==
  \/ \E w \in Wanted : WantLevels(w[1], w[2])
  \/ \E i \in Slots, d \in BOOLEAN : WantDisplay(i, d)
  \/ \E s \in Slots : LoadContinue(s) \/ WaitForLevel(s)
  \/ Update \/ Display \/ Answer

Frame == \/ Update \/ Display
         \/ \E s \in Slots : LoadContinue(s) \/ WaitForLevel(s)

Fairness == WF_vars(Frame) /\ WF_vars(Answer)

Spec == Init /\ [][Next]_vars /\ Fairness
-----------------------------------------------------------------------------
(***************************************************************************)
(* Properties.                                                             *)
(***************************************************************************)
TypeOK ==
  /\ game.lev \in [Slots ->
       [status : Statuses, name : Levels \cup Missing \cup {NoLevel}, display : BOOLEAN,
        linking : BOOLEAN, current : Nat, bsp : Levels \cup {NoLevel},
        ran : Seq((Levels \X Nat) \cup {NoObj}), login : Nat]]
  /\ game.loadingLevel \in Slots \cup {NoSlot}
  /\ game.relocate \in BOOLEAN /\ game.received \in BOOLEAN
  /\ game.iop.file \in Levels \cup {NoLevel}
  /\ want \in [Slots -> [name : Levels \cup Missing \cup {NoLevel}, display : BOOLEAN]]
  /\ pc \in {"slot0", "slot1", "update", "block0", "block1", "display"}

(* Only objects of a slot's own level are linked into it, each once and in *)
(* the order of the file, whatever loads were given up before              *)
(* (load-continue takes whatever answer the channel has).                  *)
LinksOwnObjects ==
  \A s \in Slots : game.lev[s].status # "inactive" =>
    \A i \in DOMAIN game.lev[s].ran : game.lev[s].ran[i] = <<game.lev[s].name, i>>

(* A level logs in and is shown only with all its objects and its own bsp  *)
(* (the bsp is found by way of loading-level, not of the slot).            *)
LoadedWhole ==
  \A s \in Slots : game.lev[s].status \in {"login", "loaded", "active"} =>
    /\ game.lev[s].bsp = game.lev[s].name
    /\ Len(game.lev[s].ran) = NumObjs[game.lev[s].name]

(* The comment above level-status: "There can only be 1 loading level at a *)
(* time", and *level*'s loading-level points to it.                        *)
OneLoadingLevel ==
  \A s \in Slots : game.lev[s].status \in LoadingStatuses => game.loadingLevel = s

(* The same comment: "inactive: nothing loaded or loading".  No object is  *)
(* linked and run for a slot that has been unloaded.                       *)
InactiveIsEmpty ==
  \A s \in Slots : game.lev[s].status = "inactive" => game.lev[s].ran = <<>>

(* What the slots promise: the state LevelSlots knows of.  The name of a   *)
(* slot that is free says nothing.                                         *)
Promise == INSTANCE LevelSlots WITH
  Levels <- Levels \cup Missing,
  slot <- [s \in Slots |->
             IF game.lev[s].status = "inactive" THEN [status |-> "inactive", name |-> NoLevel]
             ELSE [status |-> game.lev[s].status, name |-> game.lev[s].name]],
  wanted <- WantedNames

(* The comments above level-status and level-status-set! ("There can only  *)
(* be 1 loading level at a time", "Only change loading statuses in         *)
(* order!"): frames, answers and links change the slots as LevelSlots      *)
(* says, and a wanted level is never given up, whichever slot is taken.    *)
ImplementsStatuses == Promise!Spec

(* A level that is on the disc and stays wanted gets loaded: no load that  *)
(* was discarded or refused keeps the channel or the linker for ever.      *)
WantReached ==
  \A l \in Levels :
    (l \in WantedNames)
      ~> (l \notin WantedNames
          \/ \E s \in Slots : game.lev[s].name = l /\ game.lev[s].status \in {"loaded", "active"})
=============================================================================
