----------------------------- MODULE LevelSlots ----------------------------
(***************************************************************************)
(* What the two level slots promise the rest of the game (the comments     *)
(* above level-status and level-status-set!): one level loads at a time,   *)
(* in a slot that was free; its status goes through the statuses of a load *)
(* in order; and a level that is wanted is never given up.  Nothing here   *)
(* knows of the channel, the linker, heaps or frames; LevelLoad implements *)
(* it as long as the game never has two levels under way.                  *)
(***************************************************************************)
CONSTANTS Slots, Levels, NoLevel

VARIABLES
  slot,   \* status and level of each slot
  wanted  \* the levels the game wants

svars == <<slot, wanted>>

Free == [status |-> "inactive", name |-> NoLevel]

(* What may follow a status of a load. *)
InOrder == {<<"loading", "loading-bt">>, <<"loading", "login">>, <<"loading-bt", "login">>,
            <<"login", "loaded">>}

IsLoading(s) == slot[s].status \in {"loading", "loading-bt", "login"}

Init ==
  \E s \in Slots, l \in Levels :
    /\ slot = [t \in Slots |-> IF t = s THEN [status |-> "active", name |-> l] ELSE Free]
    /\ wanted = {l}

Want == wanted' \in SUBSET Levels /\ UNCHANGED slot

(* A level that is wanted and in no slot is begun in a free slot. *)
Begin(s, l) ==
  /\ slot[s] = Free
  /\ \A t \in Slots : ~IsLoading(t)
  /\ l \in wanted /\ \A t \in Slots : slot[t].name # l
  /\ slot' = [slot EXCEPT ![s] = [status |-> "loading", name |-> l]]
  /\ UNCHANGED wanted

(* The load goes on.  A last object that links at once skips loading-bt. *)
Advance(s, status) ==
  /\ <<slot[s].status, status>> \in InOrder
  /\ slot' = [slot EXCEPT ![s].status = status]
  /\ UNCHANGED wanted

(* Slots whose level is not wanted any more are freed. *)
Discard(S) ==
  /\ \A s \in S : slot[s].name \notin wanted
  /\ slot' = [s \in Slots |-> IF s \in S THEN Free ELSE slot[s]]
  /\ UNCHANGED wanted

(* The display of loaded levels that are wanted is turned on and off. *)
Display(S) ==
  /\ \A s \in S : slot[s].status \in {"loaded", "active"} /\ slot[s].name \in wanted
  /\ slot' = [s \in Slots |->
       IF s \in S THEN [slot[s] EXCEPT !.status = IF @ = "active" THEN "loaded" ELSE "active"]
       ELSE slot[s]]
  /\ UNCHANGED wanted

Next ==
  \/ Want
  \/ \E s \in Slots, l \in Levels : Begin(s, l)
  \/ \E s \in Slots, status \in {"loading-bt", "login", "loaded"} : Advance(s, status)
  \/ \E S \in SUBSET Slots : Discard(S) \/ Display(S)

Spec == Init /\ [][Next]_svars
=============================================================================
