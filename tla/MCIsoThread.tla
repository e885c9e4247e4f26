---------------------------- MODULE MCIsoThread ----------------------------
(* Three loads, a DGO and music over streams of one and of three pages and *)
(* one that is not a VAG.                                                  *)
EXTENDS IsoThread

CONSTANTS s1, s2, s3, v1, v3, bad

MCPages == [f \in Singles \cup {DGO} \cup Vags |->
              CASE f = v3 -> 3 [] f = bad -> 2 [] f = DGO -> 2 [] f = s1 -> 2 [] OTHER -> 1]

(* Play and stop commands of both priorities, and what pauses the stream. *)
MCOrders ==
  {[cmd |-> "queue", vag |-> v3, priority |-> 1], [cmd |-> "play", vag |-> v3, priority |-> 1],
   [cmd |-> "play", vag |-> v1, priority |-> 1],
   [cmd |-> "play", vag |-> bad, priority |-> 0], [cmd |-> "play", vag |-> NoVag, priority |-> 1],
   [cmd |-> "stop", vag |-> NoVag, priority |-> 0], [cmd |-> "stop", vag |-> v3, priority |-> 1],
   [cmd |-> "pause"], [cmd |-> "continue"]}
=============================================================================
