----------------------------- MODULE RpcChannel -----------------------------
(***************************************************************************)
(* What the EE is promised of an RPC channel: a call on an idle channel is *)
(* handled exactly once, and the channel is busy until its handler has     *)
(* returned.  Nothing here knows of threads, wake-ups or flags; IopKernel  *)
(* implements it.                                                          *)
(***************************************************************************)
EXTENDS Naturals

CONSTANT Channels

VARIABLES
  phase,  \* of each channel
  calls,  \* calls made on each channel
  runs    \* times its handler was entered

rvars == <<phase, calls, runs>>

Init ==
  /\ phase = [c \in Channels |-> "idle"]
  /\ calls = [c \in Channels |-> 0]
  /\ runs = [c \in Channels |-> 0]

Call(c) ==
  /\ phase[c] = "idle"
  /\ phase' = [phase EXCEPT ![c] = "called"]
  /\ calls' = [calls EXCEPT ![c] = @ + 1]
  /\ UNCHANGED runs

Enter(c) ==
  /\ phase[c] = "called"
  /\ phase' = [phase EXCEPT ![c] = "handled"]
  /\ runs' = [runs EXCEPT ![c] = @ + 1]
  /\ UNCHANGED calls

Return(c) ==
  /\ phase[c] = "handled"
  /\ phase' = [phase EXCEPT ![c] = "idle"]
  /\ UNCHANGED <<calls, runs>>

Next == \E c \in Channels : Call(c) \/ Enter(c) \/ Return(c)

Spec ==
  /\ Init /\ [][Next]_rvars
  /\ \A c \in Channels : WF_rvars(Enter(c)) /\ WF_rvars(Return(c))
=============================================================================
