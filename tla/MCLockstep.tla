----------------------------- MODULE MCLockstep -----------------------------
(* Small instances of Lockstep. *)
EXTENDS Lockstep, TLC

CONSTANTS s0, s1

TwoSeats == {0, 1}
TwoPeers == {s0, s1}
NoChange == {}
TooLong == {3}
Peers == Permutations(Seats)

(* What the code holds: sampled and played are history, which no action    *)
(* reads; NoFalseDesync says nothing of them either.                       *)
Present == <<sessions, net>>
=============================================================================
