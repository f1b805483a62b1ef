---------------------------- MODULE PeerLiveness ---------------------------
(***************************************************************************)
(* Who is still there, src/session/rnet_session.c: the BYE datagrams, the  *)
(* receive stamps pump_recv keeps per seat and for the session as a whole, *)
(* touch_peer_liveness, and the disconnect queries of the host.            *)
(*                                                                         *)
(* Stamps are kept as ages in units of the poll interval, saturating at    *)
(* the longest one a query compares with.  pl.up is the truth about the    *)
(* remote seats (external).                                                *)
(***************************************************************************)
EXTENDS Integers, FiniteSets

CONSTANTS
    LiveSeats,                   \* the occupied remote seats
    Silence,                     \* timeout_ms of the host's queries
    LinkBudget,                  \* max(timeout_ms * 60, 90 s), for a seat never heard
    MaxTouches,                  \* bound: calls of touch_peer_liveness
    MaxByeLoss                   \* bound: copies of a BYE that are lost

ASSUME LivenessAssumption ==
    /\ Silence \in Nat \ {0}
    /\ LinkBudget \in Nat /\ LinkBudget >= Silence

VARIABLE pl

Never == -1
Older(age, limit) == IF age = Never THEN Never ELSE IF age < limit THEN age + 1 ELSE age

LivenessInit ==
    pl = [phase |-> "IDLE", since |-> Never, rx |-> [s \in LiveSeats |-> Never],
          any |-> Never, gone |-> {}, left |-> FALSE,
          up |-> [s \in LiveSeats |-> "up"], byes |-> [s \in LiveSeats |-> 0],
          touches |-> 0, lost |-> 0]

\* session_start_ms is set when linking starts.
StartLinking ==
    /\ pl.phase = "IDLE"
    /\ pl' = [pl EXCEPT !.phase = "LINKING", !.since = 0]
StartRunning == pl.phase = "LINKING" /\ pl' = [pl EXCEPT !.phase = "RUNNING"]

Time ==
    /\ pl' = [pl EXCEPT !.since = Older(@, LinkBudget + 1), !.any = Older(@, Silence),
                        !.rx = [s \in LiveSeats |-> Older(@[s], Silence)]]
    /\ pl' # pl

\* pump_recv stamps the sender before it handles the datagram.
Stamped(s) == [pl EXCEPT !.any = 0, !.rx[s] = 0]
Hear(s) == pl.phase # "IDLE" /\ pl.up[s] = "up" /\ pl' = Stamped(s)
\* DELAY_SYNC names no sender.
HearUnattributed ==
    /\ pl.phase # "IDLE" /\ \E s \in LiveSeats : pl.up[s] = "up"
    /\ pl' = [pl EXCEPT !.any = 0]
\* A datagram of a seat that has left or died may still be under way.
HearLate(s) == pl.up[s] = "leaving" /\ pl' = Stamped(s)

SendBye(s) ==
    /\ pl.phase # "IDLE" /\ pl.up[s] = "up"
    /\ pl' = [pl EXCEPT !.up[s] = "leaving", !.byes[s] = 3]
Vanish(s) == pl.up[s] \in {"up", "leaving"} /\ pl' = [pl EXCEPT !.up[s] = "dead"]
LoseBye(s) ==
    /\ pl.byes[s] > 0 /\ pl.lost < MaxByeLoss
    /\ pl' = [pl EXCEPT !.byes[s] = @ - 1, !.lost = @ + 1]
RecvBye(s) ==
    /\ pl.byes[s] > 0
    /\ pl' = [Stamped(s) EXCEPT !.byes[s] = @ - 1, !.left = TRUE, !.gone = @ \cup {s}]

\* touch_peer_liveness: the host itself was away, so everyone gets a new budget.
Touched(s) == IF s \in pl.gone THEN pl.rx[s] ELSE 0
Touch ==
    /\ pl.phase # "IDLE" /\ pl.touches < MaxTouches
    /\ pl' = [pl EXCEPT !.rx = [s \in LiveSeats |-> Touched(s)],
                        !.any = IF pl.left THEN @ ELSE 0,
                        !.touches = @ + 1]

LinkExpired == pl.phase \in {"LINKING", "RUNNING"} /\ pl.since > LinkBudget

\* Mutant: a seat that was never heard has no budget.
SlotDisconnectedHeard(s) == s \in pl.gone \/ pl.rx[s] >= Silence

\* rnet_session_peer_slot_disconnected and rnet_session_peer_disconnected.
SlotDisconnected(s) ==
    \/ s \in pl.gone
    \/ pl.rx[s] = Never /\ LinkExpired
    \/ pl.rx[s] >= Silence
PeerDisconnected ==
    \/ pl.left
    \/ pl.any = Never /\ LinkExpired
    \/ pl.any >= Silence

LivenessNext ==
    \/ StartLinking \/ StartRunning \/ Time \/ HearUnattributed \/ Touch
    \/ \E s \in LiveSeats : Hear(s) \/ HearLate(s) \/ SendBye(s) \/ Vanish(s) \/ LoseBye(s) \/ RecvBye(s)

\* The clock always advances, and linking is eventually started.
LivenessFair == WF_pl(Time) /\ WF_pl(StartLinking)
----------------------------------------------------------------------------
\* A seat that left or died is eventually reported, even when every copy of its BYE
\* is lost, and even when it was never heard at all.
DepartureNoticed ==
    \A s \in LiveSeats : (pl.up[s] = "dead") ~> SlotDisconnected(s)
============================================================================
