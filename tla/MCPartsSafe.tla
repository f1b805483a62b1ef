---------------------------- MODULE MCPartsSafe ----------------------------
(***************************************************************************)
(* One run over eight components that share no state, each on small        *)
(* instances of its own: the startup profiles and the bootstrap with three *)
(* seats, the queues of episode-control packets, the hash confirmation,    *)
(* the scheduler and the automatic delay of a rollback match, the transfer *)
(* of a mod over ICE and the LAN lobby.  part says which of them a         *)
(* behaviour is about; the others stay in one initial state.               *)
(***************************************************************************)
EXTENDS Profiles, Bootstrap, ControlQueues, HashChain, Sched, AutoDelay, ModXfer, LanDirect

CONSTANT Parts

VARIABLE part

partsVars == <<part, vars, bootVars, cq, hc, sc, ad, mx, lan>>

(* Seat 2 is configured differently from the others: a sparse roster at    *)
(* seats 0 and 1, a full one at seat 2.                                    *)
ThreeSeats == 0 .. 2
MCRoster == (0 :> {0, 1}) @@ (1 :> {0, 1}) @@ (2 :> {0, 1, 2})

(* The host's input delay is longer than one guest's and shorter than the   *)
(* other's: a late HELLO raises the one and lowers the other.              *)
MixedDelays == (0 :> 3) @@ (1 :> 2) @@ (2 :> 4)
SameWire == [i \in Occupied |-> 2]

(* What arrives at the queues: the packets of two or three episodes of one *)
(* kind at a time, with a repetition or a newer one among them.            *)
Arrival(op, s, e, i, v) == [op |-> op, from |-> s, epoch |-> e, id |-> i, val |-> v]
Control(op, epochs, vals) == {Arrival(op, s, e, 0, v) : s \in Remote, e \in epochs, v \in vals}
Heard(arrivals, seat) == [wire |-> arrivals, ours |-> seat]
MCArrivals ==
    {Heard(Control("SYNC", {9}, {0, 1}) \cup {Arrival("SYNC", 1, 17, 0, 0)}, s) : s \in {AnySeat, 1}}
    \cup {Heard(Control("SEAL", {9, 10, 17}, {0}), AnySeat),
          Heard(Control("BASE", {9, 17}, {0, 1}), AnySeat),
          Heard({Arrival("POST", 1, e, 0, v) : e \in {2, 34, 66}, v \in {0, 1}}, AnySeat),
          Heard(Control("RES", {0}, {1, 3, 70}) \cup Control("ACK", {0}, {0, 1})
                    \cup {Arrival("MODSET", 1, 0, 0, 0)}, AnySeat),
          Heard({Arrival("FC", s, 0, t, 0) : s \in Remote, t \in 0 .. 1}
                    \cup {Arrival("SIO", 1, 0, t, 0) : t \in 0 .. 1}, AnySeat)}

(* The digests the seats compute: all alike, or forked at one tick. *)
Alike == [t \in 0 .. LastTick |-> [s \in ChainPeers \cup {Us} |-> 0]]
MCHistories ==
    {Alike, [Alike EXCEPT ![1][1] = 1, ![1][2] = 1]}
    \cup {[Alike EXCEPT ![t][s] = 1] : t \in 0 .. 2, s \in ChainPeers}

(* A match with a change of delay or gate, and one with a rematch. *)
Match(last, changes, rematches, holds) ==
    [last |-> last, changes |-> changes, rematches |-> rematches, holds |-> holds]
MCMatches == {Match(6, 1, 0, {3}), Match(4, 0, 1, {})}

(* The windows np_auto_delay_tick may look at. *)
Window(long, late, clean, leadMin, lateTicks) ==
    [long |-> long, late |-> late, clean |-> clean, leadMin |-> leadMin, lateTicks |-> lateTicks]
MCWindows ==
    {Window(FALSE, FALSE, TRUE, 3, 0), Window(TRUE, TRUE, FALSE, -1, 1),
     Window(TRUE, TRUE, FALSE, 0, 2), Window(TRUE, FALSE, TRUE, 3, 0),
     Window(TRUE, FALSE, TRUE, 5, 0), Window(TRUE, FALSE, FALSE, 1, 0)}

(* One guest, whose datagrams may be lost or late; two guests in a row. *)
Transfer(calls, n, lose, late, burst, big) ==
    [calls |-> calls, n |-> n, lose |-> lose, late |-> late, burst |-> burst, big |-> big]
OneGuest == Transfer({<<1, "request">>, <<1, "cancel">>, <<0, "cancel">>}, 2, 1, 1, 2, TRUE)
InTurn == Transfer({<<1, "request">>, <<2, "request">>}, 2, 0, 0, 1, FALSE)
MCTransfers == {OneGuest, InTurn}

(* One guest that joins again while the settings change, for a rematch or after  *)
(* a swap of the seats; two guests after one seat.                               *)
Room(who, joins, calls, n) == [who |-> who, joins |-> joins, calls |-> calls, n |-> n]
MCRoomPlans == {Room({1}, 2, {"caps", "start"}, 3), Room({1}, 2, {"start", "close"}, 3),
                Room({1}, 2, {"swap"}, 1), Room({1, 2}, 3, {}, 0),
                Room({1, 2}, 2, {"kick", "start"}, 2)}

PartsInit ==
    /\ part \in Parts
    /\ Init /\ BootInit /\ CtlInit /\ ChainInit /\ SchedInit /\ AdInit /\ XferInit /\ LanInit
    /\ part # "queues" => cq.ours = 1
    /\ part # "chain" => hc.truth = Alike
    /\ part # "sched" => sc.left = CHOOSE m \in Plans : TRUE
    /\ part # "delay" => ad.d = 2
    /\ part # "xfer" => mx.left = InTurn
    /\ part # "lan" => lan.left = CHOOSE m \in LanPlans : TRUE

PartsNext ==
    /\ UNCHANGED part
    /\ \/ /\ part = "profiles" /\ Next
          /\ UNCHANGED <<bootVars, cq, hc, sc, ad, mx, lan>>
       \/ /\ part = "boot" /\ BootNext
          /\ UNCHANGED <<vars, cq, hc, sc, ad, mx, lan>>
       \/ /\ part = "queues" /\ CtlNext
          /\ UNCHANGED <<vars, bootVars, hc, sc, ad, mx, lan>>
       \/ /\ part = "chain" /\ ChainNext
          /\ UNCHANGED <<vars, bootVars, cq, sc, ad, mx, lan>>
       \/ /\ part = "sched" /\ SchedNext
          /\ UNCHANGED <<vars, bootVars, cq, hc, ad, mx, lan>>
       \/ /\ part = "delay" /\ AdNext
          /\ UNCHANGED <<vars, bootVars, cq, hc, sc, mx, lan>>
       \/ /\ part = "xfer" /\ XferNext
          /\ UNCHANGED <<vars, bootVars, cq, hc, sc, ad, lan>>
       \/ /\ part = "lan" /\ LanNext
          /\ UNCHANGED <<vars, bootVars, cq, hc, sc, ad, mx>>

PartsSpec == PartsInit /\ [][PartsNext]_partsVars

(* The types of the components: masks stay inside a seat's roster, queues, *)
(* delays and ticks inside their bounds.                                   *)
PartsTypeOK == TypeOK /\ BootTypeOK /\ CtlTypeOK /\ SchedTypeOK /\ AdTypeOK
=============================================================================
