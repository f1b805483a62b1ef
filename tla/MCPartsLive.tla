---------------------------- MODULE MCPartsLive ----------------------------
(***************************************************************************)
(* One run over four components that share no state, each on small        *)
(* instances of its own: the liveness of a session's peers, the rollback   *)
(* start gate, the lobby and the ICE links of a waiting room.  part says   *)
(* which of them a behaviour is about; the others stay in one initial      *)
(* state.                                                                  *)
(***************************************************************************)
EXTENDS PeerLiveness, RbGate, Lobby, HostIce

CONSTANT Parts

VARIABLE part

partsVars == <<part, pl, gateVars, lob, hi>>

(* Rooms of the start gate: everyone fits; one guest cannot run the set,   *)
(* with and without RBDIGEST mismatches allowed; a seat booted differently;*)
(* no handshake, or the host's alone; other content.                       *)
TwoSeats == {0, 1}
Same == [i \in GateSeats |-> 0]
Odd(k) == [i \in GateSeats |-> IF i = k THEN 1 ELSE 0]
Distinct == [i \in GateSeats |-> i + 1]
Room(seats, modset, fits, content, boot, allow, losses) ==
    [seats |-> seats, modset |-> modset, fits |-> fits, content |-> content,
     boot |-> boot, allow |-> allow, losses |-> losses]
Fit == Room(GateSeats, GateSeats, GateSeats, Same, Same, {}, 0)
MCRooms ==
    {Fit,
     Room(GateSeats, GateSeats, {1}, Same, Same, {}, 0),
     Room(GateSeats, {}, {}, Same, Odd(2), {}, 0),
     Room(TwoSeats, TwoSeats, {}, Same, Same, {1}, 0),
     Room(TwoSeats, TwoSeats, {}, Same, Odd(1), TwoSeats, 0),
     Room(TwoSeats, TwoSeats, TwoSeats, Same, Odd(1), {}, 1),
     Room(TwoSeats, {0}, {}, Same, Same, {}, 1),
     Room(TwoSeats, {}, {}, Distinct, Same, {}, 0)}

(* What the users of two clients do: enter a room; come back after a drop; *)
(* change and start a formed room; leave around a start; meet by automatch.*)
Plan(seated, has, calls, n) == [seated |-> seated, has |-> has, calls |-> calls, n |-> n]
Both(ops) == {1, 2} \X ops
MCLobby ==
    {Plan(FALSE, {1}, Both({"connect"}) \cup {<<1, "create">>, <<2, "join">>}, 4),
     Plan(TRUE, {1, 2}, {<<2, "drop">>, <<2, "connect">>, <<2, "join">>}, 3),
     Plan(TRUE, {1}, {<<1, "kick">>, <<1, "move">>, <<1, "start">>, <<1, "caps">>,
                      <<2, "leave">>, <<2, "install">>, <<2, "block">>, <<2, "ready">>}, 2),
     Plan(TRUE, {1, 2}, {<<1, "start">>, <<2, "leave">>, <<2, "join">>, <<1, "leave">>}, 2),
     Plan(FALSE, {1}, Both({"connect", "queue", "leave"}) \cup {<<1, "cancel">>, <<2, "drop">>}, 5)}

(* Guests join; linked ones change seats; a guest leaves; an agent fails.  *)
Waiting(linked, joins, moves, leaves, fails) ==
    [linked |-> linked, joins |-> joins, moves |-> moves, leaves |-> leaves, fails |-> fails]
Joining == Waiting(FALSE, 2, 0, 0, {2})
MCWaiting == {Joining, Waiting(FALSE, 1, 0, 1, {}), Waiting(TRUE, 0, 1, 1, {})}
OneFailure == {Waiting(FALSE, 1, 0, 0, {1})}

Idle(plan) == lob.left = [calls |-> plan.calls, n |-> plan.n]

PartsInit ==
    /\ part \in Parts
    /\ LivenessInit /\ GateInit /\ LobbyInit /\ IceInit
    /\ part # "gate" => room = Fit
    /\ part # "lobby" => Idle(CHOOSE plan \in MCLobby : ~plan.seated)
    /\ part # "ice" => hi.left = Joining

OfPeers(A) == part = "peers" /\ A /\ UNCHANGED <<part, gateVars, lob, hi>>
OfGate(A) == part = "gate" /\ A /\ UNCHANGED <<part, pl, lob, hi>>
OfLobby(A) == part = "lobby" /\ A /\ UNCHANGED <<part, pl, gateVars, hi>>
OfIce(A) == part = "ice" /\ A /\ UNCHANGED <<part, pl, gateVars, lob>>

PartsNext == OfPeers(LivenessNext) \/ OfGate(GateNext) \/ OfLobby(LobbyNext) \/ OfIce(IceNext)

(* Each component's own fairness, while it is the one that runs. *)
PartsFair ==
    /\ WF_pl(part = "peers" /\ Time) /\ WF_pl(part = "peers" /\ StartLinking)
    /\ \A i \in GateSeats : WF_gateVars(part = "gate" /\ GateDecides(i))
    /\ \A c \in Clients : WF_lob(part = "lobby" /\ LobbyWire(c))
    /\ \A k \in IceGuests :
          /\ WF_hi(part = "ice" /\ HostReads(k)) /\ WF_hi(part = "ice" /\ GuestReads(k))
          /\ WF_hi(part = "ice" /\ HostUpdate(k)) /\ WF_hi(part = "ice" /\ GuestUpdate(k))
          /\ WF_hi(part = "ice" /\ IceConnect(k)) /\ WF_hi(part = "ice" /\ TimesOut(k))

PartsSpec == PartsInit /\ [][PartsNext]_partsVars /\ PartsFair
=============================================================================
