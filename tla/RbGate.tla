------------------------------- MODULE RbGate ------------------------------
(***************************************************************************)
(* How a rollback match is allowed to start, src/rollback/rnet_rb_driver.c *)
(* before its second tick: the mod-set handshake (rb_modset_pump), the     *)
(* exchange of identities (rb_send_identity), the boot digest of tick 0    *)
(* (rb_boot_digest_gate) and the refusal each of them can end in.          *)
(*                                                                         *)
(* gate[i] is seat i's driver.  A datagram stays in wire until it is lost. *)
(* Time-outs are choices.  A driver that runs tick 1 is past every gate.   *)
(***************************************************************************)
EXTENDS Integers, FiniteSets

CONSTANTS
    GateSeats,                   \* the seats of the largest room; seat 0 is the host
    Rooms                        \* what each seat brought: see Fresh

ASSUME RoomsAssumption ==
    \A r \in Rooms :
        /\ r = [seats |-> r.seats, modset |-> r.modset, fits |-> r.fits, content |-> r.content,
                boot |-> r.boot, allow |-> r.allow, losses |-> r.losses]
        /\ 0 \in r.seats /\ r.seats \subseteq GateSeats

VARIABLES room, gate, wire

gateVars == <<room, gate, wire>>

\* A room says who is in it (seats) and, per seat, whether it takes part in the
\* handshake (modset), can run the host's set (fits), its content fingerprint (0: no
\* identity set, none is sent) and its tick-0 digest; `allow` are the seats started with ALLOW_MOD_MISMATCH and
\* ALLOW_BOOT_FORK, `losses` the datagrams the link may still lose.
Fresh ==
    [settled |-> FALSE, ok |-> FALSE, acks |-> {}, sim |-> 0, heard |-> {}, boot |-> FALSE,
     refused |-> "no", known |-> {}, sent |-> FALSE, owed |-> FALSE]
GateInit ==
    /\ room \in Rooms
    /\ gate = [i \in GateSeats |-> Fresh]
    /\ wire = {}

Fellows(i) == room.seats \ {i}
Put(msgs) == wire' = wire \cup msgs
GateStep(i, g, msgs) ==
    /\ i \in room.seats
    /\ gate' = [gate EXCEPT ![i] = g] /\ Put(msgs)
    /\ gate' # gate \/ wire' # wire
    /\ UNCHANGED room

\* rb_refuse: the first verdict stands.
GateRefuses(g, why) == IF g.refused = "no" THEN [g EXCEPT !.refused = why] ELSE g

(* The mod set. *)
ModsetFail(i, g) ==
    IF g.settled THEN g
    ELSE IF i \in room.allow THEN [g EXCEPT !.settled = TRUE, !.ok = TRUE]
    ELSE GateRefuses([g EXCEPT !.settled = TRUE, !.ok = FALSE], "mod_set_not_agreed")

Pumping(i) == i \in room.modset /\ ~gate[i].settled
Publish == Pumping(0) /\ GateStep(0, gate[0], {[op |-> "MODSET", from |-> 0]})

\* The host settles once every peer has confirmed; one refusal ends it.
AllConfirmed(g) == g.acks = Fellows(0)
OnModsetAck(m) ==
    LET g == [gate[0] EXCEPT !.acks = @ \cup {m.from}]
    IN  /\ m.op = "ACK" /\ Pumping(0)
        /\ GateStep(0, IF ~m.ok THEN ModsetFail(0, gate[0])
                       ELSE IF AllConfirmed(g) THEN [g EXCEPT !.settled = TRUE, !.ok = TRUE]
                       ELSE g, {})

\* A guest answers every copy, with the verdict it has once it has one.
Checked(i) ==
    LET g == gate[i]
    IN  IF g.settled THEN g
        ELSE IF i \in room.fits THEN [g EXCEPT !.settled = TRUE, !.ok = TRUE]
        ELSE ModsetFail(i, g)
OnModset(i, m) ==
    LET said == IF gate[i].settled THEN gate[i].ok ELSE i \in room.fits
    IN  /\ m.op = "MODSET" /\ i # 0 /\ i \in room.modset
        /\ GateStep(i, Checked(i), {[op |-> "ACK", from |-> i, ok |-> said]})

\* Mutant: only the guests give up.
ModsetExpireGuest(i) == i # 0 /\ Pumping(i) /\ GateStep(i, ModsetFail(i, gate[i]), {})

ModsetExpire(i) == Pumping(i) /\ GateStep(i, ModsetFail(i, gate[i]), {})

(* Identities. *)
IdentDue(i) ==
    /\ room.content[i] # 0
    /\ ~(gate[i].known = Fellows(i) /\ gate[i].sent /\ ~gate[i].owed)
SendIdentity(i) ==
    /\ IdentDue(i)
    /\ GateStep(i, [gate[i] EXCEPT !.sent = TRUE, !.owed = FALSE],
                {[op |-> "IDENT", from |-> i, known |-> gate[i].known \cup {i}]})
OnIdent(i, m) ==
    LET g == [gate[i] EXCEPT !.owed = @ \/ i \notin m.known, !.known = @ \cup {m.from}]
        differs == room.content[m.from] # room.content[i] /\ room.content[i] # 0
    IN  /\ m.op = "IDENT" /\ m.from # i
        /\ GateStep(i, IF m.from \notin gate[i].known /\ differs /\ i \notin room.allow
                       THEN GateRefuses(g, "mod_set_mismatch") ELSE g, {})

(* The first ticks. *)
Held(i) == i \in room.modset /\ ~gate[i].settled
Frame0(i) == [op |-> "FC", from |-> i]

\* finish_frame of tick 0 notes the digest and sends it.
FirstTick(i) ==
    LET g == gate[i]
    IN  /\ g.sim = 0 /\ ~Held(i) /\ g.refused = "no"
        /\ GateStep(i, [g EXCEPT !.sim = 1], {Frame0(i)})
OnFrame0(i, m) ==
    /\ m.op = "FC" /\ m.from # i
    /\ GateStep(i, [gate[i] EXCEPT !.heard = @ \cup {m.from}], {})
\* A missing tick 0 is asked for while the gate holds, and sent again.
AskFrame0(i) ==
    /\ gate[i].sim = 1 /\ gate[i].heard # Fellows(i)
    /\ GateStep(i, gate[i], {[op |-> "ASK", from |-> i]})
OnAsk(i, m) == m.op = "ASK" /\ m.from # i /\ gate[i].sim > 0 /\ GateStep(i, gate[i], {Frame0(i)})

\* pre_admit_hold at sim 1 with every tick 0 in: agree, or refuse.
Differing(i) == {j \in gate[i].heard : room.boot[j] # room.boot[i]}

\* Mutant: the first tick 0 that arrives is enough.
Complete0First(i) == gate[i].heard # {}

Complete0(i) == gate[i].heard = Fellows(i)
BootVerdict(i) ==
    LET g == [gate[i] EXCEPT !.boot = TRUE]
    IN  /\ gate[i].sim = 1 /\ ~Held(i) /\ ~gate[i].boot /\ gate[i].refused = "no"
        /\ Complete0(i)
        /\ GateStep(i, IF Differing(i) # {} /\ i \notin room.allow
                       THEN GateRefuses(g, "boot_digest_mismatch") ELSE g, {})
BootExpire(i) ==
    /\ gate[i].sim = 1 /\ ~Held(i) /\ ~gate[i].boot /\ gate[i].refused = "no"
    /\ ~Complete0(i)
    /\ GateStep(i, GateRefuses([gate[i] EXCEPT !.boot = TRUE], "boot_digest_timeout"), {})
SecondTick(i) ==
    /\ gate[i].sim = 1 /\ gate[i].boot /\ gate[i].refused = "no"
    /\ GateStep(i, [gate[i] EXCEPT !.sim = 2], {})

LoseGate ==
    /\ room.losses > 0
    /\ \E m \in wire : wire' = wire \ {m}
    /\ room' = [room EXCEPT !.losses = @ - 1] /\ UNCHANGED gate

GateRecv(i, m) == OnModset(i, m) \/ OnIdent(i, m) \/ OnFrame0(i, m) \/ OnAsk(i, m)
GateDecides(i) ==
    ModsetExpire(i) \/ FirstTick(i) \/ BootVerdict(i) \/ BootExpire(i) \/ SecondTick(i)
GateSeat(i) ==
    \/ GateDecides(i) \/ SendIdentity(i) \/ AskFrame0(i)
    \/ \E m \in wire : GateRecv(i, m)
GateNext ==
    \/ Publish \/ LoseGate
    \/ \E m \in wire : OnModsetAck(m)
    \/ \E i \in GateSeats : GateSeat(i)

\* poll_admit runs at every seat, and a time-out expires in the end.
GateFair == \A i \in GateSeats : WF_gateVars(GateDecides(i))
----------------------------------------------------------------------------
Plays(i) == gate[i].sim = 2

\* A strict seat runs tick 1 only in a room in which every seat that takes part in
\* the handshake could run the host's set, and every seat booted to the same state:
\* what one seat checks for itself, its own tick 1 guarantees for all of them.
StartVerified ==
    \A i \in room.seats : Plays(i) /\ room.allow = {} =>
        /\ \A j \in room.seats : room.boot[j] = room.boot[i]
        /\ room.modset = room.seats => Fellows(0) \subseteq room.fits

VerdictsStand ==
    \A i \in room.seats : gate[i].refused # "no" =>
        gate'[i].sim = gate[i].sim /\ gate'[i].refused = gate[i].refused

\* A verdict is final: a refused seat stays refused, for the reason it gave first, and
\* runs no further tick (rb_refuse, pre_admit_hold).
RefusalStands == [][VerdictsStand]_gateVars

\* In a room that cannot play, everyone leaves: no seat waits for ever for another.
EveryoneLeaves ==
    (room.allow = {} /\ (\E i, j \in room.seats : room.boot[i] # room.boot[j])) =>
        <>(\A i \in room.seats : gate[i].refused # "no")
============================================================================
