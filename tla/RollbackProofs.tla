--------------------------- MODULE RollbackProofs ---------------------------
(***************************************************************************)
(* Proofs about a rollback match: its start, for every room (any number of *)
(* seats, any mod sets, contents and boot states, any losses), and the     *)
(* chain of frame digests, for every mask of peers, every ring size, every *)
(* history of digests and every order of the commits.                      *)
(***************************************************************************)
EXTENDS RbGate, HashChain, WellFoundedInduction, TLAPS

-----------------------------------------------------------------------------
(***************************************************************************)
(* The start of the match.                                                 *)
(***************************************************************************)

GateSpec == GateInit /\ [][GateNext]_gateVars

-----------------------------------------------------------------------------
Verdicts ==
    {"no", "mod_set_not_agreed", "mod_set_mismatch", "boot_digest_mismatch", "boot_digest_timeout"}

GateState ==
    [settled : BOOLEAN, ok : BOOLEAN, acks : SUBSET GateSeats, sim : 0 .. 2,
     heard : SUBSET GateSeats, boot : BOOLEAN, refused : Verdicts, known : SUBSET GateSeats,
     sent : BOOLEAN, owed : BOOLEAN]

GateMessage ==
    [op : {"MODSET", "FC", "ASK"}, from : room.seats]
    \cup [op : {"ACK"}, from : room.seats, ok : BOOLEAN]
    \cup [op : {"IDENT"}, from : room.seats, known : SUBSET GateSeats]

GateTypes ==
    /\ room = [seats |-> room.seats, modset |-> room.modset, fits |-> room.fits,
               content |-> room.content, boot |-> room.boot, allow |-> room.allow,
               losses |-> room.losses]
    /\ 0 \in room.seats /\ room.seats \subseteq GateSeats
    /\ gate \in [GateSeats -> GateState]
    /\ wire \subseteq GateMessage

Agreed(i) == \A j \in room.seats : room.boot[j] = room.boot[i]
Fit == Fellows(0) \subseteq room.fits

(* What seat i's driver g knows in a room without overrides: a boot gate   *)
(* that is passed has compared every seat, a mod set that is settled and   *)
(* accepted is one that everybody who had to answer can run, one that is   *)
(* not is a refusal, and the first tick runs only behind it.               *)
SeatSound(i, g) ==
    /\ g.heard \subseteq Fellows(i)
    /\ (g.boot /\ g.refused = "no") \/ g.sim = 2 => g.heard = Fellows(i) /\ Agreed(i)
    /\ i # 0 /\ g.settled /\ g.ok => i \in room.fits
    /\ i = 0 => g.acks \subseteq room.fits /\ (g.settled /\ g.ok => Fit)
    /\ g.settled /\ ~g.ok => g.refused # "no"
    /\ g.sim > 0 /\ i \in room.modset => g.settled /\ g.ok

(* What a datagram proves of its sender. *)
Honest(m) ==
    /\ m.op = "FC" => gate[m.from].sim > 0
    /\ m.op = "ACK" /\ m.ok => m.from \in room.fits

GateInv ==
    room.allow = {} =>
        /\ \A i \in room.seats : SeatSound(i, gate[i])
        /\ \A i \in room.seats : \A j \in gate[i].heard : gate[j].sim > 0
        /\ \A m \in wire : Honest(m)

-----------------------------------------------------------------------------
(* A step of one seat: its new record is sound, it has not lost a tick,    *)
(* what it heard was sent, and what it sends is honest.                    *)
LEMMA SeatStep ==
    ASSUME GateTypes, GateInv, NEW i, NEW g, NEW msgs, GateStep(i, g, msgs),
           g \in GateState, msgs \subseteq GateMessage, g.sim >= gate[i].sim,
           room.allow = {} =>
              /\ SeatSound(i, g)
              /\ \A j \in g.heard : j # i /\ gate[j].sim > 0
              /\ \A m \in msgs : m.from = i /\ (m.op = "FC" => g.sim > 0)
                                 /\ (m.op = "ACK" /\ m.ok => i \in room.fits)
    PROVE  GateTypes' /\ GateInv'
<1>0. i \in room.seats /\ i \in GateSeats /\ gate[i] \in GateState
  BY DEF GateStep, GateTypes
<1>1. room' = room /\ wire' = wire \cup msgs /\ gate' = [gate EXCEPT ![i] = g]
  BY Zenon DEF GateStep, Put
<1>2. gate'[i] = g /\ (\A j \in GateSeats : j # i => gate'[j] = gate[j]) /\ gate' \in [GateSeats -> GateState]
  BY <1>0, <1>1 DEF GateTypes
<1>3. GateTypes'
  <2>1. GateMessage' = GateMessage
    BY <1>1, Zenon DEF GateMessage
  <2>2. QED
    BY <1>1, <1>2, <2>1, Zenon DEF GateTypes
<1>4. SUFFICES ASSUME room.allow = {} PROVE GateInv'
  BY <1>1, <1>3, Zenon DEF GateInv
<1>5. \A j \in room.seats : gate[j].sim > 0 => gate'[j].sim > 0
  <2>1. gate[i].sim \in 0 .. 2 /\ g.sim \in 0 .. 2
    BY <1>0, Zenon DEF GateState
  <2>2. QED
    BY <1>2, <2>1 DEF GateTypes
<1>6. \A j \in room.seats : SeatSound(j, gate'[j])
  BY <1>2, <1>4, Zenon DEF GateInv, GateTypes
<1>7. \A j \in room.seats : SeatSound(j, gate[j])'
  BY <1>1, <1>6 DEF SeatSound, Fellows, Agreed, Fit
<1>8. \A k \in room.seats : \A j \in gate'[k].heard : gate'[j].sim > 0
  <2>1. \A k \in room.seats : gate'[k].heard \subseteq room.seats
    BY <1>6, Zenon DEF SeatSound, Fellows
  <2>2. \A k \in room.seats : \A j \in gate'[k].heard : gate[j].sim > 0
    BY <1>2, <1>4 DEF GateInv, GateTypes
  <2>3. QED
    BY <1>5, <2>1, <2>2, Zenon
<1>9. \A m \in wire' : Honest(m)'
  <2>1. ASSUME NEW m \in wire PROVE Honest(m)'
    <3>1. Honest(m) /\ m.from \in room.seats
      BY <1>4, Zenon DEF GateInv, GateTypes, GateMessage
    <3>2. QED
      BY <1>1, <1>5, <3>1, Zenon DEF Honest
  <2>2. ASSUME NEW m \in msgs PROVE Honest(m)'
    BY <1>1, <1>2, <1>4, Zenon DEF Honest
  <2>3. QED
    BY <1>1, <2>1, <2>2, Zenon
<1>10. QED
  BY <1>1, <1>7, <1>8, <1>9, Zenon DEF GateInv

(* What a message carries. *)
LEMMA MessageFields ==
    ASSUME NEW m \in GateMessage
    PROVE  /\ m.from \in room.seats
           /\ m.op = "ACK" => m.ok \in BOOLEAN
           /\ m.op = "IDENT" => m.known \in SUBSET GateSeats
BY Zenon DEF GateMessage

(* A verdict changes nothing else. *)
LEMMA RefusesKeeps ==
    ASSUME NEW g \in GateState, NEW why \in Verdicts
    PROVE  LET r == GateRefuses(g, why)
           IN  /\ r \in GateState
               /\ r.settled = g.settled /\ r.ok = g.ok /\ r.acks = g.acks /\ r.sim = g.sim
               /\ r.heard = g.heard /\ r.boot = g.boot
               /\ g.refused # "no" => r.refused = g.refused
               /\ why # "no" => r.refused # "no"
BY Zenon DEF GateRefuses, GateState

(* rb_modset_fail in a room without overrides is a refusal. *)
LEMMA FailKeeps ==
    ASSUME NEW i, NEW g \in GateState
    PROVE  LET r == ModsetFail(i, g)
           IN  /\ r \in GateState
               /\ r.acks = g.acks /\ r.sim = g.sim /\ r.heard = g.heard /\ r.boot = g.boot
               /\ r.settled
               /\ g.settled => r = g
               /\ g.refused # "no" => r.refused = g.refused
               /\ ~g.settled /\ room.allow = {} => ~r.ok /\ r.refused # "no"
<1> DEFINE h == [g EXCEPT !.settled = TRUE, !.ok = FALSE]
<1>1. /\ h \in GateState /\ h.settled /\ ~h.ok
      /\ h.acks = g.acks /\ h.sim = g.sim /\ h.heard = g.heard /\ h.boot = g.boot /\ h.refused = g.refused
  BY Zenon DEF GateState
<1>2. CASE g.settled
  BY <1>2 DEF ModsetFail
<1>3. CASE ~g.settled /\ i \in room.allow
  BY <1>3, Zenon DEF ModsetFail, GateState
<1>4. CASE ~g.settled /\ i \notin room.allow
  <2>1. ModsetFail(i, g) = GateRefuses(h, "mod_set_not_agreed")
    BY <1>4, Zenon DEF ModsetFail
  <2> HIDE DEF h
  <2> DEFINE r == GateRefuses(h, "mod_set_not_agreed")
  <2>2. /\ r \in GateState /\ r.settled = h.settled /\ r.ok = h.ok /\ r.acks = h.acks
        /\ r.sim = h.sim /\ r.heard = h.heard /\ r.boot = h.boot
        /\ h.refused # "no" => r.refused = h.refused
        /\ r.refused # "no"
    BY <1>1, RefusesKeeps, Zenon DEF Verdicts
  <2> HIDE DEF r
  <2>3. ModsetFail(i, g) = r
    BY <2>1, Zenon DEF r
  <2>4. QED
    BY <1>1, <1>4, <2>2, <2>3, Zenon
<1>5. QED
  BY <1>2, <1>3, <1>4, Zenon

(* What a seat that is in the room has. *)
LEMMA SeatFacts ==
    ASSUME GateTypes, GateInv, NEW i \in room.seats
    PROVE  /\ i \in GateSeats /\ gate[i] \in GateState /\ Fellows(i) \subseteq GateSeats
           /\ room.allow = {} =>
                 SeatSound(i, gate[i]) /\ \A j \in gate[i].heard : j # i /\ gate[j].sim > 0
BY DEF GateTypes, GateInv, SeatSound, Fellows

(* The mod-set deadline and a MODSET keep the types and the invariant. *)
LEMMA ModsetSteps ==
    ASSUME GateTypes, GateInv, NEW i, ModsetExpire(i) \/ \E m \in wire : OnModset(i, m)
    PROVE  GateTypes' /\ GateInv'
<1>0. i \in room.seats
  BY Zenon DEF ModsetExpire, OnModset, GateStep
<1> DEFINE g == gate[i]
<1>1. /\ g \in GateState /\ ModsetFail(i, g) \in GateState
      /\ room.allow = {} => SeatSound(i, g) /\ \A j \in g.heard : j # i /\ gate[j].sim > 0
  BY <1>0, SeatFacts, FailKeeps, Zenon
<1>2. g.sim \in 0 .. 2 /\ g.settled \in BOOLEAN /\ g.ok \in BOOLEAN
  BY <1>1, Zenon DEF GateState
<1>3. room.allow = {} => SeatSound(i, ModsetFail(i, g))
  BY <1>1, <1>2, FailKeeps DEF SeatSound
<1>4. CASE ModsetExpire(i)
  <2>1. GateStep(i, ModsetFail(i, g), {})
    BY <1>4, Zenon DEF ModsetExpire
  <2>2. QED
    BY <1>1, <1>2, <1>3, <2>1, FailKeeps, SeatStep
<1>5. ASSUME NEW m \in wire, OnModset(i, m)
      PROVE  GateTypes' /\ GateInv'
  <2> DEFINE said == IF g.settled THEN g.ok ELSE i \in room.fits
             ack == [op |-> "ACK", from |-> i, ok |-> said]
             h == [g EXCEPT !.settled = TRUE, !.ok = TRUE]
  <2>1. GateStep(i, Checked(i), {ack}) /\ i # 0
    BY <1>5 DEF OnModset
  <2>2. ack \in GateMessage /\ ack.from = i /\ ack.op = "ACK" /\ ack.ok = said
    <3>1. said \in BOOLEAN
      <4>1. (i \in room.fits) \in BOOLEAN
        OBVIOUS
      <4>2. QED
        BY <1>2, <4>1, Zenon
    <3> HIDE DEF said
    <3>2. QED
      BY <1>0, <3>1, Zenon DEF GateMessage
  <2>3. room.allow = {} /\ said => i \in room.fits
    BY <1>1, <1>2, <2>1 DEF SeatSound
  <2>4. /\ h \in GateState /\ h.sim = g.sim /\ h.heard = g.heard /\ h.boot = g.boot
        /\ h.settled /\ h.ok /\ h.refused = g.refused /\ h.acks = g.acks
    BY <1>1, Zenon DEF GateState
  <2>5. /\ Checked(i) \in GateState /\ Checked(i).sim = g.sim /\ Checked(i).heard = g.heard
        /\ room.allow = {} => SeatSound(i, Checked(i))
    <3>1. CASE g.settled
      BY <1>1, <3>1, Zenon DEF Checked
    <3>2. CASE ~g.settled /\ i \in room.fits
      <4>1. Checked(i) = h
        BY <3>2, Zenon DEF Checked
      <4>2. QED
        BY <1>1, <2>1, <2>4, <3>2, <4>1 DEF SeatSound
    <3>3. CASE ~g.settled /\ i \notin room.fits
      <4>1. Checked(i) = ModsetFail(i, g)
        BY <3>3, Zenon DEF Checked
      <4>2. QED
        BY <1>1, <1>3, <4>1, FailKeeps
    <3>4. QED
      BY <3>1, <3>2, <3>3, Zenon
  <2>6. QED
    BY <1>1, <1>2, <2>1, <2>2, <2>3, <2>5, SeatStep
<1>6. QED
  BY <1>4, <1>5, Zenon

(* The host counts a confirmation only from a seat that can run the set. *)
LEMMA AckStep ==
    ASSUME GateTypes, GateInv, NEW m \in wire, OnModsetAck(m)
    PROVE  GateTypes' /\ GateInv'
<1> DEFINE g == gate[0]
           a == [g EXCEPT !.acks = @ \cup {m.from}]
           b == [a EXCEPT !.settled = TRUE, !.ok = TRUE]
<1>0. 0 \in room.seats /\ m \in GateMessage
  BY Zenon DEF GateTypes
<1>1. /\ g \in GateState /\ ModsetFail(0, g) \in GateState /\ Fellows(0) \subseteq GateSeats
      /\ room.allow = {} => SeatSound(0, g) /\ \A j \in g.heard : j # 0 /\ gate[j].sim > 0
  BY <1>0, SeatFacts, FailKeeps, Zenon
<1>2. g.sim \in 0 .. 2 /\ ~g.settled /\ m.op = "ACK" /\ m.from \in GateSeats
  BY <1>0, <1>1, MessageFields, Zenon DEF GateState, OnModsetAck, Pumping, GateTypes
<1>3. room.allow = {} /\ m.ok => m.from \in room.fits
  BY <1>2, Zenon DEF GateInv, Honest
<1>4. CASE ~m.ok
  <2>1. GateStep(0, ModsetFail(0, g), {})
    BY <1>4, Zenon DEF OnModsetAck
  <2>2. room.allow = {} => SeatSound(0, ModsetFail(0, g))
    BY <1>1, <1>2, FailKeeps DEF SeatSound
  <2>3. QED
    BY <1>1, <1>2, <2>1, <2>2, FailKeeps, SeatStep
<1>5. /\ a \in GateState /\ a.sim = g.sim /\ a.heard = g.heard /\ a.boot = g.boot
      /\ a.settled = g.settled /\ a.ok = g.ok /\ a.refused = g.refused
      /\ a.acks = g.acks \cup {m.from}
  BY <1>1, <1>2 DEF GateState
<1>6. /\ b \in GateState /\ b.sim = g.sim /\ b.heard = g.heard /\ b.boot = g.boot
      /\ b.settled /\ b.ok /\ b.refused = g.refused /\ b.acks = a.acks
  BY <1>5, Zenon DEF GateState
<1> HIDE DEF a, b
<1>7. CASE m.ok /\ AllConfirmed(a)
  <2>1. GateStep(0, b, {})
    BY <1>7, Zenon DEF OnModsetAck, a, b
  <2>2. room.allow = {} => SeatSound(0, b)
    BY <1>1, <1>3, <1>5, <1>6, <1>7 DEF SeatSound, AllConfirmed, Fit
  <2>3. QED
    BY <1>1, <1>2, <1>6, <2>1, <2>2, SeatStep
<1>8. CASE m.ok /\ ~AllConfirmed(a)
  <2>1. GateStep(0, a, {})
    BY <1>8, Zenon DEF OnModsetAck, a
  <2>2. room.allow = {} => SeatSound(0, a)
    BY <1>1, <1>2, <1>3, <1>5, <1>8, Zenon DEF SeatSound
  <2>3. QED
    BY <1>1, <1>2, <1>5, <2>1, <2>2, SeatStep
<1>9. QED
  BY <1>4, <1>7, <1>8, Zenon

(* So do the identities, sent and received, *)
LEMMA IdentitySteps ==
    ASSUME GateTypes, GateInv, NEW i, SendIdentity(i) \/ \E m \in wire : OnIdent(i, m)
    PROVE  GateTypes' /\ GateInv'
<1>0. i \in room.seats
  BY Zenon DEF SendIdentity, OnIdent, GateStep
<1> DEFINE g == gate[i]
<1>1. /\ g \in GateState /\ i \in GateSeats
      /\ room.allow = {} => SeatSound(i, g) /\ \A j \in g.heard : j # i /\ gate[j].sim > 0
  BY <1>0, SeatFacts, Zenon
<1>2. g.sim \in 0 .. 2 /\ g.known \in SUBSET GateSeats /\ g.owed \in BOOLEAN
  BY <1>1, Zenon DEF GateState
<1>3. CASE SendIdentity(i)
  <2> DEFINE h == [g EXCEPT !.sent = TRUE, !.owed = FALSE]
             msg == [op |-> "IDENT", from |-> i, known |-> g.known \cup {i}]
  <2>1. GateStep(i, h, {msg})
    BY <1>3, Zenon DEF SendIdentity
  <2>2. msg \in GateMessage /\ msg.from = i /\ msg.op = "IDENT"
    BY <1>0, <1>1, <1>2, Zenon DEF GateMessage
  <2>3. /\ h \in GateState /\ h.sim = g.sim /\ h.heard = g.heard /\ h.boot = g.boot
        /\ h.settled = g.settled /\ h.ok = g.ok /\ h.refused = g.refused /\ h.acks = g.acks
    BY <1>1, Zenon DEF GateState
  <2> HIDE DEF h, msg
  <2>4. room.allow = {} => SeatSound(i, h)
    BY <1>1, <2>3, Zenon DEF SeatSound
  <2>5. QED
    BY <1>1, <1>2, <2>1, <2>2, <2>3, <2>4, SeatStep
<1>4. ASSUME NEW m \in wire, OnIdent(i, m)
      PROVE  GateTypes' /\ GateInv'
  <2> DEFINE owe == g.owed \/ i \notin m.known
             h == [g EXCEPT !.owed = owe, !.known = @ \cup {m.from}]
             r == GateRefuses(h, "mod_set_mismatch")
  <2>1. GateStep(i, h, {}) \/ GateStep(i, r, {})
    BY <1>4, Zenon DEF OnIdent
  <2>2. m.from \in GateSeats
    BY MessageFields DEF GateTypes
  <2>3. owe \in BOOLEAN
    BY Zenon
  <2> HIDE DEF owe
  <2>4. /\ h \in GateState /\ h.sim = g.sim /\ h.heard = g.heard /\ h.boot = g.boot
        /\ h.settled = g.settled /\ h.ok = g.ok /\ h.refused = g.refused /\ h.acks = g.acks
    BY <1>1, <2>2, <2>3, Zenon DEF GateState
  <2> HIDE DEF h
  <2>5. /\ r \in GateState /\ r.settled = h.settled /\ r.ok = h.ok /\ r.acks = h.acks
        /\ r.sim = h.sim /\ r.heard = h.heard /\ r.boot = h.boot
        /\ r.refused # "no"
    BY <2>4, RefusesKeeps, Zenon DEF Verdicts
  <2> HIDE DEF r
  <2>6. room.allow = {} => SeatSound(i, h) /\ SeatSound(i, r)
    BY <1>1, <2>4, <2>5, Zenon DEF SeatSound
  <2>7. CASE GateStep(i, h, {})
    BY <1>1, <1>2, <2>4, <2>6, <2>7, SeatStep
  <2>8. CASE GateStep(i, r, {})
    BY <1>1, <1>2, <2>4, <2>5, <2>6, <2>8, SeatStep
  <2>9. QED
    BY <2>1, <2>7, <2>8, Zenon
<1>5. QED
  BY <1>3, <1>4

(* The first tick, its digest and the question for one that is missing. *)
LEMMA TickSteps ==
    ASSUME GateTypes, GateInv, NEW i,
           \/ FirstTick(i) \/ SecondTick(i) \/ AskFrame0(i)
           \/ \E m \in wire : OnFrame0(i, m) \/ OnAsk(i, m)
    PROVE  GateTypes' /\ GateInv'
<1>0. i \in room.seats
  BY DEF FirstTick, SecondTick, AskFrame0, OnFrame0, OnAsk, GateStep
<1> DEFINE g == gate[i]
<1>1. /\ g \in GateState /\ i \in GateSeats
      /\ room.allow = {} => SeatSound(i, g) /\ \A j \in g.heard : j # i /\ gate[j].sim > 0
  BY <1>0, SeatFacts, Zenon
<1>2. g.sim \in 0 .. 2 /\ g.settled \in BOOLEAN /\ g.ok \in BOOLEAN /\ g.boot \in BOOLEAN
  BY <1>1, Zenon DEF GateState
<1>3. /\ Frame0(i) \in GateMessage /\ Frame0(i).from = i /\ Frame0(i).op = "FC"
      /\ [op |-> "ASK", from |-> i] \in GateMessage
  BY <1>0, Zenon DEF Frame0, GateMessage
<1>4. CASE FirstTick(i)
  <2> DEFINE h == [g EXCEPT !.sim = 1]
  <2>1. GateStep(i, h, {Frame0(i)}) /\ g.sim = 0 /\ ~Held(i) /\ g.refused = "no"
    BY <1>4, Zenon DEF FirstTick
  <2>2. /\ h \in GateState /\ h.sim = 1 /\ h.heard = g.heard /\ h.boot = g.boot
        /\ h.settled = g.settled /\ h.ok = g.ok /\ h.refused = g.refused /\ h.acks = g.acks
    BY <1>1 DEF GateState
  <2> HIDE DEF h
  <2>3. room.allow = {} => SeatSound(i, h)
    BY <1>1, <1>2, <2>1, <2>2 DEF SeatSound, Held
  <2>4. QED
    BY <1>1, <1>2, <1>3, <2>1, <2>2, <2>3, SeatStep
<1>5. CASE SecondTick(i)
  <2> DEFINE h == [g EXCEPT !.sim = 2]
  <2>1. GateStep(i, h, {}) /\ g.sim = 1 /\ g.boot /\ g.refused = "no"
    BY <1>5, Zenon DEF SecondTick
  <2>2. /\ h \in GateState /\ h.sim = 2 /\ h.heard = g.heard /\ h.boot = g.boot
        /\ h.settled = g.settled /\ h.ok = g.ok /\ h.refused = g.refused /\ h.acks = g.acks
    BY <1>1 DEF GateState
  <2> HIDE DEF h
  <2>3. room.allow = {} => SeatSound(i, h)
    BY <1>1, <1>2, <2>1, <2>2 DEF SeatSound
  <2>4. QED
    BY <1>1, <1>2, <2>1, <2>2, <2>3, SeatStep
<1>6. CASE AskFrame0(i)
  <2>1. GateStep(i, g, {[op |-> "ASK", from |-> i]})
    BY <1>6, Zenon DEF AskFrame0
  <2>2. QED
    BY <1>1, <1>2, <1>3, <2>1, SeatStep
<1>7. ASSUME NEW m \in wire, OnAsk(i, m)
      PROVE  GateTypes' /\ GateInv'
  <2>1. GateStep(i, g, {Frame0(i)}) /\ g.sim > 0
    BY <1>7, Zenon DEF OnAsk
  <2>2. QED
    BY <1>1, <1>2, <1>3, <2>1, SeatStep
<1>8. ASSUME NEW m \in wire, OnFrame0(i, m)
      PROVE  GateTypes' /\ GateInv'
  <2> DEFINE h == [g EXCEPT !.heard = @ \cup {m.from}]
  <2>1. GateStep(i, h, {}) /\ m.op = "FC" /\ m.from # i
    BY <1>8, Zenon DEF OnFrame0
  <2>2. m.from \in room.seats /\ m.from \in GateSeats
    BY MessageFields DEF GateTypes
  <2>3. /\ h \in GateState /\ h.sim = g.sim /\ h.heard = g.heard \cup {m.from} /\ h.boot = g.boot
        /\ h.settled = g.settled /\ h.ok = g.ok /\ h.refused = g.refused /\ h.acks = g.acks
    BY <1>1, <2>2, Zenon DEF GateState
  <2> HIDE DEF h
  <2>4. room.allow = {} => SeatSound(i, h) /\ \A j \in h.heard : j # i /\ gate[j].sim > 0
    BY <1>1, <2>1, <2>2, <2>3 DEF SeatSound, Fellows, GateInv, Honest
  <2>5. QED
    BY <1>1, <1>2, <2>1, <2>3, <2>4, SeatStep
<1>9. QED
  BY <1>4, <1>5, <1>6, <1>7, <1>8, Zenon

(* The boot gate: with every digest in, it is passed only when they agree; *)
(* without, it is a refusal.                                               *)
LEMMA BootSteps ==
    ASSUME GateTypes, GateInv, NEW i, BootVerdict(i) \/ BootExpire(i)
    PROVE  GateTypes' /\ GateInv'
<1>0. i \in room.seats
  BY Zenon DEF BootVerdict, BootExpire, GateStep
<1> DEFINE g == gate[i]
           h == [g EXCEPT !.boot = TRUE]
           r1 == GateRefuses(h, "boot_digest_mismatch")
           r2 == GateRefuses(h, "boot_digest_timeout")
<1>1. /\ g \in GateState /\ i \in GateSeats
      /\ room.allow = {} => SeatSound(i, g) /\ \A j \in g.heard : j # i /\ gate[j].sim > 0
  BY <1>0, SeatFacts, Zenon
<1>2. g.sim = 1
  BY DEF BootVerdict, BootExpire
<1>3. /\ h \in GateState /\ h.sim = g.sim /\ h.heard = g.heard /\ h.boot
      /\ h.settled = g.settled /\ h.ok = g.ok /\ h.refused = g.refused /\ h.acks = g.acks
  BY <1>1, Zenon DEF GateState
<1>4. \/ GateStep(i, r1, {}) \/ GateStep(i, r2, {})
      \/ GateStep(i, h, {}) /\ Complete0(i) /\ (room.allow = {} => Differing(i) = {})
  BY Zenon DEF BootVerdict, BootExpire
<1> HIDE DEF h
<1>5. ASSUME NEW r, r \in {r1, r2}
      PROVE  /\ r \in GateState /\ r.settled = h.settled /\ r.ok = h.ok /\ r.acks = h.acks
             /\ r.sim = h.sim /\ r.heard = h.heard /\ r.refused # "no"
  BY <1>3, <1>5, RefusesKeeps DEF Verdicts
<1> HIDE DEF r1, r2
<1>6. ASSUME NEW r, r \in {r1, r2}, GateStep(i, r, {})
      PROVE  GateTypes' /\ GateInv'
  <2>1. room.allow = {} => SeatSound(i, r)
    BY <1>1, <1>2, <1>3, <1>5, <1>6 DEF SeatSound
  <2>2. QED
    BY <1>1, <1>2, <1>3, <1>5, <1>6, <2>1, SeatStep
<1>7. ASSUME GateStep(i, h, {}), Complete0(i), room.allow = {} => Differing(i) = {}
      PROVE  GateTypes' /\ GateInv'
  <2>1. room.allow = {} => Agreed(i)
    BY <1>7, Zenon DEF Complete0, Differing, Fellows, Agreed
  <2>2. room.allow = {} => SeatSound(i, h)
    BY <1>1, <1>2, <1>3, <1>7, <2>1, Zenon DEF SeatSound, Complete0
  <2>3. QED
    BY <1>1, <1>2, <1>3, <1>7, <2>2, SeatStep
<1>8. QED
  BY <1>4, <1>6, <1>7, Zenon

(* and the publication and the loss of a message. *)
LEMMA WireSteps ==
    ASSUME GateTypes, GateInv, Publish \/ LoseGate
    PROVE  GateTypes' /\ GateInv'
<1>1. CASE Publish
  <2>0. 0 \in room.seats
    BY Zenon DEF GateTypes
  <2> DEFINE g == gate[0]
             msg == [op |-> "MODSET", from |-> 0]
  <2>1. GateStep(0, g, {msg})
    BY <1>1, Zenon DEF Publish
  <2>2. msg \in GateMessage /\ msg.op = "MODSET" /\ msg.from = 0
    BY <2>0, Zenon DEF GateMessage
  <2> HIDE DEF msg
  <2>3. /\ g \in GateState
        /\ room.allow = {} => SeatSound(0, g) /\ \A j \in g.heard : j # 0 /\ gate[j].sim > 0
    BY <2>0, SeatFacts
  <2>4. g.sim \in 0 .. 2
    BY <2>3, Zenon DEF GateState
  <2>5. QED
    BY <2>1, <2>2, <2>3, <2>4, SeatStep
<1>2. CASE LoseGate
  <2>1. gate' = gate /\ wire' \subseteq wire /\ room' = [room EXCEPT !.losses = @ - 1]
    BY <1>2, Zenon DEF LoseGate
  <2>2. /\ room'.seats = room.seats /\ room'.modset = room.modset /\ room'.fits = room.fits
        /\ room'.content = room.content /\ room'.boot = room.boot /\ room'.allow = room.allow
        /\ room' = [seats |-> room'.seats, modset |-> room'.modset, fits |-> room'.fits,
                    content |-> room'.content, boot |-> room'.boot, allow |-> room'.allow,
                    losses |-> room'.losses]
    BY <2>1, Zenon DEF GateTypes
  <2>3. GateMessage' = GateMessage
    BY <2>2, Zenon DEF GateMessage
  <2>4. GateTypes'
    BY <2>1, <2>2, <2>3, Zenon DEF GateTypes
  <2>5. GateInv'
    BY <2>1, <2>2 DEF GateInv, SeatSound, Fellows, Agreed, Fit, Honest
  <2>6. QED
    BY <2>4, <2>5
<1>3. QED
  BY <1>1, <1>2, Zenon

(* Every step keeps the types and the invariant. *)
LEMMA GateInvStep ==
    ASSUME GateTypes, GateInv, [GateNext]_gateVars
    PROVE  GateTypes' /\ GateInv'
<1>1. CASE UNCHANGED gateVars
  BY <1>1 DEF gateVars, GateTypes, GateMessage, GateInv, SeatSound, Fellows, Agreed, Fit, Honest
<1>2. ASSUME NEW i, GateSeat(i)
      PROVE  GateTypes' /\ GateInv'
  BY <1>2, ModsetSteps, IdentitySteps, TickSteps, BootSteps, Zenon DEF GateSeat, GateDecides, GateRecv
<1>3. QED
  BY <1>1, <1>2, WireSteps, AckStep, Zenon DEF GateNext

(* They hold when the room opens. *)
LEMMA GateInitInv ==
    ASSUME GateInit PROVE GateTypes /\ GateInv
<1>1. Fresh \in GateState /\ Fresh.sim = 0 /\ Fresh.heard = {} /\ ~Fresh.boot /\ ~Fresh.settled
      /\ Fresh.acks = {}
  BY DEF Fresh, GateState, Verdicts
<1>2. gate \in [GateSeats -> GateState] /\ \A i \in GateSeats : gate[i] = Fresh
  BY <1>1, Zenon DEF GateInit
<1>3. GateTypes
  BY <1>2, RoomsAssumption, Zenon DEF GateInit, GateTypes
<1>4. \A i \in GateSeats : SeatSound(i, gate[i])
  BY <1>1, <1>2 DEF SeatSound
<1>5. QED
  BY <1>1, <1>2, <1>3, <1>4, Zenon DEF GateInit, GateTypes, GateInv

-----------------------------------------------------------------------------
(* The gates together (rb_modset_pump, rb_boot_digest_gate): a seat that   *)
(* runs its second tick in a room without overrides is in a room that can  *)
(* be played, for every room and whatever the link loses.                  *)
THEOREM GateVerifies == GateSpec => []StartVerified
<1>1. GateTypes /\ GateInv => StartVerified
  <2> SUFFICES ASSUME GateTypes, GateInv, room.allow = {}, NEW i \in room.seats, Plays(i)
               PROVE  /\ \A j \in room.seats : room.boot[j] = room.boot[i]
                      /\ room.modset = room.seats => Fellows(0) \subseteq room.fits
    BY Zenon DEF StartVerified
  <2>1. gate[i].heard = Fellows(i) /\ Agreed(i) /\ gate[i].sim = 2
    BY Zenon DEF GateInv, SeatSound, Plays
  <2>2. 0 \in room.seats /\ gate[0].sim > 0
    BY <2>1 DEF GateTypes, GateInv, Fellows
  <2>3. room.modset = room.seats => gate[0].settled /\ gate[0].ok
    BY <2>2, Zenon DEF GateInv, SeatSound
  <2>4. room.modset = room.seats => Fit
    BY <2>2, <2>3, Zenon DEF GateInv, SeatSound
  <2>5. QED
    BY <2>1, <2>4, Zenon DEF Agreed, Fit
<1>2. QED
  BY <1>1, GateInitInv, GateInvStep, PTL DEF GateSpec

(* A record that keeps seat k's tick and verdict once it has one. *)
Keeps(k, g) ==
    gate[k].refused # "no" => g.sim = gate[k].sim /\ g.refused = gate[k].refused

(* A step that keeps its seat's verdict keeps every verdict. *)
LEMMA KeepsStands ==
    ASSUME GateTypes, NEW k, NEW g, NEW msgs, GateStep(k, g, msgs), Keeps(k, g)
    PROVE  VerdictsStand
BY Zenon DEF GateStep, GateTypes, Keeps, VerdictsStand

(* No step changes a verdict that was given. *)
LEMMA VerdictStep ==
    ASSUME GateTypes, GateNext
    PROVE  VerdictsStand
<1>0. ASSUME NEW k \in room.seats
      PROVE  gate[k] \in GateState /\ Keeps(k, gate[k]) /\ Keeps(k, ModsetFail(k, gate[k]))
  <2>1. gate[k] \in GateState
    BY <1>0 DEF GateTypes
  <2>2. QED
    BY <2>1, FailKeeps DEF Keeps
<1>1. CASE Publish \/ \E k : AskFrame0(k) \/ \E m \in wire : OnAsk(k, m)
  <2>1. PICK k, msgs : GateStep(k, gate[k], msgs)
    BY <1>1, Zenon DEF Publish, AskFrame0, OnAsk
  <2>2. QED
    BY <2>1, KeepsStands, Zenon DEF Keeps
<1>2. CASE LoseGate
  BY <1>2, Zenon DEF LoseGate, VerdictsStand
<1>3. ASSUME NEW m \in wire, OnModsetAck(m)
      PROVE  VerdictsStand
  <2> DEFINE a == [gate[0] EXCEPT !.acks = @ \cup {m.from}]
             b == [a EXCEPT !.settled = TRUE, !.ok = TRUE]
  <2>1. 0 \in room.seats
    BY Zenon DEF GateTypes
  <2>2. Keeps(0, a) /\ Keeps(0, b)
    BY <1>0, <2>1 DEF Keeps, GateState
  <2>3. GateStep(0, ModsetFail(0, gate[0]), {}) \/ GateStep(0, a, {}) \/ GateStep(0, b, {})
    BY <1>3, Zenon DEF OnModsetAck
  <2> HIDE DEF a, b
  <2>4. QED
    BY <1>0, <2>1, <2>2, <2>3, KeepsStands, Zenon
<1>4. ASSUME NEW k, FirstTick(k) \/ SecondTick(k) \/ BootVerdict(k) \/ BootExpire(k)
      PROVE  VerdictsStand
  <2>1. gate[k].refused = "no"
    BY <1>4, Zenon DEF FirstTick, SecondTick, BootVerdict, BootExpire
  <2>2. \E g, msgs : GateStep(k, g, msgs)
    BY <1>4, Zenon DEF FirstTick, SecondTick, BootVerdict, BootExpire
  <2>3. QED
    BY <2>1, <2>2, KeepsStands, Zenon DEF Keeps
<1>5. ASSUME NEW k, ModsetExpire(k) \/ \E m \in wire : OnModset(k, m)
      PROVE  VerdictsStand
  <2>1. k \in room.seats
    BY <1>5 DEF ModsetExpire, OnModset, GateStep
  <2>2. Keeps(k, Checked(k))
    <3>1. CASE ~gate[k].settled /\ k \in room.fits
      BY <1>0, <2>1, <3>1, Zenon DEF Checked, Keeps, GateState
    <3>2. CASE ~(~gate[k].settled /\ k \in room.fits)
      BY <1>0, <2>1, <3>2, Zenon DEF Checked
    <3>3. QED
      BY <3>1, <3>2, Zenon
  <2>3. \E msgs : GateStep(k, ModsetFail(k, gate[k]), msgs) \/ GateStep(k, Checked(k), msgs)
    BY <1>5 DEF ModsetExpire, OnModset
  <2>4. QED
    BY <1>0, <2>1, <2>2, <2>3, KeepsStands, Zenon
<1>6. ASSUME NEW k, SendIdentity(k) \/ \E m \in wire : OnIdent(k, m) \/ OnFrame0(k, m)
      PROVE  VerdictsStand
  <2>1. k \in room.seats /\ gate[k] \in GateState
    BY <1>0, <1>6, Zenon DEF SendIdentity, OnIdent, OnFrame0, GateStep
  <2>2. CASE SendIdentity(k)
    <3> DEFINE h == [gate[k] EXCEPT !.sent = TRUE, !.owed = FALSE]
    <3>1. Keeps(k, h)
      BY <2>1 DEF Keeps, GateState
    <3>2. \E msgs : GateStep(k, h, msgs)
      BY <2>2, Zenon DEF SendIdentity
    <3> HIDE DEF h
    <3>3. QED
      BY <3>1, <3>2, KeepsStands, Zenon
  <2>3. ASSUME NEW m \in wire, OnIdent(k, m)
        PROVE  VerdictsStand
    <3> DEFINE h == [gate[k] EXCEPT !.owed = @ \/ k \notin m.known, !.known = @ \cup {m.from}]
               r == GateRefuses(h, "mod_set_mismatch")
    <3>1. h.sim = gate[k].sim /\ h.refused = gate[k].refused
      BY <2>1, Zenon DEF GateState
    <3>2. GateStep(k, h, {}) \/ GateStep(k, r, {})
      BY <2>3 DEF OnIdent
    <3> HIDE DEF h
    <3>3. Keeps(k, h) /\ Keeps(k, r)
      BY <3>1, Zenon DEF Keeps, GateRefuses
    <3> HIDE DEF r
    <3>4. QED
      BY <3>2, <3>3, KeepsStands, Zenon
  <2>4. ASSUME NEW m \in wire, OnFrame0(k, m)
        PROVE  VerdictsStand
    <3> DEFINE h == [gate[k] EXCEPT !.heard = @ \cup {m.from}]
    <3>1. Keeps(k, h)
      BY <2>1, Zenon DEF Keeps, GateState
    <3>2. GateStep(k, h, {})
      BY <2>4 DEF OnFrame0
    <3> HIDE DEF h
    <3>3. QED
      BY <3>1, <3>2, KeepsStands
  <2>5. QED
    BY <1>6, <2>2, <2>3, <2>4, Zenon
<1>7. QED
  BY <1>1, <1>2, <1>3, <1>4, <1>5, <1>6, Zenon DEF GateNext, GateSeat, GateDecides, GateRecv

(* rb_refuse keeps the first verdict, and a refused driver runs no tick:   *)
(* no later datagram, time-out or agreement takes a refusal back.          *)
THEOREM GateRefusalStands == GateSpec => RefusalStands
<1>1. GateTypes /\ [GateNext]_gateVars => [VerdictsStand]_gateVars
  BY VerdictStep
<1>2. QED
  BY <1>1, GateInitInv, GateInvStep, PTL DEF GateSpec, RefusalStands

-----------------------------------------------------------------------------
(***************************************************************************)
(* The chain of digests.                                                   *)
(***************************************************************************)

ChainSpec == ChainInit /\ [][ChainNext]_hc

-----------------------------------------------------------------------------
(* A non-empty set of integers between two bounds has a highest element.   *)
LEMMA BoundedMax ==
    ASSUME NEW a \in Int, NEW b \in Int, NEW S \in SUBSET (a .. b), S # {}
    PROVE  Max(S) \in S /\ \A x \in S : x <= Max(S)
<1> DEFINE T == {n \in Nat : b - n \in S}
<1>1. T \subseteq Nat /\ T # {}
  <2>1. PICK x \in S : TRUE
    BY Zenon
  <2>2. x \in Int /\ b - x \in Nat /\ b - (b - x) = x
    BY SMT
  <2>3. QED
    BY <2>1, <2>2, Zenon
<1>2. PICK n \in T : \A k \in T : ~(<<k, n>> \in OpToRel(<, Nat))
  BY <1>1, NatLessThanWellFounded, WFMin, Zenon
<1>3. \A k \in T : ~(k < n)
  BY <1>2, Zenon DEF OpToRel
<1>4. \A x \in S : x <= b - n
  <2> SUFFICES ASSUME NEW x \in S PROVE x <= b - n
    BY Zenon
  <2>1. x \in Int /\ b - x \in Nat /\ b - (b - x) = x
    BY SMT
  <2>2. b - x \in T
    BY <2>1, Zenon
  <2>3. n \in Nat /\ ~(b - x < n)
    BY <2>2, <1>3, Zenon
  <2>4. QED
    BY <2>1, <2>3, SMT
<1>5. \E m \in S : \A x \in S : m >= x
  <2>1. b - n \in S
    BY Zenon
  <2>2. \A x \in S : x \in Int
    BY SMT
  <2>3. \A x \in S : b - n >= x
    BY <1>4, <2>1, <2>2, Zenon
  <2>4. QED
    BY <2>1, <2>3, Zenon
<1>6. Max(S) \in S /\ \A x \in S : Max(S) >= x
  BY <1>5, Zenon DEF Max
<1>7. QED
  BY <1>6, Zenon

(* A non-empty set of naturals has a lowest element. *)
LEMMA NatMin ==
    ASSUME NEW S \in SUBSET Nat, S # {}
    PROVE  Min(S) \in S
<1>2. PICK n \in S : \A k \in S : ~(<<k, n>> \in OpToRel(<, Nat))
  BY NatLessThanWellFounded, WFMin, Zenon
<1>3. \A k \in S : ~(k < n)
  BY <1>2, Zenon DEF OpToRel
<1>4. \A k \in S : n <= k
  BY <1>3, SMT
<1>5. QED
  BY <1>4, Zenon DEF Min

First == Min(ChainPeers)

LEMMA FirstPeer == First \in ChainPeers /\ ChainPeers \subseteq Nat
  BY NatMin, ChainPeersAssumption, SMT DEF First, MaxPeers


-----------------------------------------------------------------------------
(* The seats computed tick t alike; the peers did.                         *)
AllAgree(h, t) == \A s \in ChainPeers : h[t][s] = h[t][Us]
PeersAgree(h, t) == \A s \in ChainPeers : h[t][s] = h[t][First]

IsChain(c) ==
    c = [local |-> c.local, peer |-> c.peer, res |-> c.res, heard |-> c.heard,
         split |-> c.split]

(* What the rings hold is what the seats computed, h: our own digests of   *)
(* ticks before n, the first peer's for a tick every peer committed, the   *)
(* conflict flag of such a tick set exactly when the peers differ on it,   *)
(* and the commits gathered so far.                                        *)
LocalOK(h, ring, n) == \A t \in DOMAIN ring : t \in 0 .. n - 1 /\ ring[t] = h[t][Us]
PeerOK(h, ring, split) ==
    \A t \in DOMAIN ring :
        t \in Nat /\ ring[t] = h[t][First] /\ (t \in split <=> ~PeersAgree(h, t))
SaidOK(h, t, said) == \A s \in DOMAIN said : s \in ChainPeers /\ said[s] = h[t][s]
HeardOK(h, ring) == \A t \in DOMAIN ring : SaidOK(h, t, ring[t])
ChainOK(h, c, n) ==
    /\ IsChain(c)
    /\ c.res \in Int /\ c.res >= -1
    /\ LocalOK(h, c.local, n) /\ PeerOK(h, c.peer, c.split) /\ HeardOK(h, c.heard)

(* Where both rings hold a tick, they match exactly when all seats agree.  *)
LEMMA MatchIs ==
    ASSUME NEW h, NEW c, NEW n, ChainOK(h, c, n),
           NEW t \in DOMAIN c.local \cap DOMAIN c.peer
    PROVE  MatchAt(c, t) <=> AllAgree(h, t)
<1>1. /\ c.local[t] = h[t][Us] /\ c.peer[t] = h[t][First]
      /\ t \in c.split <=> ~PeersAgree(h, t)
  BY Zenon DEF ChainOK, LocalOK, PeerOK
<1>2. QED
  BY <1>1, FirstPeer, Zenon DEF MatchAt, AllAgree, PeersAgree

(* try_advance: the rings stay, the watermark does not fall, and every     *)
(* tick it passes was computed alike.                                      *)
LEMMA AdvanceOK ==
    ASSUME NEW h, NEW c, NEW n \in Nat, ChainOK(h, c, n)
    PROVE  /\ ChainOK(h, TryAdvance(c), n)
           /\ c.res <= TryAdvance(c).res
           /\ \A t \in (c.res + 1) .. TryAdvance(c).res : AllAgree(h, t)
<1> DEFINE D == DOMAIN c.local \cup {c.res}
           R == {r \in c.res .. Max(D) : \A t \in (c.res + 1) .. r : MatchAt(c, t)}
<1>1. c.res \in Int /\ c.res >= -1
  BY Zenon DEF ChainOK
<1>2. D \in SUBSET (-1 .. n + c.res + 1)
  BY <1>1, SMT DEF ChainOK, LocalOK
<1>3. Max(D) \in D /\ \A x \in D : x <= Max(D)
  <2>1. -1 \in Int /\ n + c.res + 1 \in Int
    BY <1>1, SMT
  <2>2. D # {}
    BY Zenon
  <2>3. QED
    BY <1>2, <2>1, <2>2, BoundedMax, Zenon
<1>4. Max(D) \in Int /\ c.res <= Max(D)
  BY <1>2, <1>3, SMT
<1>5. c.res \in R
  <2>1. c.res \in c.res .. Max(D)
    BY <1>1, <1>4, SMTT(30)
  <2>2. (c.res + 1) .. c.res = {}
    BY <1>1, SMT
  <2>3. QED
    BY <2>1, <2>2, Zenon
<1>6. Max(R) \in R
  <2>1. R \in SUBSET (c.res .. Max(D)) /\ R # {}
    BY <1>5, Zenon
  <2>2. QED
    BY <1>1, <1>4, <2>1, BoundedMax, Zenon
<1>7. PICK m : m = Max(R)
  BY Zenon
<1>8. TryAdvance(c) = [c EXCEPT !.res = m]
  BY <1>7, Zenon DEF TryAdvance
<1>9. PICK d : d = TryAdvance(c)
  BY Zenon
<1>10. d = [local |-> c.local, peer |-> c.peer, res |-> m, heard |-> c.heard,
            split |-> c.split]
  BY <1>8, <1>9, Zenon DEF ChainOK, IsChain
<1>11. m \in Int /\ m >= c.res /\ \A t \in (c.res + 1) .. m : MatchAt(c, t)
  BY <1>6, <1>7, <1>1, <1>4, SMT
<1>12. ChainOK(h, d, n)
  <2>1. /\ d.local = c.local /\ d.peer = c.peer /\ d.res = m /\ d.heard = c.heard
        /\ d.split = c.split /\ IsChain(d)
    BY <1>10, Zenon DEF IsChain
  <2>2. m >= -1
    BY <1>1, <1>11, SMT
  <2>3. QED
    BY <2>1, <2>2, <1>11, Zenon DEF ChainOK
<1>13. \A t \in (c.res + 1) .. m : AllAgree(h, t)
  BY <1>11, MatchIs, Zenon DEF MatchAt
<1>14. d.res = m
  BY <1>10, Zenon
<1>15. QED
  BY <1>9, <1>11, <1>12, <1>13, <1>14, Zenon


(* finish_frame notes our digest of tick n. *)
LEMMA NoteLocalOK ==
    ASSUME NEW h, NEW c, NEW n \in Nat, ChainOK(h, c, n)
    PROVE  LET d == NoteLocal(c, n, h[n][Us])
           IN  /\ ChainOK(h, d, n + 1) /\ c.res <= d.res
               /\ \A t \in (c.res + 1) .. d.res : AllAgree(h, t)
<1>1. PICK e : e = [c EXCEPT !.local = RingPut(@, n, h[n][Us])]
  BY Zenon
<1>2. e = [local |-> RingPut(c.local, n, h[n][Us]), peer |-> c.peer, res |-> c.res,
           heard |-> c.heard, split |-> c.split]
  BY <1>1, Zenon DEF ChainOK, IsChain
<1>3. /\ e.local = RingPut(c.local, n, h[n][Us]) /\ e.peer = c.peer /\ e.res = c.res
      /\ e.heard = c.heard /\ e.split = c.split /\ IsChain(e)
  BY <1>2, Zenon DEF IsChain
<1>4. LocalOK(h, e.local, n + 1)
  <2> SUFFICES ASSUME NEW t \in DOMAIN e.local
               PROVE  t \in 0 .. (n + 1) - 1 /\ e.local[t] = h[t][Us]
    BY Zenon DEF LocalOK
  <2>0. /\ DOMAIN e.local = Others(c.local, n) \cup {n}
        /\ e.local[n] = h[n][Us]
        /\ \A k \in Others(c.local, n) : k # n => e.local[k] = c.local[k]
    BY <1>3, Zenon DEF RingPut
  <2>1. CASE t = n
    <3>1. n \in 0 .. (n + 1) - 1
      BY SMT
    <3>2. QED
      BY <2>1, <3>1, <2>0, Zenon
  <2>2. CASE t # n
    <3>1. t \in Others(c.local, n) /\ e.local[t] = c.local[t]
      BY <2>2, <2>0, Zenon
    <3>2. t \in 0 .. n - 1 /\ c.local[t] = h[t][Us]
      BY <3>1, Zenon DEF ChainOK, LocalOK, Others
    <3>3. t \in 0 .. (n + 1) - 1
      BY <3>2, SMT
    <3>4. QED
      BY <3>1, <3>2, <3>3, Zenon
  <2>3. QED
    BY <2>1, <2>2, Zenon
<1>5. ChainOK(h, e, n + 1)
  BY <1>3, <1>4, Zenon DEF ChainOK
<1>6. n + 1 \in Nat
  BY SMT
<1>7. NoteLocal(c, n, h[n][Us]) = TryAdvance(e)
  BY <1>1, Zenon DEF NoteLocal
<1>8. QED
  BY <1>3, <1>5, <1>6, <1>7, AdvanceOK, Zenon

(* A commit that arrives, from a seat of the mask or not. *)
LEMMA NotePeerFromOK ==
    ASSUME NEW h, NEW c, NEW n \in Nat, ChainOK(h, c, n),
           NEW s \in ChainPeers, NEW t \in Nat
    PROVE  LET d == NotePeerFrom(c, ChainPeers, s, t, h[t][s])
           IN  /\ ChainOK(h, d, n) /\ c.res <= d.res
               /\ \A k \in (c.res + 1) .. d.res : AllAgree(h, k)
<1>1. PICK known : known = IF t \in DOMAIN c.heard THEN c.heard[t] ELSE <<>>
  BY Zenon
<1>2. PICK said : said = WithDigest(known, s, h[t][s])
  BY Zenon
<1>3. PICK ring : ring = IF known = <<>> /\ t \notin DOMAIN c.peer
                         THEN [k \in Others(c.peer, t) |-> c.peer[k]] ELSE c.peer
  BY Zenon
<1>4. PICK base : base = [c EXCEPT !.heard = RingPut(@, t, said),
                              !.peer = IF known = <<>> /\ t \notin DOMAIN @
                                       THEN [k \in Others(@, t) |-> @[k]] ELSE @]
  BY Zenon
<1>5. base = [local |-> c.local, peer |-> ring, res |-> c.res,
              heard |-> RingPut(c.heard, t, said), split |-> c.split]
  <2>1. PICK put : put = RingPut(c.heard, t, said)
    BY Zenon
  <2>2. base = [c EXCEPT !.heard = put, !.peer = ring]
    BY <1>3, <1>4, <2>1, Zenon
  <2>3. PICK lo, pe, re, he, sp :
            c = [local |-> lo, peer |-> pe, res |-> re, heard |-> he, split |-> sp]
    BY Zenon DEF ChainOK, IsChain
  <2>4. base = [local |-> lo, peer |-> ring, res |-> re, heard |-> put, split |-> sp]
    <3>1. PICK mid : mid = [c EXCEPT !.heard = put]
      BY Zenon
    <3>2. mid = [local |-> lo, peer |-> pe, res |-> re, heard |-> put, split |-> sp]
      BY <2>3, <3>1, Zenon
    <3>3. base = [mid EXCEPT !.peer = ring]
      BY <2>2, <3>1, Zenon
    <3>4. QED
      BY <3>2, <3>3, Zenon
  <2>5. QED
    BY <2>1, <2>3, <2>4, Zenon
<1>6. /\ base.local = c.local /\ base.peer = ring /\ base.res = c.res
      /\ base.heard = RingPut(c.heard, t, said) /\ base.split = c.split /\ IsChain(base)
  BY <1>5, Zenon DEF IsChain
<1>7. SaidOK(h, t, said)
  <2>1. SaidOK(h, t, known)
    <3>1. DOMAIN <<>> = {}
      BY SMT
    <3>2. QED
      BY <1>1, <3>1, Zenon DEF ChainOK, HeardOK, SaidOK
  <2>2. DOMAIN said = DOMAIN known \cup {s} /\ said[s] = h[t][s]
        /\ \A k \in DOMAIN known : k # s => said[k] = known[k]
    BY <1>2, Zenon DEF WithDigest
  <2>3. QED
    BY <2>1, <2>2, Zenon DEF SaidOK
<1>8. HeardOK(h, base.heard)
  <2> SUFFICES ASSUME NEW k \in DOMAIN base.heard PROVE SaidOK(h, k, base.heard[k])
    BY Zenon DEF HeardOK
  <2>0. /\ DOMAIN base.heard = Others(c.heard, t) \cup {t}
        /\ base.heard[t] = said
        /\ \A j \in Others(c.heard, t) : j # t => base.heard[j] = c.heard[j]
    BY <1>6, Zenon DEF RingPut
  <2>1. CASE k = t
    BY <2>0, <2>1, <1>7, Zenon
  <2>2. CASE k # t
    <3>1. k \in Others(c.heard, t) /\ base.heard[k] = c.heard[k]
      BY <2>0, <2>2, Zenon
    <3>2. QED
      BY <3>1, Zenon DEF ChainOK, HeardOK, Others
  <2>3. QED
    BY <2>1, <2>2, Zenon
<1>9. \A k \in DOMAIN ring : k \in DOMAIN c.peer /\ ring[k] = c.peer[k]
  BY <1>3, Zenon DEF Others
<1>10. PeerOK(h, ring, c.split)
  BY <1>9, Zenon DEF ChainOK, PeerOK
<1>11. ChainOK(h, base, n)
  BY <1>6, <1>8, <1>10, Zenon DEF ChainOK
<1>12. c.res \in Int
  BY Zenon DEF ChainOK
<1> HIDE DEF First
<1>13. CASE DOMAIN said # ChainPeers
  <2>1. NotePeerFrom(c, ChainPeers, s, t, h[t][s]) = base
    BY <1>1, <1>2, <1>4, <1>13, Zenon DEF NotePeerFrom
  <2>2. c.res <= base.res /\ (c.res + 1) .. base.res = {}
    BY <1>6, <1>12, SMT
  <2>3. QED
    BY <1>11, <2>1, <2>2, Zenon
<1>14. CASE DOMAIN said = ChainPeers
  <2>1. PICK full : full = [base EXCEPT
                 !.peer = RingPut(@, t, said[First]),
                 !.split = {k \in @ : k % HcRing # t % HcRing}
                           \cup {k \in {t} : \E p \in ChainPeers : said[p] # said[First]}]
    BY Zenon
  <2>2. NotePeerFrom(c, ChainPeers, s, t, h[t][s]) = TryAdvance(full)
    BY <1>1, <1>2, <1>4, <1>14, <2>1, Zenon DEF NotePeerFrom, First
  <2>3. PICK cut : cut = {k \in c.split : k % HcRing # t % HcRing}
                         \cup {k \in {t} : \E p \in ChainPeers : said[p] # said[First]}
    BY Zenon
  <2>4. full = [local |-> c.local, peer |-> RingPut(ring, t, said[First]), res |-> c.res,
                heard |-> base.heard, split |-> cut]
    <3>1. PICK put : put = RingPut(ring, t, said[First])
      BY Zenon
    <3>2. full = [base EXCEPT !.peer = put, !.split = cut]
      BY <1>6, <2>1, <2>3, <3>1, Zenon
    <3>3. full = [local |-> c.local, peer |-> put, res |-> c.res,
                  heard |-> RingPut(c.heard, t, said), split |-> cut]
      <4>1. PICK mid : mid = [base EXCEPT !.peer = put]
        BY Zenon
      <4>2. mid = [local |-> c.local, peer |-> put, res |-> c.res,
                   heard |-> RingPut(c.heard, t, said), split |-> c.split]
        BY <1>5, <4>1, SMT
      <4>3. full = [mid EXCEPT !.split = cut]
        BY <3>2, <4>1, Zenon
      <4>4. QED
        BY <4>2, <4>3, Zenon
    <3>4. QED
      BY <1>6, <3>1, <3>3, Zenon
  <2>5. /\ full.local = c.local /\ full.peer = RingPut(ring, t, said[First])
        /\ full.res = c.res /\ full.heard = base.heard /\ full.split = cut /\ IsChain(full)
    BY <2>4, Zenon DEF IsChain
  <2>6. \A p \in ChainPeers : said[p] = h[t][p]
    BY <1>7, <1>14, Zenon DEF SaidOK
  <2>7. PeerOK(h, full.peer, full.split)
    <3> SUFFICES ASSUME NEW k \in DOMAIN full.peer
                 PROVE  /\ k \in Nat /\ full.peer[k] = h[k][First]
                        /\ k \in full.split <=> ~PeersAgree(h, k)
      BY Zenon DEF PeerOK
    <3>0. /\ DOMAIN full.peer = Others(ring, t) \cup {t}
          /\ full.peer[t] = said[First]
          /\ \A j \in Others(ring, t) : j # t => full.peer[j] = ring[j]
      BY <2>5, Zenon DEF RingPut
    <3>1. CASE k = t
      <4>1. full.peer[k] = h[k][First]
        BY <3>0, <3>1, <2>6, FirstPeer, Zenon
      <4>2. k \in cut <=> \E p \in ChainPeers : said[p] # said[First]
        BY <3>1, <2>3, Zenon
      <4>3. QED
        BY <3>1, <4>1, <4>2, <2>5, <2>6, FirstPeer, Zenon DEF PeersAgree
    <3>2. CASE k # t
      <4>1. k \in Others(ring, t) /\ full.peer[k] = ring[k]
        BY <3>0, <3>2, Zenon
      <4>2. k \in DOMAIN ring /\ k % HcRing # t % HcRing
        BY <4>1, Zenon DEF Others
      <4>3. k \in cut <=> k \in c.split
        BY <3>2, <4>2, <2>3, Zenon
      <4>4. QED
        BY <4>1, <4>2, <4>3, <2>5, <1>10, Zenon DEF PeerOK
    <3>3. QED
      BY <3>1, <3>2, Zenon
  <2>8. ChainOK(h, full, n)
    BY <2>5, <2>7, <1>11, <1>6, Zenon DEF ChainOK
  <2>9. QED
    BY <2>2, <2>5, <2>8, AdvanceOK, Zenon
<1>15. QED
  BY <1>13, <1>14, Zenon


(* heal_stale_gap: the ticks it passes agree, where both rings hold them. *)
LEMMA HealOK ==
    ASSUME NEW h, NEW c, NEW n \in Nat, ChainOK(h, c, n)
    PROVE  LET d == HealStaleGap(c)
           IN  /\ ChainOK(h, d, n)
               /\ c.res <= d.res
               /\ \A t \in (c.res + 1) .. d.res :
                      t \in DOMAIN c.local \cap DOMAIN c.peer => AllAgree(h, t)
<1> DEFINE both == {t \in DOMAIN c.local \cap DOMAIN c.peer : t > c.res}
<1>1. c.res \in Int /\ c.res >= -1
  BY Zenon DEF ChainOK
<1>2. CASE HealStaleGap(c) = c
  <2>1. c.res <= c.res /\ (c.res + 1) .. c.res = {}
    BY <1>1, SMT
  <2>2. QED
    BY <1>2, <2>1, Zenon
<1>3. CASE HealStaleGap(c) # c
  <2>1. /\ HealStaleGap(c) = [c EXCEPT !.res = Max(both)]
        /\ both # {} /\ \A t \in both : MatchAt(c, t)
    BY <1>3, Zenon DEF HealStaleGap
  <2>2. both \in SUBSET (-1 .. n)
    BY SMT DEF ChainOK, LocalOK
  <2>3. Max(both) \in both
    <3>1. -1 \in Int /\ n \in Int
      BY SMT
    <3>2. QED
      BY <2>1, <2>2, <3>1, BoundedMax, Zenon
  <2>4. PICK m : m = Max(both)
    BY Zenon
  <2>5. m \in Int /\ m >= -1 /\ c.res <= m
    BY <1>1, <2>2, <2>3, <2>4, SMT
  <2>6. PICK d : d = HealStaleGap(c)
    BY Zenon
  <2>7. d = [local |-> c.local, peer |-> c.peer, res |-> m, heard |-> c.heard,
             split |-> c.split]
    <3>1. d = [c EXCEPT !.res = m]
      BY <2>1, <2>4, <2>6, Zenon
    <3>2. QED
      BY <3>1, Zenon DEF ChainOK, IsChain
  <2>8. /\ d.local = c.local /\ d.peer = c.peer /\ d.res = m /\ d.heard = c.heard
        /\ d.split = c.split /\ IsChain(d)
    BY <2>7, Zenon DEF IsChain
  <2>9. ChainOK(h, d, n)
    BY <2>5, <2>8, Zenon DEF ChainOK
  <2>10. ASSUME NEW t \in (c.res + 1) .. m, t \in DOMAIN c.local \cap DOMAIN c.peer
         PROVE  AllAgree(h, t)
    <3>1. t > c.res
      BY <1>1, <2>5, SMT
    <3>2. MatchAt(c, t)
      BY <2>1, <2>10, <3>1, Zenon
    <3>3. QED
      BY <2>10, <3>2, MatchIs, Zenon
  <2>11. QED
    BY <2>5, <2>6, <2>8, <2>9, <2>10, Zenon
<1>4. QED
  BY <1>2, <1>3, Zenon

-----------------------------------------------------------------------------
(* The view of a complete exchange equals our digest exactly when every    *)
(* seat has it.                                                            *)
LEMMA ViewHonest ==
    ASSUME NEW h, NEW q, SaidOK(h, q.epoch, q.digest), QuorumComplete(q)
    PROVE  QuorumView(q, h[q.epoch][Us]) = h[q.epoch][Us] <=> AllAgree(h, q.epoch)
<1> DEFINE ours == h[q.epoch][Us]
           other == {s \in DOMAIN q.digest : q.digest[s] # ours}
<1>1. DOMAIN q.digest = ChainPeers /\ \A s \in ChainPeers : q.digest[s] = h[q.epoch][s]
  BY Zenon DEF SaidOK, QuorumComplete
<1>2. First \in ChainPeers
  BY FirstPeer, Zenon
<1>3. CASE \A s \in DOMAIN q.digest : q.digest[s] = q.digest[First]
  <2>1. QuorumView(q, ours) = q.digest[First]
    BY <1>1, <1>3, Zenon DEF QuorumView, First
  <2>2. QED
    BY <1>1, <1>2, <1>3, <2>1, Zenon DEF AllAgree
<1>4. CASE ~(\A s \in DOMAIN q.digest : q.digest[s] = q.digest[First])
  <2>1. QuorumView(q, ours) = q.digest[Max(other)]
    BY <1>1, <1>4, Zenon DEF QuorumView, First
  <2>2. other # {}
    BY <1>1, <1>2, <1>4, Zenon
  <2>3. other \in SUBSET (0 .. 7)
    <3>1. 0 .. MaxPeers - 1 = 0 .. 7
      BY SMT DEF MaxPeers
    <3>2. QED
      BY <1>1, <3>1, ChainPeersAssumption, Zenon
  <2>4. Max(other) \in other
    <3>1. 0 \in Int /\ 7 \in Int
      BY SMT
    <3>2. QED
      BY <2>2, <2>3, <3>1, BoundedMax, Zenon
  <2>5. QuorumView(q, ours) # ours
    BY <2>1, <2>4, Zenon
  <2>6. ~AllAgree(h, q.epoch)
    <3>1. PICK s \in other : TRUE
      BY <2>4, Zenon
    <3>2. s \in ChainPeers /\ h[q.epoch][s] # h[q.epoch][Us]
      BY <1>1, <3>1, Zenon
    <3>3. QED
      BY <3>2, Zenon DEF AllAgree
  <2>7. QED
    BY <2>5, <2>6, Zenon
<1>5. QED
  BY <1>3, <1>4, Zenon

(* A reply is noted in its own exchange only. *)
LEMMA NoteHonest ==
    ASSUME NEW h, NEW q, q = [epoch |-> q.epoch, digest |-> q.digest],
           SaidOK(h, q.epoch, q.digest), NEW s \in ChainPeers, NEW t
    PROVE  LET r == QuorumNote(q, s, t, h[t][s])
           IN  r = [epoch |-> r.epoch, digest |-> r.digest] /\ SaidOK(h, r.epoch, r.digest)
<1>1. CASE t # q.epoch
  BY <1>1, Zenon DEF QuorumNote
<1>2. CASE t = q.epoch
  <2>1. PICK d : d = WithDigest(q.digest, s, h[t][s])
    BY Zenon
  <2>2. QuorumNote(q, s, t, h[t][s]) = [q EXCEPT !.digest = d]
    BY <1>2, <2>1, Zenon DEF QuorumNote
  <2>3. PICK r : r = QuorumNote(q, s, t, h[t][s])
    BY Zenon
  <2>4. r = [epoch |-> q.epoch, digest |-> d]
    <3>1. r = [q EXCEPT !.digest = d]
      BY <2>2, <2>3, Zenon
    <3>2. QED
      BY <3>1, Zenon
  <2>5. r.epoch = q.epoch /\ r.digest = d
    BY <2>4, Zenon
  <2>6. DOMAIN d = DOMAIN q.digest \cup {s} /\ d[s] = h[t][s]
        /\ \A k \in DOMAIN q.digest : k # s => d[k] = q.digest[k]
    BY <2>1, Zenon DEF WithDigest
  <2>7. SaidOK(h, r.epoch, r.digest)
    BY <1>2, <2>5, <2>6, Zenon DEF SaidOK
  <2>8. QED
    BY <2>3, <2>4, <2>5, <2>7, Zenon
<1>3. QED
  BY <1>1, <1>2, Zenon


-----------------------------------------------------------------------------
(* The inductive invariant. *)
IsState(s) ==
    s = [truth |-> s.truth, c |-> s.c, tip |-> s.tip, skipped |-> s.skipped, q |-> s.q]
ResolvedOK(h, res, skipped) == \A t \in 0 .. res : t \in skipped \/ AllAgree(h, t)
ChainInv ==
    /\ IsState(hc) /\ hc.tip \in Nat
    /\ ChainOK(hc.truth, hc.c, hc.tip)
    /\ ResolvedOK(hc.truth, hc.c.res, hc.skipped)
    /\ hc.q = [epoch |-> hc.q.epoch, digest |-> hc.q.digest]
    /\ SaidOK(hc.truth, hc.q.epoch, hc.q.digest)

LEMMA ChainInvInit == ChainInit => ChainInv
<1> SUFFICES ASSUME ChainInit PROVE ChainInv
  BY Zenon
<1>1. PICK h \in Histories :
          hc = [truth |-> h, c |-> HcReset, tip |-> 0, skipped |-> {}, q |-> QuorumReset(0)]
  BY Zenon DEF ChainInit
<1>2. /\ hc.truth = h /\ hc.c = HcReset /\ hc.tip = 0 /\ hc.skipped = {}
      /\ hc.q = QuorumReset(0) /\ IsState(hc)
  BY <1>1, Zenon DEF IsState
<1>3. DOMAIN <<>> = {} /\ 0 \in Nat /\ -1 \in Int /\ -1 >= -1 /\ 0 .. -1 = {}
  BY SMT
<1>4. /\ HcReset.local = <<>> /\ HcReset.peer = <<>> /\ HcReset.res = -1
      /\ HcReset.heard = <<>> /\ HcReset.split = {} /\ IsChain(HcReset)
  BY Zenon DEF HcReset, IsChain
<1>5. ChainOK(h, HcReset, 0)
  BY <1>3, <1>4, Zenon DEF ChainOK, LocalOK, PeerOK, HeardOK
<1>6. hc.q = [epoch |-> 0, digest |-> <<>>]
  BY <1>2, Zenon DEF QuorumReset
<1>7. hc.q.epoch = 0 /\ hc.q.digest = <<>>
  BY <1>6, SMT
<1>8. SaidOK(h, 0, <<>>)
  BY <1>3, Zenon DEF SaidOK
<1>9. ResolvedOK(h, -1, {})
  BY <1>3, Zenon DEF ResolvedOK
<1>10. QED
  BY <1>2, <1>3, <1>4, <1>5, <1>6, <1>7, <1>8, <1>9, Zenon DEF ChainInv

(* What every step leaves to show. *)
LEMMA Rebuild ==
    ASSUME NEW h, NEW c, NEW n, NEW K, NEW q,
           hc' = [truth |-> h, c |-> c, tip |-> n, skipped |-> K, q |-> q],
           n \in Nat, ChainOK(h, c, n), ResolvedOK(h, c.res, K),
           q = [epoch |-> q.epoch, digest |-> q.digest], SaidOK(h, q.epoch, q.digest)
    PROVE  ChainInv'
<1>1. /\ hc'.truth = h /\ hc'.c = c /\ hc'.tip = n /\ hc'.skipped = K /\ hc'.q = q
      /\ IsState(hc')
  BY Zenon DEF IsState
<1>2. hc'.tip \in Nat /\ ChainOK(hc'.truth, hc'.c, hc'.tip)
  BY <1>1, Zenon
<1>3. ResolvedOK(hc'.truth, hc'.c.res, hc'.skipped)
  BY <1>1, Zenon
<1>4. /\ hc'.q = [epoch |-> hc'.q.epoch, digest |-> hc'.q.digest]
      /\ SaidOK(hc'.truth, hc'.q.epoch, hc'.q.digest)
  BY <1>1, Zenon
<1>5. QED
  BY <1>1, <1>2, <1>3, <1>4, Zenon DEF ChainInv

(* The watermark rises over ticks that were computed alike. *)
LEMMA Risen ==
    ASSUME NEW h, NEW K, NEW r \in Int, NEW m \in Int, ResolvedOK(h, r, K), r <= m,
           \A t \in (r + 1) .. m : t \in K \/ AllAgree(h, t)
    PROVE  ResolvedOK(h, m, K)
<1> SUFFICES ASSUME NEW t \in 0 .. m PROVE t \in K \/ AllAgree(h, t)
  BY Zenon DEF ResolvedOK
<1>1. t \in 0 .. r \/ t \in (r + 1) .. m
  BY SMT
<1>2. QED
  BY <1>1, Zenon DEF ResolvedOK


LEMMA OwnFrameKeeps == ChainInv /\ OwnFrame => ChainInv'
<1> SUFFICES ASSUME ChainInv, OwnFrame PROVE ChainInv'
  BY Zenon
<1>1. PICK h, c, n, K, q :
          hc = [truth |-> h, c |-> c, tip |-> n, skipped |-> K, q |-> q]
  BY Zenon DEF ChainInv, IsState
<1>2. hc.truth = h /\ hc.c = c /\ hc.tip = n /\ hc.skipped = K /\ hc.q = q
  BY <1>1, Zenon
<1>3. n \in Nat /\ ChainOK(h, c, n) /\ ResolvedOK(h, c.res, K)
  BY <1>2, Zenon DEF ChainInv
<1>4. PICK d : d = NoteLocal(c, n, h[n][Us])
  BY Zenon
<1>5. PICK p : p = QuorumReset(n)
  BY Zenon
<1>6. hc' = [hc EXCEPT !.c = d, !.tip = n + 1, !.q = p]
  BY <1>2, <1>4, <1>5, Zenon DEF OwnFrame, Truths
<1>7. hc' = [truth |-> h, c |-> d, tip |-> n + 1, skipped |-> K, q |-> p]
  <2>1. PICK x : x = [hc EXCEPT !.c = d]
    BY Zenon
  <2>2. x = [truth |-> h, c |-> d, tip |-> n, skipped |-> K, q |-> q]
    BY <1>1, <2>1, Zenon
  <2>3. PICK y : y = [x EXCEPT !.tip = n + 1]
    BY Zenon
  <2>4. y = [truth |-> h, c |-> d, tip |-> n + 1, skipped |-> K, q |-> q]
    BY <2>2, <2>3, Zenon
  <2>5. hc' = [y EXCEPT !.q = p]
    BY <1>6, <2>1, <2>3, Zenon
  <2>6. QED
    BY <2>4, <2>5, Zenon
<1>8. /\ ChainOK(h, d, n + 1) /\ c.res <= d.res
      /\ \A t \in (c.res + 1) .. d.res : AllAgree(h, t)
  BY <1>3, <1>4, NoteLocalOK, Zenon
<1>9. ResolvedOK(h, d.res, K)
  BY <1>3, <1>8, Risen, Zenon DEF ChainOK
<1>10. p.epoch = n /\ p.digest = <<>> /\ p = [epoch |-> p.epoch, digest |-> p.digest]
  BY <1>5, Zenon DEF QuorumReset
<1>11. SaidOK(h, p.epoch, p.digest)
  <2>1. DOMAIN <<>> = {}
    BY SMT
  <2>2. QED
    BY <1>10, <2>1, Zenon DEF SaidOK
<1>12. n + 1 \in Nat
  BY <1>3, SMT
<1>13. QED
  BY <1>7, <1>8, <1>9, <1>10, <1>11, <1>12, Rebuild, Zenon

LEMMA PeerFrameKeeps ==
    ASSUME ChainInv, NEW s \in ChainPeers, NEW t \in Nat, PeerFrame(s, t)
    PROVE  ChainInv'
<1>1. PICK h, c, n, K, q :
          hc = [truth |-> h, c |-> c, tip |-> n, skipped |-> K, q |-> q]
  BY Zenon DEF ChainInv, IsState
<1>2. hc.truth = h /\ hc.c = c /\ hc.tip = n /\ hc.skipped = K /\ hc.q = q
  BY <1>1, Zenon
<1>3. /\ n \in Nat /\ ChainOK(h, c, n) /\ ResolvedOK(h, c.res, K)
      /\ q = [epoch |-> q.epoch, digest |-> q.digest] /\ SaidOK(h, q.epoch, q.digest)
  BY <1>2, Zenon DEF ChainInv
<1>4. PICK d : d = NotePeerFrom(c, ChainPeers, s, t, h[t][s])
  BY Zenon
<1>5. PICK p : p = QuorumNote(q, s, t, h[t][s])
  BY Zenon
<1>6. hc' = [hc EXCEPT !.c = d, !.q = p]
  BY <1>2, <1>4, <1>5, Zenon DEF PeerFrame, Truths
<1>7. hc' = [truth |-> h, c |-> d, tip |-> n, skipped |-> K, q |-> p]
  <2>1. PICK x : x = [hc EXCEPT !.c = d]
    BY Zenon
  <2>2. x = [truth |-> h, c |-> d, tip |-> n, skipped |-> K, q |-> q]
    BY <1>1, <2>1, Zenon
  <2>3. hc' = [x EXCEPT !.q = p]
    BY <1>6, <2>1, Zenon
  <2>4. QED
    BY <2>2, <2>3, Zenon
<1>8. /\ ChainOK(h, d, n) /\ c.res <= d.res
      /\ \A k \in (c.res + 1) .. d.res : AllAgree(h, k)
  BY <1>3, <1>4, NotePeerFromOK, Zenon
<1>9. ResolvedOK(h, d.res, K)
  BY <1>3, <1>8, Risen, Zenon DEF ChainOK
<1>10. p = [epoch |-> p.epoch, digest |-> p.digest] /\ SaidOK(h, p.epoch, p.digest)
  BY <1>3, <1>5, NoteHonest, Zenon
<1>11. QED
  BY <1>3, <1>7, <1>8, <1>9, <1>10, Rebuild, Zenon

LEMMA HealKeeps == ChainInv /\ Heal => ChainInv'
<1> SUFFICES ASSUME ChainInv, Heal PROVE ChainInv'
  BY Zenon
<1>1. PICK h, c, n, K, q :
          hc = [truth |-> h, c |-> c, tip |-> n, skipped |-> K, q |-> q]
  BY Zenon DEF ChainInv, IsState
<1>2. hc.truth = h /\ hc.c = c /\ hc.tip = n /\ hc.skipped = K /\ hc.q = q
  BY <1>1, Zenon
<1>3. /\ n \in Nat /\ ChainOK(h, c, n) /\ ResolvedOK(h, c.res, K)
      /\ q = [epoch |-> q.epoch, digest |-> q.digest] /\ SaidOK(h, q.epoch, q.digest)
  BY <1>2, Zenon DEF ChainInv
<1>4. PICK d : d = HealStaleGap(c)
  BY Zenon
<1>5. PICK J : J = K \cup ((c.res + 1) .. d.res \ (DOMAIN c.local \cap DOMAIN c.peer))
  BY Zenon
<1>6. hc' = [hc EXCEPT !.c = d, !.skipped = J]
  BY <1>2, <1>4, <1>5, Zenon DEF Heal
<1>7. hc' = [truth |-> h, c |-> d, tip |-> n, skipped |-> J, q |-> q]
  <2>1. PICK x : x = [hc EXCEPT !.c = d]
    BY Zenon
  <2>2. x = [truth |-> h, c |-> d, tip |-> n, skipped |-> K, q |-> q]
    BY <1>1, <2>1, SMT
  <2>3. hc' = [x EXCEPT !.skipped = J]
    BY <1>6, <2>1, Zenon
  <2>4. QED
    BY <2>2, <2>3, Zenon
<1>8. /\ ChainOK(h, d, n) /\ c.res <= d.res
      /\ \A k \in (c.res + 1) .. d.res :
             k \in DOMAIN c.local \cap DOMAIN c.peer => AllAgree(h, k)
  BY <1>3, <1>4, HealOK, Zenon
<1>9. ResolvedOK(h, d.res, J)
  <2>1. ResolvedOK(h, c.res, J)
    BY <1>3, <1>5, Zenon DEF ResolvedOK
  <2>2. \A k \in (c.res + 1) .. d.res : k \in J \/ AllAgree(h, k)
    BY <1>5, <1>8, Zenon
  <2>3. QED
    BY <1>3, <1>8, <2>1, <2>2, Risen, Zenon DEF ChainOK
<1>10. QED
  BY <1>3, <1>7, <1>8, <1>9, Rebuild, Zenon


LEMMA ChainInvStep == ChainInv /\ [ChainNext]_hc => ChainInv'
<1> SUFFICES ASSUME ChainInv, [ChainNext]_hc PROVE ChainInv'
  BY Zenon
<1>1. CASE OwnFrame
  BY <1>1, OwnFrameKeeps, Zenon
<1>2. ASSUME NEW s \in ChainPeers, NEW t \in 0 .. LastTick, PeerFrame(s, t)
      PROVE  ChainInv'
  <2>1. t \in Nat
    BY LastTickAssumption, SMT
  <2>2. QED
    BY <1>2, <2>1, PeerFrameKeeps, Zenon
<1>3. CASE Heal
  BY <1>3, HealKeeps, Zenon
<1>4. CASE UNCHANGED hc
  BY <1>4, Zenon DEF ChainInv
<1>5. QED
  BY <1>1, <1>2, <1>3, <1>4, Zenon DEF ChainNext

LEMMA ChainInvHonest == ChainInv => DigestsHonest
<1> SUFFICES ASSUME ChainInv PROVE DigestsHonest
  BY Zenon
<1>1. \A t : SeatsAgree(t) <=> AllAgree(hc.truth, t)
  BY Zenon DEF SeatsAgree, AllAgree, Truths
<1>2. \A t \in 0 .. hc.c.res : t \in hc.skipped \/ SeatsAgree(t)
  BY <1>1, Zenon DEF ChainInv, ResolvedOK
<1>3. ASSUME NEW t \in DOMAIN hc.c.local \cap DOMAIN hc.c.peer, t = hc.c.res + 1
      PROVE  Mismatch(hc.c) <=> ~SeatsAgree(t)
  <2>1. MatchAt(hc.c, t) <=> SeatsAgree(t)
    BY <1>1, MatchIs, Zenon DEF ChainInv
  <2>2. Mismatch(hc.c) <=> ~MatchAt(hc.c, t)
    BY <1>3, Zenon DEF Mismatch
  <2>3. QED
    BY <2>1, <2>2, Zenon
<1>4. ASSUME QuorumComplete(hc.q)
      PROVE  QuorumView(hc.q, Truths(hc.q.epoch)[Us]) = Truths(hc.q.epoch)[Us]
                 <=> SeatsAgree(hc.q.epoch)
  BY <1>1, <1>4, ViewHonest, Zenon DEF ChainInv, Truths
<1>5. QED
  BY <1>2, <1>3, <1>4, Zenon DEF DigestsHonest

(* However the commits were ordered, repeated or displaced in the rings,   *)
(* the verdicts of the digest chain and of an exchange are right: for      *)
(* every mask of peers, every ring size, every history of digests, and     *)
(* matches of any length.                                                  *)
THEOREM DigestsAreHonest == ChainSpec => []DigestsHonest
<1>1. QED
  BY ChainInvInit, ChainInvStep, ChainInvHonest, PTL DEF ChainSpec
=============================================================================
