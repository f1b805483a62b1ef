----------------------------- MODULE StateSync -----------------------------
(***************************************************************************)
(* Save states between the seats of a session (rnet_session.c, STATE_* and *)
(* the rnet_session_state_* calls).  The host, seat 0, sends a blob to     *)
(* every guest; a guest uploads its memory card to the host; before a      *)
(* transfer the host may PROBE: it announces the hash, guests answer match *)
(* or miss, and a guest that matched is parked until DONE or BEGIN.        *)
(*                                                                         *)
(* Every datagram is broadcast, so a member of net has a sender and no     *)
(* receiver; receiving does not remove it (duplicates, reordering), Lose   *)
(* does.  Timers are choices of the pump.  A blob is Chunks chunks and is  *)
(* named by the transfer's id; an acknowledgement the receiver holds back  *)
(* (4 ms coalescing) is one that is lost.                                  *)
(***************************************************************************)
EXTENDS Integers, FiniteSets, FiniteSetsExt, Sequences

CONSTANTS
    MaxGuests,   \* guests are seats 1 .. MaxGuests
    MaxChunks,   \* the largest blob of a scenario
    Gens,        \* announcements of a probe: operation, hash or not, checksum
    Scenarios    \* who is in the room, and how often the API is called and
                 \* the network loses or damages a datagram

Seats == 0 .. MaxGuests

\* A blob is never empty: state_begin refuses a size of 0.
ASSUME StateAssumption ==
    /\ MaxGuests \in Nat /\ MaxChunks \in Nat
    /\ Scenarios \subseteq
         [guests : SUBSET (Seats \ {0}), begins : [Seats -> Nat], chunks : Nat \ {0},
          probes : Nat, gens : SUBSET Gens, probeFirst : BOOLEAN, drops : Nat,
          aborts : Nat, damage : Nat, losses : Nat]
    /\ \A g \in Gens : g.hash \in BOOLEAN

None == -1
Own == 100       \* RNET_STATE_TAKEN_TX

VARIABLES
    tx,          \* s->tx
    rx,          \* s->rx[source]
    received,    \* s->state_received[source]
    taken,       \* s->state_taken
    stall,       \* s->state_stall_sim
    serial,      \* s->state_next_xfer_id
    probe,       \* s->state_probe_*
    released,    \* the host's state_probe_released_*
    net,         \* datagrams that may still arrive
    calls,       \* API calls left
    applied,     \* history: serials applied, per receiver and source
    answered,    \* history: <<seat, generation>> the app answered with match
    gaveUp,      \* history: the app aborted something, or dropped a seat
    damaged      \* history: transfers of which a chunk was damaged

stateVars == <<tx, rx, received, taken, stall, serial, probe, released, net,
               calls, applied, answered, gaveUp, damaged>>
-----------------------------------------------------------------------------
NoId == [seat |-> 0, serial |-> 0]
NoGen == [op |-> "NONE", hash |-> FALSE, crc |-> 0]
NoTx == [active |-> FALSE, ready |-> FALSE, op |-> "NONE", id |-> NoId,
         expect |-> {}, ack |-> [r \in Seats |-> 0], cursor |-> 0]
NoRx == [active |-> FALSE, ready |-> FALSE, op |-> "NONE", id |-> NoId,
         got |-> {}, bad |-> {}, cont |-> 0]
NoReceipt == [id |-> NoId, op |-> "NONE", fin |-> FALSE]
NoProbe == [active |-> FALSE, sender |-> FALSE, expect |-> {}, reply |-> {},
            match |-> {}, pending |-> FALSE, answer |-> FALSE, gen |-> NoGen,
            parked |-> FALSE]

Chunks == calls.chunks
HostOps == {"SAVE", "LOAD"}

AnyActive(i) == tx[i].active \/ \E j \in Seats : rx[i][j].active

\* The host's transfers go to every guest, an upload to the host alone.
Receivers(op) == IF op = "MEMCARD" THEN {0} ELSE calls.guests

\* An upload's id holds the sender's seat: an ACK names only the transfer.
XferId(i, n) == [seat |-> i, serial |-> n]

Begin(i, op, id) == [type |-> "BEGIN", from |-> i, op |-> op, id |-> id]
Chunk(i, id, c) == [type |-> "CHUNK", from |-> i, id |-> id, c |-> c, ok |-> TRUE]
Ack(i, id, n) == [type |-> "ACK", from |-> i, id |-> id, n |-> n]
Probe(gen, replied) ==
    [type |-> "PROBE", from |-> 0, gen |-> gen, replied |-> replied]
Reply(i, gen, match) ==
    [type |-> "REPLY", from |-> i, gen |-> gen, match |-> match]
Done(gen) == [type |-> "DONE", from |-> 0, gen |-> gen]

Send(msgs) == net' = net \cup msgs

AllReplied(p) == p.expect \subseteq p.reply
AllMatched(p) == AllReplied(p) /\ p.expect \subseteq p.match
Missed(p) == p.active /\ p.sender /\ AllReplied(p) /\ ~AllMatched(p)

StateInit ==
    /\ tx = [i \in Seats |-> NoTx]
    /\ rx = [i \in Seats |-> [j \in Seats |-> NoRx]]
    /\ received = [i \in Seats |-> [j \in Seats |-> NoReceipt]]
    /\ taken = [i \in Seats |-> None]
    /\ stall = [i \in Seats |-> FALSE]
    /\ serial = [i \in Seats |-> 0]
    /\ probe = [i \in Seats |-> NoProbe]
    /\ released = NoGen
    /\ net = {}
    /\ calls \in Scenarios
    /\ applied = [i \in Seats |-> [j \in Seats |-> <<>>]]
    /\ answered = {}
    /\ gaveUp = FALSE
    /\ damaged = {}
-----------------------------------------------------------------------------
(* The sender. *)

\* Lowest acknowledgement of the receivers still expected.
MinAck(t) == Min({Chunks} \cup {t.ack[r] : r \in t.expect})

\* state_tx_mark_ready_if_complete
MarkReady(t) == [t EXCEPT !.ready = @ \/ (t.active /\ MinAck(t) = Chunks)]

\* The congestion window is never below one chunk: from the watermark the
\* pump sends at least one, beyond it perhaps none.
Paced(t, from, to) == to \in from .. Chunks /\ (to = from => from > MinAck(t))

ChunksOf(i, id, from, to) == {Chunk(i, id, c) : c \in from + 1 .. to}

StateBegin(i, op, to) ==
    /\ calls.begins[i] > 0 /\ op \in (IF i = 0 THEN HostOps ELSE {"MEMCARD"})
    /\ i = 0 /\ calls.probeFirst => Missed(probe[0])
    /\ ~AnyActive(i)
    /\ Receivers(op) # {}
    /\ LET id == XferId(i, serial[i] + 1)
           t == [NoTx EXCEPT !.active = TRUE, !.op = op, !.id = id,
                             !.expect = Receivers(op), !.cursor = to]
       IN  /\ Paced(t, 0, to)
           /\ tx' = [tx EXCEPT ![i] = t]
           /\ Send({Begin(i, op, id)} \cup ChunksOf(i, id, 0, to))
    /\ taken' = [taken EXCEPT ![i] = IF @ = Own THEN None ELSE @]
    /\ probe' = [probe EXCEPT ![i] = NoProbe]
    /\ stall' = [stall EXCEPT ![i] = TRUE]
    /\ serial' = [serial EXCEPT ![i] = @ + 1]
    /\ calls' = [calls EXCEPT !.begins[i] = @ - 1]
    /\ UNCHANGED <<rx, received, released, applied, answered, gaveUp, damaged>>

\* One pump: the receivers in late have not advanced for the time-out and
\* take the cursor back to their watermark; BEGIN is repeated (again) while
\* some receiver has acknowledged nothing.
DriveSender(i, late, again, to) ==
    LET t == tx[i]
        waiting == {r \in t.expect : t.ack[r] < Chunks}
        back == Min({t.cursor} \cup {t.ack[r] : r \in late})
        from == Max({back, MinAck(t)})
    IN  /\ t.active /\ ~t.ready
        /\ late \subseteq waiting
        /\ again => \E r \in t.expect : t.ack[r] = 0
        /\ Paced(t, from, to)
        /\ tx' = [tx EXCEPT ![i].cursor = to]
        /\ Send(ChunksOf(i, t.id, from, to) \cup
                (IF again THEN {Begin(i, t.op, t.id)} ELSE {}))
        /\ UNCHANGED <<rx, received, taken, stall, serial, probe, released,
                       calls, applied, answered, gaveUp, damaged>>

\* Mutant: an ACK counts whatever transfer it names.
OnAckOfAny(i, m) ==
    /\ m.type = "ACK" /\ m.from # i
    /\ tx[i].active /\ m.from \in tx[i].expect
    /\ tx' = [tx EXCEPT ![i] = MarkReady([@ EXCEPT !.ack[m.from] = Max({@, m.n})])]
    /\ UNCHANGED <<rx, received, taken, stall, serial, probe, released, net,
                   calls, applied, answered, gaveUp, damaged>>

\* Only an expected receiver counts, and its acknowledgement never falls.
OnAck(i, m) ==
    LET t == tx[i]
    IN  /\ m.type = "ACK" /\ m.from # i
        /\ t.active /\ m.id = t.id /\ m.from \in t.expect
        /\ tx' = [tx EXCEPT ![i] =
                     MarkReady([t EXCEPT !.ack[m.from] = Max({@, m.n})])]
        /\ UNCHANGED <<rx, received, taken, stall, serial, probe, released, net,
                       calls, applied, answered, gaveUp, damaged>>

DropPeer(i, r) ==
    LET t == tx[i]
        p == probe[i]
    IN  /\ calls.drops > 0 /\ r # i
        /\ \/ t.active /\ r \in t.expect
           \/ p.active /\ p.sender /\ r \in p.expect
        /\ tx' = [tx EXCEPT ![i] = IF t.active /\ r \in t.expect
                                   THEN MarkReady([t EXCEPT !.expect = @ \ {r}])
                                   ELSE t]
        /\ probe' = [probe EXCEPT ![i].expect =
                        IF p.active /\ p.sender THEN @ \ {r} ELSE @]
        /\ calls' = [calls EXCEPT !.drops = @ - 1]
        /\ gaveUp' = TRUE
        /\ UNCHANGED <<rx, received, taken, stall, serial, released, net,
                       applied, answered, damaged>>
-----------------------------------------------------------------------------
(* The receiver. *)

Prefix(got) == Max({n \in 0 .. Chunks : 1 .. n \subseteq got})

\* Who opens a receive for a BEGIN.
Addressed(i, m) ==
    /\ m.from # i /\ i \in calls.guests \cup {0}
    /\ IF m.op = "MEMCARD" THEN i = 0 /\ m.from # 0 ELSE i # 0

\* A BEGIN of the transfer this seat already knows is only acknowledged.
OnBeginAgain(i, m) ==
    LET known == received[i][m.from]
        r == rx[i][m.from]
    IN  /\ m.type = "BEGIN" /\ Addressed(i, m) /\ known.id = m.id
        /\ \/ known.fin /\ Send({Ack(i, m.id, Chunks)})
           \/ ~known.fin /\ r.active /\ r.id = m.id /\ Send({Ack(i, m.id, r.cont)})
        /\ UNCHANGED <<tx, rx, received, taken, stall, serial, probe, released,
                       calls, applied, answered, gaveUp, damaged>>

\* Mutant: any other transfer of the source is taken for a newer one.
NewerOrOlder(i, m) == m.id # received[i][m.from].id

Newer(i, m) == m.id.serial > received[i][m.from].id.serial

\* A newer one replaces the source's receive, the probe it answers and this
\* seat's own transfer when the source is its only receiver.
OnBegin(i, m) ==
    LET src == m.from
        supersedes == tx[i].active /\ tx[i].expect = {src}
        answers == probe[i].active /\ (~probe[i].sender \/ probe[i].expect = {src})
    IN  /\ m.type = "BEGIN" /\ Addressed(i, m) /\ Newer(i, m)
        /\ probe' = IF answers THEN [probe EXCEPT ![i] = NoProbe] ELSE probe
        /\ tx' = IF supersedes THEN [tx EXCEPT ![i] = NoTx] ELSE tx
        /\ taken' = [taken EXCEPT ![i] =
                        IF @ = src \/ (supersedes /\ @ = Own) THEN None ELSE @]
        /\ rx' = [rx EXCEPT ![i][src] =
                     [NoRx EXCEPT !.active = TRUE, !.op = m.op, !.id = m.id]]
        /\ received' = [received EXCEPT ![i][src] =
                           [id |-> m.id, op |-> m.op, fin |-> FALSE]]
        /\ stall' = [stall EXCEPT ![i] = TRUE]
        /\ Send({Ack(i, m.id, 0)})
        /\ UNCHANGED <<serial, released, calls, applied, answered, gaveUp, damaged>>

\* Mutant: a chunk of a finished transfer is ignored.
OnChunkIgnored(i, m) == m.type = "CHUNK" /\ m.from # i /\ UNCHANGED stateVars

\* A chunk of a finished transfer: the sender missed the last ACK.
OnChunkAgain(i, m) ==
    LET r == rx[i][m.from]
    IN  /\ m.type = "CHUNK" /\ m.from # i
        /\ ~(r.active /\ r.id = m.id)
        /\ received[i][m.from].fin /\ received[i][m.from].id = m.id
        /\ Send({Ack(i, m.id, Chunks)})
        /\ UNCHANGED <<tx, rx, received, taken, stall, serial, probe, released,
                       calls, applied, answered, gaveUp, damaged>>

\* The chunk is stored and acknowledged, then a complete blob is checked: a
\* wrong checksum takes the watermark back to 0 and keeps the chunk bits.
OnChunk(i, m) ==
    LET src == m.from
        r == rx[i][src]
        got == r.got \cup {m.c}
        bad == IF m.ok THEN r.bad \ {m.c} ELSE r.bad \cup {m.c}
        cont == Prefix(got)
        fails == cont = Chunks /\ ~r.ready /\ bad # {}
    IN  /\ m.type = "CHUNK" /\ src # i /\ r.active /\ r.id = m.id
        /\ rx' = [rx EXCEPT ![i][src] =
                     [r EXCEPT !.got = got, !.bad = bad,
                               !.cont = IF fails THEN 0 ELSE cont,
                               !.ready = @ \/ (cont = Chunks /\ bad = {})]]
        /\ Send({Ack(i, m.id, cont)} \cup (IF fails THEN {Ack(i, m.id, 0)} ELSE {}))
        /\ UNCHANGED <<tx, received, taken, stall, serial, probe, released,
                       calls, applied, answered, gaveUp, damaged>>
-----------------------------------------------------------------------------
(* The application takes a complete transfer and finishes it. *)

ReadyIn(i) == {j \in Seats : rx[i][j].active /\ rx[i][j].ready}

\* state_pick_ready: the outbound transfer, else the lowest source.
PickReady(i) ==
    IF tx[i].active /\ tx[i].ready THEN Own
    ELSE IF ReadyIn(i) # {} THEN Min(ReadyIn(i)) ELSE None

TakeReady(i) ==
    /\ PickReady(i) # None
    /\ taken' = [taken EXCEPT ![i] = PickReady(i)]
    /\ UNCHANGED <<tx, rx, received, stall, serial, probe, released, net,
                   calls, applied, answered, gaveUp, damaged>>

\* Mutant: the stall ends with the transfer that is closed.
StallOfOwn(t, rxs, p) == t.active \/ p.active

\* state_recompute_stall
Stalled(t, rxs, p) == t.active \/ (\E j \in Seats : rxs[j].active) \/ p.active

\* state_tx_clear, state_finish_rx of a set of transfers, and the stall anew.
Close(i, own, sources) ==
    LET fin == sources \cap ReadyIn(i)
        rxs == [j \in Seats |-> IF j \in sources THEN NoRx ELSE rx[i][j]]
        t == IF own THEN NoTx ELSE tx[i]
    IN  /\ tx' = [tx EXCEPT ![i] = t]
        /\ rx' = [rx EXCEPT ![i] = rxs]
        /\ received' = [received EXCEPT ![i] =
               [j \in Seats |-> IF j \in fin THEN [@[j] EXCEPT !.fin = TRUE] ELSE @[j]]]
        /\ stall' = [stall EXCEPT ![i] = Stalled(t, rxs, probe[i])]
        /\ applied' = [applied EXCEPT ![i] =
               [j \in Seats |-> IF j \in fin THEN Append(@[j], rx[i][j].id.serial) ELSE @[j]]]
        /\ UNCHANGED <<serial, probe, released, net, answered, damaged>>

\* The transfer the last take_ready reported, else the one it would report.
FinishTarget(i) ==
    IF (taken[i] = Own /\ tx[i].active) \/ (taken[i] \in Seats /\ rx[i][taken[i]].active)
    THEN taken[i] ELSE PickReady(i)

StateFinish(i) ==
    /\ FinishTarget(i) # None
    /\ Close(i, FinishTarget(i) = Own, {FinishTarget(i)} \cap Seats)
    /\ taken' = [taken EXCEPT ![i] = None]
    /\ UNCHANGED <<calls, gaveUp>>

\* finish_from of one transfer, or of all of them, ready or not.
StateAbort(i, own, sources) ==
    /\ calls.aborts > 0 /\ AnyActive(i)
    /\ <<own, sources>> \in {<<TRUE, Seats>>, <<TRUE, {}>>} \cup {<<FALSE, {j}>> : j \in Seats}
    /\ Close(i, own, sources)
    /\ taken' = [taken EXCEPT ![i] =
                    IF @ \in sources \/ (own /\ @ = Own) THEN None ELSE @]
    /\ calls' = [calls EXCEPT !.aborts = @ - 1]
    /\ gaveUp' = TRUE
-----------------------------------------------------------------------------
(* The probe. *)

\* state_probe_clear; the stall goes with the probe unless a transfer is open.
ClearProbe(i) ==
    /\ probe' = [probe EXCEPT ![i] = NoProbe]
    /\ stall' = [stall EXCEPT ![i] = @ /\ AnyActive(i)]

StateProbe(gen) ==
    /\ calls.probes > 0 /\ gen \in calls.gens
    /\ ~AnyActive(0)
    /\ ~(probe[0].active /\ probe[0].sender /\ ~AllReplied(probe[0]))
    /\ Receivers(gen.op) # {}
    /\ probe' = [probe EXCEPT ![0] =
                    [NoProbe EXCEPT !.active = TRUE, !.sender = TRUE,
                                    !.expect = Receivers(gen.op), !.gen = gen]]
    /\ released' = NoGen
    /\ stall' = [stall EXCEPT ![0] = gen.hash]
    /\ Send({Probe(gen, {})})
    /\ calls' = [calls EXCEPT !.probes = @ - 1]
    /\ UNCHANGED <<tx, rx, received, taken, serial, applied, answered, gaveUp, damaged>>

\* A guest that is parked repeats its reply, the host its probe.
DriveProbe(i) ==
    LET p == probe[i]
    IN  /\ p.active
        /\ \/ ~p.sender /\ p.parked /\ Send({Reply(i, p.gen, TRUE)})
           \/ p.sender /\ ~AllReplied(p) /\ Send({Probe(p.gen, p.reply)})
        /\ UNCHANGED <<tx, rx, received, taken, stall, serial, probe, released,
                       calls, applied, answered, gaveUp, damaged>>

Answered(p, gen) == p.active /\ ~p.sender /\ ~p.pending /\ p.gen = gen

OnProbe(i, m) ==
    LET p == probe[i]
    IN  /\ m.type = "PROBE" /\ i # 0 /\ i \in calls.guests
        /\ i \notin m.replied /\ ~AnyActive(i)
        /\ \/ /\ Answered(p, m.gen)
              /\ Send({Reply(i, p.gen, p.answer)})
              /\ UNCHANGED <<probe, stall>>
           \/ /\ ~Answered(p, m.gen)
              /\ probe' = [probe EXCEPT ![i] =
                              [NoProbe EXCEPT !.active = TRUE, !.pending = TRUE,
                                              !.gen = m.gen, !.parked = p.parked]]
              /\ stall' = [stall EXCEPT ![i] = m.gen.hash]
              /\ UNCHANGED net
        /\ UNCHANGED <<tx, rx, received, taken, serial, released, calls,
                       applied, answered, gaveUp, damaged>>

\* LOAD and BOOT let the guest go at once; a hash match of the others parks.
ProbeReply(i, match) ==
    LET p == probe[i]
        leaves == p.gen.op \in {"LOAD", "BOOT"} /\ (match \/ ~p.gen.hash)
    IN  /\ p.active /\ ~p.sender /\ p.pending
        /\ Send({Reply(i, p.gen, match)})
        /\ IF leaves
           THEN ClearProbe(i)
           ELSE /\ probe' = [probe EXCEPT ![i] =
                       [p EXCEPT !.pending = FALSE, !.answer = match,
                                 !.parked = @ \/ (match /\ p.gen.hash)]]
                /\ stall' = [stall EXCEPT ![i] = @ /\ p.gen.hash]
        /\ answered' = IF match THEN answered \cup {<<i, p.gen>>} ELSE answered
        /\ UNCHANGED <<tx, rx, received, taken, serial, released, calls,
                       applied, gaveUp, damaged>>

\* Mutant: once the probe is closed a repeated match is not answered.
OnReplyWhileOpen(m) ==
    LET p == probe[0]
    IN  /\ m.type = "REPLY" /\ p.active /\ p.sender /\ m.gen = p.gen /\ m.from \in p.expect
        /\ probe' = [probe EXCEPT ![0] =
               [p EXCEPT !.reply = @ \cup {m.from},
                         !.match = IF m.match THEN @ \cup {m.from} ELSE @ \ {m.from}]]
        /\ UNCHANGED <<tx, rx, received, taken, stall, serial, released, net, calls,
                       applied, answered, gaveUp, damaged>>

\* The latest answer of an expected seat to this very probe counts; once the
\* probe is closed a parked guest's repeated match is answered with DONE.
OnReply(m) ==
    LET p == probe[0]
    IN  /\ m.type = "REPLY"
        /\ \/ /\ ~(p.active /\ p.sender)
              /\ m.match /\ m.gen = released
              /\ Send({Done(released)})
              /\ UNCHANGED probe
           \/ /\ p.active /\ p.sender
              /\ m.gen = p.gen /\ m.from \in p.expect
              /\ probe' = [probe EXCEPT ![0] =
                     [p EXCEPT !.reply = @ \cup {m.from},
                               !.match = IF m.match THEN @ \cup {m.from} ELSE @ \ {m.from}]]
              /\ UNCHANGED net
        /\ UNCHANGED <<tx, rx, received, taken, stall, serial, released, calls,
                       applied, answered, gaveUp, damaged>>

OnDone(i, m) ==
    LET p == probe[i]
    IN  /\ m.type = "DONE" /\ i # 0
        /\ p.active /\ ~p.sender /\ p.parked /\ p.gen = m.gen
        /\ ClearProbe(i)
        /\ UNCHANGED <<tx, rx, received, taken, serial, released, net, calls,
                       applied, answered, gaveUp, damaged>>

\* The host closes its probe; DONE goes out when every seat matched a hash.
ProbeFinish ==
    LET p == probe[0]
        releases == p.sender /\ p.gen.hash /\ AllMatched(p)
    IN  /\ p.active
        /\ calls.aborts > 0 \/ AllMatched(p)
        /\ ClearProbe(0)
        /\ Send(IF releases THEN {Done(p.gen)} ELSE {})
        /\ released' = IF releases THEN p.gen ELSE released
        /\ gaveUp' = (gaveUp \/ ~AllMatched(p))
        /\ calls' = IF AllMatched(p) THEN calls ELSE [calls EXCEPT !.aborts = @ - 1]
        /\ UNCHANGED <<tx, rx, received, taken, serial, applied, answered, damaged>>
-----------------------------------------------------------------------------
(* The network. *)
Lose(m) ==
    /\ calls.losses > 0
    /\ net' = net \ {m}
    /\ calls' = [calls EXCEPT !.losses = @ - 1]
    /\ UNCHANGED <<tx, rx, received, taken, stall, serial, probe, released,
                   applied, answered, gaveUp, damaged>>

Damage(m) ==
    /\ calls.damage > 0 /\ m.type = "CHUNK" /\ m.ok
    /\ Send({[m EXCEPT !.ok = FALSE]})
    /\ calls' = [calls EXCEPT !.damage = @ - 1]
    /\ damaged' = damaged \cup {m.id}
    /\ UNCHANGED <<tx, rx, received, taken, stall, serial, probe, released,
                   applied, answered, gaveUp>>

Receive(i, m) ==
    \/ OnBegin(i, m) \/ OnBeginAgain(i, m)
    \/ OnChunk(i, m) \/ OnChunkAgain(i, m)
    \/ OnAck(i, m)
    \/ OnProbe(i, m) \/ OnDone(i, m)
    \/ i = 0 /\ OnReply(m)

StateNext ==
    \/ \E i \in Seats, op \in HostOps \cup {"MEMCARD"}, to \in 0 .. MaxChunks : StateBegin(i, op, to)
    \/ \E i \in Seats, late \in SUBSET Seats, again \in BOOLEAN, to \in 0 .. MaxChunks :
           DriveSender(i, late, again, to)
    \/ \E i, r \in Seats : DropPeer(i, r)
    \/ \E i \in Seats : TakeReady(i)
    \/ \E i \in Seats : StateFinish(i)
    \/ \E i \in Seats, own \in BOOLEAN, sources \in SUBSET Seats : StateAbort(i, own, sources)
    \/ \E i \in Seats : DriveProbe(i)
    \/ \E i \in Seats, match \in BOOLEAN : ProbeReply(i, match)
    \/ \E gen \in Gens : StateProbe(gen)
    \/ ProbeFinish
    \/ \E i \in Seats : \E m \in net : Receive(i, m)
    \/ \E m \in net : Lose(m)
    \/ \E m \in net : Damage(m)

\* What somebody still sends: the sender's BEGIN and the chunks past the lowest
\* watermark, the open probe, the reply of a guest that waits.  ACKs and DONE are
\* sent once for each of those.
Resent(m) ==
    LET t == tx[m.from]
    IN  \/ m.type = "BEGIN" /\ t.id = m.id /\ \E r \in t.expect : t.ack[r] = 0
        \/ m.type = "CHUNK" /\ t.id = m.id /\ m.c > MinAck(t)
        \/ m.type = "PROBE" /\ probe[0].gen = m.gen
        \/ m.type = "REPLY" /\ m.gen \in {probe[0].gen, probe[m.from].gen}
        \/ m.type \in {"ACK", "DONE"}

\* Pumps run every frame, so a timer that has run out is acted on; the network
\* loses finitely many datagrams and delivers the others, but a datagram that
\* nobody sends again need not arrive twice.
StateFairness ==
    /\ WF_stateVars(\E i \in Seats, m \in net :
                        m.type \in {"BEGIN", "CHUNK", "ACK"} /\ Resent(m) /\ Receive(i, m))
    /\ \A i \in Seats :
        WF_stateVars(\E m \in net :
                        m.type \in {"PROBE", "REPLY", "DONE"} /\ Resent(m) /\ Receive(i, m))
    /\ \A i, j \in Seats : (i = 0) # (j = 0) =>
        WF_stateVars(\E late \in SUBSET tx[i].expect, again \in BOOLEAN, to \in 0 .. MaxChunks :
                        j \in late /\ DriveSender(i, late, again, to))
    /\ \A i \in Seats :
        WF_stateVars(\E late \in SUBSET tx[i].expect, to \in 0 .. MaxChunks :
                        DriveSender(i, late, TRUE, to))
    /\ WF_stateVars(\E i \in Seats : DriveProbe(i))
    /\ WF_stateVars(\E i \in Seats, match \in BOOLEAN : ProbeReply(i, match))
    /\ WF_stateVars(AllMatched(probe[0]) /\ ProbeFinish)
    /\ WF_stateVars(Missed(probe[0]) /\ \E op \in HostOps, to \in 0 .. MaxChunks : StateBegin(0, op, to))

StateSpec == StateInit /\ [][StateNext]_stateVars
StateFairSpec == StateSpec /\ StateFairness
-----------------------------------------------------------------------------
(* Properties. *)

\* A sender that reports its transfer complete (tx.ready, state_take_ready on
\* the host) has at every seat it still expects a receiver that stored the whole
\* of this very transfer: no other seat's ACK, no ACK of another transfer stands
\* in for it.  The copy has passed its check, or one of its chunks came damaged:
\* state_on_chunk acknowledges the last byte before the checksum is compared
\* (2064-2069), and the ACK 0 of a failed one is ignored (2098), so the report
\* covers that copy too, as long as it lies there or once it was given up.
Unchecked(r, i, id) ==
    /\ id \in damaged
    /\ rx[r][i].active => rx[r][i].id = id /\ 1 .. Chunks \subseteq rx[r][i].got
Holds(r, i, id) ==
    /\ received[r][i].id = id
    /\ \/ received[r][i].fin
       \/ rx[r][i].id = id /\ rx[r][i].ready
       \/ Unchecked(r, i, id)
SentMeansReceived ==
    \A i \in Seats : tx[i].ready => \A r \in tx[i].expect : Holds(r, i, tx[i].id)

\* A receiver applies the transfers of a source in order and none twice,
\* although BEGINs of old transfers arrive late or again (state_received).
AppliedOnce ==
    \A i, j \in Seats : \A k, l \in DOMAIN applied[i][j] :
        k < l => applied[i][j][k] < applied[i][j][l]

\* Admission is stalled as long as a transfer is open, and not once neither a
\* transfer nor a probe is (state_stall_sim is kept by hand in nine places).
StallMatches ==
    \A i \in Seats :
        /\ AnyActive(i) => stall[i]
        /\ stall[i] => AnyActive(i) \/ probe[i].active

\* A match the host holds for its probe is one that seat's application gave
\* for that very announcement, not an answer to an earlier one.
MatchMeansAnswered ==
    probe[0].sender => \A i \in probe[0].match : <<i, probe[0].gen>> \in answered

\* A transfer ends although BEGIN, chunks and the last ACK are lost or arrive
\* out of order, unless an application gives up or a blob is damaged.
TransferEnds ==
    \A i \in Seats : (tx[i].active /\ ~tx[i].ready) ~>
                      (~tx[i].active \/ tx[i].ready \/ gaveUp \/ damaged # {})

\* A guest parked on the probe the host has open, or has closed last, goes on
\* although DONE is lost: it repeats its reply and the host repeats DONE.  (A
\* guest that parks on a copy of a probe the host left for a transfer does not.)
ParkedReleased ==
    \A i \in Seats \ {0} :
        (probe[i].parked /\ probe[i].gen \in {probe[0].gen, released}) ~>
            (~probe[i].parked \/ gaveUp \/ damaged # {})
=============================================================================
