------------------------- MODULE StateSyncInvariant ------------------------
(***************************************************************************)
(* The inductive invariant of save-state transfers: what keeps the stall   *)
(* flag right under every step, and what a transfer keeps while it is      *)
(* announced and sent.                                                     *)
(***************************************************************************)
EXTENDS StateSync, WellFoundedInduction, TLAPS

Ops == HostOps \cup {"MEMCARD", "NONE"}
Ids == [seat : Seats, serial : Nat]
TxRec ==
    [active : BOOLEAN, ready : BOOLEAN, op : Ops, id : Ids, expect : SUBSET Seats,
     ack : [Seats -> Nat], cursor : Nat]
RxRec ==
    [active : BOOLEAN, ready : BOOLEAN, op : Ops, id : Ids, got : SUBSET Int,
     bad : SUBSET Int, cont : Nat]
Receipt == [id : Ids, op : Ops, fin : BOOLEAN]
CallRec ==
    [guests : SUBSET (Seats \ {0}), begins : [Seats -> Nat], chunks : Nat \ {0},
     probes : Nat, gens : SUBSET Gens, probeFirst : BOOLEAN, drops : Nat,
     aborts : Nat, damage : Nat, losses : Nat]

(* The datagrams of a transfer; a BEGIN and a chunk name their sender in   *)
(* the transfer's id.                                                      *)
TransferMsg(m) ==
    /\ m.type = "BEGIN" =>
         m \in [type : {"BEGIN"}, from : Seats, op : Ops, id : Ids] /\ m.id.seat = m.from
    /\ m.type = "CHUNK" =>
         /\ m \in [type : {"CHUNK"}, from : Seats, id : Ids, c : Int, ok : BOOLEAN]
         /\ m.id.seat = m.from
    /\ m.type = "ACK" => m \in [type : {"ACK"}, from : Seats, id : Ids, n : Nat]

(* The types of what a transfer is made of. *)
TransferTypes ==
    /\ tx \in [Seats -> TxRec]
    /\ rx \in [Seats -> [Seats -> RxRec]]
    /\ received \in [Seats -> [Seats -> Receipt]]
    /\ serial \in [Seats -> Nat]
    /\ calls \in CallRec
    /\ applied \in [Seats -> [Seats -> Seq(Nat)]]
    /\ \A m \in net : TransferMsg(m)

(* A probe has these fields, whatever they hold. *)
IsProbe(p) ==
    p = [active |-> p.active, sender |-> p.sender, expect |-> p.expect, reply |-> p.reply,
         match |-> p.match, pending |-> p.pending, answer |-> p.answer, gen |-> p.gen,
         parked |-> p.parked]

(* Why the stall is right: a guest that waits for the host's probe has no  *)
(* transfer open, so the answer to a probe never ends a transfer's stall.  *)
StallInv ==
    /\ stall = [i \in Seats |-> stall[i]] /\ probe = [i \in Seats |-> probe[i]]
    /\ \A i \in Seats : IsProbe(probe[i])
    /\ \A i \in Seats : probe[i].active /\ ~probe[i].sender => ~AnyActive(i)
    /\ StallMatches

(* The receiver r has, or had before a newer one, all of what seat i sent  *)
(* as id.                                                                  *)
Got(r, i, id) == received[r][i].id.serial > id.serial \/ Holds(r, i, id)

(* The sender's transfer is its latest, and what it counts as received in  *)
(* full was.                                                               *)
SenderOK(i) ==
    LET t == tx[i]
    IN  /\ t.ready => t.active /\ \A r \in t.expect : t.ack[r] >= Chunks
        /\ t.active => /\ t.id = XferId(i, serial[i])
                       /\ \A r \in t.expect :
                            t.ack[r] >= Chunks => Got(r, i, t.id)

(* An open receive is of the latest transfer heard from the source, whose  *)
(* watermark is at the end only when the blob was found intact.            *)
ReceiverOK(i, j) ==
    LET r == rx[i][j]
        known == received[i][j]
    IN  /\ known.id.serial <= serial[j]
        /\ r.ready => r.active
        /\ r.active => r.id = known.id /\ ~known.fin
        /\ r.active /\ r.cont >= Chunks => r.ready
        /\ r.bad # {} => r.id \in damaged
        /\ \A k \in DOMAIN applied[i][j] :
             /\ applied[i][j][k] <= known.id.serial
             /\ ~known.fin => applied[i][j][k] < known.id.serial

(* No datagram in flight says more than its sender did. *)
MsgOK(m) ==
    /\ m.type = "BEGIN" => m.id.serial <= serial[m.from]
    /\ m.type = "CHUNK" /\ ~m.ok => m.id \in damaged
    /\ m.type = "ACK" /\ m.n >= Chunks => Got(m.from, m.id.seat, m.id)

TransferInv ==
    /\ TransferTypes
    /\ \A i \in Seats : SenderOK(i)
    /\ \A i, j \in Seats : ReceiverOK(i, j)
    /\ \A m \in net : MsgOK(m)
    /\ AppliedOnce

-----------------------------------------------------------------------------
(* Operators. *)

(* The larger of a pair of numbers. *)
LEMMA LargerOfPair ==
    ASSUME NEW a \in Nat, NEW b \in Nat
    PROVE  Max({a, b}) \in {a, b} /\ Max({a, b}) >= a /\ Max({a, b}) >= b
<1>1. \E x \in {a, b} : \A y \in {a, b} : x >= y
  OBVIOUS
<1>2. QED
  BY <1>1 DEF Max

(* The longest prefix of chunks a receiver holds is a length of the blob,  *)
(* and the receiver holds it.                                              *)
LEMMA PrefixBounds ==
    ASSUME NEW got, Chunks \in Nat
    PROVE  Prefix(got) \in 0 .. Chunks /\ 1 .. Prefix(got) \subseteq got
<1> DEFINE S == {n \in 0 .. Chunks : 1 .. n \subseteq got}
           T == {n \in Nat : Chunks - n \in S}
<1>1. 0 \in S
  OBVIOUS
<1>2. Chunks \in T /\ T \subseteq Nat
  BY <1>1
<1>3. PICK n \in T : \A k \in T : ~(<<k, n>> \in OpToRel(<, Nat))
  BY <1>2, NatLessThanWellFounded, WFMin, Zenon
<1>4. \A k \in T : ~(k < n)
  BY <1>2, <1>3, Zenon DEF OpToRel
<1>5. ASSUME NEW c \in S
      PROVE  c <= Chunks - n
  <2>1. c \in 0 .. Chunks /\ Chunks - (Chunks - c) = c /\ Chunks - c \in Nat
    OBVIOUS
  <2>2. Chunks - c \in T
    BY <2>1
  <2>3. QED
    BY <1>2, <1>4, <2>1, <2>2
<1>6. \E x \in S : \A y \in S : x >= y
  BY <1>5, Zenon
<1>7. Max(S) \in S
  BY <1>6, Zenon DEF Max
<1>8. Prefix(got) = Max(S)
  BY Zenon DEF Prefix
<1>9. QED
  BY <1>7, <1>8, Zenon

(* The least of a set of numbers. *)
LEMMA LeastOf ==
    ASSUME NEW S, S \subseteq Nat, S # {}
    PROVE  Min(S) \in S /\ \A y \in S : Min(S) <= y
<1>1. PICK n \in S : \A k \in S : ~(<<k, n>> \in OpToRel(<, Nat))
  BY NatLessThanWellFounded, WFMin, Zenon
<1>2. \A k \in S : ~(k < n)
  BY <1>1, Zenon DEF OpToRel
<1>3. \E x \in S : \A y \in S : x <= y
  BY <1>2
<1>4. QED
  BY <1>3, Zenon DEF Min

(* The lowest acknowledgement is a number that none is below. *)
LEMMA MinAckLeast ==
    ASSUME Chunks \in Nat, NEW t \in TxRec
    PROVE  MinAck(t) \in Nat /\ \A r \in t.expect : t.ack[r] >= MinAck(t)
<1> DEFINE S == {Chunks} \cup {t.ack[k] : k \in t.expect}
<1>1. S \subseteq Nat /\ S # {} /\ \A r \in t.expect : t.ack[r] \in S
  BY DEF TxRec
<1>2. Min(S) \in S /\ \A y \in S : Min(S) <= y
  BY <1>1, LeastOf, Zenon
<1>3. MinAck(t) = Min(S)
  BY Zenon DEF MinAck
<1>4. QED
  BY <1>1, <1>2, <1>3, Zenon

-----------------------------------------------------------------------------
(* The stall. *)

(* Nothing the stall depends on changes. *)
LEMMA StallStutter ==
    ASSUME StallInv, UNCHANGED <<stall, probe>>,
           \A i \in Seats : AnyActive(i)' = AnyActive(i)
    PROVE  StallInv'
BY DEF StallInv, StallMatches

(* Opening a transfer stalls the seat and leaves no probe to answer. *)
LEMMA StallOpen ==
    ASSUME StallInv, NEW i \in Seats,
           stall' = [stall EXCEPT ![i] = TRUE],
           probe' = [k \in Seats |-> probe'[k]], \A k \in Seats : IsProbe(probe'[k]),
           \A k \in Seats \ {i} : probe'[k] = probe[k],
           \A k \in Seats \ {i} : AnyActive(k)' = AnyActive(k),
           AnyActive(i)',
           probe'[i].active => probe'[i].sender
    PROVE  StallInv'
BY Zenon DEF StallInv, StallMatches

(* With no transfer opened, a seat whose stall is set anew is stalled      *)
(* while a transfer is open, and only for that or a probe.                 *)
LEMMA StallSet ==
    ASSUME StallInv, NEW i \in Seats, NEW b, NEW p,
           stall' = [stall EXCEPT ![i] = b], probe' = [probe EXCEPT ![i] = p], IsProbe(p),
           \A k \in Seats \ {i} : AnyActive(k)' = AnyActive(k),
           p.active /\ ~p.sender => ~AnyActive(i)',
           AnyActive(i)' => b,
           b => AnyActive(i)' \/ p.active
    PROVE  StallInv'
BY Zenon DEF StallInv, StallMatches

(* Marking a transfer complete changes nothing else of it. *)
LEMMA MarkReadyFields ==
    ASSUME NEW t \in TxRec
    PROVE  LET u == MarkReady(t) IN
           /\ u \in TxRec /\ u.active = t.active /\ u.id = t.id
           /\ u.expect = t.expect /\ u.ack = t.ack
           /\ u.ready = (t.ready \/ (t.active /\ MinAck(t) = Chunks))
<1>1. PICK b : b = (t.ready \/ (t.active /\ MinAck(t) = Chunks))
  BY Zenon
<1>2. MarkReady(t) = [t EXCEPT !.ready = b] /\ b \in BOOLEAN
  BY <1>1, Zenon DEF MarkReady
<1>3. QED
  BY <1>1, <1>2 DEF TxRec

(* Who has a transfer open depends on the active flags alone. *)
LEMMA SameActive ==
    ASSUME NEW k \in Seats, tx'[k].active = tx[k].active,
           \A j \in Seats : rx'[k][j].active = rx[k][j].active
    PROVE  AnyActive(k)' = AnyActive(k)
BY Zenon DEF AnyActive

(* state_begin *)
LEMMA StallBegin ==
    ASSUME TransferTypes, StallInv, NEW i \in Seats, NEW op, NEW to, StateBegin(i, op, to)
    PROVE  StallInv'
<1>1. PICK t : t.active /\ tx' = [tx EXCEPT ![i] = t]
  <2>1. [NoTx EXCEPT !.active = TRUE, !.op = op, !.id = XferId(i, serial[i] + 1),
                     !.expect = Receivers(op), !.cursor = to].active
    BY DEF NoTx
  <2>2. QED
    BY <2>1, Zenon DEF StateBegin
<1>2. /\ rx' = rx /\ stall' = [stall EXCEPT ![i] = TRUE]
      /\ probe' = [probe EXCEPT ![i] = NoProbe]
  BY DEF StateBegin
<1>3. AnyActive(i)'
  BY <1>1 DEF AnyActive, TransferTypes
<1>4. \A k \in Seats \ {i} : AnyActive(k)' = AnyActive(k)
  BY <1>1, <1>2, SameActive DEF TransferTypes
<1>5. IsProbe(NoProbe) /\ ~NoProbe.active
  BY DEF IsProbe, NoProbe
<1>6. QED
  BY <1>2, <1>3, <1>4, <1>5, StallOpen, Zenon DEF StallInv

(* A datagram opens a receive. *)
LEMMA StallOnBegin ==
    ASSUME TransferTypes, StallInv, NEW i \in Seats, NEW m \in net, OnBegin(i, m)
    PROVE  StallInv'
<1> DEFINE src == m.from
           answers == probe[i].active /\ (~probe[i].sender \/ probe[i].expect = {src})
<1>0. src \in Seats
  BY DEF OnBegin, TransferTypes, TransferMsg
<1>1. PICK r : r.active /\ rx' = [rx EXCEPT ![i][src] = r]
  <2>1. [NoRx EXCEPT !.active = TRUE, !.op = m.op, !.id = m.id].active
    BY DEF NoRx
  <2>2. QED
    BY <2>1, Zenon DEF OnBegin
<1>2. AnyActive(i)'
  BY <1>0, <1>1, Zenon DEF AnyActive, TransferTypes
<1>3. ASSUME NEW k \in Seats \ {i}
      PROVE  AnyActive(k)' = AnyActive(k)
  <2>1. tx'[k] = tx[k]
    BY DEF OnBegin, TransferTypes
  <2>2. rx'[k] = rx[k]
    BY <1>0, <1>1 DEF TransferTypes
  <2>3. QED
    BY <2>1, <2>2, SameActive
<1>4. probe' = IF answers THEN [probe EXCEPT ![i] = NoProbe] ELSE probe
  BY DEF OnBegin
<1>5. IsProbe(NoProbe) /\ ~NoProbe.active
  BY DEF IsProbe, NoProbe
<1>6. /\ probe' = [k \in Seats |-> probe'[k]] /\ \A k \in Seats : IsProbe(probe'[k])
      /\ \A k \in Seats \ {i} : probe'[k] = probe[k]
      /\ probe'[i].active => probe'[i].sender
  BY <1>4, <1>5 DEF StallInv
<1>7. QED
  BY <1>2, <1>3, <1>6, StallOpen, Zenon DEF OnBegin

(* What only drives a transfer on leaves who has one open. *)
LEMMA StallTransfer ==
    ASSUME TransferTypes, StallInv, NEW i \in Seats,
           \/ \E late, again, to : DriveSender(i, late, again, to)
           \/ TakeReady(i) \/ DriveProbe(i)
           \/ \E m \in net : OnAck(i, m) \/ OnBeginAgain(i, m) \/ OnChunk(i, m) \/ OnChunkAgain(i, m)
           \/ \E m \in net : Lose(m) \/ Damage(m)
    PROVE  StallInv'
<1>1. UNCHANGED <<stall, probe>>
  BY Zenon DEF DriveSender, TakeReady, DriveProbe, OnAck, OnBeginAgain, OnChunk, OnChunkAgain, Lose, Damage
<1>2. SUFFICES ASSUME NEW k \in Seats
               PROVE  AnyActive(k)' = AnyActive(k)
  BY <1>1, StallStutter
<1>3. CASE \E late, again, to : DriveSender(i, late, again, to)
  <2>1. PICK to : tx' = [tx EXCEPT ![i].cursor = to] /\ rx' = rx
    BY <1>3, Zenon DEF DriveSender
  <2>2. QED
    BY <2>1, SameActive DEF TransferTypes, TxRec
<1>4. CASE \E m \in net : OnAck(i, m)
  <2>1. PICK m \in net : OnAck(i, m)
    BY <1>4
  <2>2. m.from \in Seats /\ m.n \in Nat /\ tx[i] \in TxRec /\ tx[i].ack[m.from] \in Nat
    BY <2>1, Zenon DEF OnAck, TransferTypes, TransferMsg, TxRec
  <2>3. PICK t : t = [tx[i] EXCEPT !.ack[m.from] = Max({@, m.n})]
    BY Zenon
  <2>4. Max({tx[i].ack[m.from], m.n}) \in Nat
    BY <2>2, LargerOfPair, Zenon
  <2>5. t \in TxRec /\ t.active = tx[i].active
    BY <2>2, <2>3, <2>4 DEF TxRec
  <2>6. tx' = [tx EXCEPT ![i] = MarkReady(t)] /\ rx' = rx
    BY <2>1, <2>3, Zenon DEF OnAck
  <2>7. MarkReady(t).active = tx[i].active
    BY <2>5, MarkReadyFields
  <2>8. QED
    BY <2>6, <2>7, SameActive DEF TransferTypes
<1>5. CASE \E m \in net : OnChunk(i, m)
  <2>1. PICK m \in net : OnChunk(i, m)
    BY <1>5
  <2>2. m.from \in Seats /\ rx[i][m.from] \in RxRec
    <3>1. m.type = "CHUNK"
      BY <2>1, Zenon DEF OnChunk
    <3>2. QED
      BY <3>1 DEF TransferTypes, TransferMsg
  <2>3. PICK got, bad, cont, ready :
           rx' = [rx EXCEPT ![i][m.from] =
                     [rx[i][m.from] EXCEPT !.got = got, !.bad = bad, !.cont = cont, !.ready = ready]]
    BY <2>1, ZenonT(30) DEF OnChunk
  <2>4. PICK r : r = [rx[i][m.from] EXCEPT !.got = got, !.bad = bad, !.cont = cont, !.ready = ready]
    BY Zenon
  <2>5. r.active = rx[i][m.from].active
    BY <2>2, <2>4 DEF RxRec
  <2>6. rx' = [rx EXCEPT ![i][m.from] = r] /\ tx' = tx
    BY <2>1, <2>3, <2>4, Zenon DEF OnChunk
  <2>7. QED
    BY <2>2, <2>5, <2>6, SameActive, Zenon DEF TransferTypes
<1>6. CASE UNCHANGED <<tx, rx>>
  BY <1>6, SameActive
<1>7. QED
  BY <1>3, <1>4, <1>5, <1>6, Zenon DEF TakeReady, DriveProbe, OnBeginAgain, OnChunkAgain, Lose, Damage

(* A dropped peer leaves transfers and probes open as they are. *)
LEMMA StallDrop ==
    ASSUME TransferTypes, StallInv, NEW i \in Seats, NEW r \in Seats, DropPeer(i, r)
    PROVE  StallInv'
<1>1. PICK u : u = [tx[i] EXCEPT !.expect = @ \ {r}]
  BY Zenon
<1>2. tx[i] \in TxRec
  BY DEF TransferTypes
<1>3. u \in TxRec /\ u.active = tx[i].active
  BY <1>1, <1>2 DEF TxRec
<1>4. MarkReady(u).active = tx[i].active
  BY <1>3, MarkReadyFields
<1>5. tx' = [tx EXCEPT ![i] = IF tx[i].active /\ r \in tx[i].expect THEN MarkReady(u) ELSE tx[i]] /\ rx' = rx
  BY <1>1, Zenon DEF DropPeer
<1>6. \A k \in Seats : AnyActive(k)' = AnyActive(k)
  BY <1>4, <1>5, SameActive DEF TransferTypes
<1>7. PICK e : probe' = [probe EXCEPT ![i].expect = e] /\ stall' = stall
  BY Zenon DEF DropPeer
<1>8. PICK p : p = [probe[i] EXCEPT !.expect = e]
  BY Zenon
<1>9. IsProbe(p) /\ p.active = probe[i].active /\ p.sender = probe[i].sender
  <2>1. IsProbe(probe[i])
    BY DEF StallInv
  <2>2. QED
    BY <1>8, <2>1 DEF IsProbe
<1>10. probe' = [probe EXCEPT ![i] = p] /\ stall' = [stall EXCEPT ![i] = stall[i]]
  BY <1>7, <1>8 DEF StallInv
<1>11. QED
  BY <1>6, <1>9, <1>10, StallSet, Zenon DEF StallInv, StallMatches

(* Closing transfers computes the stall anew. *)
LEMMA StallClose ==
    ASSUME TransferTypes, StallInv, NEW i \in Seats, NEW own, NEW sources, Close(i, own, sources)
    PROVE  StallInv'
<1> DEFINE rxs == [j \in Seats |-> IF j \in sources THEN NoRx ELSE rx[i][j]]
           t == IF own THEN NoTx ELSE tx[i]
<1>1. /\ tx' = [tx EXCEPT ![i] = t] /\ rx' = [rx EXCEPT ![i] = rxs]
      /\ stall' = [stall EXCEPT ![i] = Stalled(t, rxs, probe[i])] /\ probe' = probe
  BY Zenon DEF Close
<1>2. tx'[i] = t /\ rx'[i] = rxs
  BY <1>1 DEF TransferTypes
<1>3. \A k \in Seats \ {i} : AnyActive(k)' = AnyActive(k)
  BY <1>1, SameActive DEF TransferTypes
<1>4. Stalled(t, rxs, probe[i]) = (AnyActive(i)' \/ probe[i].active)
  BY <1>2, Zenon DEF Stalled, AnyActive
<1>5. AnyActive(i)' => AnyActive(i)
  BY <1>2 DEF AnyActive, NoRx, NoTx
<1> HIDE DEF rxs, t
<1>6. PICK b : b = Stalled(t, rxs, probe[i])
  BY Zenon
<1>7. probe' = [probe EXCEPT ![i] = probe[i]] /\ IsProbe(probe[i])
  BY <1>1 DEF StallInv
<1>8. probe[i].active /\ ~probe[i].sender => ~AnyActive(i)'
  BY <1>5 DEF StallInv
<1>9. stall' = [stall EXCEPT ![i] = b] /\ (AnyActive(i)' => b) /\ (b => AnyActive(i)' \/ probe[i].active)
  BY <1>1, <1>4, <1>6, Zenon
<1>10. QED
  BY <1>3, <1>7, <1>8, <1>9, StallSet, Zenon

(* The probe, and a datagram of it. *)
LEMMA StallProbe ==
    ASSUME TransferTypes, StallInv,
           \/ \E gen \in Gens : StateProbe(gen)
           \/ ProbeFinish
           \/ \E i \in Seats, match \in BOOLEAN : ProbeReply(i, match)
           \/ \E i \in Seats, m \in net : OnProbe(i, m) \/ OnDone(i, m)
           \/ \E m \in net : OnReply(m)
    PROVE  StallInv'
<1>1. UNCHANGED <<tx, rx>>
  BY ZenonT(30) DEF StateProbe, ProbeFinish, ProbeReply, OnProbe, OnDone, OnReply
<1>2. \A k \in Seats : AnyActive(k)' = AnyActive(k)
  BY <1>1, SameActive
<1>3. 0 \in Seats
  BY StateAssumption DEF Seats
<1>4. IsProbe(NoProbe) /\ ~NoProbe.active
  BY Zenon DEF IsProbe, NoProbe
<1>5. ASSUME NEW i \in Seats, ClearProbe(i)
      PROVE  StallInv'
  <2>1. PICK b : b = (stall[i] /\ AnyActive(i))
    BY Zenon
  <2>2. probe' = [probe EXCEPT ![i] = NoProbe] /\ stall' = [stall EXCEPT ![i] = b]
    BY <1>5, <2>1, Zenon DEF ClearProbe
  <2>3. QED
    BY <1>2, <1>4, <2>1, <2>2, StallSet, Zenon DEF StallInv, StallMatches
<1>6. ASSUME NEW gen \in Gens, StateProbe(gen)
      PROVE  StallInv'
  <2>1. PICK p : p = [NoProbe EXCEPT !.active = TRUE, !.sender = TRUE,
                                     !.expect = Receivers(gen.op), !.gen = gen]
    BY Zenon
  <2>2. IsProbe(p) /\ p.active /\ p.sender
    BY <2>1, Zenon DEF IsProbe, NoProbe
  <2>3. /\ probe' = [probe EXCEPT ![0] = p] /\ stall' = [stall EXCEPT ![0] = gen.hash]
        /\ ~AnyActive(0)
    BY <1>6, <2>1, Zenon DEF StateProbe
  <2>4. QED
    BY <1>2, <1>3, <2>2, <2>3, StallSet, Zenon
<1>7. ASSUME NEW i \in Seats, NEW match \in BOOLEAN, ProbeReply(i, match)
      PROVE  StallInv'
  <2>1. CASE ClearProbe(i)
    BY <2>1, <1>5
  <2>2. CASE ~ClearProbe(i)
    <3>1. PICK p, parked, b :
             /\ p = [probe[i] EXCEPT !.pending = FALSE, !.answer = match, !.parked = parked]
             /\ probe' = [probe EXCEPT ![i] = p]
             /\ stall' = [stall EXCEPT ![i] = b] /\ b = (stall[i] /\ probe[i].gen.hash)
      BY <1>7, <2>2, Zenon DEF ProbeReply
    <3>2. IsProbe(p) /\ p.active = probe[i].active /\ p.sender = probe[i].sender
      <4>1. IsProbe(probe[i])
        BY <1>3 DEF StallInv
      <4>2. QED
        BY <3>1, <4>1, Zenon DEF IsProbe
    <3>3. probe[i].active /\ ~probe[i].sender
      BY <1>7, Zenon DEF ProbeReply
    <3>4. ~AnyActive(i)
      BY <3>3 DEF StallInv
    <3>5. QED
      BY <1>2, <3>1, <3>2, <3>3, <3>4, StallSet, Zenon
  <2>3. QED
    BY <2>1, <2>2
<1>8. ASSUME NEW i \in Seats, NEW m \in net, OnProbe(i, m)
      PROVE  StallInv'
  <2>1. CASE UNCHANGED <<probe, stall>>
    BY <2>1, <1>2, StallStutter
  <2>2. CASE ~UNCHANGED <<probe, stall>>
    <3>1. PICK p : /\ p = [NoProbe EXCEPT !.active = TRUE, !.pending = TRUE,
                                          !.gen = m.gen, !.parked = probe[i].parked]
                   /\ probe' = [probe EXCEPT ![i] = p]
                   /\ stall' = [stall EXCEPT ![i] = m.gen.hash]
      BY <1>8, <2>2, Zenon DEF OnProbe
    <3>2. IsProbe(p) /\ p.active
      BY <3>1, Zenon DEF IsProbe, NoProbe
    <3>3. ~AnyActive(i)
      BY <1>8, Zenon DEF OnProbe
    <3>4. QED
      BY <1>2, <3>1, <3>2, <3>3, StallSet, Zenon
  <2>3. QED
    BY <2>1, <2>2
<1>9. ASSUME NEW m \in net, OnReply(m)
      PROVE  StallInv'
  <2>1. CASE UNCHANGED probe
    BY <2>1, <1>2, <1>9, StallStutter, ZenonT(30) DEF OnReply
  <2>2. CASE ~UNCHANGED probe
    <3>1. PICK p, reply, match :
             /\ p = [probe[0] EXCEPT !.reply = reply, !.match = match]
             /\ probe' = [probe EXCEPT ![0] = p] /\ stall' = stall
      BY <1>9, <2>2, Zenon DEF OnReply
    <3>2. IsProbe(p) /\ p.active = probe[0].active /\ p.sender = probe[0].sender
      <4>1. IsProbe(probe[0])
        BY <1>3 DEF StallInv
      <4>2. QED
        BY <3>1, <4>1, Zenon DEF IsProbe
    <3>3. stall' = [stall EXCEPT ![0] = stall[0]]
      BY <1>3, <3>1 DEF StallInv
    <3>4. QED
      BY <1>2, <1>3, <3>1, <3>2, <3>3, StallSet DEF StallInv, StallMatches
  <2>3. QED
    BY <2>1, <2>2, Zenon
<1>10. QED
  BY <1>3, <1>5, <1>6, <1>7, <1>8, <1>9, Zenon DEF ProbeFinish, OnDone

-----------------------------------------------------------------------------
(* Transfers. *)

(* The blob keeps its size, what was received stays received, serials and  *)
(* the record of damage only grow.                                         *)
Kept ==
    /\ calls' \in CallRec /\ calls'.chunks = calls.chunks
    /\ damaged \subseteq damaged'
    /\ serial' \in [Seats -> Nat] /\ \A k \in Seats : serial[k] <= serial'[k]
    /\ \A r, i \in Seats, id \in Ids : Got(r, i, id) => Got(r, i, id)'

(* The functions a transfer's state is made of. *)
LEMMA Functions ==
    ASSUME TransferInv
    PROVE  /\ tx \in [Seats -> TxRec] /\ rx \in [Seats -> [Seats -> RxRec]]
           /\ received \in [Seats -> [Seats -> Receipt]] /\ serial \in [Seats -> Nat]
           /\ applied \in [Seats -> [Seats -> Seq(Nat)]] /\ calls \in CallRec
BY Zenon DEF TransferInv, TransferTypes

(* Serials that stay have not fallen. *)
LEMMA SerialSame ==
    ASSUME TransferInv, serial' = serial
    PROVE  serial' \in [Seats -> Nat] /\ \A k \in Seats : serial[k] <= serial'[k]
<1>1. serial \in [Seats -> Nat]
  BY Functions
<1>2. \A k \in Seats : serial[k] <= serial[k]
  BY <1>1
<1>3. QED
  BY <1>1, <1>2

(* What was applied stays in order. *)
LEMMA AppliedSame ==
    ASSUME TransferInv, applied' = applied
    PROVE  applied' \in [Seats -> [Seats -> Seq(Nat)]] /\ AppliedOnce'
<1>1. applied \in [Seats -> [Seats -> Seq(Nat)]] /\ AppliedOnce
  BY Functions, Zenon DEF TransferInv
<1>2. QED
  BY <1>1 DEF AppliedOnce

(* The types of a transfer's state, by component. *)
LEMMA Types ==
    ASSUME TransferInv
    PROVE  /\ Chunks \in Nat \ {0} /\ calls.guests \subseteq Seats /\ calls \in CallRec
           /\ 0 \in Seats
           /\ \A i \in Seats : tx[i] \in TxRec /\ serial[i] \in Nat
           /\ \A i, j \in Seats : /\ rx[i][j] \in RxRec /\ received[i][j] \in Receipt
                                  /\ applied[i][j] \in Seq(Nat)
<1>1. 0 \in Seats
  BY StateAssumption DEF Seats
<1>2. QED
  BY <1>1, Functions, SMTT(30) DEF Chunks, CallRec

(* The invariant, by sender, receiver and datagram. *)
LEMMA Holding ==
    ASSUME TransferInv
    PROVE  /\ \A i \in Seats : SenderOK(i)
           /\ \A i, j \in Seats : ReceiverOK(i, j)
           /\ \A m \in net : TransferMsg(m) /\ MsgOK(m)
BY Zenon DEF TransferInv, TransferTypes

(* It is enough to look at what a step changes. *)
LEMMA OnlyChanges ==
    ASSUME TransferInv, Kept,
           \A m \in net' : m \in net \/ (TransferMsg(m) /\ MsgOK(m)'),
           tx' \in [Seats -> TxRec], rx' \in [Seats -> [Seats -> RxRec]],
           received' \in [Seats -> [Seats -> Receipt]],
           applied' \in [Seats -> [Seats -> Seq(Nat)]],
           \A k \in Seats : SenderOK(k)' \/ (tx'[k] = tx[k] /\ serial'[k] = serial[k]),
           \A i, j \in Seats : ReceiverOK(i, j)' \/ ( /\ rx'[i][j] = rx[i][j]
                                                      /\ received'[i][j] = received[i][j]
                                                      /\ applied'[i][j] = applied[i][j] ),
           AppliedOnce'
    PROVE  TransferInv'
<1>1. ASSUME NEW m \in net
      PROVE  TransferMsg(m) /\ MsgOK(m)'
  <2>1. TransferMsg(m) /\ MsgOK(m)
    BY Holding
  <2>2. m.type = "BEGIN" => m.id.serial <= serial'[m.from]
    <3>1. SUFFICES ASSUME m.type = "BEGIN" PROVE m.id.serial <= serial'[m.from]
      OBVIOUS
    <3>2. m.from \in Seats /\ m.id.serial \in Nat
      BY <2>1, <3>1, Zenon DEF TransferMsg, Ids
    <3>3. m.id.serial <= serial[m.from] /\ serial[m.from] <= serial'[m.from]
      BY <2>1, <3>1, <3>2, Zenon DEF MsgOK, Kept
    <3>4. serial[m.from] \in Nat /\ serial'[m.from] \in Nat
      BY <3>2, Types, Zenon DEF Kept
    <3>5. QED
      BY <3>2, <3>3, <3>4
  <2>3. m.type = "CHUNK" /\ ~m.ok => m.id \in damaged'
    BY <2>1, Zenon DEF MsgOK, Kept
  <2>4. m.type = "ACK" /\ m.n >= calls'.chunks => Got(m.from, m.id.seat, m.id)'
    <3>1. SUFFICES ASSUME m.type = "ACK", m.n >= calls'.chunks
                   PROVE  Got(m.from, m.id.seat, m.id)'
      BY Zenon
    <3>2. m.from \in Seats /\ m.id \in Ids /\ m.id.seat \in Seats
      BY <2>1, <3>1, Zenon DEF TransferMsg, Ids
    <3>3. m.n >= Chunks
      BY <3>1, Zenon DEF Kept, Chunks
    <3>4. Got(m.from, m.id.seat, m.id)
      BY <2>1, <3>1, <3>3, Zenon DEF MsgOK
    <3>5. QED
      BY <3>2, <3>4, Zenon DEF Kept
  <2>5. QED
    BY <2>1, <2>2, <2>3, <2>4, Zenon DEF MsgOK, Chunks
<1>2. \A m \in net' : TransferMsg(m) /\ MsgOK(m)'
  BY <1>1, Zenon
<1>3. ASSUME NEW k \in Seats
      PROVE  SenderOK(k)'
  <2>1. CASE SenderOK(k)'
    BY <2>1
  <2>2. CASE tx'[k] = tx[k] /\ serial'[k] = serial[k]
    <3>1. PICK id : id = tx[k].id /\ id = tx'[k].id
      BY <2>2, Zenon
    <3>2. SenderOK(k) /\ tx[k].expect \subseteq Seats /\ id \in Ids
      BY <3>1, Types, Holding, Zenon DEF TxRec
    <3>3. calls'.chunks = calls.chunks /\ damaged \subseteq damaged'
      BY Zenon DEF Kept
    <3>4. tx'[k].ready => tx'[k].active /\ \A r \in tx'[k].expect : tx'[k].ack[r] >= calls'.chunks
      BY <2>2, <3>2, <3>3, Zenon DEF SenderOK, Chunks
    <3>5. tx'[k].active => tx'[k].id = XferId(k, serial'[k])
      BY <2>2, <3>2, ZenonT(30) DEF SenderOK
    <3>6. ASSUME tx'[k].active, NEW r \in tx'[k].expect, tx'[k].ack[r] >= calls'.chunks
          PROVE  Got(r, k, id)'
      <4>1. tx[k].active /\ r \in tx[k].expect /\ tx[k].ack[r] >= Chunks
        BY <2>2, <3>3, <3>6 DEF Chunks
      <4>2. Got(r, k, id)
        BY <3>1, <3>2, <4>1, Zenon DEF SenderOK
      <4>3. QED
        BY <3>2, <4>1, <4>2, Zenon DEF Kept
    <3>7. QED
      BY <3>1, <3>4, <3>5, <3>6, Zenon DEF SenderOK, Chunks
  <2>3. QED
    BY <2>1, <2>2, Zenon
<1>4. ASSUME NEW i \in Seats, NEW j \in Seats
      PROVE  ReceiverOK(i, j)'
  <2>1. CASE ReceiverOK(i, j)'
    BY <2>1, Zenon
  <2>2. CASE rx'[i][j] = rx[i][j] /\ received'[i][j] = received[i][j] /\ applied'[i][j] = applied[i][j]
    <3>1. ReceiverOK(i, j) /\ received[i][j].id.serial \in Nat /\ serial[j] \in Nat
      BY Types, Holding, Zenon DEF Receipt, Ids
    <3>2. /\ calls'.chunks = calls.chunks /\ damaged \subseteq damaged'
          /\ serial[j] <= serial'[j] /\ serial'[j] \in Nat
      BY Zenon DEF Kept
    <3>3. received[i][j].id.serial <= serial[j]
      BY <3>1, Zenon DEF ReceiverOK
    <3>4. received[i][j].id.serial <= serial'[j]
      BY <3>1, <3>2, <3>3, SMTT(30)
    <3>5. received'[i][j].id.serial <= serial'[j]
      BY <2>2, <3>4, Zenon
    <3>6. QED
      BY <2>2, <3>1, <3>2, <3>5, Zenon DEF ReceiverOK, Chunks
  <2>3. QED
    BY <2>1, <2>2
<1>5. TransferTypes'
  BY <1>2, Zenon DEF TransferTypes, Kept
<1>6. QED
  BY <1>2, <1>3, <1>4, <1>5, Zenon DEF TransferInv

(* The calls left keep their types, and the blob its size. *)
LEMMA CallsKept ==
    ASSUME calls \in CallRec,
           \/ calls' = calls
           \/ \E i \in Seats : \E op, to : StateBegin(i, op, to)
           \/ \E i, r : DropPeer(i, r)
           \/ \E i, own, sources : StateAbort(i, own, sources)
           \/ \E gen : StateProbe(gen)
           \/ ProbeFinish
           \/ \E m : Lose(m) \/ Damage(m)
    PROVE  calls' \in CallRec /\ calls'.chunks = calls.chunks
<1>1. CASE \E i \in Seats : \E op, to : StateBegin(i, op, to)
  <2>1. PICK i \in Seats : calls.begins[i] > 0 /\ calls' = [calls EXCEPT !.begins[i] = @ - 1]
    BY <1>1, ZenonT(60) DEF StateBegin
  <2>2. QED
    BY <2>1 DEF CallRec
<1>2. CASE calls.drops > 0 /\ calls' = [calls EXCEPT !.drops = @ - 1]
  BY <1>2 DEF CallRec
<1>3. CASE calls.aborts > 0 /\ calls' = [calls EXCEPT !.aborts = @ - 1]
  BY <1>3 DEF CallRec
<1>4. CASE calls.probes > 0 /\ calls' = [calls EXCEPT !.probes = @ - 1]
  BY <1>4 DEF CallRec
<1>5. CASE calls.losses > 0 /\ calls' = [calls EXCEPT !.losses = @ - 1]
  BY <1>5 DEF CallRec
<1>6. CASE calls.damage > 0 /\ calls' = [calls EXCEPT !.damage = @ - 1]
  BY <1>6 DEF CallRec
<1>7. CASE calls' = calls
  BY <1>7
<1>8. QED
  BY <1>1, <1>2, <1>3, <1>4, <1>5, <1>6, <1>7, Zenon
     DEF DropPeer, StateAbort, StateProbe, ProbeFinish, Lose, Damage

(* What a receiver has stays when its own state of the source does. *)
LEMMA GotStays ==
    ASSUME NEW a, NEW b, NEW id, Got(a, b, id), calls'.chunks = calls.chunks,
           damaged \subseteq damaged', received'[a][b] = received[a][b], rx'[a][b] = rx[a][b]
    PROVE  Got(a, b, id)'
<1>1. Unchecked(a, b, id) => Unchecked(a, b, id)'
  BY Zenon DEF Unchecked, Chunks
<1>2. QED
  BY <1>1, Zenon DEF Got, Holds

(* A step that receives and begins nothing keeps what was received. *)
LEMMA KeptBySending ==
    ASSUME TransferInv, calls' \in CallRec, calls'.chunks = calls.chunks,
           damaged \subseteq damaged', UNCHANGED <<rx, received, serial>>
    PROVE  Kept
<1>1. \A r, i \in Seats, id \in Ids : Got(r, i, id) => Got(r, i, id)'
  BY GotStays, Zenon
<1>2. QED
  BY <1>1, SerialSame, Zenon DEF Kept

(* The probe and the network leave the transfers alone; a damaged chunk is *)
(* on record.                                                              *)
LEMMA TransferElsewhere ==
    ASSUME TransferInv,
           \/ \E i \in Seats : TakeReady(i) \/ DriveProbe(i)
           \/ \E i \in Seats, match \in BOOLEAN : ProbeReply(i, match)
           \/ \E gen \in Gens : StateProbe(gen)
           \/ ProbeFinish
           \/ \E i \in Seats, m \in net : OnProbe(i, m) \/ OnDone(i, m)
           \/ \E m \in net : OnReply(m) \/ Lose(m) \/ Damage(m)
    PROVE  TransferInv'
<1>1. UNCHANGED <<tx, rx, received, serial, applied>>
  BY ZenonT(30) DEF TakeReady, DriveProbe, ProbeReply, StateProbe, ProbeFinish, OnProbe, OnDone, OnReply,
               Lose, Damage
<1>2. calls' \in CallRec /\ calls'.chunks = calls.chunks
  <2>1. calls \in CallRec
    BY Functions
  <2>2. \/ calls' = calls \/ \E gen : StateProbe(gen) \/ ProbeFinish \/ \E m : Lose(m) \/ Damage(m)
    BY ZenonT(30) DEF TakeReady, DriveProbe, ProbeReply, OnProbe, OnDone, OnReply
  <2>3. QED
    BY <2>1, <2>2, CallsKept
<1>3. /\ tx' \in [Seats -> TxRec] /\ rx' \in [Seats -> [Seats -> RxRec]]
      /\ received' \in [Seats -> [Seats -> Receipt]] /\ applied' \in [Seats -> [Seats -> Seq(Nat)]]
      /\ AppliedOnce'
  BY <1>1, Functions, AppliedSame
<1>4. ASSUME damaged \subseteq damaged', \A m \in net' : m \in net \/ (TransferMsg(m) /\ MsgOK(m)')
      PROVE  TransferInv'
  <2>1. Kept
    BY <1>1, <1>2, <1>4, KeptBySending, Zenon
  <2>2. QED
    BY <1>1, <1>3, <1>4, <2>1, OnlyChanges, ZenonT(30)
<1>5. ASSUME NEW m \in net, Damage(m)
      PROVE  TransferInv'
  <2>1. PICK n : n = [m EXCEPT !.ok = FALSE]
    BY Zenon
  <2>2. m.type = "CHUNK" /\ net' = net \cup {n} /\ damaged' = damaged \cup {m.id}
    BY <1>5, <2>1, ZenonT(30) DEF Damage, Send
  <2>3. m \in [type : {"CHUNK"}, from : Seats, id : Ids, c : Int, ok : BOOLEAN] /\ m.id.seat = m.from
    BY <2>2, Holding, Zenon DEF TransferMsg
  <2>4. TransferMsg(n) /\ n.type = "CHUNK" /\ n.id = m.id
    BY <2>1, <2>3, ZenonT(30) DEF TransferMsg
  <2>5. MsgOK(n)'
    BY <2>2, <2>4, Zenon DEF MsgOK
  <2>6. QED
    BY <1>4, <2>2, <2>4, <2>5
<1>6. ASSUME damaged' = damaged, NEW n, net' = net \cup {n}, n.type \in {"PROBE", "REPLY", "DONE"}
      PROVE  TransferInv'
  <2>1. TransferMsg(n) /\ MsgOK(n)'
    BY <1>6, Zenon DEF TransferMsg, MsgOK
  <2>2. QED
    BY <1>4, <1>6, <2>1, Zenon
<1>7. CASE \E m \in net : Damage(m)
  BY <1>5, <1>7
<1>8. CASE ~ \E m \in net : Damage(m)
  <2>1. damaged' = damaged
    BY <1>8, Zenon DEF TakeReady, DriveProbe, ProbeReply, StateProbe, ProbeFinish, OnProbe, OnDone,
                       OnReply, Lose
  <2>2. \A i, g, s, b : /\ Probe(g, s).type = "PROBE" /\ Reply(i, g, b).type = "REPLY"
                        /\ Done(g).type = "DONE"
    BY Zenon DEF Probe, Reply, Done
  <2>3. \/ net' \subseteq net
        \/ \E i, g, b : net' = net \cup {Reply(i, g, b)}
        \/ \E g, s : net' = net \cup {Probe(g, s)}
        \/ \E g : net' = net \cup {Done(g)}
    <3>1. \A S : S \subseteq S /\ S \ {} \subseteq S /\ S \cup {} \subseteq S
      OBVIOUS
    <3>2. CASE \E m \in net : Lose(m)
      BY <3>2 DEF Lose
    <3>3. CASE ProbeFinish
      BY <3>1, <3>3, Zenon DEF ProbeFinish, Send
    <3>4. CASE \E i \in Seats : TakeReady(i) \/ DriveProbe(i)
      BY <3>1, <3>4, Zenon DEF TakeReady, DriveProbe, Send
    <3>5. CASE (\E gen \in Gens : StateProbe(gen)) \/ \E i \in Seats, match \in BOOLEAN : ProbeReply(i, match)
      BY <3>1, <3>5, Zenon DEF StateProbe, ProbeReply, Send
    <3>6. CASE \E i \in Seats, m \in net : OnProbe(i, m) \/ OnDone(i, m)
      BY <3>1, <3>6, ZenonT(30) DEF OnProbe, OnDone, Send
    <3>7. CASE \E m \in net : OnReply(m)
      BY <3>1, <3>7, Zenon DEF OnReply, Send
    <3>8. QED
      BY <1>8, <3>2, <3>3, <3>4, <3>5, <3>6, <3>7, ZenonT(30)
  <2>4. CASE net' \subseteq net
    BY <1>4, <2>1, <2>4, Zenon
  <2>5. CASE ~(net' \subseteq net)
    <3>1. PICK n : net' = net \cup {n} /\ n.type \in {"PROBE", "REPLY", "DONE"}
      BY <2>2, <2>3, <2>5, Zenon
    <3>2. QED
      BY <1>6, <2>1, <3>1
  <2>6. QED
    BY <2>4, <2>5, Zenon
<1>9. QED
  BY <1>7, <1>8

(* Chunks and a BEGIN of a sender's latest transfer are honest. *)
LEMMA SentMsgs ==
    ASSUME TransferInv, NEW i \in Seats, NEW n \in Nat, n <= serial'[i], NEW op \in Ops,
           NEW from \in Int, NEW to \in Int, NEW m,
           m \in ChunksOf(i, XferId(i, n), from, to) \/ m = Begin(i, op, XferId(i, n))
    PROVE  TransferMsg(m) /\ MsgOK(m)'
<1>1. XferId(i, n) \in Ids /\ XferId(i, n).seat = i /\ XferId(i, n).serial = n
  BY Zenon DEF XferId, Ids
<1>2. CASE m = Begin(i, op, XferId(i, n))
  BY <1>1, <1>2, Zenon DEF Begin, TransferMsg, MsgOK
<1>3. CASE m \in ChunksOf(i, XferId(i, n), from, to)
  <2>1. PICK c \in Int : m = Chunk(i, XferId(i, n), c)
    BY <1>3, SMTT(30) DEF ChunksOf
  <2>2. QED
    BY <1>1, <2>1, Zenon DEF Chunk, TransferMsg, MsgOK
<1>4. QED
  BY <1>2, <1>3, Zenon

(* state_begin opens a transfer with the next serial. *)
LEMMA TransferBegin ==
    ASSUME TransferInv, NEW i \in Seats, NEW op \in HostOps \cup {"MEMCARD"}, NEW to \in 0 .. MaxChunks,
           StateBegin(i, op, to)
    PROVE  TransferInv'
<1>1. PICK n : n = serial[i] + 1
  OBVIOUS
<1>2. PICK id : id = XferId(i, n)
  OBVIOUS
<1>3. PICK t : t = [NoTx EXCEPT !.active = TRUE, !.op = op, !.id = id, !.expect = Receivers(op),
                                !.cursor = to]
  BY Zenon
<1>4. /\ tx' = [tx EXCEPT ![i] = t] /\ serial' = [serial EXCEPT ![i] = n]
      /\ net' = net \cup ({Begin(i, op, id)} \cup ChunksOf(i, id, 0, to))
      /\ UNCHANGED <<rx, received, applied, damaged>>
  BY <1>1, <1>2, <1>3, ZenonT(30) DEF StateBegin, Send
<1>5. /\ serial[i] \in Nat /\ n \in Nat /\ id \in Ids /\ to \in Int /\ to \in Nat /\ op \in Ops
      /\ Receivers(op) \subseteq Seats /\ MaxChunks \in Nat
  <2>1. MaxChunks \in Nat /\ serial[i] \in Nat
    BY Types, StateAssumption, Zenon
  <2>2. n \in Nat /\ to \in Int /\ to \in Nat
    BY <1>1, <2>1, SMTT(30)
  <2>3. id \in Ids /\ op \in Ops
    BY <1>2, <2>2, Zenon DEF XferId, Ids, Ops
  <2>4. Receivers(op) \subseteq Seats
    BY Types, Zenon DEF Receivers
  <2>5. QED
    BY <2>1, <2>2, <2>3, <2>4, Zenon
<1>6. calls' \in CallRec /\ calls'.chunks = calls.chunks
  BY Types, CallsKept, Zenon
<1>7. Kept
  <2>1. \A r, k \in Seats, x \in Ids : Got(r, k, x) => Got(r, k, x)'
    BY <1>4, <1>6, GotStays, Zenon
  <2>2. serial' \in [Seats -> Nat] /\ \A k \in Seats : serial[k] <= serial'[k]
    BY <1>1, <1>4, <1>5, Functions
  <2>3. QED
    BY <1>4, <1>6, <2>1, <2>2, Zenon DEF Kept
<1>8. /\ t \in TxRec /\ t.active /\ ~t.ready /\ t.id = id
      /\ \A r \in Seats : t.ack[r] = 0
  BY <1>3, <1>5, Types, ZenonT(30) DEF TxRec, NoTx, NoId, Ids, Ops
<1>9. tx' \in [Seats -> TxRec] /\ tx'[i] = t /\ \A k \in Seats \ {i} : tx'[k] = tx[k] /\ serial'[k] = serial[k]
  BY <1>4, <1>8, Functions, Zenon
<1>10. SenderOK(i)'
  <2>1. serial'[i] = n
    BY <1>4, Functions, Zenon
  <2>2. \A r \in t.expect : ~(t.ack[r] >= calls'.chunks)
    BY <1>6, <1>8, Types DEF TxRec, Chunks
  <2>3. QED
    BY <1>2, <1>8, <1>9, <2>1, <2>2, ZenonT(30) DEF SenderOK, Chunks
<1>11. \A m \in net' : m \in net \/ (TransferMsg(m) /\ MsgOK(m)')
  <2>1. n <= serial'[i]
    BY <1>4, <1>5, Functions
  <2>2. SUFFICES ASSUME NEW m, m \in ChunksOf(i, id, 0, to) \/ m = Begin(i, op, id)
                 PROVE  TransferMsg(m) /\ MsgOK(m)'
    BY <1>4, Zenon
  <2>3. QED
    BY <1>2, <1>5, <2>1, <2>2, SentMsgs, SMTT(30)
<1>12. QED
  BY <1>4, <1>7, <1>9, <1>10, <1>11, OnlyChanges, Functions, AppliedSame, Zenon

(* The pump sends more of the transfer that is open. *)
LEMMA TransferDrive ==
    ASSUME TransferInv, NEW i \in Seats, NEW late, NEW again, NEW to \in 0 .. MaxChunks,
           DriveSender(i, late, again, to)
    PROVE  TransferInv'
<1>1. PICK from : /\ from = Max({Min({tx[i].cursor} \cup {tx[i].ack[r] : r \in late}), MinAck(tx[i])})
                  /\ to \in from .. Chunks
                  /\ net' = net \cup (ChunksOf(i, tx[i].id, from, to) \cup
                                      (IF again THEN {Begin(i, tx[i].op, tx[i].id)} ELSE {}))
  BY Zenon DEF DriveSender, Paced, Send
<1>2. /\ tx[i].active /\ tx' = [tx EXCEPT ![i].cursor = to]
      /\ UNCHANGED <<rx, received, serial, applied, damaged, calls>>
  BY Zenon DEF DriveSender
<1>3. MaxChunks \in Nat /\ to \in Nat
  BY StateAssumption

<1>4. tx[i] \in TxRec /\ tx[i].cursor \in Nat /\ tx[i].ack \in [Seats -> Nat] /\ tx[i].expect \subseteq Seats
  BY Types, Zenon DEF TxRec
<1>5. from \in Nat
  <2> DEFINE S == {tx[i].cursor} \cup {tx[i].ack[r] : r \in late}
  <2>1. late \subseteq Seats
    BY <1>4, Zenon DEF DriveSender
  <2>2. S \subseteq Nat /\ S # {}
    BY <1>4, <2>1, Zenon
  <2>3. Min(S) \in Nat
    BY <2>2, LeastOf, Zenon
  <2>4. MinAck(tx[i]) \in Nat
    BY <1>4, Types, MinAckLeast, Zenon
  <2>5. QED
    BY <1>1, <2>3, <2>4, LargerOfPair, Zenon
<1>6. tx[i].id = XferId(i, serial[i]) /\ serial[i] \in Nat /\ tx[i].op \in Ops
  BY <1>2, Types, Holding, Zenon DEF SenderOK, TxRec
<1>7. \A m \in net' : m \in net \/ (TransferMsg(m) /\ MsgOK(m)')
  <2>1. serial[i] <= serial'[i]
    BY <1>2, <1>6
  <2>2. SUFFICES ASSUME NEW m, m \in ChunksOf(i, tx[i].id, from, to) \/ m = Begin(i, tx[i].op, tx[i].id)
                 PROVE  TransferMsg(m) /\ MsgOK(m)'
    BY <1>1, Zenon
  <2>3. QED
    BY <1>3, <1>5, <1>6, <2>1, <2>2, SentMsgs
<1>8. PICK t : t = [tx[i] EXCEPT !.cursor = to]
  BY Zenon
<1>9. /\ t \in TxRec /\ t.active = tx[i].active /\ t.ready = tx[i].ready /\ t.id = tx[i].id
      /\ t.expect = tx[i].expect /\ t.ack = tx[i].ack
  BY <1>3, <1>4, <1>8 DEF TxRec
<1>10. tx' \in [Seats -> TxRec] /\ tx'[i] = t /\ \A k \in Seats \ {i} : tx'[k] = tx[k]
  BY <1>2, <1>8, <1>9, Functions, Zenon
<1>11. SenderOK(i)'
  <2>1. SenderOK(i)
    BY Holding
  <2>2. /\ t.ready => t.active /\ \A r \in t.expect : t.ack[r] >= Chunks
        /\ t.active => /\ t.id = XferId(i, serial[i])
                       /\ \A r \in t.expect :
                            t.ack[r] >= Chunks => Got(r, i, t.id)
    BY <1>9, <2>1, Zenon DEF SenderOK
  <2>3. QED
    BY <1>2, <1>10, <2>2, ZenonT(60) DEF SenderOK, Got, Holds, Unchecked, Chunks
<1>12. Kept
  BY <1>2, Types, KeptBySending
<1>13. QED
  BY <1>2, <1>7, <1>10, <1>11, <1>12, OnlyChanges, Functions, AppliedSame, Zenon
=============================================================================
