-------------------------- MODULE StateSyncProofs --------------------------
(***************************************************************************)
(* Save-state transfers are safe for any number of guests, blobs of any    *)
(* size and any number of calls, losses and damaged datagrams.             *)
(***************************************************************************)
EXTENDS StateSyncInvariant

(* What marking a transfer complete claims is so. *)
LEMMA MarkedSender ==
    ASSUME TransferInv, NEW i \in Seats, NEW t \in TxRec,
           t.active, t.id = XferId(i, serial[i]),
           t.ready => \A r \in t.expect : t.ack[r] >= Chunks,
           \A r \in t.expect : t.ack[r] >= Chunks => Got(r, i, t.id),
           tx'[i] = MarkReady(t), calls'.chunks = calls.chunks,
           UNCHANGED <<rx, received, serial, damaged>>
    PROVE  SenderOK(i)'
<1>1. PICK u : u = MarkReady(t)
  OBVIOUS
<1>2. /\ u \in TxRec /\ u.active = t.active /\ u.id = t.id /\ u.expect = t.expect /\ u.ack = t.ack
      /\ u.ready = (t.ready \/ (t.active /\ MinAck(t) = Chunks))
  BY <1>1, MarkReadyFields, Zenon
<1>3. u.ready => \A r \in u.expect : u.ack[r] >= Chunks
  BY <1>2, Types, MinAckLeast, Zenon
<1>4. QED
  BY <1>1, <1>2, <1>3, ZenonT(60) DEF SenderOK, Got, Holds, Unchecked, Chunks

(* An acknowledgement of this transfer by an expected receiver. *)
LEMMA TransferAck ==
    ASSUME TransferInv, NEW i \in Seats, NEW m \in net, OnAck(i, m)
    PROVE  TransferInv'
<1>1. PICK t : t = [tx[i] EXCEPT !.ack[m.from] = Max({@, m.n})]
  BY Zenon
<1>2. /\ m.type = "ACK" /\ tx[i].active /\ m.id = tx[i].id /\ m.from \in tx[i].expect
      /\ tx' = [tx EXCEPT ![i] = MarkReady(t)]
      /\ UNCHANGED <<rx, received, serial, net, applied, damaged, calls>>
  BY <1>1, Zenon DEF OnAck
<1>3. m.from \in Seats /\ m.n \in Nat /\ m.id \in Ids /\ MsgOK(m) /\ SenderOK(i)
  BY <1>2, Holding DEF TransferMsg
<1>4. tx[i] \in TxRec /\ tx[i].ack \in [Seats -> Nat] /\ tx[i].expect \subseteq Seats
  BY Types DEF TxRec
<1>5. PICK a : a = Max({tx[i].ack[m.from], m.n})
  BY SMTT(30)
<1>6. a \in {tx[i].ack[m.from], m.n} /\ a >= tx[i].ack[m.from] /\ a \in Nat
  <2>1. tx[i].ack[m.from] \in Nat
    BY <1>3, <1>4
  <2>2. QED
    BY <1>3, <1>5, <2>1, LargerOfPair
<1>7. t = [tx[i] EXCEPT !.ack = [tx[i].ack EXCEPT ![m.from] = a]]
  BY <1>1, <1>5, Zenon
<1>8. /\ t \in TxRec /\ t.active = tx[i].active /\ t.ready = tx[i].ready /\ t.id = tx[i].id
      /\ t.expect = tx[i].expect /\ t.ack = [tx[i].ack EXCEPT ![m.from] = a]
  BY <1>3, <1>4, <1>6, <1>7, Zenon DEF TxRec
<1>9. t.id = XferId(i, serial[i]) /\ t.id.seat = i
  BY <1>2, <1>3, <1>8, SMTT(30) DEF SenderOK, XferId
<1>10. t.ready => \A r \in t.expect : t.ack[r] >= Chunks
  BY <1>3, <1>4, <1>6, <1>8, Types, SMTT(30) DEF SenderOK
<1>11. ASSUME NEW r \in t.expect, t.ack[r] >= Chunks
       PROVE  Got(r, i, t.id)
  <2>1. CASE r = m.from /\ m.n >= Chunks
    BY <1>2, <1>3, <1>8, <1>9, <1>11, <2>1, Zenon DEF MsgOK
  <2>2. CASE tx[i].ack[r] >= Chunks
    BY <1>2, <1>3, <1>8, <1>11, <2>2, Zenon DEF SenderOK
  <2>3. QED
    BY <1>3, <1>4, <1>6, <1>8, <1>11, <2>1, <2>2, Zenon
<1>12. MarkReady(t) \in TxRec
  BY <1>8, MarkReadyFields, Zenon
<1>13. tx' \in [Seats -> TxRec] /\ tx'[i] = MarkReady(t) /\ \A k \in Seats \ {i} : tx'[k] = tx[k]
  BY <1>2, <1>12, Functions
<1>14. SenderOK(i)'
  BY <1>2, <1>8, <1>9, <1>10, <1>11, <1>13, MarkedSender, ZenonT(30)
<1>15. Kept
  BY <1>2, Types, KeptBySending, Zenon
<1>16. QED
  BY <1>2, <1>13, <1>14, <1>15, OnlyChanges, Functions, AppliedSame

(* Without a dropped receiver the transfer may be complete. *)
LEMMA TransferDrop ==
    ASSUME TransferInv, NEW i \in Seats, NEW r \in Seats, DropPeer(i, r)
    PROVE  TransferInv'
<1>1. PICK t : t = [tx[i] EXCEPT !.expect = @ \ {r}]
  BY Zenon
<1>2. /\ tx' = [tx EXCEPT ![i] = IF tx[i].active /\ r \in tx[i].expect THEN MarkReady(t) ELSE tx[i]]
      /\ UNCHANGED <<rx, received, serial, net, applied, damaged>>
  BY <1>1, Zenon DEF DropPeer
<1>3. tx[i] \in TxRec /\ SenderOK(i)
  BY Types, Holding
<1>4. /\ t \in TxRec /\ t.active = tx[i].active /\ t.ready = tx[i].ready /\ t.id = tx[i].id
      /\ t.expect = tx[i].expect \ {r} /\ t.ack = tx[i].ack
  BY <1>1, <1>3, Zenon DEF TxRec
<1>5. calls' \in CallRec /\ calls'.chunks = calls.chunks
  BY Types, CallsKept
<1>6. Kept
  BY <1>2, <1>5, KeptBySending, Zenon
<1>7. MarkReady(t) \in TxRec
  BY <1>4, MarkReadyFields
<1>8. tx' \in [Seats -> TxRec] /\ \A k \in Seats \ {i} : tx'[k] = tx[k]
  BY <1>2, <1>3, <1>7, Functions, Zenon
<1>9. SenderOK(i)' \/ tx'[i] = tx[i]
  <2>1. CASE tx[i].active /\ r \in tx[i].expect
    <3>1. tx'[i] = MarkReady(t)
      BY <1>2, <2>1, Functions
    <3>2. /\ t.active /\ t.id = XferId(i, serial[i])
          /\ t.ready => \A k \in t.expect : t.ack[k] >= Chunks
          /\ \A k \in t.expect : t.ack[k] >= Chunks => Got(k, i, t.id)
      BY <1>3, <1>4, <2>1, ZenonT(30) DEF SenderOK
    <3>3. QED
      BY <1>2, <1>4, <1>5, <3>1, <3>2, MarkedSender, Zenon
  <2>2. CASE ~(tx[i].active /\ r \in tx[i].expect)
    BY <1>2, <2>2, Functions
  <2>3. QED
    BY <2>1, <2>2, Zenon
<1>10. QED
  BY <1>2, <1>6, <1>8, <1>9, OnlyChanges, Functions, AppliedSame, Zenon

(* An acknowledgement of the whole blob is honest when the blob is there.  *)
LEMMA SentAck ==
    ASSUME NEW i \in Seats, NEW id \in Ids, NEW n \in Nat,
           n >= calls'.chunks => Got(i, id.seat, id)'
    PROVE  TransferMsg(Ack(i, id, n)) /\ MsgOK(Ack(i, id, n))'
<1>1. PICK m : m = Ack(i, id, n)
  OBVIOUS
<1>2. /\ m \in [type : {"ACK"}, from : Seats, id : Ids, n : Nat]
      /\ m.type = "ACK" /\ m.from = i /\ m.id = id /\ m.n = n
  BY <1>1 DEF Ack
<1>3. TransferMsg(m)
  BY <1>2 DEF TransferMsg
<1>4. m.n >= calls'.chunks => Got(m.from, m.id.seat, m.id)'
  BY <1>2, Zenon DEF Got, Holds, Unchecked
<1>5. MsgOK(m)'
  BY <1>2, <1>4 DEF MsgOK, Chunks
<1>6. QED
  BY <1>1, <1>3, <1>5

(* A BEGIN or a chunk names its sender in its transfer. *)
LEMMA ReceivedMsg ==
    ASSUME TransferInv, NEW m \in net, m.type \in {"BEGIN", "CHUNK"}
    PROVE  /\ m.from \in Seats /\ m.id \in Ids /\ m.id.seat = m.from /\ MsgOK(m)
           /\ m.type = "BEGIN" => m.op \in Ops
           /\ m.type = "CHUNK" => m.c \in Int /\ m.ok \in BOOLEAN
BY Holding, Zenon DEF TransferMsg

(* A repeated BEGIN or chunk is only acknowledged. *)
LEMMA TransferAgain ==
    ASSUME TransferInv, NEW i \in Seats, NEW m \in net, OnBeginAgain(i, m) \/ OnChunkAgain(i, m)
    PROVE  TransferInv'
<1>1. UNCHANGED <<tx, rx, received, serial, applied, damaged, calls>> /\ m.type \in {"BEGIN", "CHUNK"}
  BY Zenon DEF OnBeginAgain, OnChunkAgain
<1>2. m.from \in Seats /\ m.id \in Ids /\ m.id.seat = m.from
  BY <1>1, ReceivedMsg
<1> DEFINE known == received[i][m.from]
           r == rx[i][m.from]
<1>3. PICK n : /\ net' = net \cup {Ack(i, m.id, n)} /\ known.id = m.id
               /\ \/ known.fin /\ n = Chunks
                  \/ r.active /\ r.id = m.id /\ n = r.cont
  BY ZenonT(30) DEF OnBeginAgain, OnChunkAgain, Send
<1>4. n \in Nat /\ ReceiverOK(i, m.from)
  BY <1>2, <1>3, Types, Holding, ZenonT(60) DEF RxRec
<1>5. n >= Chunks => Holds(i, m.from, m.id)
  BY <1>3, <1>4, Zenon DEF ReceiverOK, Holds, Unchecked
<1>6. PICK x : x = Ack(i, m.id, n) /\ TransferMsg(x) /\ MsgOK(x)'
  <2>1. n >= calls'.chunks => Got(i, m.id.seat, m.id)'
    BY <1>1, <1>2, <1>5, ZenonT(30) DEF Got, Holds, Unchecked, Chunks
  <2>2. QED
    BY <1>2, <1>4, <2>1, SentAck
<1>7. \A y \in net' : y \in net \/ (TransferMsg(y) /\ MsgOK(y)')
  BY <1>3, <1>6
<1>8. Kept
  BY <1>1, Types, KeptBySending, Zenon
<1>9. QED
  BY <1>1, <1>7, <1>8, OnlyChanges, Functions, AppliedSame, Zenon

(* A newer BEGIN opens a receive. *)
LEMMA TransferOnBegin ==
    ASSUME TransferInv, NEW i \in Seats, NEW m \in net, OnBegin(i, m)
    PROVE  TransferInv'
<1>1. PICK src, r, k : /\ src = m.from
                       /\ r = [NoRx EXCEPT !.active = TRUE, !.op = m.op, !.id = m.id]
                       /\ k = [id |-> m.id, op |-> m.op, fin |-> FALSE]
  BY Zenon
<1>2. /\ m.type = "BEGIN" /\ m.id.serial > received[i][src].id.serial
      /\ rx' = [rx EXCEPT ![i][src] = r] /\ received' = [received EXCEPT ![i][src] = k]
      /\ tx' = tx \/ tx' = [tx EXCEPT ![i] = NoTx]
      /\ net' = net \cup {Ack(i, m.id, 0)}
      /\ UNCHANGED <<serial, calls, applied, damaged>>
  BY <1>1, Zenon DEF OnBegin, Newer, Send
<1>3. src \in Seats /\ m.id \in Ids /\ m.id.serial \in Nat /\ m.op \in Ops /\ m.id.serial <= serial[src]
  BY <1>1, <1>2, ReceivedMsg, Zenon DEF MsgOK, Ids
<1>4. /\ r \in RxRec /\ r.active /\ ~r.ready /\ r.id = m.id /\ r.bad = {} /\ r.cont = 0
      /\ k \in Receipt /\ k.id = m.id /\ ~k.fin
  BY <1>1, <1>3, Zenon DEF RxRec, NoRx, NoId, Ops, Receipt
<1>5. /\ rx' \in [Seats -> [Seats -> RxRec]] /\ received' \in [Seats -> [Seats -> Receipt]]
      /\ rx'[i][src] = r /\ received'[i][src] = k
      /\ \A a, b \in Seats : a # i \/ b # src => rx'[a][b] = rx[a][b] /\ received'[a][b] = received[a][b]
  BY <1>2, <1>3, <1>4, Functions, ZenonT(30)
<1>6. \A a, b \in Seats : /\ received[a][b].id.serial \in Nat
                          /\ received[a][b].id = m.id => received[a][b].id.serial = m.id.serial
  BY Types DEF Receipt, Ids
<1>7. \A a, b \in Seats, id \in Ids : Got(a, b, id) => Got(a, b, id)'
  <2>1. SUFFICES ASSUME NEW a \in Seats, NEW b \in Seats, NEW id \in Ids, Got(a, b, id)
                 PROVE  Got(a, b, id)'
    BY Zenon 
  <2>2. CASE a # i \/ b # src
    BY <1>2, <1>5, <2>1, <2>2, GotStays, Zenon
  <2>3. CASE a = i /\ b = src
    <3>1. received[i][src].id.serial >= id.serial /\ id.serial \in Nat
      BY <1>6, <2>1, <2>3, SMTT(30) DEF Got, Holds, Unchecked, Ids
    <3>2. received'[i][src].id.serial > id.serial
      BY <1>2, <1>3, <1>4, <1>5, <1>6, <3>1, SMTT(30)
    <3>3. QED
      BY <2>3, <3>2, Zenon DEF Got
  <2>4. QED
    BY <2>2, <2>3, Zenon
<1>8. Kept
  <2>1. serial' \in [Seats -> Nat] /\ \A j \in Seats : serial[j] <= serial'[j]
    BY <1>2, SerialSame
  <2>2. QED
    BY <1>2, <1>7, <2>1, Types, Zenon DEF Kept
<1>9. ReceiverOK(i, src)'
  <2>1. ReceiverOK(i, src) /\ applied[i][src] \in Seq(Nat) /\ Chunks \in Nat \ {0}
    BY <1>3, Types, Holding, Zenon
  <2>2. ASSUME NEW n \in DOMAIN applied[i][src]
        PROVE  applied[i][src][n] \in Nat /\ applied[i][src][n] < m.id.serial
    <3>1. applied[i][src][n] <= received[i][src].id.serial /\ applied[i][src][n] \in Nat
      BY <2>1, <2>2 DEF ReceiverOK
    <3>2. QED
      BY <1>2, <1>3, <1>6, <3>1, SMTT(30)
  <2>3. \A n \in DOMAIN applied'[i][src] :
           /\ applied'[i][src][n] <= m.id.serial /\ applied'[i][src][n] < m.id.serial
    BY <1>2, <1>3, <2>2
  <2>4. ~(0 >= calls'.chunks)
    BY <1>2, <2>1 DEF Chunks
  <2>5. QED
    BY <1>2, <1>3, <1>4, <1>5, <2>3, <2>4, ZenonT(30) DEF ReceiverOK, Chunks
<1>10. \A x \in net' : x \in net \/ (TransferMsg(x) /\ MsgOK(x)')
  <2>1. ~(0 >= calls'.chunks)
    BY <1>2, Types DEF Chunks
  <2>2. PICK x : x = Ack(i, m.id, 0) /\ TransferMsg(x) /\ MsgOK(x)'
    BY <1>3, <2>1, SentAck, Zenon
  <2>3. QED
    BY <1>2, <2>2, Zenon
<1>11. /\ tx' \in [Seats -> TxRec]
       /\ \A a \in Seats : SenderOK(a)' \/ tx'[a] = tx[a]
  <2>1. NoTx \in TxRec /\ ~NoTx.active /\ ~NoTx.ready
    BY Types, Zenon DEF NoTx, TxRec, NoId, Ids, Ops
  <2>2. CASE tx' = tx
    BY <2>2, Functions
  <2>3. CASE tx' = [tx EXCEPT ![i] = NoTx]
    <3>1. tx' \in [Seats -> TxRec] /\ tx'[i] = NoTx /\ \A a \in Seats \ {i} : tx'[a] = tx[a]
      BY <2>1, <2>3, Functions
    <3>2. SenderOK(i)'
      BY <2>1, <3>1, Zenon DEF SenderOK
    <3>3. QED
      BY <3>1, <3>2, Zenon
  <2>4. QED
    BY <1>2, <2>2, <2>3, Zenon
<1>12. \A a, b \in Seats : ReceiverOK(a, b)' \/ ( /\ rx'[a][b] = rx[a][b]
                                                  /\ received'[a][b] = received[a][b]
                                                  /\ applied'[a][b] = applied[a][b] )
  BY <1>2, <1>5, <1>9, ZenonT(60)
<1>13. applied' \in [Seats -> [Seats -> Seq(Nat)]] /\ AppliedOnce'
  BY <1>2, Functions, AppliedSame
<1>14. QED
  BY <1>2, <1>5, <1>8, <1>10, <1>11, <1>12, <1>13, OnlyChanges, Zenon

(* A chunk is stored, acknowledged, and the blob checked once complete. *)
LEMMA TransferChunk ==
    ASSUME TransferInv, NEW i \in Seats, NEW m \in net, OnChunk(i, m)
    PROVE  TransferInv'
<1>1. PICK src, r, got, bad, cont, fails, ready, c :
         /\ src = m.from /\ r = rx[i][src] /\ got = r.got \cup {m.c}
         /\ bad = IF m.ok THEN r.bad \ {m.c} ELSE r.bad \cup {m.c}
         /\ cont = Prefix(got)
         /\ fails = (cont = Chunks /\ ~r.ready /\ bad # {})
         /\ ready = (r.ready \/ (cont = Chunks /\ bad = {}))
         /\ c = IF fails THEN 0 ELSE cont
  BY Zenon
<1>2. PICK q : q = [r EXCEPT !.got = got, !.bad = bad, !.cont = c, !.ready = ready]
  BY Zenon
<1>3. /\ m.type = "CHUNK" /\ r.active /\ r.id = m.id
      /\ rx' = [rx EXCEPT ![i][src] = q]
      /\ net' = net \cup ({Ack(i, m.id, cont)} \cup (IF fails THEN {Ack(i, m.id, 0)} ELSE {}))
      /\ UNCHANGED <<tx, received, serial, calls, applied, damaged>>
  BY <1>1, <1>2, ZenonT(30) DEF OnChunk, Send
<1>4. /\ src \in Seats /\ m.id \in Ids /\ m.id.seat = src /\ m.c \in Int
      /\ ~m.ok => m.id \in damaged
  BY <1>1, <1>3, ReceivedMsg, Zenon DEF MsgOK
<1>5. r \in RxRec /\ r.got \subseteq Int /\ r.bad \subseteq Int /\ ReceiverOK(i, src) /\ Chunks \in Nat \ {0}
  BY <1>1, <1>4, Types, Holding, ZenonT(30) DEF RxRec
<1>6. cont \in 0 .. Chunks
  BY <1>1, <1>5, PrefixBounds, ZenonT(30)
<1>7. /\ got \subseteq Int /\ bad \subseteq Int /\ fails \in BOOLEAN /\ ready \in BOOLEAN
      /\ c \in Nat /\ cont \in Nat
  <2>1. cont \in Nat /\ 0 \in Nat
    BY <1>5, <1>6
  <2>2. fails \in BOOLEAN /\ ready \in BOOLEAN /\ c \in Nat
    BY <1>1, <2>1, ZenonT(30)
  <2>3. bad \subseteq r.bad \cup {m.c} /\ got \subseteq r.got \cup {m.c}
    BY <1>1, Zenon
  <2>4. QED
    BY <1>4, <1>5, <2>1, <2>2, <2>3, Zenon
<1>8. /\ q \in RxRec /\ q.active = r.active /\ q.id = r.id /\ q.bad = bad /\ q.cont = c /\ q.ready = ready
      /\ q.got = got
  BY <1>2, <1>5, <1>7, ZenonT(30) DEF RxRec
<1>9. /\ rx' \in [Seats -> [Seats -> RxRec]] /\ rx'[i][src] = q
      /\ \A a, b \in Seats : a # i \/ b # src => rx'[a][b] = rx[a][b]
  BY <1>3, <1>4, <1>8, Functions
<1>10. r.ready => ready
  BY <1>1, Zenon
<1>11. received[i][src].id = m.id /\ ~received[i][src].fin
  BY <1>1, <1>3, <1>5, ZenonT(30) DEF ReceiverOK
<1>12. \A a, b \in Seats, id \in Ids : Got(a, b, id) => Got(a, b, id)'
  <2>1. SUFFICES ASSUME NEW a \in Seats, NEW b \in Seats, NEW id \in Ids, Got(a, b, id)
                 PROVE  Got(a, b, id)'
    OBVIOUS
  <2>2. CASE a # i \/ b # src
    BY <1>3, <1>9, <2>1, <2>2, GotStays, Zenon
  <2>3. CASE a = i /\ b = src
    <3>1. CASE Holds(a, b, id)
      <4>1. received[i][src].id = id /\ received'[i][src].id = id /\ rx'[i][src].id = id
        BY <1>3, <1>8, <1>9, <1>11, <2>3, <3>1, Zenon DEF Holds
      <4>2. CASE r.ready
        <5>1. rx'[i][src].ready
          BY <1>8, <1>9, <1>10, <4>2, Zenon
        <5>2. QED
          BY <2>3, <4>1, <5>1, Zenon DEF Got, Holds
      <4>3. CASE Unchecked(i, src, id)
        <5>1. id \in damaged' /\ 1 .. calls'.chunks \subseteq r.got
          BY <1>1, <1>3, <4>3, Zenon DEF Unchecked, Chunks
        <5>2. Unchecked(i, src, id)'
          BY <1>1, <1>8, <1>9, <4>1, <5>1, Zenon DEF Unchecked, Chunks
        <5>3. QED
          BY <2>3, <4>1, <5>2, Zenon DEF Got, Holds
      <4>4. QED
        BY <1>1, <1>11, <2>3, <3>1, <4>2, <4>3, Zenon DEF Holds
    <3>2. CASE received[a][b].id.serial > id.serial
      BY <1>3, <3>2, Zenon DEF Got
    <3>3. QED
      BY <2>1, <3>1, <3>2 DEF Got
  <2>4. QED
    BY <2>2, <2>3
<1>13. Kept
  <2>1. serial' \in [Seats -> Nat] /\ \A j \in Seats : serial[j] <= serial'[j]
    BY <1>3, SerialSame, Zenon
  <2>2. QED
    BY <1>3, <1>12, <2>1, Types, Zenon DEF Kept
<1>14. bad # {} => m.id \in damaged
  <2>1. r.bad # {} => m.id \in damaged
    BY <1>1, <1>3, <1>5, Zenon DEF ReceiverOK
  <2>2. QED
    BY <1>1, <1>4, <2>1, Zenon
<1>15. (c >= Chunks => ready) /\ (cont >= Chunks => ready \/ bad # {})
  <2>1. ~(0 >= Chunks) /\ (cont >= Chunks => cont = Chunks)
    BY <1>5, <1>6
  <2>2. (c = 0 /\ fails) \/ (c = cont /\ ~fails)
    BY <1>1, Zenon
  <2>3. cont = Chunks => ready \/ bad # {}
    BY <1>1, Zenon
  <2>4. cont = Chunks /\ ~fails => ready
    BY <1>1, Zenon
  <2>5. QED
    BY <2>1, <2>2, <2>3, <2>4, ZenonT(30)
<1>16. ReceiverOK(i, src)'
  <2>1. q.bad # {} => q.id \in damaged'
    BY <1>3, <1>8, <1>14
  <2>2. q.active /\ q.cont >= calls'.chunks => q.ready
    BY <1>3, <1>8, <1>15, Zenon DEF Chunks
  <2>3. /\ received'[i][src].id.serial <= serial'[src]
        /\ \A n \in DOMAIN applied'[i][src] :
             /\ applied'[i][src][n] <= received'[i][src].id.serial
             /\ ~received'[i][src].fin => applied'[i][src][n] < received'[i][src].id.serial
    BY <1>3, <1>5, Zenon DEF ReceiverOK
  <2>4. q.active /\ q.id = received'[i][src].id /\ ~received'[i][src].fin
    BY <1>3, <1>8, <1>11, Zenon
  <2>5. QED
    BY <1>9, <2>1, <2>2, <2>3, <2>4, Zenon DEF ReceiverOK, Chunks
<1>17. \A x \in net' : x \in net \/ (TransferMsg(x) /\ MsgOK(x)')
  <2>1. ready => Got(i, src, m.id)'
    <3>1. ready => received'[i][src].id = m.id /\ rx'[i][src].id = m.id /\ rx'[i][src].ready
      BY <1>3, <1>8, <1>9, <1>11, Zenon
    <3>2. QED
      BY <3>1, Zenon DEF Got, Holds, Unchecked
  <2>2. cont >= calls'.chunks => Got(i, m.id.seat, m.id)'
    <3>1. cont >= calls'.chunks => ready \/ m.id \in damaged'
      BY <1>3, <1>14, <1>15, Zenon DEF Chunks
    <3>2. cont >= calls'.chunks => 1 .. calls'.chunks \subseteq got
      <4>1. 1 .. cont \subseteq got
        BY <1>1, <1>5, PrefixBounds, ZenonT(30)
      <4>2. cont >= Chunks => cont = Chunks
        BY <1>5, <1>6
      <4>3. QED
        BY <1>3, <4>1, <4>2, Zenon DEF Chunks
    <3>3. ASSUME cont >= calls'.chunks, m.id \in damaged'
          PROVE  Got(i, src, m.id)'
      <4>1. rx'[i][src].id = m.id /\ rx'[i][src].got = got /\ received'[i][src].id = m.id
        BY <1>3, <1>8, <1>9, <1>11, Zenon
      <4>2. Unchecked(i, src, m.id)'
        BY <3>2, <3>3, <4>1, Zenon DEF Unchecked, Chunks
      <4>3. QED
        BY <4>1, <4>2, Zenon DEF Got, Holds
    <3>4. QED
      BY <1>4, <2>1, <3>1, <3>3, Zenon
  <2>3. ~(0 >= calls'.chunks)
    BY <1>3, <1>5 DEF Chunks
  <2>4. PICK x : x = Ack(i, m.id, cont) /\ TransferMsg(x) /\ MsgOK(x)'
    BY <1>4, <1>7, <2>2, SentAck
  <2>5. PICK y : y = Ack(i, m.id, 0) /\ TransferMsg(y) /\ MsgOK(y)'
    BY <1>4, <2>3, SentAck, Zenon
  <2>6. QED
    BY <1>3, <2>4, <2>5
<1>18. \A a, b \in Seats : ReceiverOK(a, b)' \/ ( /\ rx'[a][b] = rx[a][b]
                                                  /\ received'[a][b] = received[a][b]
                                                  /\ applied'[a][b] = applied[a][b] )
  BY <1>3, <1>9, <1>16, ZenonT(30)
<1>19. /\ tx' \in [Seats -> TxRec] /\ received' \in [Seats -> [Seats -> Receipt]]
       /\ applied' \in [Seats -> [Seats -> Seq(Nat)]] /\ AppliedOnce'
  BY <1>3, Functions, AppliedSame, Zenon
<1>20. QED
  BY <1>3, <1>9, <1>13, <1>17, <1>18, <1>19, OnlyChanges, Zenon

(* One more serial, above the others, keeps the serials in order. *)
LEMMA AppendInOrder ==
    ASSUME NEW s \in Seq(Nat), NEW x \in Nat, \A k \in DOMAIN s : s[k] < x,
           \A k, l \in DOMAIN s : k < l => s[k] < s[l]
    PROVE  LET u == Append(s, x) IN
           /\ u \in Seq(Nat) /\ \A k \in DOMAIN u : u[k] <= x
           /\ \A k, l \in DOMAIN u : k < l => u[k] < u[l]
<1>1. PICK u : u = Append(s, x)
  BY Zenon
<1>2. /\ u \in Seq(Nat) /\ Len(u) = Len(s) + 1 /\ u[Len(s) + 1] = x
      /\ \A k \in 1 .. Len(s) : u[k] = s[k] /\ s[k] \in Nat
      /\ DOMAIN u = 1 .. Len(s) + 1 /\ DOMAIN s = 1 .. Len(s) /\ Len(s) \in Nat
  BY <1>1
<1>3. \A k \in DOMAIN u : (k \in 1 .. Len(s) /\ u[k] = s[k] /\ u[k] < x) \/ (k = Len(s) + 1 /\ u[k] = x)
  BY <1>2
<1>4. \A k \in DOMAIN u : u[k] <= x
  BY <1>2, <1>3, SMTT(30)
<1>5. ASSUME NEW k \in DOMAIN u, NEW l \in DOMAIN u, k < l
      PROVE  u[k] < u[l]
  <2>1. k \in 1 .. Len(s)
    BY <1>2, <1>5
  <2>2. QED
    BY <1>2, <1>3, <1>5, <2>1, Zenon
<1>6. QED
  BY <1>1, <1>2, <1>4, <1>5, Zenon

(* A ready receive that is closed is applied; any other is dropped. *)
LEMMA TransferClose ==
    ASSUME TransferInv, NEW i \in Seats, NEW own, NEW sources, Close(i, own, sources),
           calls' \in CallRec, calls'.chunks = calls.chunks
    PROVE  TransferInv'
<1>1. PICK fin : fin = sources \cap ReadyIn(i)
  BY Zenon
<1>2. /\ tx' = [tx EXCEPT ![i] = IF own THEN NoTx ELSE tx[i]]
      /\ rx' = [rx EXCEPT ![i] = [j \in Seats |-> IF j \in sources THEN NoRx ELSE rx[i][j]]]
      /\ received' = [received EXCEPT ![i] =
             [j \in Seats |-> IF j \in fin THEN [received[i][j] EXCEPT !.fin = TRUE] ELSE received[i][j]]]
      /\ applied' = [applied EXCEPT ![i] =
             [j \in Seats |-> IF j \in fin THEN Append(applied[i][j], rx[i][j].id.serial) ELSE applied[i][j]]]
      /\ UNCHANGED <<serial, net, damaged>>
  BY <1>1, Zenon DEF Close
<1>3. \A j \in Seats : j \in fin <=> j \in sources /\ rx[i][j].active /\ rx[i][j].ready
  BY <1>1, Zenon DEF ReadyIn
<1>4. NoRx \in RxRec /\ ~NoRx.active /\ ~NoRx.ready /\ NoRx.bad = {} /\ NoRx.cont = 0
  BY Types, Zenon DEF NoRx, RxRec, NoId, Ids, Ops
<1>5. NoTx \in TxRec /\ ~NoTx.active /\ ~NoTx.ready
  BY Types, Zenon DEF NoTx, TxRec, NoId, Ids, Ops
<1>6. ASSUME NEW j \in Seats, NEW k, k = [received[i][j] EXCEPT !.fin = TRUE]
      PROVE  k \in Receipt /\ k.id = received[i][j].id /\ k.fin
  <2>1. received[i][j] \in Receipt
    BY Types, Zenon
  <2>2. QED
    BY <1>6, <2>1, Zenon DEF Receipt
<1>7. ASSUME NEW j \in Seats
      PROVE  /\ rx'[i][j] = IF j \in sources THEN NoRx ELSE rx[i][j]
             /\ received'[i][j] \in Receipt /\ received'[i][j].id = received[i][j].id
             /\ j \in fin => received'[i][j].fin
             /\ j \notin fin => received'[i][j] = received[i][j] /\ applied'[i][j] = applied[i][j]
             /\ j \in fin => applied'[i][j] = Append(applied[i][j], rx[i][j].id.serial)
  <2>1. rx'[i][j] = IF j \in sources THEN NoRx ELSE rx[i][j]
    BY <1>2, Functions, Zenon
  <2>2. received'[i][j] = IF j \in fin THEN [received[i][j] EXCEPT !.fin = TRUE] ELSE received[i][j]
    BY <1>2, Functions
  <2>3. applied'[i][j] = IF j \in fin THEN Append(applied[i][j], rx[i][j].id.serial) ELSE applied[i][j]
    BY <1>2, Functions, Zenon
  <2>4. QED
    BY <1>6, <2>1, <2>2, <2>3, Types, Zenon
<1>8. \A a, b \in Seats : a # i => /\ rx'[a][b] = rx[a][b] /\ received'[a][b] = received[a][b]
                                   /\ applied'[a][b] = applied[a][b]
  BY <1>2, Functions
<1>9. ASSUME NEW j \in Seats, j \in fin
      PROVE  /\ applied'[i][j] \in Seq(Nat)
             /\ \A k \in DOMAIN applied'[i][j] : applied'[i][j][k] <= received[i][j].id.serial
             /\ \A k, l \in DOMAIN applied'[i][j] : k < l => applied'[i][j][k] < applied'[i][j][l]
  <2>1. rx[i][j].id = received[i][j].id /\ ~received[i][j].fin
    BY <1>3, <1>9, Holding, ZenonT(30) DEF ReceiverOK
  <2>2. received[i][j].id.serial \in Nat /\ applied[i][j] \in Seq(Nat)
    BY Types, Zenon DEF Receipt, Ids
  <2>3. \A k \in DOMAIN applied[i][j] : applied[i][j][k] < received[i][j].id.serial
    BY <2>1, Holding, Zenon DEF ReceiverOK
  <2>4. \A k, l \in DOMAIN applied[i][j] : k < l => applied[i][j][k] < applied[i][j][l]
    BY Zenon DEF TransferInv, AppliedOnce
  <2>5. applied'[i][j] = Append(applied[i][j], received[i][j].id.serial)
    BY <1>7, <1>9, <2>1, SMTT(30)
  <2>6. QED
    BY <2>2, <2>3, <2>4, <2>5, AppendInOrder, ZenonT(30)
<1>10. AppliedOnce'
  <2>1. SUFFICES ASSUME NEW a \in Seats, NEW b \in Seats
                 PROVE  \A k, l \in DOMAIN applied'[a][b] : k < l => applied'[a][b][k] < applied'[a][b][l]
    BY Zenon DEF AppliedOnce
  <2>2. CASE a = i /\ b \in fin
    BY <1>9, <2>2, Zenon
  <2>3. CASE ~(a = i /\ b \in fin)
    <3>1. applied'[a][b] = applied[a][b]
      BY <1>7, <1>8, <2>3, Zenon
    <3>2. QED
      BY <3>1, Zenon DEF TransferInv, AppliedOnce
  <2>4. QED
    BY <2>2, <2>3, Zenon
<1>11. /\ tx' \in [Seats -> TxRec] /\ rx' \in [Seats -> [Seats -> RxRec]]
       /\ received' \in [Seats -> [Seats -> Receipt]] /\ applied' \in [Seats -> [Seats -> Seq(Nat)]]
  <2>1. tx' \in [Seats -> TxRec]
    BY <1>2, <1>5, Functions, Zenon
  <2>2. rx' \in [Seats -> [Seats -> RxRec]]
    BY <1>2, <1>4, Functions
  <2>3. received' \in [Seats -> [Seats -> Receipt]]
    <3>1. PICK f : /\ f = [j \in Seats |-> IF j \in fin THEN [received[i][j] EXCEPT !.fin = TRUE] ELSE received[i][j]]
                   /\ received' = [received EXCEPT ![i] = f]
      BY <1>2, Zenon
    <3>2. f = received'[i]
      BY <3>1, Functions, Zenon
    <3>3. \A j \in Seats : f[j] \in Receipt
      BY <1>7, <3>2
    <3>4. f \in [Seats -> Receipt]
      BY <3>1, <3>3, ZenonT(30)
    <3>5. QED
      BY <3>1, <3>4, Functions, Zenon
  <2>4. applied' \in [Seats -> [Seats -> Seq(Nat)]]
    <3>1. PICK f : /\ f = [j \in Seats |-> IF j \in fin THEN Append(applied[i][j], rx[i][j].id.serial) ELSE applied[i][j]]
                   /\ applied' = [applied EXCEPT ![i] = f]
      BY <1>2, Zenon
    <3>2. f = applied'[i]
      BY <3>1, Functions, Zenon
    <3>3. \A j \in Seats : f[j] \in Seq(Nat)
      BY <1>7, <1>9, <3>2, Types, Zenon
    <3>4. f \in [Seats -> Seq(Nat)]
      BY <3>1, <3>3, ZenonT(30)
    <3>5. QED
      BY <3>1, <3>4, Functions
  <2>5. QED
    BY <2>1, <2>2, <2>3, <2>4, Zenon

<1>12. Kept
  <2>1. SUFFICES ASSUME NEW a \in Seats, NEW b \in Seats, NEW id \in Ids, Got(a, b, id)
                 PROVE  Got(a, b, id)'
    <3>1. serial' \in [Seats -> Nat] /\ \A k \in Seats : serial[k] <= serial'[k]
      BY <1>2, SerialSame, Zenon
    <3>2. QED
      BY <1>2, <2>1, <3>1 DEF Kept
  <2>2. CASE a # i
    BY <1>2, <1>8, <2>1, <2>2, GotStays, Zenon
  <2>3. CASE a = i
    <3>1. CASE received[i][b].id.serial > id.serial
      BY <1>7, <2>3, <3>1, Zenon DEF Got
    <3>2. CASE Holds(i, b, id)
      <4>1. received'[i][b].id = id
        BY <1>7, <3>2, ZenonT(30) DEF Holds, Unchecked
      <4>2. rx[i][b].ready => rx[i][b].active
        <5>1. ReceiverOK(i, b)
          BY Holding, Zenon
        <5>2. QED
          BY <5>1, Zenon DEF ReceiverOK
      <4>3. \/ received'[i][b].fin \/ (rx'[i][b].id = id /\ rx'[i][b].ready)
            \/ Unchecked(i, b, id)'
        <5>1. CASE b \in fin
          BY <1>7, <5>1, Zenon
        <5>2. CASE b \notin fin
          <6>1. CASE Unchecked(i, b, id)
            <7>1. rx'[i][b] = NoRx \/ rx'[i][b] = rx[i][b]
              BY <1>7, Zenon
            <7>2. QED
              BY <1>2, <1>4, <6>1, <7>1, Zenon DEF Unchecked, Chunks
          <6>2. CASE ~Unchecked(i, b, id)
            BY <1>3, <1>7, <3>2, <4>2, <5>2, <6>2, Zenon DEF Holds
          <6>3. QED
            BY <6>1, <6>2, Zenon
        <5>3. QED
          BY <5>1, <5>2, Zenon
      <4>4. QED
        BY <2>3, <4>1, <4>3, ZenonT(30) DEF Got, Holds, Unchecked
    <3>3. QED
      BY <2>1, <2>3, <3>1, <3>2, Zenon DEF Got
  <2>4. QED
    BY <2>2, <2>3, Zenon
<1>13. ASSUME NEW j \in Seats
       PROVE  ReceiverOK(i, j)'
  <2>1. ReceiverOK(i, j) /\ received[i][j].id.serial \in Nat
    BY Types, Holding, Zenon DEF Receipt, Ids
  <2>2. received'[i][j].id = received[i][j].id /\ received'[i][j].id.serial <= serial'[j]
    BY <1>2, <1>7, <2>1, Zenon DEF ReceiverOK
  <2>3. ~(0 >= calls'.chunks)
    BY Types, SMTT(30) DEF Chunks
  <2>4. /\ rx'[i][j].ready => rx'[i][j].active
        /\ rx'[i][j].active /\ rx'[i][j].cont >= calls'.chunks => rx'[i][j].ready
        /\ rx'[i][j].bad # {} => rx'[i][j].id \in damaged'
    <3>1. CASE j \in sources
      BY <1>4, <1>7, <3>1, SMTT(30)
    <3>2. CASE j \notin sources
      <4>1. rx'[i][j] = rx[i][j]
        BY <1>7, <3>2, Zenon
      <4>2. QED
        BY <1>2, <2>1, <4>1, SMTT(30) DEF ReceiverOK, Chunks
    <3>3. QED
      BY <3>1, <3>2, ZenonT(30)
  <2>5. rx'[i][j].active => rx'[i][j].id = received'[i][j].id /\ ~received'[i][j].fin
    <3>1. CASE j \in sources
      BY <1>4, <1>7, <3>1, Zenon
    <3>2. CASE j \notin sources
      <4>1. rx'[i][j] = rx[i][j] /\ received'[i][j] = received[i][j]
        BY <1>3, <1>7, <3>2, ZenonT(30)
      <4>2. QED
        BY <2>1, <4>1, Zenon DEF ReceiverOK
    <3>3. QED
      BY <3>1, <3>2
  <2>6. \A k \in DOMAIN applied'[i][j] :
          /\ applied'[i][j][k] <= received'[i][j].id.serial
          /\ ~received'[i][j].fin => applied'[i][j][k] < received'[i][j].id.serial
    <3>1. CASE j \in fin
      BY <1>7, <1>9, <3>1, Zenon
    <3>2. CASE j \notin fin
      BY <1>7, <2>1, <3>2, Zenon DEF ReceiverOK
    <3>3. QED
      BY <3>1, <3>2, Zenon
  <2>7. QED
    BY <2>2, <2>4, <2>5, <2>6, ZenonT(30) DEF ReceiverOK, Chunks
<1>14. \A a, b \in Seats : ReceiverOK(a, b)' \/ ( /\ rx'[a][b] = rx[a][b]
                                                  /\ received'[a][b] = received[a][b]
                                                  /\ applied'[a][b] = applied[a][b] )
  BY <1>8, <1>13, ZenonT(30)
<1>15. \A k \in Seats : SenderOK(k)' \/ (tx'[k] = tx[k] /\ serial'[k] = serial[k])
  <2>1. CASE own
    <3>1. tx'[i] = NoTx /\ \A k \in Seats \ {i} : tx'[k] = tx[k]
      BY <1>2, <2>1, Functions
    <3>2. SenderOK(i)'
      BY <1>5, <3>1, Zenon DEF SenderOK
    <3>3. QED
      BY <1>2, <3>1, <3>2, Zenon
  <2>2. CASE ~own
    BY <1>2, <2>2, Functions, SMTT(30)
  <2>3. QED
    BY <2>1, <2>2
<1>16. QED
  BY <1>2, <1>10, <1>11, <1>12, <1>14, <1>15, OnlyChanges, Zenon

-----------------------------------------------------------------------------
(* The theorems. *)

StateIInv == TransferInv /\ StallInv

(* A session starts without transfers, probes or stalls. *)
LEMMA StateStarts ==
    ASSUME StateInit
    PROVE  StateIInv
<1>1. calls \in CallRec /\ Chunks \in Nat \ {0}
  BY StateAssumption, SMTT(30) DEF StateInit, CallRec, Chunks
<1>2. 0 \in Seats
  BY StateAssumption DEF Seats
<1>3. /\ NoTx \in TxRec /\ ~NoTx.active /\ ~NoTx.ready
      /\ NoRx \in RxRec /\ ~NoRx.active /\ ~NoRx.ready /\ NoRx.bad = {} /\ NoRx.cont = 0
      /\ NoReceipt \in Receipt /\ NoReceipt.id.serial = 0
      /\ IsProbe(NoProbe) /\ ~NoProbe.active
  BY <1>2, ZenonT(30) DEF NoTx, TxRec, NoRx, RxRec, NoReceipt, Receipt, NoId, Ids, Ops, IsProbe, NoProbe
<1>4. TransferTypes
  BY <1>1, <1>3, SMTT(30) DEF StateInit, TransferTypes
<1>5. \A i \in Seats : SenderOK(i)
  BY <1>3, Zenon DEF StateInit, SenderOK
<1>6. ASSUME NEW i \in Seats, NEW j \in Seats
      PROVE  ReceiverOK(i, j)
  <2>1. rx[i][j] = NoRx /\ received[i][j] = NoReceipt /\ serial[j] = 0 /\ applied[i][j] = <<>>
    BY DEF StateInit
  <2>2. received[i][j].id.serial <= serial[j] /\ DOMAIN applied[i][j] = {}
    BY <1>3, <2>1
  <2>3. QED
    BY <1>3, <2>1, <2>2, Zenon DEF ReceiverOK
<1>7. AppliedOnce
  BY DEF StateInit, AppliedOnce
<1>8. \A i \in Seats : ~AnyActive(i)
  BY <1>3, Zenon DEF StateInit, AnyActive
<1>9. StallInv
  BY <1>3, <1>8, Zenon DEF StateInit, StallInv, StallMatches
<1>10. QED
  BY <1>4, <1>5, <1>6, <1>7, <1>9, Zenon DEF StateInit, StateIInv, TransferInv

(* Every step keeps the invariant. *)
LEMMA StateSteps ==
    ASSUME StateIInv, [StateNext]_stateVars
    PROVE  StateIInv'
<1>1. TransferInv /\ StallInv /\ TransferTypes /\ calls \in CallRec
  BY Types, Zenon DEF StateIInv, TransferInv
<1>2. CASE UNCHANGED stateVars
  <2>1. UNCHANGED <<tx, rx, received, stall, serial, probe, net, calls, applied, damaged>>
    BY <1>2 DEF stateVars
  <2>2. Kept
    BY <1>1, <2>1, KeptBySending, Zenon
  <2>3. TransferInv'
    BY <1>1, <2>1, <2>2, OnlyChanges, Functions, AppliedSame, Zenon
  <2>4. StallInv'
    BY <1>1, <2>1, SameActive, StallStutter, Zenon
  <2>5. QED
    BY <2>3, <2>4, Zenon DEF StateIInv
<1>3. ASSUME NEW i \in Seats, NEW op \in HostOps \cup {"MEMCARD"}, NEW to \in 0 .. MaxChunks,
             StateBegin(i, op, to)
      PROVE  StateIInv'
  BY <1>1, <1>3, TransferBegin, StallBegin, Zenon DEF StateIInv
<1>4. ASSUME NEW i \in Seats, NEW late, NEW again, NEW to \in 0 .. MaxChunks, DriveSender(i, late, again, to)
      PROVE  StateIInv'
  BY <1>1, <1>4, TransferDrive, StallTransfer, Zenon DEF StateIInv
<1>5. ASSUME NEW i \in Seats, NEW r \in Seats, DropPeer(i, r)
      PROVE  StateIInv'
  BY <1>1, <1>5, TransferDrop, StallDrop, Zenon DEF StateIInv
<1>6. ASSUME NEW i \in Seats, TakeReady(i) \/ DriveProbe(i)
      PROVE  StateIInv'
  BY <1>1, <1>6, TransferElsewhere, StallTransfer, Zenon DEF StateIInv
<1>7. ASSUME NEW i \in Seats, StateFinish(i)
      PROVE  StateIInv'
  <2>1. calls' = calls /\ Close(i, FinishTarget(i) = Own, {FinishTarget(i)} \cap Seats)
    BY <1>7, Zenon DEF StateFinish
  <2>2. QED
    BY <1>1, <2>1, TransferClose, StallClose DEF StateIInv
<1>8. ASSUME NEW i \in Seats, NEW own, NEW sources, StateAbort(i, own, sources)
      PROVE  StateIInv'
  <2>1. calls' \in CallRec /\ calls'.chunks = calls.chunks
    BY <1>1, <1>8, CallsKept, Zenon
  <2>2. Close(i, own, sources)
    BY <1>8, Zenon DEF StateAbort
  <2>3. QED
    BY <1>1, <2>1, <2>2, TransferClose, StallClose, Zenon DEF StateIInv
<1>9. ASSUME \/ \E i \in Seats, match \in BOOLEAN : ProbeReply(i, match)
             \/ \E gen \in Gens : StateProbe(gen)
             \/ ProbeFinish
             \/ \E i \in Seats, m \in net : OnProbe(i, m) \/ OnDone(i, m)
             \/ \E m \in net : OnReply(m)
      PROVE  StateIInv'
  BY <1>1, <1>9, TransferElsewhere, StallProbe, Zenon DEF StateIInv
<1>10. ASSUME NEW m \in net, Lose(m) \/ Damage(m)
       PROVE  StateIInv'
  <2>1. \E i \in Seats : TRUE
    BY StateAssumption DEF Seats
  <2>2. QED
    BY <1>1, <1>10, <2>1, TransferElsewhere, StallTransfer DEF StateIInv
<1>11. ASSUME NEW i \in Seats, NEW m \in net, Receive(i, m)
       PROVE  StateIInv'
  <2>1. CASE OnBegin(i, m)
    BY <1>1, <2>1, TransferOnBegin, StallOnBegin, Zenon DEF StateIInv
  <2>2. CASE OnBeginAgain(i, m) \/ OnChunkAgain(i, m)
    BY <1>1, <2>2, TransferAgain, StallTransfer, Zenon DEF StateIInv
  <2>3. CASE OnChunk(i, m)
    BY <1>1, <2>3, TransferChunk, StallTransfer, Zenon DEF StateIInv
  <2>4. CASE OnAck(i, m)
    BY <1>1, <2>4, TransferAck, StallTransfer, Zenon DEF StateIInv
  <2>5. CASE OnProbe(i, m) \/ OnDone(i, m) \/ OnReply(m)
    BY <1>9, <2>5, Zenon
  <2>6. QED
    BY <1>11, <2>1, <2>2, <2>3, <2>4, <2>5, Zenon DEF Receive
<1>12. QED
  BY <1>2, <1>3, <1>4, <1>5, <1>6, <1>7, <1>8, <1>9, <1>10, <1>11, ZenonT(30) DEF StateNext

(* A sender that counts its transfer as received is right. *)
LEMMA SentIsReceived ==
    ASSUME TransferInv
    PROVE  SentMeansReceived
<1>1. SUFFICES ASSUME NEW i \in Seats, tx[i].ready, NEW r \in tx[i].expect
               PROVE  Holds(r, i, tx[i].id)
  BY Zenon DEF SentMeansReceived
<1>2. /\ tx[i].active /\ tx[i].ack[r] >= Chunks /\ tx[i].id = XferId(i, serial[i])
      /\ Got(r, i, tx[i].id)
  BY <1>1, Holding, Zenon DEF SenderOK
<1>3. r \in Seats /\ tx[i].id.serial = serial[i] /\ serial[i] \in Nat
  BY <1>1, <1>2, Types, SMTT(30) DEF TxRec, XferId
<1>4. received[r][i].id.serial <= serial[i] /\ received[r][i].id.serial \in Nat
  BY <1>3, Types, Holding, Zenon DEF ReceiverOK, Receipt, Ids
<1>5. QED
  BY <1>2, <1>3, <1>4, SMTT(30) DEF Got

(* The invariant is inductive. *)
THEOREM StateInvariance == StateSpec => []StateIInv
<1>1. StateInit => StateIInv
  BY StateStarts
<1>2. StateIInv /\ [StateNext]_stateVars => StateIInv'
  BY StateSteps
<1>3. QED
  BY <1>1, <1>2, PTL DEF StateSpec

(* state_take_ready on the sender reports a transfer only when every       *)
(* receiver it still expects has the whole, checked blob, or had it and    *)
(* finished with it.                                                       *)
THEOREM SentAndReceived == StateSpec => []SentMeansReceived
<1>1. StateIInv => SentMeansReceived
  BY SentIsReceived, Zenon DEF StateIInv
<1>2. QED
  BY <1>1, StateInvariance, PTL

(* state_received: a receiver applies the transfers of a source in order   *)
(* and none twice, whatever arrives late or again.                         *)
THEOREM NothingAppliedTwice == StateSpec => []AppliedOnce
<1>1. StateIInv => AppliedOnce
  BY DEF StateIInv, TransferInv
<1>2. QED
  BY <1>1, StateInvariance, PTL

(* state_stall_sim, kept by hand in nine places, is set while a transfer   *)
(* is open and clear when neither a transfer nor a probe is.               *)
THEOREM StallIsRight == StateSpec => []StallMatches
<1>1. StateIInv => StallMatches
  BY DEF StateIInv, StallInv
<1>2. QED
  BY <1>1, StateInvariance, PTL
=============================================================================
