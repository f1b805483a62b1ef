---------------------------- MODULE QueuesProofs ----------------------------
(***************************************************************************)
(* Proofs about the inbound queues for every number of seats, every queue  *)
(* length, every set of datagrams and every order of their arrival.        *)
(***************************************************************************)
EXTENDS ControlQueues, FiniteSetTheorems, TLAPS

CtlSpec == CtlInit /\ [][CtlNext]_cq

-----------------------------------------------------------------------------
(* On the watermarks in play rb_epoch_before is a strict order, so taking  *)
(* the later of three does not depend on the grouping.                     *)
LEMMA LatestAssoc ==
    ASSUME NEW a \in Watermarks, NEW b \in Watermarks, NEW d \in Watermarks
    PROVE  Latest(Latest(a, b), d) = Latest(a, Latest(b, d))
  BY WatermarksOrdered, Zenon DEF Latest


-----------------------------------------------------------------------------
(* An episode queue: as long as it may be, of one kind of datagram, and no *)
(* two entries with one identity.                                          *)
CtlKinds == {"SYNC", "SEAL", "BASE", "POST"}
CtlQueueOK(o, q) ==
    /\ q \in Seq(Datagram) /\ Len(q) <= CtrlCap
    /\ \A k \in DOMAIN q : q[k].op = o
    /\ \A j, k \in DOMAIN q : SameIdentity(q[j], q[k]) => j = k

(* What becomes of the entries of q when the queue turns into r. *)
Survives(o, e, r) ==
    \/ \E j \in DOMAIN r : SameIdentity(r[j], e)
    \/ o # "SYNC" /\ EpochBefore(e.epoch, r[Len(r)].epoch)
Kept(o, q, r) == \A k \in DOMAIN q : Survives(o, q[k], r)

(* Identity is an equivalence among datagrams of one kind. *)
LEMMA SameIdentityIs ==
    ASSUME NEW a, NEW b, NEW c, a.op = b.op, b.op = c.op
    PROVE  /\ SameIdentity(a, a)
           /\ SameIdentity(a, b) => SameIdentity(b, a)
           /\ SameIdentity(a, b) /\ SameIdentity(b, c) => SameIdentity(a, c)
  BY Zenon DEF SameIdentity

LEMMA TailIs ==
    ASSUME NEW q \in Seq(Datagram), q # <<>>
    PROVE  /\ Tail(q) \in Seq(Datagram) /\ Len(Tail(q)) = Len(q) - 1 /\ Len(q) \in Nat \ {0}
           /\ DOMAIN Tail(q) = 1 .. Len(q) - 1 /\ DOMAIN q = 1 .. Len(q)
           /\ \A k \in DOMAIN Tail(q) : k \in Nat /\ k + 1 \in DOMAIN q /\ Tail(q)[k] = q[k + 1]
           /\ Head(q) = q[1] /\ 1 \in DOMAIN q
<1>1. Len(q) \in Nat \ {0} /\ DOMAIN q = 1 .. Len(q)
  BY SMT
<1>2. Tail(q) \in Seq(Datagram) /\ Len(Tail(q)) = Len(q) - 1
  BY <1>1, SMT
<1>3. DOMAIN Tail(q) = 1 .. Len(q) - 1
  BY <1>1, <1>2, SMT
<1>4. \A k \in DOMAIN Tail(q) : k \in Nat /\ k + 1 \in DOMAIN q /\ Tail(q)[k] = q[k + 1]
  BY <1>1, <1>3, SMT
<1>5. Head(q) = q[1] /\ 1 \in DOMAIN q
  BY <1>1, SMT
<1>6. QED
  BY <1>1, <1>2, <1>3, <1>4, <1>5, Zenon

LEMMA AppendIs ==
    ASSUME NEW q \in Seq(Datagram), NEW m \in Datagram
    PROVE  /\ Append(q, m) \in Seq(Datagram) /\ Len(Append(q, m)) = Len(q) + 1
           /\ Len(q) \in Nat /\ DOMAIN Append(q, m) = DOMAIN q \cup {Len(q) + 1}
           /\ Len(q) + 1 \notin DOMAIN q /\ Append(q, m)[Len(q) + 1] = m
           /\ \A k \in DOMAIN q : Append(q, m)[k] = q[k]
<1>1. Len(q) \in Nat /\ DOMAIN q = 1 .. Len(q)
  BY SMT
<1>2. Append(q, m) \in Seq(Datagram) /\ Len(Append(q, m)) = Len(q) + 1
  BY <1>1, SMT
<1>3. DOMAIN Append(q, m) = 1 .. Len(q) + 1
  BY <1>1, <1>2, SMT
<1>4. DOMAIN Append(q, m) = DOMAIN q \cup {Len(q) + 1} /\ Len(q) + 1 \notin DOMAIN q
  BY <1>1, <1>3, SMT
<1>5. Append(q, m)[Len(q) + 1] = m
  BY <1>1, SMT
<1>6. \A k \in DOMAIN q : Append(q, m)[k] = q[k]
  BY <1>1, SMT
<1>7. QED
  BY <1>1, <1>2, <1>4, <1>5, <1>6, Zenon

(* Taking, or shedding, the oldest entry. *)
LEMMA CtlTail ==
    ASSUME NEW o, NEW q, CtlQueueOK(o, q), q # <<>>
    PROVE  /\ CtlQueueOK(o, Tail(q)) /\ Len(Tail(q)) < CtrlCap
           /\ \A k \in DOMAIN q : k = 1 \/ \E j \in DOMAIN Tail(q) : Tail(q)[j] = q[k]
<1>1. PICK t : t = Tail(q)
  BY Zenon
<1>2. q \in Seq(Datagram)
  BY Zenon DEF CtlQueueOK
<1>3. /\ t \in Seq(Datagram) /\ Len(t) = Len(q) - 1 /\ Len(q) \in Nat \ {0}
      /\ DOMAIN t = 1 .. Len(q) - 1 /\ DOMAIN q = 1 .. Len(q)
      /\ \A k \in DOMAIN t : k \in Nat /\ k + 1 \in DOMAIN q /\ t[k] = q[k + 1]
  BY <1>1, <1>2, TailIs, Zenon
<1>4. Len(t) < CtrlCap /\ Len(t) <= CtrlCap
  <2>1. Len(q) <= CtrlCap
    BY Zenon DEF CtlQueueOK
  <2>2. QED
    BY <1>3, <2>1, CapAssumption, SMT
<1>5. \A k \in DOMAIN t : t[k].op = o
  BY <1>3, Zenon DEF CtlQueueOK
<1>6. ASSUME NEW j \in DOMAIN t, NEW k \in DOMAIN t, SameIdentity(t[j], t[k])
      PROVE  j = k
  <2>1. j + 1 = k + 1
    BY <1>3, <1>6, Zenon DEF CtlQueueOK
  <2>2. QED
    BY <1>3, <2>1, SMT
<1>7. ASSUME NEW k \in DOMAIN q, k # 1
      PROVE  \E j \in DOMAIN t : t[j] = q[k]
  <2>1. k - 1 \in DOMAIN t /\ (k - 1) + 1 = k
    BY <1>3, <1>7, SMT
  <2>2. t[k - 1] = q[k]
    BY <1>3, <2>1, Zenon
  <2>3. QED
    BY <2>1, <2>2, Zenon
<1>8. QED
  BY <1>1, <1>3, <1>4, <1>5, <1>6, <1>7, Zenon DEF CtlQueueOK

(* A datagram of which the queue has no copy goes behind the others. *)
LEMMA CtlAppend ==
    ASSUME NEW o, NEW q, CtlQueueOK(o, q), NEW m \in Datagram, m.op = o,
           \A k \in DOMAIN q : ~SameIdentity(q[k], m), Len(q) < CtrlCap
    PROVE  CtlQueueOK(o, Append(q, m))
<1>1. PICK r : r = Append(q, m)
  BY Zenon
<1>2. /\ r \in Seq(Datagram) /\ Len(r) = Len(q) + 1 /\ Len(q) \in Nat
      /\ DOMAIN r = DOMAIN q \cup {Len(r)} /\ Len(r) \notin DOMAIN q
      /\ r[Len(r)] = m /\ \A k \in DOMAIN q : r[k] = q[k]
  <2>1. q \in Seq(Datagram)
    BY Zenon DEF CtlQueueOK
  <2>2. /\ r \in Seq(Datagram) /\ Len(r) = Len(q) + 1 /\ Len(q) \in Nat
        /\ DOMAIN r = DOMAIN q \cup {Len(q) + 1} /\ Len(q) + 1 \notin DOMAIN q
        /\ r[Len(q) + 1] = m /\ \A k \in DOMAIN q : r[k] = q[k]
    BY <1>1, <2>1, AppendIs, SMT
  <2>3. QED
    BY <2>2, Zenon
<1>3. Len(r) <= CtrlCap
  BY <1>2, CapAssumption, SMT
<1>4. \A k \in DOMAIN r : r[k].op = o
  BY <1>2, Zenon DEF CtlQueueOK
<1>5. ASSUME NEW j \in DOMAIN r, NEW k \in DOMAIN r, SameIdentity(r[j], r[k])
      PROVE  j = k
  <2>1. CASE j \in DOMAIN q /\ k \in DOMAIN q
    BY <1>2, <1>5, <2>1, Zenon DEF CtlQueueOK
  <2>2. CASE j = Len(r) /\ k \in DOMAIN q
    <3>1. SameIdentity(m, q[k]) /\ q[k].op = o
      BY <1>2, <1>5, <2>2, Zenon DEF CtlQueueOK
    <3>2. SameIdentity(q[k], m)
      BY <3>1, SameIdentityIs, Zenon
    <3>3. QED
      BY <2>2, <3>2, Zenon
  <2>3. CASE j \in DOMAIN q /\ k = Len(r)
    BY <1>2, <1>5, <2>3, Zenon
  <2>4. QED
    BY <1>2, <2>1, <2>2, <2>3, Zenon
<1>6. QED
  BY <1>1, <1>2, <1>3, <1>4, <1>5, Zenon DEF CtlQueueOK


(* A sequence rewritten entry by entry. *)
LEMMA MapIs ==
    ASSUME NEW q \in Seq(Datagram), NEW r, r \in [DOMAIN q -> Datagram]
    PROVE  r \in Seq(Datagram) /\ Len(r) = Len(q) /\ DOMAIN r = DOMAIN q
<1>1. Len(q) \in Nat /\ DOMAIN q = 1 .. Len(q)
  BY SMT
<1>2. r \in [1 .. Len(q) -> Datagram]
  BY <1>1, Zenon
<1>3. QED
  BY <1>1, <1>2, SMT

(* A retransmit is merged into the copy that waits. *)
LEMMA CtlCoalesce ==
    ASSUME NEW o, NEW q, CtlQueueOK(o, q), NEW m \in Datagram, m.op = o
    PROVE  CtlQueueOK(o, Coalesced(q, m)) /\ Kept(o, q, Coalesced(q, m))
<1>1. PICK r : r = Coalesced(q, m)
  BY Zenon
<1>2. q \in Seq(Datagram) /\ \A k \in DOMAIN q : q[k] \in Datagram
  BY SMT DEF CtlQueueOK
<1>3. \A k \in DOMAIN q : q[k].op = o
  BY Zenon DEF CtlQueueOK
<1>4. /\ DOMAIN r = DOMAIN q
      /\ \A k \in DOMAIN q : r[k] = q[k] \/ (r[k] = m /\ SameIdentity(q[k], m))
  BY <1>1, Zenon DEF Coalesced, Copies
<1>5. r \in [DOMAIN q -> Datagram]
  BY <1>1, <1>2, Zenon DEF Coalesced
<1>6. r \in Seq(Datagram) /\ Len(r) = Len(q)
  BY <1>2, <1>5, MapIs, Zenon
<1>7. \A k \in DOMAIN q : r[k].op = o
  BY <1>3, <1>4, Zenon
<1>8. \A k \in DOMAIN q : SameIdentity(r[k], q[k]) /\ SameIdentity(q[k], r[k])
  BY <1>3, <1>4, <1>7, SameIdentityIs, Zenon
<1>9. ASSUME NEW j \in DOMAIN r, NEW k \in DOMAIN r, SameIdentity(r[j], r[k])
      PROVE  j = k
  <2>1. /\ SameIdentity(q[j], r[j]) /\ SameIdentity(r[j], r[k]) /\ SameIdentity(r[k], q[k])
        /\ q[j].op = o /\ r[j].op = o /\ r[k].op = o /\ q[k].op = o
    BY <1>3, <1>4, <1>7, <1>8, <1>9, Zenon
  <2>2. SameIdentity(q[j], r[k])
    BY <2>1, SameIdentityIs, Zenon
  <2>3. SameIdentity(q[j], q[k])
    BY <2>1, <2>2, SameIdentityIs, Zenon
  <2>4. QED
    BY <1>4, <2>3, Zenon DEF CtlQueueOK
<1>10. Len(r) <= CtrlCap
  BY <1>6, Zenon DEF CtlQueueOK
<1>11. CtlQueueOK(o, r)
  BY <1>4, <1>6, <1>7, <1>9, <1>10, Zenon DEF CtlQueueOK
<1>12. Kept(o, q, r)
  BY <1>4, <1>8, Zenon DEF Kept, Survives
<1>13. QED
  BY <1>1, <1>11, <1>12, Zenon

(* What handle_decoded does to an episode queue: only an entry of an older *)
(* epoch makes room, and not in the queue of RB_SYNC.                      *)
LEMMA QueuedCtlOK ==
    ASSUME NEW o, NEW q, CtlQueueOK(o, q), NEW m \in Datagram, m.op = o
    PROVE  CtlQueueOK(o, QueuedCtl(q, m)) /\ Kept(o, q, QueuedCtl(q, m))
<1>1. \A k \in DOMAIN q : SameIdentity(q[k], q[k])
  BY SameIdentityIs, Zenon
<1>2. CASE Copies(q, m) # {}
  <2>1. QueuedCtl(q, m) = Coalesced(q, m)
    BY <1>2, Zenon DEF QueuedCtl
  <2>2. QED
    BY <2>1, CtlCoalesce, Zenon
<1>3. CASE Copies(q, m) = {}
  <2>1. PICK r : r = IF m.op = "SYNC" THEN q ELSE Shed(q, m)
    BY Zenon
  <2>2. QueuedCtl(q, m) = IF Len(r) < CtrlCap THEN Append(r, m) ELSE r
    BY <1>3, <2>1, Zenon DEF QueuedCtl
  <2>3. \A k \in DOMAIN q : ~SameIdentity(q[k], m)
    BY <1>3, Zenon DEF Copies
  <2>4. q \in Seq(Datagram) /\ CtrlCap \in Nat \ {0}
    BY CapAssumption, Zenon DEF CtlQueueOK
  <2>5. CASE r = q
    <3>1. CASE Len(q) < CtrlCap
      <4>1. QueuedCtl(q, m) = Append(q, m)
        BY <2>2, <2>5, <3>1, Zenon
      <4>2. \A k \in DOMAIN q : k \in DOMAIN Append(q, m) /\ Append(q, m)[k] = q[k]
        BY <2>4, AppendIs, SMT
      <4>3. Kept(o, q, Append(q, m))
        BY <1>1, <4>2, Zenon DEF Kept, Survives
      <4>4. QED
        BY <2>3, <3>1, <4>1, <4>3, CtlAppend, Zenon
    <3>2. CASE ~(Len(q) < CtrlCap)
      BY <1>1, <2>2, <2>5, <3>2, Zenon DEF Kept, Survives
    <3>3. QED
      BY <3>1, <3>2, Zenon
  <2>6. CASE r # q
    <3>1. /\ o # "SYNC" /\ r = Tail(q) /\ Len(q) >= CtrlCap
          /\ EpochBefore(Head(q).epoch, m.epoch)
      BY <2>1, <2>6, Zenon DEF Shed
    <3>2. q # <<>>
      BY <2>4, <3>1, SMT
    <3>3. /\ CtlQueueOK(o, r) /\ Len(r) < CtrlCap
          /\ \A k \in DOMAIN q : k = 1 \/ \E j \in DOMAIN r : r[j] = q[k]
      BY <3>1, <3>2, CtlTail, Zenon
    <3>4. QueuedCtl(q, m) = Append(r, m)
      BY <2>2, <3>3, Zenon
    <3>5. Head(q) = q[1] /\ \A j \in DOMAIN r : \E k \in DOMAIN q : r[j] = q[k]
      BY <2>4, <3>1, <3>2, TailIs, Zenon
    <3>6. \A j \in DOMAIN r : ~SameIdentity(r[j], m)
      BY <2>3, <3>5, Zenon
    <3>7. r \in Seq(Datagram)
      BY <3>3, Zenon DEF CtlQueueOK
    <3>8. PICK s : s = Append(r, m)
      BY Zenon
    <3>9. /\ s[Len(s)] = m
          /\ \A j \in DOMAIN r : j \in DOMAIN s /\ s[j] = r[j]
      BY <3>7, <3>8, AppendIs, SMT
    <3>10. Kept(o, q, s)
      <4> SUFFICES ASSUME NEW k \in DOMAIN q PROVE Survives(o, q[k], s)
        BY Zenon DEF Kept
      <4>1. CASE k = 1
        BY <3>1, <3>5, <3>9, <4>1, Zenon DEF Survives
      <4>2. CASE k # 1
        <5>1. PICK j \in DOMAIN r : r[j] = q[k]
          BY <3>3, <4>2, Zenon
        <5>2. j \in DOMAIN s /\ SameIdentity(s[j], q[k])
          BY <1>1, <3>9, <5>1, Zenon
        <5>3. QED
          BY <5>2, Zenon DEF Survives
      <4>3. QED
        BY <4>1, <4>2, Zenon
    <3>11. QED
      BY <3>3, <3>4, <3>6, <3>8, <3>10, CtlAppend, Zenon
  <2>7. QED
    BY <2>5, <2>6, Zenon
<1>4. QED
  BY <1>2, <1>3, Zenon


-----------------------------------------------------------------------------
(* A queue that drops its oldest holds the latest of what arrived. *)
FifoOK(q, log) ==
    /\ q \in Seq(Datagram) /\ log \in Seq(Datagram) /\ Len(q) <= Len(log)
    /\ \A k \in DOMAIN q : q[k] = log[(Len(log) - Len(q)) + k]

LEMMA FifoTail ==
    ASSUME NEW q, NEW log, FifoOK(q, log), q # <<>>
    PROVE  FifoOK(Tail(q), log)
<1>1. q \in Seq(Datagram) /\ log \in Seq(Datagram) /\ Len(q) <= Len(log)
  BY Zenon DEF FifoOK
<1>2. PICK t : t = Tail(q)
  BY Zenon
<1>3. /\ t \in Seq(Datagram) /\ Len(t) = Len(q) - 1 /\ Len(q) \in Nat \ {0}
      /\ \A k \in DOMAIN t : k \in Nat /\ k + 1 \in DOMAIN q /\ t[k] = q[k + 1]
  BY <1>1, <1>2, TailIs, Zenon
<1>4. Len(log) \in Nat
  BY <1>1, SMT
<1>5. Len(t) <= Len(log)
  BY <1>1, <1>3, <1>4, SMT
<1>6. ASSUME NEW k \in DOMAIN t
      PROVE  t[k] = log[(Len(log) - Len(t)) + k]
  <2>1. t[k] = log[(Len(log) - Len(q)) + (k + 1)]
    BY <1>3, Zenon DEF FifoOK
  <2>2. (Len(log) - Len(q)) + (k + 1) = (Len(log) - Len(t)) + k
    BY <1>3, <1>4, SMT
  <2>3. QED
    BY <2>1, <2>2, Zenon
<1>7. QED
  BY <1>1, <1>2, <1>3, <1>5, <1>6, Zenon DEF FifoOK

LEMMA FifoAppend ==
    ASSUME NEW q, NEW log, FifoOK(q, log), NEW m \in Datagram
    PROVE  FifoOK(Append(q, m), Append(log, m))
<1>1. q \in Seq(Datagram) /\ log \in Seq(Datagram) /\ Len(q) <= Len(log)
  BY Zenon DEF FifoOK
<1>2. PICK r : r = Append(q, m)
  BY Zenon
<1>3. PICK l : l = Append(log, m)
  BY Zenon
<1>4. /\ r \in Seq(Datagram) /\ Len(r) = Len(q) + 1 /\ Len(q) \in Nat
      /\ DOMAIN r = DOMAIN q \cup {Len(q) + 1}
      /\ r[Len(q) + 1] = m /\ \A k \in DOMAIN q : r[k] = q[k]
  BY <1>1, <1>2, AppendIs, SMT
<1>5. /\ l \in Seq(Datagram) /\ Len(l) = Len(log) + 1 /\ Len(log) \in Nat
      /\ l[Len(log) + 1] = m /\ \A k \in DOMAIN log : l[k] = log[k]
  BY <1>1, <1>3, AppendIs, SMT
<1>6. Len(r) <= Len(l)
  BY <1>1, <1>4, <1>5, SMT
<1>7. ASSUME NEW k \in DOMAIN r
      PROVE  r[k] = l[(Len(l) - Len(r)) + k]
  <2>1. CASE k = Len(q) + 1
    <3>1. (Len(l) - Len(r)) + k = Len(log) + 1
      BY <1>4, <1>5, <2>1, SMT
    <3>2. QED
      BY <1>4, <1>5, <2>1, <3>1, Zenon
  <2>2. CASE k \in DOMAIN q
    <3>1. q[k] = log[(Len(log) - Len(q)) + k]
      BY <2>2, Zenon DEF FifoOK
    <3>2. k \in 1 .. Len(q)
      BY <1>1, <2>2, SMT
    <3>3. (Len(log) - Len(q)) + k \in 1 .. Len(log)
      BY <1>1, <1>4, <1>5, <3>2, SMT
    <3>4. (Len(log) - Len(q)) + k \in DOMAIN log
      BY <1>1, <3>3, SMT
    <3>5. (Len(l) - Len(r)) + k = (Len(log) - Len(q)) + k
      BY <1>4, <1>5, <3>2, SMT
    <3>6. QED
      BY <1>4, <1>5, <2>2, <3>1, <3>4, <3>5, Zenon
  <2>3. QED
    BY <1>4, <2>1, <2>2, Zenon
<1>8. QED
  BY <1>2, <1>3, <1>4, <1>5, <1>6, <1>7, Zenon DEF FifoOK

LEMMA QueuedFifoOK ==
    ASSUME NEW q, NEW log, FifoOK(q, log), NEW m \in Datagram
    PROVE  FifoOK(QueuedFifo(q, m), Append(log, m))
<1>1. CASE Len(q) < FcCap
  BY <1>1, FifoAppend, Zenon DEF QueuedFifo
<1>2. CASE ~(Len(q) < FcCap)
  <2>1. q \in Seq(Datagram) /\ FcCap \in Nat \ {0}
    BY CapAssumption, Zenon DEF FifoOK
  <2>2. q # <<>>
    BY <1>2, <2>1, SMT
  <2>3. FifoOK(Tail(q), log)
    BY <2>2, FifoTail, Zenon
  <2>4. QED
    BY <1>2, <2>3, FifoAppend, Zenon DEF QueuedFifo
<1>3. QED
  BY <1>1, <1>2, Zenon

-----------------------------------------------------------------------------
(* The resolved-through queue: an entry per seat, which with what was      *)
(* taken makes up the highest that the seat said.                          *)
ResOK(q, high, told) ==
    /\ q \in Seq(Datagram)
    /\ high \in [Remote -> Watermarks \cup {NoVal}]
    /\ told \in [Remote -> Watermarks \cup {NoVal}]
    /\ \A k \in DOMAIN q : q[k].val \in Watermarks
    /\ \A j, k \in DOMAIN q : q[j].from = q[k].from => j = k
    /\ \A k \in DOMAIN q : high[q[k].from] = Joined(told[q[k].from], q[k].val)
    /\ \A s \in Remote : (\A k \in DOMAIN q : q[k].from # s) => high[s] = told[s]

LEMMA WatermarksAre == Watermarks \subseteq Nat /\ NoVal \notin Watermarks
<1>1. ASSUME NEW w \in Watermarks
      PROVE  w \in Nat
  <2>1. PICK m \in UNION {c.wire : c \in CtlScenarios} : w = m.val
    BY Zenon DEF Watermarks
  <2>2. m \in Datagram
    BY WireAssumption, Zenon
  <2>3. QED
    BY <2>1, <2>2, SMT DEF Datagram
<1>2. NoVal \notin Nat
  BY SMT DEF NoVal
<1>3. QED
  BY <1>1, <1>2, Zenon

(* A seat without an entry finds room: the others have one each at most.   *)
LEMMA ResRoom ==
    ASSUME NEW q \in Seq(Datagram), \A j, k \in DOMAIN q : q[j].from = q[k].from => j = k,
           NEW s \in Remote, \A k \in DOMAIN q : q[k].from # s
    PROVE  Len(q) < CtrlCap
<1>1. Len(q) \in Nat /\ DOMAIN q = 1 .. Len(q)
  BY SMT
<1>2. \A k \in DOMAIN q : q[k].from \in Remote
  <2>1. \A k \in DOMAIN q : q[k] \in Datagram
    BY SMT
  <2>2. QED
    BY <2>1, Zenon DEF Datagram
<1>3. PICK f : f = [k \in DOMAIN q |-> q[k].from]
  BY Zenon
<1>4. f \in [DOMAIN q -> Remote \ {s}]
  BY <1>2, <1>3, Zenon
<1>5. \A j, k \in DOMAIN q : f[j] = f[k] => j = k
  BY <1>3, Zenon
<1>6. f \in Injection(DOMAIN q, Remote \ {s})
  BY <1>4, <1>5, Zenon DEF Injection, IsInjective
<1>7. /\ IsFiniteSet(Remote) /\ IsFiniteSet(Remote \ {s})
      /\ Cardinality(Remote \ {s}) = Cardinality(Remote) - 1
  BY CapAssumption, FS_RemoveElement, Zenon
<1>8. Cardinality(DOMAIN q) <= Cardinality(Remote \ {s})
  BY <1>6, <1>7, FS_Injection, Zenon
<1>9. Cardinality(1 .. Len(q)) = IF 1 > Len(q) THEN 0 ELSE Len(q) - 1 + 1
  <2>1. 1 \in Int /\ Len(q) \in Int
    BY <1>1, SMT
  <2>2. QED
    BY <2>1, FS_Interval, Zenon
<1>10. Cardinality(DOMAIN q) = Len(q)
  BY <1>1, <1>9, SMT
<1>11. Cardinality(Remote) \in Nat
  BY <1>7, FS_CardinalityType, Zenon
<1>12. QED
  BY <1>1, <1>7, <1>8, <1>10, <1>11, CapAssumption, SMT


(* RESOLVED from a seat that has an entry raises it. *)
LEMMA MergedIs ==
    ASSUME NEW e \in Datagram, e.val \in Watermarks, NEW m \in Datagram,
           m.val \in Watermarks
    PROVE  /\ Merged(e, m) \in Datagram /\ Merged(e, m).from = e.from
           /\ Merged(e, m).op = e.op /\ Merged(e, m).val = Latest(e.val, m.val)
           /\ Latest(e.val, m.val) \in Watermarks
<1>1. PICK v : v = Latest(e.val, m.val)
  BY Zenon
<1>2. v \in Watermarks /\ v \in Nat
  BY <1>1, WatermarksAre, Zenon DEF Latest
<1>3. PICK r : r = [e EXCEPT !.val = v]
  BY Zenon
<1>4. r \in Datagram /\ r.from = e.from /\ r.op = e.op /\ r.val = v
  BY <1>2, <1>3, SMT DEF Datagram
<1>5. QED
  BY <1>1, <1>2, <1>3, <1>4, Zenon DEF Merged

LEMMA JoinedIs ==
    ASSUME NEW a \in Watermarks \cup {NoVal}, NEW b \in Watermarks, NEW d \in Watermarks
    PROVE  /\ Joined(a, b) \in Watermarks
           /\ Joined(Joined(a, b), d) = Joined(a, Latest(b, d))
           /\ Joined(a, b) = a \/ Joined(a, b) = b
<1>1. NoVal \notin Watermarks
  BY WatermarksAre, Zenon
<1>2. CASE a = NoVal
  BY <1>1, <1>2, Zenon DEF Joined, Latest
<1>3. CASE a \in Watermarks
  <2>1. Latest(a, b) \in Watermarks /\ Latest(a, b) # NoVal /\ a # NoVal
    BY <1>1, <1>3, Zenon DEF Latest
  <2>2. Latest(Latest(a, b), d) = Latest(a, Latest(b, d))
    BY <1>3, LatestAssoc, Zenon
  <2>3. Latest(a, b) = a \/ Latest(a, b) = b
    BY Zenon DEF Latest
  <2>4. QED
    BY <2>1, <2>2, <2>3, Zenon DEF Joined
<1>4. QED
  BY <1>2, <1>3, Zenon

LEMMA QueuedResOK ==
    ASSUME NEW q, NEW high, NEW told, ResOK(q, high, told),
           NEW m \in Datagram, m.val \in Watermarks
    PROVE  ResOK(QueuedRes(q, m), [high EXCEPT ![m.from] = Joined(@, m.val)], told)
<1>1. PICK h : h = [high EXCEPT ![m.from] = Joined(@, m.val)]
  BY Zenon
<1>2. /\ q \in Seq(Datagram) /\ \A k \in DOMAIN q : q[k].val \in Watermarks
      /\ high \in [Remote -> Watermarks \cup {NoVal}]
      /\ told \in [Remote -> Watermarks \cup {NoVal}]
  BY Zenon DEF ResOK
<1>3. m.from \in Remote
  BY Zenon DEF Datagram
<1>4. \A k \in DOMAIN q : q[k] \in Datagram
  BY <1>2, SMT
<1>5. \A k \in DOMAIN q : q[k].from \in Remote
  BY <1>4, Zenon DEF Datagram
<1>6. h[m.from] = Joined(high[m.from], m.val) /\ \A s \in Remote : s # m.from => h[s] = high[s]
  BY <1>1, <1>2, <1>3, Zenon
<1>7. Joined(high[m.from], m.val) \in Watermarks
  <2>1. high[m.from] \in Watermarks \cup {NoVal}
    BY <1>2, <1>3, Zenon
  <2>2. QED
    BY <2>1, JoinedIs, Zenon
<1>8. h \in [Remote -> Watermarks \cup {NoVal}]
  BY <1>1, <1>2, <1>7, Zenon
<1> DEFINE mine == {k \in DOMAIN q : q[k].from = m.from}
<1>9. CASE mine # {}
  <2>1. PICK r : r = [k \in DOMAIN q |-> IF k \in mine THEN Merged(q[k], m) ELSE q[k]]
    BY Zenon
  <2>2. QueuedRes(q, m) = r
    BY <1>9, <2>1, Zenon DEF QueuedRes
  <2>3. ASSUME NEW k \in DOMAIN q
        PROVE  /\ r[k] \in Datagram /\ r[k].from = q[k].from /\ r[k].val \in Watermarks
               /\ r[k].val = IF q[k].from = m.from THEN Latest(q[k].val, m.val) ELSE q[k].val
    <3>1. r[k] = IF q[k].from = m.from THEN Merged(q[k], m) ELSE q[k]
      BY <2>1, Zenon
    <3>2. /\ Merged(q[k], m) \in Datagram /\ Merged(q[k], m).from = q[k].from
          /\ Merged(q[k], m).val = Latest(q[k].val, m.val)
          /\ Latest(q[k].val, m.val) \in Watermarks
      BY <1>2, <1>4, MergedIs, Zenon
    <3>3. QED
      BY <1>2, <1>4, <3>1, <3>2, Zenon
  <2>4. DOMAIN r = DOMAIN q
    BY <2>1, Zenon
  <2>5. r \in [DOMAIN q -> Datagram]
    BY <2>1, <2>3, Zenon
  <2>6. r \in Seq(Datagram)
    BY <1>2, <2>5, MapIs, Zenon
  <2>7. \A j, k \in DOMAIN r : r[j].from = r[k].from => j = k
    BY <2>3, <2>4, Zenon DEF ResOK
  <2>8. ASSUME NEW k \in DOMAIN r
        PROVE  h[r[k].from] = Joined(told[r[k].from], r[k].val)
    <3>1. k \in DOMAIN q /\ r[k].from = q[k].from /\ q[k].from \in Remote
      BY <1>5, <2>3, <2>4, Zenon
    <3>2. high[q[k].from] = Joined(told[q[k].from], q[k].val)
      BY <3>1, Zenon DEF ResOK
    <3>3. CASE q[k].from = m.from
      <4>1. told[m.from] \in Watermarks \cup {NoVal} /\ q[k].val \in Watermarks
        BY <1>2, <1>3, <3>1, Zenon
      <4>2. Joined(Joined(told[m.from], q[k].val), m.val)
                = Joined(told[m.from], Latest(q[k].val, m.val))
        BY <4>1, JoinedIs, Zenon
      <4>3. h[m.from] = Joined(Joined(told[m.from], q[k].val), m.val)
        BY <1>6, <3>2, <3>3, Zenon
      <4>4. r[k].val = Latest(q[k].val, m.val)
        BY <2>3, <3>1, <3>3, Zenon
      <4>5. QED
        BY <3>1, <3>3, <4>2, <4>3, <4>4, Zenon
    <3>4. CASE q[k].from # m.from
      BY <1>6, <2>3, <3>1, <3>2, <3>4, Zenon
    <3>5. QED
      BY <3>3, <3>4, Zenon
  <2>9. ASSUME NEW s \in Remote, \A k \in DOMAIN r : r[k].from # s
        PROVE  h[s] = told[s]
    <3>1. \A k \in DOMAIN q : q[k].from # s
      BY <2>3, <2>4, <2>9, Zenon
    <3>2. s # m.from
      BY <1>9, <3>1, Zenon
    <3>3. QED
      BY <1>6, <3>1, <3>2, Zenon DEF ResOK
  <2>10. \A k \in DOMAIN r : r[k].val \in Watermarks
    BY <2>3, <2>4, Zenon
  <2>11. QED
    BY <1>1, <1>2, <1>8, <2>2, <2>6, <2>7, <2>8, <2>9, <2>10, Zenon DEF ResOK
<1>10. CASE mine = {}
  <2>1. \A k \in DOMAIN q : q[k].from # m.from
    BY <1>10, Zenon
  <2>2. Len(q) < CtrlCap
    BY <1>2, <1>3, <2>1, ResRoom, Zenon DEF ResOK
  <2>3. PICK r : r = Append(q, m)
    BY Zenon
  <2>4. QueuedRes(q, m) = r
    BY <1>10, <2>2, <2>3, Zenon DEF QueuedRes
  <2>5. /\ r \in Seq(Datagram) /\ DOMAIN r = DOMAIN q \cup {Len(q) + 1}
        /\ r[Len(q) + 1] = m /\ \A k \in DOMAIN q : r[k] = q[k]
    BY <1>2, <2>3, AppendIs, SMT
  <2>6. \A k \in DOMAIN r : r[k].val \in Watermarks
    BY <1>2, <2>5, Zenon
  <2>7. \A j, k \in DOMAIN r : r[j].from = r[k].from => j = k
    BY <2>1, <2>5, Zenon DEF ResOK
  <2>8. high[m.from] = told[m.from]
    BY <1>3, <2>1, Zenon DEF ResOK
  <2>9. ASSUME NEW k \in DOMAIN r
        PROVE  h[r[k].from] = Joined(told[r[k].from], r[k].val)
    <3>1. CASE k \in DOMAIN q
      <4>1. r[k] = q[k] /\ q[k].from \in Remote /\ q[k].from # m.from
        BY <1>5, <2>1, <2>5, <3>1, Zenon
      <4>2. h[q[k].from] = high[q[k].from]
        BY <1>6, <4>1, Zenon
      <4>3. high[q[k].from] = Joined(told[q[k].from], q[k].val)
        BY <3>1, Zenon DEF ResOK
      <4>4. QED
        BY <4>1, <4>2, <4>3, Zenon
    <3>2. CASE k = Len(q) + 1
      BY <1>6, <2>5, <2>8, <3>2, Zenon
    <3>3. QED
      BY <2>5, <3>1, <3>2, Zenon
  <2>10. ASSUME NEW s \in Remote, \A k \in DOMAIN r : r[k].from # s
         PROVE  h[s] = told[s]
    <3>1. s # m.from /\ \A k \in DOMAIN q : q[k].from # s
      BY <2>5, <2>10, Zenon
    <3>2. QED
      BY <1>6, <3>1, Zenon DEF ResOK
  <2>11. QED
    BY <1>1, <1>2, <1>8, <2>4, <2>5, <2>6, <2>7, <2>9, <2>10, Zenon DEF ResOK
<1>11. QED
  BY <1>9, <1>10, Zenon


(* take_rb_resolved: what is taken becomes what was told. *)
LEMMA TakeResOK ==
    ASSUME NEW q, NEW high, NEW told, ResOK(q, high, told), q # <<>>
    PROVE  ResOK(Tail(q), high, [told EXCEPT ![Head(q).from] = Joined(@, Head(q).val)])
<1>1. /\ q \in Seq(Datagram) /\ \A k \in DOMAIN q : q[k].val \in Watermarks
      /\ high \in [Remote -> Watermarks \cup {NoVal}]
      /\ told \in [Remote -> Watermarks \cup {NoVal}]
  BY Zenon DEF ResOK
<1>2. PICK t : t = Tail(q)
  BY Zenon
<1>3. /\ t \in Seq(Datagram) /\ Len(q) \in Nat \ {0}
      /\ DOMAIN t = 1 .. Len(q) - 1 /\ DOMAIN q = 1 .. Len(q)
      /\ \A k \in DOMAIN t : k \in Nat /\ k + 1 \in DOMAIN q /\ t[k] = q[k + 1]
      /\ Head(q) = q[1] /\ 1 \in DOMAIN q
  BY <1>1, <1>2, TailIs, Zenon
<1>4. PICK s : s = q[1].from
  BY Zenon
<1>5. \A k \in DOMAIN q : q[k] \in Datagram
  BY <1>1, SMT
<1>6. \A k \in DOMAIN q : q[k].from \in Remote
  BY <1>5, Zenon DEF Datagram
<1>7. s \in Remote /\ told[s] \in Watermarks \cup {NoVal} /\ q[1].val \in Watermarks
  BY <1>1, <1>3, <1>4, <1>6, Zenon
<1>8. PICK n : n = [told EXCEPT ![s] = Joined(@, q[1].val)]
  BY Zenon
<1>9. n[s] = Joined(told[s], q[1].val) /\ \A x \in Remote : x # s => n[x] = told[x]
  BY <1>1, <1>7, <1>8, Zenon
<1>10. n \in [Remote -> Watermarks \cup {NoVal}]
  <2>1. Joined(told[s], q[1].val) \in Watermarks
    BY <1>7, JoinedIs, Zenon
  <2>2. QED
    BY <1>1, <1>8, <2>1, Zenon
<1>11. \A k \in DOMAIN t : k + 1 # 1
  BY <1>3, SMT
<1>0. \A j, k \in DOMAIN q : q[j].from = q[k].from => j = k
  BY Zenon DEF ResOK
<1>12. ASSUME NEW k \in DOMAIN t
       PROVE  t[k].from # s
  <2>1. k + 1 \in DOMAIN q /\ 1 \in DOMAIN q /\ t[k] = q[k + 1] /\ k + 1 # 1
    BY <1>3, <1>11, Zenon
  <2>2. q[k + 1].from # q[1].from
    BY <1>0, <2>1, Zenon
  <2>3. QED
    BY <1>4, <2>1, <2>2, Zenon
<1>13. ASSUME NEW j \in DOMAIN t, NEW k \in DOMAIN t, t[j].from = t[k].from
       PROVE  j = k
  <2>1. j + 1 = k + 1
    <3>1. /\ j + 1 \in DOMAIN q /\ t[j] = q[j + 1]
          /\ k + 1 \in DOMAIN q /\ t[k] = q[k + 1]
      BY <1>3, Zenon
    <3>2. q[j + 1].from = q[k + 1].from
      BY <1>13, <3>1, Zenon
    <3>3. QED
      BY <1>0, <3>1, <3>2, Zenon
  <2>2. QED
    BY <1>3, <2>1, SMT
<1>14. \A k \in DOMAIN t : t[k].val \in Watermarks
  BY <1>1, <1>3, Zenon
<1>15. ASSUME NEW k \in DOMAIN t
       PROVE  high[t[k].from] = Joined(n[t[k].from], t[k].val)
  <2>1. k + 1 \in DOMAIN q /\ t[k] = q[k + 1] /\ t[k].from \in Remote
    BY <1>3, <1>6, Zenon
  <2>2. n[t[k].from] = told[t[k].from]
    BY <1>9, <1>12, <2>1, Zenon
  <2>3. high[q[k + 1].from] = Joined(told[q[k + 1].from], q[k + 1].val)
    BY <2>1, Zenon DEF ResOK
  <2>4. QED
    BY <2>1, <2>2, <2>3, Zenon
<1>16. ASSUME NEW x \in Remote, \A k \in DOMAIN t : t[k].from # x
       PROVE  high[x] = n[x]
  <2>1. CASE x = s
    BY <1>3, <1>4, <1>9, <2>1, Zenon DEF ResOK
  <2>2. CASE x # s
    <3>1. ASSUME NEW k \in DOMAIN q
          PROVE  q[k].from # x
      <4>1. CASE k = 1
        BY <1>4, <2>2, <4>1, Zenon
      <4>2. CASE k # 1
        <5>1. k - 1 \in DOMAIN t /\ (k - 1) + 1 = k
          BY <1>3, <4>2, SMT
        <5>2. t[k - 1] = q[k]
          BY <1>3, <5>1, Zenon
        <5>3. QED
          BY <1>16, <5>1, <5>2, Zenon
      <4>3. QED
        BY <4>1, <4>2, Zenon
    <3>2. high[x] = told[x]
      BY <3>1, Zenon DEF ResOK
    <3>3. QED
      BY <1>9, <2>2, <3>2, Zenon
  <2>3. QED
    BY <2>1, <2>2, Zenon
<1>17. ResOK(t, high, n)
  BY <1>1, <1>3, <1>10, <1>13, <1>14, <1>15, <1>16, Zenon DEF ResOK
<1>18. n = [told EXCEPT ![Head(q).from] = Joined(@, Head(q).val)]
  BY <1>3, <1>4, <1>8, Zenon
<1>19. QED
  BY <1>2, <1>17, <1>18, Zenon


-----------------------------------------------------------------------------
(* The inductive invariant. *)
CtlFields ==
    {"wire", "ours", "q", "modset", "ack", "dropped", "lastFrom", "arrivals", "log", "high",
     "told", "owed"}
WireOK(wire) == \A m \in wire : m \in Datagram /\ (m.op = "RES" => m.val \in Watermarks)
CtlInv ==
    /\ CtlFields \subseteq DOMAIN cq
    /\ WireOK(cq.wire)
    /\ cq.q \in [Fifos -> Seq(Datagram)] /\ cq.log \in [Newest -> Seq(Datagram)]
    /\ cq.arrivals \in Nat
    /\ \A o \in CtlKinds : CtlQueueOK(o, cq.q[o])
    /\ \A o \in Newest : FifoOK(cq.q[o], cq.log[o])
    /\ ResOK(cq.q["RES"], cq.high, cq.told)
    /\ cq.ack = cq.owed

(* What a datagram leaves as it was, and what it counts. *)
LEMMA ArriveEffect ==
    ASSUME CtlInv, NEW m, NEW a, a = Arrive(m)
    PROVE  /\ CtlFields \subseteq DOMAIN a /\ a.wire = cq.wire /\ a.q = cq.q /\ a.log = cq.log
           /\ a.high = cq.high /\ a.told = cq.told /\ a.ack = cq.ack /\ a.owed = cq.owed
           /\ a.dropped = cq.dropped /\ a.arrivals = cq.arrivals + 1
<1>1. CtlFields \subseteq DOMAIN cq
  BY Zenon DEF CtlInv
<1>2. a = [cq EXCEPT !.arrivals = cq.arrivals + 1]
  BY Zenon DEF Arrive
<1>3. QED
  BY <1>1, <1>2, Zenon DEF CtlFields

LEMMA RecvCtlEffect ==
    ASSUME CtlInv, NEW m, RecvCtl(m)
    PROVE  /\ CtlFields \subseteq DOMAIN cq' /\ cq'.wire = cq.wire
           /\ cq'.q = [cq.q EXCEPT ![m.op] = QueuedCtl(@, m)] /\ cq'.log = cq.log
           /\ cq'.high = cq.high /\ cq'.told = cq.told /\ cq'.ack = cq.ack
           /\ cq'.owed = cq.owed /\ cq'.arrivals = cq.arrivals + 1
<1>1. PICK a : a = Arrive(m)
  BY Zenon
<1>2. PICK n : n = [cq.q EXCEPT ![m.op] = QueuedCtl(@, m)]
  BY Zenon
<1>3. PICK d : d = cq.dropped + (IF RefusedCtl(cq.q[m.op], m) THEN 1 ELSE 0)
  BY Zenon
<1>4. /\ CtlFields \subseteq DOMAIN a /\ a.wire = cq.wire /\ a.q = cq.q /\ a.log = cq.log
      /\ a.high = cq.high /\ a.told = cq.told /\ a.ack = cq.ack /\ a.owed = cq.owed
      /\ a.dropped = cq.dropped /\ a.arrivals = cq.arrivals + 1
  BY <1>1, ArriveEffect, Zenon
<1>5. cq' = [a EXCEPT !.q = n, !.dropped = d]
  BY <1>1, <1>2, <1>3, <1>4, Zenon DEF RecvCtl
<1>6. QED
  BY <1>2, <1>4, <1>5, Zenon DEF CtlFields

LEMMA RecvFifoEffect ==
    ASSUME CtlInv, NEW m, RecvFifo(m)
    PROVE  /\ CtlFields \subseteq DOMAIN cq' /\ cq'.wire = cq.wire
           /\ cq'.q = [cq.q EXCEPT ![m.op] = QueuedFifo(@, m)]
           /\ cq'.log = [cq.log EXCEPT ![m.op] = Append(@, m)]
           /\ cq'.high = cq.high /\ cq'.told = cq.told /\ cq'.ack = cq.ack
           /\ cq'.owed = cq.owed /\ cq'.arrivals = cq.arrivals + 1
<1>1. PICK a : a = Arrive(m)
  BY Zenon
<1>2. PICK n : n = [cq.q EXCEPT ![m.op] = QueuedFifo(@, m)]
  BY Zenon
<1>3. PICK d : d = [cq.log EXCEPT ![m.op] = Append(@, m)]
  BY Zenon
<1>4. /\ CtlFields \subseteq DOMAIN a /\ a.wire = cq.wire /\ a.q = cq.q /\ a.log = cq.log
      /\ a.high = cq.high /\ a.told = cq.told /\ a.ack = cq.ack /\ a.owed = cq.owed
      /\ a.arrivals = cq.arrivals + 1
  BY <1>1, ArriveEffect, Zenon
<1>5. cq' = [a EXCEPT !.q = n, !.log = d]
  BY <1>1, <1>2, <1>3, <1>4, Zenon DEF RecvFifo
<1>6. QED
  BY <1>2, <1>3, <1>4, <1>5, Zenon DEF CtlFields

LEMMA RecvResolvedEffect ==
    ASSUME CtlInv, NEW m, RecvResolved(m)
    PROVE  /\ CtlFields \subseteq DOMAIN cq' /\ cq'.wire = cq.wire
           /\ cq'.q = [cq.q EXCEPT !["RES"] = QueuedRes(@, m)] /\ cq'.log = cq.log
           /\ cq'.high = [cq.high EXCEPT ![m.from] = Joined(@, m.val)]
           /\ cq'.told = cq.told /\ cq'.ack = cq.ack
           /\ cq'.owed = cq.owed /\ cq'.arrivals = cq.arrivals + 1
<1>1. PICK a : a = Arrive(m)
  BY Zenon
<1>2. PICK n : n = [cq.q EXCEPT !["RES"] = QueuedRes(@, m)]
  BY Zenon
<1>3. PICK d : d = cq.dropped + (IF RefusedRes(cq.q["RES"], m) THEN 1 ELSE 0)
  BY Zenon
<1>4. PICK h : h = HeardFrom(cq.high, m)
  BY Zenon
<1>5. /\ CtlFields \subseteq DOMAIN a /\ a.wire = cq.wire /\ a.q = cq.q /\ a.log = cq.log
      /\ a.high = cq.high /\ a.told = cq.told /\ a.ack = cq.ack /\ a.owed = cq.owed
      /\ a.dropped = cq.dropped /\ a.arrivals = cq.arrivals + 1
  BY <1>1, ArriveEffect, Zenon
<1>6. cq' = [a EXCEPT !.q = n, !.dropped = d, !.high = h]
  BY <1>1, <1>2, <1>3, <1>4, <1>5, Zenon DEF RecvResolved
<1>7. h = [cq.high EXCEPT ![m.from] = Joined(@, m.val)]
  BY <1>4, Zenon DEF HeardFrom
<1>8. QED
  BY <1>2, <1>5, <1>6, <1>7, Zenon DEF CtlFields

LEMMA RecvModEffect ==
    ASSUME CtlInv, NEW m, RecvModset(m) \/ RecvModsetAck(m)
    PROVE  /\ CtlFields \subseteq DOMAIN cq' /\ cq'.wire = cq.wire
           /\ cq'.q = cq.q /\ cq'.log = cq.log /\ cq'.high = cq.high /\ cq'.told = cq.told
           /\ cq'.ack = cq'.owed /\ cq'.arrivals = cq.arrivals + 1
<1>1. PICK a : a = Arrive(m)
  BY Zenon
<1>2. /\ CtlFields \subseteq DOMAIN a /\ a.wire = cq.wire /\ a.q = cq.q /\ a.log = cq.log
      /\ a.high = cq.high /\ a.told = cq.told /\ a.ack = cq.ack /\ a.owed = cq.owed
      /\ a.arrivals = cq.arrivals + 1
  BY <1>1, ArriveEffect, Zenon
<1>3. cq.ack = cq.owed
  BY Zenon DEF CtlInv
<1>4. CASE RecvModset(m)
  <2>1. cq' = [a EXCEPT !.modset = m.val]
    BY <1>1, <1>4, Zenon DEF RecvModset
  <2>2. QED
    BY <1>2, <1>3, <2>1, Zenon DEF CtlFields
<1>5. CASE RecvModsetAck(m)
  <2>1. PICK n : n = [cq.ack EXCEPT ![m.from] = m.val]
    BY Zenon
  <2>2. cq' = [a EXCEPT !.ack = n, !.owed = n]
    BY <1>1, <1>2, <1>3, <1>5, <2>1, Zenon DEF RecvModsetAck, Answered
  <2>3. QED
    BY <1>2, <2>2, Zenon DEF CtlFields
<1>6. QED
  BY <1>4, <1>5, Zenon

(* What the calls of the host take. *)
LEMMA TakeFromEffect ==
    ASSUME CtlInv, NEW o \in Fifos, TakeFrom(o)
    PROVE  /\ CtlFields \subseteq DOMAIN cq' /\ cq'.wire = cq.wire /\ cq.q[o] # <<>>
           /\ cq'.q = [cq.q EXCEPT ![o] = Tail(@)] /\ cq'.log = cq.log
           /\ cq'.high = cq.high /\ cq'.ack = cq.ack /\ cq'.owed = cq.owed
           /\ cq'.arrivals = cq.arrivals
           /\ cq'.told = IF o # "RES" THEN cq.told
                         ELSE LET e == Head(cq.q[o])
                              IN  [cq.told EXCEPT ![e.from] = Joined(@, e.val)]
<1>1. CtlFields \subseteq DOMAIN cq /\ cq.q[o] # <<>>
  BY Zenon DEF CtlInv, TakeFrom
<1>2. PICK e : e = Head(cq.q[o])
  BY Zenon
<1>3. PICK n : n = [cq.q EXCEPT ![o] = Tail(@)]
  BY Zenon
<1>4. PICK t : t = IF o = "RES" THEN HeardFrom(cq.told, e) ELSE cq.told
  BY Zenon
<1>5. PICK f : f = IF o = "SIO" THEN cq.lastFrom ELSE e.from
  BY Zenon
<1>6. cq' = [cq EXCEPT !.q = n, !.lastFrom = f, !.told = t]
  BY <1>2, <1>3, <1>4, <1>5, Zenon DEF TakeFrom
<1>7. /\ CtlFields \subseteq DOMAIN cq' /\ cq'.wire = cq.wire /\ cq'.q = n
      /\ cq'.log = cq.log /\ cq'.high = cq.high /\ cq'.ack = cq.ack /\ cq'.owed = cq.owed
      /\ cq'.arrivals = cq.arrivals /\ cq'.told = t
  BY <1>1, <1>6, Zenon DEF CtlFields
<1>8. t = IF o # "RES" THEN cq.told ELSE [cq.told EXCEPT ![e.from] = Joined(@, e.val)]
  BY <1>4, Zenon DEF HeardFrom
<1>9. QED
  BY <1>1, <1>2, <1>3, <1>7, <1>8, Zenon

LEMMA TakeModEffect ==
    ASSUME CtlInv, TakeModset \/ TakeModsetAck
    PROVE  /\ CtlFields \subseteq DOMAIN cq' /\ cq'.wire = cq.wire
           /\ cq'.q = cq.q /\ cq'.log = cq.log /\ cq'.high = cq.high /\ cq'.told = cq.told
           /\ cq'.ack = cq'.owed /\ cq'.arrivals = cq.arrivals
<1>1. CtlFields \subseteq DOMAIN cq /\ cq.ack = cq.owed
  BY Zenon DEF CtlInv
<1>2. CASE TakeModset
  BY <1>1, <1>2, Zenon DEF TakeModset, CtlFields
<1>3. CASE TakeModsetAck
  <2>1. PICK s : cq' = [cq EXCEPT !.ack[s] = NoVal, !.lastFrom = s, !.owed[s] = NoVal]
    BY <1>3, Zenon DEF TakeModsetAck
  <2>2. PICK n : n = [cq.ack EXCEPT ![s] = NoVal]
    BY Zenon
  <2>3. cq' = [cq EXCEPT !.ack = n, !.lastFrom = s, !.owed = n]
    BY <1>1, <2>1, <2>2, Zenon
  <2>4. QED
    BY <1>1, <2>3, Zenon DEF CtlFields
<1>4. QED
  BY <1>2, <1>3, Zenon


-----------------------------------------------------------------------------
(* What an arrival does to the episode queues. *)
CtlShed == cq'.arrivals > cq.arrivals => \A o \in CtlKinds : Kept(o, cq.q[o], cq'.q[o])

LEMMA KeptSame ==
    ASSUME NEW o, NEW q, CtlQueueOK(o, q)
    PROVE  Kept(o, q, q)
  BY Zenon DEF Kept, Survives, SameIdentity, CtlQueueOK

LEMMA CtlInvInit == CtlInit => CtlInv
<1>1. SUFFICES ASSUME CtlInit
               PROVE  CtlInv
  OBVIOUS
<1>2. PICK c \in CtlScenarios :
          cq = [wire |-> c.wire, ours |-> c.ours, q |-> [o \in Fifos |-> <<>>],
             modset |-> NoVal, ack |-> [s \in Remote |-> NoVal], dropped |-> 0, lastFrom |-> -1,
             arrivals |-> 0, log |-> [o \in Newest |-> <<>>], high |-> [s \in Remote |-> NoVal],
             told |-> [s \in Remote |-> NoVal], owed |-> [s \in Remote |-> NoVal]]
  BY <1>1, Zenon DEF CtlInit
<1>3. /\ CtlFields \subseteq DOMAIN cq /\ cq.wire = c.wire /\ cq.q = [o \in Fifos |-> <<>>]
      /\ cq.log = [o \in Newest |-> <<>>] /\ cq.arrivals = 0
      /\ cq.high = [s \in Remote |-> NoVal] /\ cq.told = [s \in Remote |-> NoVal]
      /\ cq.ack = cq.owed
  BY <1>2, Zenon DEF CtlFields
<1>4. WireOK(cq.wire)
  <2>1. ASSUME NEW m \in c.wire
        PROVE  m \in Datagram /\ (m.op = "RES" => m.val \in Watermarks)
    BY WireAssumption, Zenon DEF Watermarks
  <2>2. QED
    BY <1>3, <2>1, Zenon DEF WireOK
<1>5. <<>> \in Seq(Datagram) /\ Len(<<>>) = 0 /\ DOMAIN <<>> = {} /\ 0 \in Nat
  OBVIOUS
<1>6. /\ cq.q \in [Fifos -> Seq(Datagram)] /\ cq.log \in [Newest -> Seq(Datagram)]
      /\ \A o \in Fifos : cq.q[o] = <<>>
      /\ \A o \in Newest : cq.log[o] = <<>>
  BY <1>3, <1>5, Zenon
<1>7. CtrlCap \in Nat /\ 0 <= CtrlCap
  BY CapAssumption
<1>8. \A o \in CtlKinds : CtlQueueOK(o, cq.q[o])
  BY <1>5, <1>6, <1>7, Zenon DEF CtlQueueOK, CtlKinds, Fifos
<1>9. \A o \in Newest : FifoOK(cq.q[o], cq.log[o])
  <2>1. ASSUME NEW o \in Newest
        PROVE  cq.q[o] = <<>> /\ cq.log[o] = <<>>
    BY <1>6, Zenon DEF Newest, Fifos
  <2>2. 0 <= 0
    OBVIOUS
  <2>3. QED
    BY <1>5, <2>1, <2>2, Zenon DEF FifoOK
<1>10. ResOK(cq.q["RES"], cq.high, cq.told)
  BY <1>3, <1>5, <1>6, Zenon DEF ResOK, Fifos
<1>11. QED
  BY <1>3, <1>4, <1>5, <1>6, <1>8, <1>9, <1>10, Zenon DEF CtlInv

(* An RB_SYNC, SEAL_ROWS, BASELINE or POST. *)
LEMMA CtlInvRecvCtl ==
    ASSUME CtlInv, NEW m \in cq.wire, RecvCtl(m)
    PROVE  CtlInv' /\ CtlShed
<1>1. m.op \in CtlKinds /\ m \in Datagram
  BY Zenon DEF RecvCtl, CtlKinds, CtlInv, WireOK
<1>2. /\ CtlFields \subseteq DOMAIN cq' /\ cq'.wire = cq.wire
      /\ cq'.q = [cq.q EXCEPT ![m.op] = QueuedCtl(@, m)] /\ cq'.log = cq.log
      /\ cq'.high = cq.high /\ cq'.told = cq.told /\ cq'.ack = cq.ack
      /\ cq'.owed = cq.owed /\ cq'.arrivals = cq.arrivals + 1
  BY RecvCtlEffect, Zenon
<1>3. /\ CtlQueueOK(m.op, QueuedCtl(cq.q[m.op], m))
      /\ Kept(m.op, cq.q[m.op], QueuedCtl(cq.q[m.op], m))
  BY <1>1, QueuedCtlOK, Zenon DEF CtlInv
<1>4. /\ cq.q \in [Fifos -> Seq(Datagram)] /\ m.op \in Fifos /\ m.op \notin Newest
      /\ m.op # "RES" /\ CtlKinds \subseteq Fifos /\ Newest \subseteq Fifos /\ "RES" \in Fifos
  BY <1>1, Zenon DEF CtlInv, CtlKinds, Fifos, Newest
<1>5. PICK n : n = QueuedCtl(cq.q[m.op], m)
  BY Zenon
<1>6. n \in Seq(Datagram)
  BY <1>3, <1>5, Zenon DEF CtlQueueOK
<1>7. /\ cq'.q \in [Fifos -> Seq(Datagram)] /\ cq'.q[m.op] = n
      /\ \A o \in Fifos \ {m.op} : cq'.q[o] = cq.q[o]
  BY <1>2, <1>4, <1>5, <1>6, Zenon
<1>8. \A o \in CtlKinds : CtlQueueOK(o, cq'.q[o]) /\ Kept(o, cq.q[o], cq'.q[o])
  BY <1>3, <1>4, <1>5, <1>7, KeptSame, Zenon DEF CtlInv
<1>9. cq'.arrivals \in Nat
  BY <1>2 DEF CtlInv
<1>10. (\A o \in Newest : FifoOK(cq'.q[o], cq'.log[o])) /\ ResOK(cq'.q["RES"], cq'.high, cq'.told)
  BY <1>2, <1>4, <1>7, Zenon DEF CtlInv
<1>11. QED
  BY <1>2, <1>7, <1>8, <1>9, <1>10, Zenon DEF CtlInv, CtlShed

(* A FRAME_COMMIT or an SIO transfer. *)
LEMMA CtlInvRecvFifo ==
    ASSUME CtlInv, NEW m \in cq.wire, RecvFifo(m)
    PROVE  CtlInv' /\ CtlShed
<1>1. m.op \in Newest /\ m \in Datagram
  BY Zenon DEF RecvFifo, CtlInv, WireOK
<1>2. /\ CtlFields \subseteq DOMAIN cq' /\ cq'.wire = cq.wire
      /\ cq'.q = [cq.q EXCEPT ![m.op] = QueuedFifo(@, m)]
      /\ cq'.log = [cq.log EXCEPT ![m.op] = Append(@, m)]
      /\ cq'.high = cq.high /\ cq'.told = cq.told /\ cq'.ack = cq.ack
      /\ cq'.owed = cq.owed /\ cq'.arrivals = cq.arrivals + 1
  BY RecvFifoEffect, Zenon
<1>3. FifoOK(QueuedFifo(cq.q[m.op], m), Append(cq.log[m.op], m))
  BY <1>1, QueuedFifoOK, Zenon DEF CtlInv
<1>4. /\ cq.q \in [Fifos -> Seq(Datagram)] /\ m.op \in Fifos /\ m.op \notin CtlKinds
      /\ cq.log \in [Newest -> Seq(Datagram)]
      /\ m.op # "RES" /\ CtlKinds \subseteq Fifos /\ Newest \subseteq Fifos /\ "RES" \in Fifos
  BY <1>1, Zenon DEF CtlInv, CtlKinds, Fifos, Newest
<1>5. PICK n : n = QueuedFifo(cq.q[m.op], m)
  BY Zenon
<1>6. PICK l : l = Append(cq.log[m.op], m)
  BY Zenon
<1>7. n \in Seq(Datagram) /\ l \in Seq(Datagram)
  BY <1>3, <1>5, <1>6, Zenon DEF FifoOK
<1>8. /\ cq'.q \in [Fifos -> Seq(Datagram)] /\ cq'.q[m.op] = n
      /\ \A o \in Fifos \ {m.op} : cq'.q[o] = cq.q[o]
  BY <1>2, <1>4, <1>5, <1>7, Zenon
<1>9. /\ cq'.log \in [Newest -> Seq(Datagram)] /\ cq'.log[m.op] = l
      /\ \A o \in Newest \ {m.op} : cq'.log[o] = cq.log[o]
  BY <1>1, <1>2, <1>4, <1>6, <1>7, Zenon
<1>10. \A o \in CtlKinds : CtlQueueOK(o, cq'.q[o]) /\ Kept(o, cq.q[o], cq'.q[o])
  BY <1>4, <1>8, KeptSame, Zenon DEF CtlInv
<1>11. cq'.arrivals \in Nat
  BY <1>2 DEF CtlInv
<1>12. \A o \in Newest : FifoOK(cq'.q[o], cq'.log[o])
  BY <1>3, <1>4, <1>5, <1>6, <1>8, <1>9, Zenon DEF CtlInv
<1>13. ResOK(cq'.q["RES"], cq'.high, cq'.told)
  BY <1>2, <1>4, <1>8, Zenon DEF CtlInv
<1>14. QED
  BY <1>2, <1>8, <1>9, <1>10, <1>11, <1>12, <1>13, Zenon DEF CtlInv, CtlShed


(* A RESOLVED watermark. *)
LEMMA CtlInvRecvResolved ==
    ASSUME CtlInv, NEW m \in cq.wire, RecvResolved(m)
    PROVE  CtlInv' /\ CtlShed
<1>1. m \in Datagram /\ m.val \in Watermarks
  BY Zenon DEF RecvResolved, CtlInv, WireOK
<1>2. /\ CtlFields \subseteq DOMAIN cq' /\ cq'.wire = cq.wire
      /\ cq'.q = [cq.q EXCEPT !["RES"] = QueuedRes(@, m)] /\ cq'.log = cq.log
      /\ cq'.high = [cq.high EXCEPT ![m.from] = Joined(@, m.val)]
      /\ cq'.told = cq.told /\ cq'.ack = cq.ack
      /\ cq'.owed = cq.owed /\ cq'.arrivals = cq.arrivals + 1
  BY RecvResolvedEffect, Zenon
<1>3. ResOK(QueuedRes(cq.q["RES"], m), cq'.high, cq'.told)
  <2>1. ResOK(cq.q["RES"], cq.high, cq.told)
    BY Zenon DEF CtlInv
  <2>2. ResOK(QueuedRes(cq.q["RES"], m), [cq.high EXCEPT ![m.from] = Joined(@, m.val)], cq.told)
    BY <1>1, <2>1, QueuedResOK
  <2>3. QED
    BY <1>2, <2>2, Zenon
<1>4. /\ cq.q \in [Fifos -> Seq(Datagram)] /\ "RES" \notin CtlKinds /\ "RES" \notin Newest
      /\ CtlKinds \subseteq Fifos /\ Newest \subseteq Fifos /\ "RES" \in Fifos
  BY Zenon DEF CtlInv, CtlKinds, Fifos, Newest
<1>5. PICK n : n = QueuedRes(cq.q["RES"], m)
  BY Zenon
<1>6. n \in Seq(Datagram)
  BY <1>3, <1>5, Zenon DEF ResOK
<1>7. /\ cq'.q \in [Fifos -> Seq(Datagram)] /\ cq'.q["RES"] = n
      /\ \A o \in Fifos \ {"RES"} : cq'.q[o] = cq.q[o]
  BY <1>2, <1>4, <1>5, <1>6, Zenon
<1>8. \A o \in CtlKinds : CtlQueueOK(o, cq'.q[o]) /\ Kept(o, cq.q[o], cq'.q[o])
  BY <1>4, <1>7, KeptSame, Zenon DEF CtlInv
<1>9. cq'.arrivals \in Nat
  BY <1>2 DEF CtlInv
<1>10. (\A o \in Newest : FifoOK(cq'.q[o], cq'.log[o])) /\ ResOK(cq'.q["RES"], cq'.high, cq'.told)
  BY <1>2, <1>3, <1>4, <1>5, <1>7, Zenon DEF CtlInv
<1>11. QED
  BY <1>2, <1>7, <1>8, <1>9, <1>10, Zenon DEF CtlInv, CtlShed

(* The mod set and its answers touch no queue, nor does their taking. *)
LEMMA CtlInvMod ==
    ASSUME CtlInv, NEW m,
           RecvModset(m) \/ RecvModsetAck(m) \/ TakeModset \/ TakeModsetAck
    PROVE  CtlInv' /\ CtlShed
<1>1. /\ CtlFields \subseteq DOMAIN cq' /\ cq'.wire = cq.wire
      /\ cq'.q = cq.q /\ cq'.log = cq.log /\ cq'.high = cq.high /\ cq'.told = cq.told
      /\ cq'.ack = cq'.owed /\ (cq'.arrivals = cq.arrivals + 1 \/ cq'.arrivals = cq.arrivals)
  <2>1. CASE RecvModset(m) \/ RecvModsetAck(m)
    BY <2>1, RecvModEffect, Zenon
  <2>2. CASE TakeModset \/ TakeModsetAck
    BY <2>2, TakeModEffect, Zenon
  <2>3. QED
    BY <2>1, <2>2, Zenon
<1>2. cq'.arrivals \in Nat
  BY <1>1 DEF CtlInv
<1>3. \A o \in CtlKinds : Kept(o, cq.q[o], cq'.q[o])
  BY <1>1, KeptSame, Zenon DEF CtlInv
<1>4. QED
  BY <1>1, <1>2, <1>3, Zenon DEF CtlInv, CtlShed

(* The host takes the head of a queue. *)
LEMMA CtlInvTake ==
    ASSUME CtlInv, NEW o \in Fifos, TakeFrom(o)
    PROVE  CtlInv' /\ CtlShed
<1>1. /\ CtlFields \subseteq DOMAIN cq' /\ cq'.wire = cq.wire /\ cq.q[o] # <<>>
      /\ cq'.q = [cq.q EXCEPT ![o] = Tail(@)] /\ cq'.log = cq.log
      /\ cq'.high = cq.high /\ cq'.ack = cq.ack /\ cq'.owed = cq.owed
      /\ cq'.arrivals = cq.arrivals
      /\ o # "RES" => cq'.told = cq.told
      /\ o = "RES" => cq'.told = [cq.told EXCEPT ![Head(cq.q[o]).from] =
                                      Joined(@, Head(cq.q[o]).val)]
  BY TakeFromEffect, Zenon
<1>2. /\ cq.q \in [Fifos -> Seq(Datagram)] /\ "RES" \notin CtlKinds /\ "RES" \notin Newest
      /\ CtlKinds \subseteq Fifos /\ Newest \subseteq Fifos /\ "RES" \in Fifos
      /\ \A k \in CtlKinds : k \notin Newest
  BY Zenon DEF CtlInv, CtlKinds, Fifos, Newest
<1>3. PICK n : n = Tail(cq.q[o])
  BY Zenon
<1>4. n \in Seq(Datagram)
  BY <1>1, <1>2, <1>3, TailIs, Zenon
<1>5. /\ cq'.q \in [Fifos -> Seq(Datagram)] /\ cq'.q[o] = n
      /\ \A k \in Fifos \ {o} : cq'.q[k] = cq.q[k]
  BY <1>1, <1>2, <1>3, <1>4, Zenon
<1>6. \A k \in CtlKinds : CtlQueueOK(k, cq'.q[k])
  <2>1. o \in CtlKinds => CtlQueueOK(o, n)
    BY <1>1, <1>3, CtlTail, Zenon DEF CtlInv
  <2>2. QED
    BY <1>2, <1>5, <2>1, Zenon DEF CtlInv
<1>7. \A k \in Newest : FifoOK(cq'.q[k], cq'.log[k])
  <2>1. o \in Newest => FifoOK(n, cq.log[o])
    BY <1>1, <1>3, FifoTail, Zenon DEF CtlInv
  <2>2. QED
    BY <1>1, <1>2, <1>5, <2>1, Zenon DEF CtlInv
<1>8. ResOK(cq'.q["RES"], cq'.high, cq'.told)
  <2>1. CASE o = "RES"
    <3>1. ResOK(cq.q["RES"], cq.high, cq.told) /\ cq.q["RES"] # <<>>
      BY <1>1, <2>1, Zenon DEF CtlInv
    <3>2. ResOK(Tail(cq.q["RES"]), cq.high,
                [cq.told EXCEPT ![Head(cq.q["RES"]).from] = Joined(@, Head(cq.q["RES"]).val)])
      BY <3>1, TakeResOK
    <3>3. QED
      BY <1>1, <1>3, <1>5, <2>1, <3>2, Zenon
  <2>2. CASE o # "RES"
    BY <1>1, <1>2, <1>5, <2>2, Zenon DEF CtlInv
  <2>3. QED
    BY <2>1, <2>2, Zenon
<1>9. CtlInv'
  BY <1>1, <1>5, <1>6, <1>7, <1>8, Zenon DEF CtlInv
<1>10. CtlShed
  <2>1. ~(cq'.arrivals > cq.arrivals)
    BY <1>1 DEF CtlInv
  <2>2. QED
    BY <2>1, Zenon DEF CtlShed
<1>11. QED
  BY <1>9, <1>10

LEMMA CtlInvStep ==
    ASSUME CtlInv, CtlNext
    PROVE  CtlInv' /\ CtlShed
<1>1. CASE CtlRecvAny
  <2>1. PICK m \in cq.wire : CtlRecv(m)
    BY <1>1, Zenon DEF CtlRecvAny
  <2>2. QED
    <3>1. CASE RecvModset(m) \/ RecvModsetAck(m)
      BY <3>1, CtlInvMod, Zenon
    <3>2. QED
      BY <2>1, <3>1, CtlInvRecvCtl, CtlInvRecvFifo, CtlInvRecvResolved, Zenon DEF CtlRecv
<1>2. CASE \E o \in Fifos : TakeFrom(o)
  BY <1>2, CtlInvTake, Zenon
<1>3. CASE TakeModset \/ TakeModsetAck
  BY <1>3, CtlInvMod, Zenon
<1>4. QED
  BY <1>1, <1>2, <1>3, Zenon DEF CtlNext

(* The invariant says that the newest of each seat waits or was taken. *)
LEMMA NewestFromInv == CtlInv => NewestKept
<1>0. SUFFICES ASSUME CtlInv
               PROVE  NewestKept
  OBVIOUS
<1>1. ASSUME NEW s \in Remote, cq.high[s] # NoVal
      PROVE  \/ cq.told[s] = cq.high[s]
             \/ \E k \in DOMAIN cq.q["RES"] :
                    cq.q["RES"][k].from = s /\ cq.q["RES"][k].val = cq.high[s]
  <2>1. CASE \A k \in DOMAIN cq.q["RES"] : cq.q["RES"][k].from # s
    BY <1>0, <2>1, Zenon DEF CtlInv, ResOK
  <2>2. CASE \E k \in DOMAIN cq.q["RES"] : cq.q["RES"][k].from = s
    <3>1. PICK k \in DOMAIN cq.q["RES"] : cq.q["RES"][k].from = s
      BY <2>2
    <3>2. /\ cq.q["RES"][k].val \in Watermarks /\ cq.told[s] \in Watermarks \cup {NoVal}
          /\ cq.high[s] = Joined(cq.told[s], cq.q["RES"][k].val)
      BY <1>0, <3>1, Zenon DEF CtlInv, ResOK
    <3>3. cq.high[s] = cq.told[s] \/ cq.high[s] = cq.q["RES"][k].val
      BY <3>2, Zenon DEF Joined, Latest
    <3>4. QED
      BY <3>1, <3>3, Zenon
  <2>3. QED
    BY <2>1, <2>2, Zenon
<1>2. ASSUME NEW o \in Newest
      PROVE  LET lost == Len(cq.log[o]) - Len(cq.q[o])
             IN  lost >= 0 /\ \A k \in DOMAIN cq.q[o] : cq.q[o][k] = cq.log[o][lost + k]
  <2>1. FifoOK(cq.q[o], cq.log[o])
    BY <1>0, Zenon DEF CtlInv
  <2>2. Len(cq.log[o]) \in Nat /\ Len(cq.q[o]) \in Nat /\ Len(cq.q[o]) <= Len(cq.log[o])
    BY <2>1 DEF FifoOK
  <2>3. Len(cq.log[o]) - Len(cq.q[o]) >= 0
    BY <2>2
  <2>4. QED
    BY <2>1, <2>3, Zenon DEF FifoOK
<1>3. QED
  BY <1>0, <1>1, <1>2, Zenon DEF NewestKept, CtlInv


(* handle_decoded and the take calls, for every capacity, every set of     *)
(* seats and every order and number of arrivals: what a queue gives up was *)
(* superseded, a retransmit joins the copy that waits, and the newest of   *)
(* each seat waits until it is taken.                                      *)
THEOREM QueuesLoseOnlyToNewer == CtlSpec => LostOnlyToNewer
<1>1. CtlInv /\ [CtlNext]_cq => CtlInv'
  <2>1. CASE CtlNext
    BY <2>1, CtlInvStep
  <2>2. CASE UNCHANGED cq
    BY <2>2, Zenon DEF CtlInv
  <2>3. QED
    BY <2>1, <2>2, Zenon
<1>2. CtlInv /\ CtlInv' /\ NewestKept' /\ [CtlNext]_cq => [GivesUpOlder]_cq
  <2>1. SUFFICES ASSUME CtlInv, CtlInv', NewestKept', CtlNext
                 PROVE  GivesUpOlder
    BY Zenon
  <2>2. CtlShed
    BY <2>1, CtlInvStep
  <2>3. ASSUME NEW o \in CtlKinds, cq'.arrivals > cq.arrivals, NEW k \in DOMAIN cq.q[o]
        PROVE  \/ Copies(cq'.q[o], cq.q[o][k]) # {}
               \/ /\ o # "SYNC"
                  /\ EpochBefore(cq.q[o][k].epoch, cq'.q[o][Len(cq'.q[o])].epoch)
    <3>1. Survives(o, cq.q[o][k], cq'.q[o])
      BY <2>2, <2>3, Zenon DEF CtlShed, Kept
    <3>2. QED
      BY <3>1, Zenon DEF Survives, Copies
  <2>4. ASSUME NEW o \in CtlKinds, NEW k \in DOMAIN cq'.q[o]
        PROVE  Copies(cq'.q[o], cq'.q[o][k]) = {k}
    <3>1. \A j, n \in DOMAIN cq'.q[o] : SameIdentity(cq'.q[o][j], cq'.q[o][n]) => j = n
      BY <2>1, Zenon DEF CtlInv, CtlQueueOK
    <3>2. SameIdentity(cq'.q[o][k], cq'.q[o][k])
      BY Zenon DEF SameIdentity
    <3>3. QED
      BY <3>1, <3>2, Zenon DEF Copies
  <2>5. QED
    BY <2>1, <2>3, <2>4, Zenon DEF GivesUpOlder, CtlKinds
<1>3. QED
  BY CtlInvInit, <1>1, NewestFromInv, <1>2, PTL DEF CtlSpec, LostOnlyToNewer
=============================================================================
