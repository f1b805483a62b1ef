---------------------------- MODULE PacingProofs ---------------------------
(***************************************************************************)
(* Proofs about what paces a match.  The scheduler, for every prediction   *)
(* budget, every set of delays the session may commit and matches of any   *)
(* length: how far apart two peers can run, and that the one behind always *)
(* has a row to run on.  The automatic delay, for every set of windows,    *)
(* every bound of the delay, every margin and cooldown: it lowers D only   *)
(* on the evidence it is meant to need.                                    *)
(***************************************************************************)
EXTENDS Sched, AutoDelay, WellFoundedInduction, TLAPS

SchedSpec == SchedInit /\ [][SchedNext]_sc

-----------------------------------------------------------------------------
(* Max of a pair, and of a set of delays. *)
LEMMA MaxPair ==
    ASSUME NEW a \in Int, NEW b \in Int
    PROVE  Max({a, b}) \in {a, b} /\ Max({a, b}) >= a /\ Max({a, b}) >= b
<1>1. \E x \in {a, b} : \A y \in {a, b} : x >= y
  OBVIOUS
<1>2. QED
  BY <1>1 DEF Max

(* TopDelay is the largest delay in use, and every delay lies between 2    *)
(* and it.                                                                 *)
LEMMA TopDelayBounds ==
    TopDelay \in Nat /\ \A d \in Delays \cup {StartDelay} : d \in Nat /\ d >= 2 /\ d <= TopDelay
<1> DEFINE S == Delays \cup {StartDelay}
           T == {n \in Nat : 20 - n \in S}
<1>1. S \subseteq 2 .. 20 /\ S # {}
  BY SchedAssumption
<1>2. T \subseteq Nat /\ T # {}
  <2>1. 20 - StartDelay \in T
    BY SchedAssumption
  <2>2. QED
    BY <2>1
<1>3. PICK n \in T : \A k \in T : ~(<<k, n>> \in OpToRel(<, Nat))
  BY <1>2, NatLessThanWellFounded, WFMin, Zenon
<1>4. \A k \in T : ~(k < n)
  BY <1>3, Zenon DEF OpToRel
<1>5. \A c \in S : c <= 20 - n
  <2> SUFFICES ASSUME NEW c \in S PROVE c <= 20 - n
    OBVIOUS
  <2>1. 20 - c \in T
    BY <1>1
  <2>2. QED
    BY <1>1, <1>4, <2>1
<1>6. \E x \in S : \A y \in S : x >= y
  BY <1>1, <1>5
<1>7. TopDelay \in S /\ \A y \in S : TopDelay >= y
  BY <1>6 DEF TopDelay, Max
<1>8. QED
  BY <1>1, <1>7

-----------------------------------------------------------------------------
(* A scheduler has these fields, whatever they hold. *)
IsSched(q) ==
    q = [sim |-> q.sim, d |-> q.d, rows |-> q.rows, prep |-> q.prep, tip |-> q.tip,
         guess |-> q.guess, lock |-> q.lock, hold |-> q.hold,
         cushion |-> q.cushion, debt |-> q.debt, pacing |-> q.pacing,
         paced |-> q.paced, ahead |-> q.ahead, graceWire |-> q.graceWire, expired |-> q.expired,
         streak |-> q.streak, off |-> q.off, missWire |-> q.missWire]

(* r differs from q in its timers, counters and flags only. *)
Alongside(q, r) ==
    IsSched(r) /\ r.sim = q.sim /\ r.d = q.d /\ r.rows = q.rows /\ r.prep = q.prep
    /\ r.tip = q.tip

(* Pacing a tick moves no tick, delay or row. *)
LEMMA PacedKeeps ==
    ASSUME NEW q, NEW out, IsSched(q) PROVE Alongside(q, Paced(q, out))
BY Zenon DEF Paced, Alongside, IsSched

(* Neither do the checks before an admission, *)
LEMMA PreAdmitKeeps ==
    ASSUME NEW q, NEW out, IsSched(q) PROVE Alongside(q, PreAdmit(q, out))
<1>1. Alongside(q, AheadSkew(q))
  BY Zenon DEF AheadSkew, AddDebt, Alongside, IsSched
<1>2. QED
  BY <1>1 DEF PreAdmit, Alongside, IsSched

(* nor a flag or a debt, *)
LEMMA FlagsKeep ==
    ASSUME NEW q, NEW v, NEW w, IsSched(q)
    PROVE  /\ Alongside(q, [q EXCEPT !.lock = v])
           /\ Alongside(q, [q EXCEPT !.hold = v])
           /\ Alongside(q, [q EXCEPT !.cushion = v])
           /\ Alongside(q, [AddDebt(q) EXCEPT !.guess = w, !.cushion = v])
<1>1. /\ Alongside(q, [q EXCEPT !.lock = v]) /\ Alongside(q, [q EXCEPT !.hold = v])
      /\ Alongside(q, [q EXCEPT !.cushion = v])
  BY DEF Alongside, IsSched
<1>2. Alongside(q, AddDebt(q))
  BY DEF AddDebt, Alongside, IsSched
<1> DEFINE a == AddDebt(q)
<1> HIDE DEF a
<1>3. IsSched(a) => Alongside(a, [a EXCEPT !.guess = w, !.cushion = v])
  <2> SUFFICES ASSUME IsSched(a) PROVE Alongside(a, [a EXCEPT !.guess = w, !.cushion = v])
    OBVIOUS
  <2> DEFINE c == [a EXCEPT !.guess = w]
  <2>1. Alongside(a, c)
    BY DEF Alongside, IsSched
  <2> HIDE DEF c
  <2>2. Alongside(c, [c EXCEPT !.cushion = v])
    BY <2>1 DEF Alongside, IsSched
  <2>3. [a EXCEPT !.guess = w, !.cushion = v] = [c EXCEPT !.cushion = v]
    BY DEF c
  <2>4. QED
    BY <2>1, <2>2, <2>3 DEF Alongside
<1>4. Alongside(q, [a EXCEPT !.guess = w, !.cushion = v])
  <2> DEFINE b == [a EXCEPT !.guess = w, !.cushion = v]
  <2>1. Alongside(q, a) /\ Alongside(a, b)
    BY <1>2, <1>3 DEF a, Alongside
  <2> HIDE DEF b
  <2>2. Alongside(q, b)
    BY <2>1 DEF Alongside
  <2>3. QED
    BY <2>2 DEF b
<1>5. QED
  BY <1>1, <1>4 DEF a

(* nor the grace a missing row is given. *)
LEMMA GraceKeeps ==
    ASSUME NEW q, NEW deep, NEW out, IsSched(q) PROVE Alongside(q, GraceStall(q, deep, out).q)
BY Zenon DEF GraceStall, Alongside, IsSched

-----------------------------------------------------------------------------
(* What holds of one scheduler: it has sealed every row up to its tick,    *)
(* the next one as well once it has tried the tick, and none past its      *)
(* longest delay.                                                          *)
Sealed(q) ==
    /\ IsSched(q)
    /\ q.sim \in Nat /\ q.d \in Delays \cup {StartDelay}
    /\ q.rows \subseteq 0 .. (q.sim + TopDelay)
    /\ 0 .. q.sim \subseteq q.rows
    /\ q.prep => q.sim + 1 \in q.rows
    /\ q.tip \in Int

(* What holds of it beside the other: its tip is a row of the other, and   *)
(* its tick within the prediction cap of such a row.                       *)
Within(q, o) ==
    /\ q.tip <= o.sim + TopDelay
    /\ q.sim <= o.sim + TopDelay + Budget + 1

SchedInv ==
    /\ sc = [at |-> sc.at, left |-> sc.left]
    /\ sc.at = [p \in Peers |-> sc.at[p]]
    /\ \A p \in Peers : Sealed(sc.at[p]) /\ Within(sc.at[p], sc.at[Other(p)])

(* One attempt at a tick: the rows it seals include the next tick's, and   *)
(* the tick is left only for a row that is there or under the cap.         *)
LEMMA PreparedIsSealed ==
    ASSUME NEW q, Sealed(q)
    PROVE  /\ Sealed(Prepare(q)) /\ Prepare(q).sim = q.sim /\ Prepare(q).tip = q.tip
           /\ q.sim + 1 \in Prepare(q).rows
<1>1. CASE q.prep
  BY <1>1 DEF Prepare, Sealed
<1>2. CASE ~q.prep
  <2>1. PICK w : w = q.rows \cup q.sim .. (q.sim + q.d)
    BY Zenon
  <2>2. Prepare(q) = [q EXCEPT !.rows = w, !.prep = TRUE]
    BY <1>2, <2>1 DEF Prepare
  <2>3. /\ IsSched(Prepare(q)) /\ Prepare(q).sim = q.sim /\ Prepare(q).d = q.d
        /\ Prepare(q).tip = q.tip /\ Prepare(q).rows = w
    BY <2>2, Zenon DEF Sealed, IsSched
  <2>4. q.d \in Nat /\ q.d >= 2 /\ q.d <= TopDelay /\ TopDelay \in Nat
    BY TopDelayBounds DEF Sealed
  <2>5. QED
    BY <2>1, <2>3, <2>4 DEF Sealed
<1>3. QED
  BY <1>1, <1>2

(* What only counts or flags keeps the sealed rows and the bounds. *)
LEMMA AlongsideIsSealed ==
    ASSUME NEW q, NEW r, Sealed(q), Alongside(q, r) PROVE Sealed(r)
BY DEF Sealed, Alongside

(* A frame that is run moves the tick by one and keeps the rows. *)
LEMMA AdvancedIsSealed ==
    ASSUME NEW q, Sealed(q), q.sim + 1 \in q.rows
    PROVE  Sealed(Advanced(q)) /\ Advanced(q).sim = q.sim + 1 /\ Advanced(q).tip = q.tip
<1>1. /\ IsSched(Advanced(q)) /\ Advanced(q).sim = q.sim + 1 /\ Advanced(q).d = q.d
      /\ Advanced(q).tip = q.tip /\ Advanced(q).rows = q.rows /\ ~Advanced(q).prep
  <2>1. PICK n, l : n = q.sim + 1 /\ l = IF q.sim + 1 < q.lock THEN q.lock ELSE 0
    BY Zenon
  <2>2. Advanced(q) = [q EXCEPT !.sim = n, !.paced = FALSE, !.prep = FALSE, !.lock = l]
    BY <2>1 DEF Advanced
  <2>3. IsSched(q)
    BY DEF Sealed
  <2>4. IsSched(Advanced(q)) /\ Advanced(q).sim = n
    BY <2>2, <2>3, Zenon DEF IsSched
  <2>5. Advanced(q).d = q.d /\ Advanced(q).tip = q.tip /\ Advanced(q).rows = q.rows
        /\ ~Advanced(q).prep
    BY <2>2, <2>3, Zenon DEF IsSched
  <2>6. QED
    BY <2>1, <2>4, <2>5
<1>2. TopDelay \in Nat
  BY TopDelayBounds
<1>3. QED
  BY <1>1, <1>2 DEF Sealed

(* A missing row is waited for or, within the budget, guessed. *)
LEMMA OnRemoteMissKeeps ==
    ASSUME NEW q, NEW out, Sealed(q), q.sim + 1 \in q.rows
    PROVE  LET r == OnRemoteMiss(q, out)
           IN  Sealed(r) /\ r.tip = q.tip
               /\ (r.sim = q.sim \/ (r.sim = q.sim + 1 /\ ~PastCap(q)))
<1> DEFINE deep == q.sim > q.tip + 1
           m == [q EXCEPT !.missWire = q.sim]
           g == GraceStall(m, deep, out).q
           i == [g EXCEPT !.guess = g.sim]
<1>1. Alongside(q, m)
  BY DEF Sealed, IsSched, Alongside
<1>2. Alongside(m, g)
  <2> HIDE DEF m, deep
  <2>1. QED
    BY <1>1, GraceKeeps DEF Alongside
<1>3. Alongside(q, g)
  BY <1>1, <1>2 DEF Alongside
<1>4. Alongside(q, i)
  BY <1>3 DEF Alongside, IsSched
<1>5. Sealed(m) /\ Sealed(g) /\ Sealed(i)
  BY <1>1, <1>3, <1>4, AlongsideIsSealed
<1>6. Invent(g) = Advanced(i)
  BY DEF Invent
<1>7. Sealed(Invent(g)) /\ Invent(g).sim = q.sim + 1 /\ Invent(g).tip = q.tip
  <2> HIDE DEF i
  <2>1. i.sim = q.sim /\ i.tip = q.tip /\ i.rows = q.rows
    BY <1>4 DEF Alongside
  <2>2. QED
    BY <1>5, <1>6, <2>1, AdvancedIsSealed
<1>8. OnRemoteMiss(q, out) \in {q, m, g, Invent(g)}
  BY DEF OnRemoteMiss
<1>9. OnRemoteMiss(q, out) = Invent(g) => ~PastCap(q) \/ Invent(g) \in {q, m, g}
  BY DEF OnRemoteMiss, MustWait
<1>10. m.sim = q.sim /\ m.tip = q.tip /\ g.sim = q.sim /\ g.tip = q.tip
  BY <1>1, <1>3 DEF Alongside
<1> HIDE DEF m, g, i
<1>11. QED
  BY <1>5, <1>7, <1>8, <1>9, <1>10 DEF Sealed

-----------------------------------------------------------------------------
(* A step of one scheduler that keeps it sealed, within the other and not  *)
(* set back keeps the invariant: the other's own bounds only widen.        *)
LEMMA OneSteps ==
    ASSUME SchedInv, NEW p \in Peers, NEW r, NEW b,
           Sealed(r), r.sim >= sc.at[p].sim, Within(r, sc.at[Other(p)]),
           sc' = [at |-> [sc.at EXCEPT ![p] = r], left |-> b]
    PROVE  SchedInv'
<1> DEFINE o == Other(p)
<1>1. o \in Peers /\ o # p /\ Other(o) = p /\ Peers = {p, o}
  BY DEF Peers, Other
<1>2. sc'.at = [sc.at EXCEPT ![p] = r] /\ sc' = [at |-> sc'.at, left |-> sc'.left]
  BY Zenon
<1>3. sc'.at = [x \in Peers |-> sc'.at[x]] /\ sc'.at[p] = r /\ sc'.at[o] = sc.at[o]
  BY <1>1, <1>2, Zenon DEF SchedInv
<1>4. Sealed(sc.at[o]) /\ Within(sc.at[o], sc.at[p]) /\ sc.at[p].sim \in Nat
  BY <1>1 DEF SchedInv, Sealed
<1>5. Within(sc.at[o], r)
  <2>1. TopDelay \in Nat /\ Budget \in Nat /\ r.sim \in Nat /\ sc.at[o].tip \in Int
        /\ sc.at[o].sim \in Nat
    BY <1>4, TopDelayBounds, SchedAssumption DEF Sealed
  <2>2. QED
    BY <1>4, <2>1 DEF Within
<1> HIDE DEF o
<1>6. \A x \in Peers : Sealed(sc'.at[x]) /\ Within(sc'.at[x], sc'.at[Other(x)])
  <2>1. Other(p) = o
    BY DEF o
  <2>2. QED
    BY <1>1, <1>3, <1>4, <1>5, <2>1
<1>7. QED
  BY <1>2, <1>3, <1>6 DEF SchedInv

(* The invariant holds at the start of a match. *)
LEMMA SchedInitInv == SchedInit => SchedInv
<1> SUFFICES ASSUME NEW b \in Plans,
                    sc = [at |-> [p \in Peers |-> FreshMatch(FreshStatics)], left |-> b]
             PROVE  SchedInv
  BY DEF SchedInit
<1> DEFINE f == FreshMatch(FreshStatics)
<1>1. IsSched(f) /\ f.sim = 0 /\ f.d = StartDelay /\ f.rows = 0 .. (StartDelay - 1) /\ f.tip = -1
      /\ ~f.prep
  BY DEF FreshMatch, IsSched
<1> HIDE DEF f
<1>2. Sealed(f) /\ Within(f, f)
  BY <1>1, TopDelayBounds, SchedAssumption DEF Sealed, Within
<1>3. sc = [at |-> [p \in Peers |-> f], left |-> b]
  BY DEF f
<1>4. sc.at = [p \in Peers |-> f] /\ sc = [at |-> sc.at, left |-> sc.left]
  BY <1>3
<1>5. \A p \in Peers : Other(p) \in Peers
  BY DEF Peers, Other
<1>6. QED
  BY <1>2, <1>4, <1>5 DEF SchedInv

(* An attempt to run a frame keeps the invariant. *)
LEMMA AttemptInv ==
    ASSUME SchedInv, NEW p \in Peers, NEW out, Attempt(p, out)
    PROVE  SchedInv'
<1> DEFINE s == sc.at[p]
           o == sc.at[Other(p)]
           q == Paced(Prepare(s), out)
           a == PreAdmit(q, out)
           r == IF q.pacing THEN q ELSE IF HasRow(p, a) THEN Advanced(a) ELSE OnRemoteMiss(a, out)
<1>1. sc' = [sc EXCEPT !.at[p] = r]
  BY DEF Attempt
<1>2. Sealed(s) /\ Within(s, o) /\ Sealed(o)
  <2>1. Other(p) \in Peers
    BY DEF Peers, Other
  <2>2. QED
    BY <2>1 DEF SchedInv
<1> HIDE DEF s, o
<1>3. Sealed(Prepare(s)) /\ Prepare(s).sim = s.sim /\ Prepare(s).tip = s.tip
      /\ s.sim + 1 \in Prepare(s).rows
  BY <1>2, PreparedIsSealed
<1>4. Alongside(Prepare(s), q)
  BY <1>3, PacedKeeps DEF Sealed
<1> HIDE DEF q
<1>5. Sealed(q) /\ q.sim = s.sim /\ q.tip = s.tip /\ s.sim + 1 \in q.rows
  <2>1. Sealed(q)
    BY <1>3, <1>4, AlongsideIsSealed
  <2>2. QED
    BY <1>3, <1>4, <2>1 DEF Alongside
<1>6. Alongside(q, a)
  BY <1>5, PreAdmitKeeps DEF Sealed
<1> HIDE DEF a
<1>7. Sealed(a) /\ a.sim = s.sim /\ a.tip = s.tip /\ a.sim + 1 \in a.rows
  <2>1. Sealed(a)
    BY <1>5, <1>6, AlongsideIsSealed, Zenon
  <2>2. QED
    BY <1>5, <1>6, <2>1, Zenon DEF Alongside
<1>8. /\ Sealed(r) /\ r.tip = s.tip
      /\ r.sim = s.sim \/ (r.sim = s.sim + 1 /\ (s.sim <= s.tip \/ ~PastCap(a)))
  <2>1. CASE q.pacing
    BY <1>5, <2>1
  <2>2. CASE ~q.pacing /\ HasRow(p, a)
    BY <1>7, <2>2, AdvancedIsSealed, Zenon DEF HasRow
  <2>3. CASE ~q.pacing /\ ~HasRow(p, a)
    <3>1. r = OnRemoteMiss(a, out)
      BY <2>3
    <3>2. QED
      BY <1>7, <3>1, OnRemoteMissKeeps
  <2>4. QED
    BY <2>1, <2>2, <2>3, Zenon
<1> HIDE DEF r
<1>9. Within(r, o) /\ r.sim >= s.sim
  <2>1. TopDelay \in Nat /\ Budget \in Nat \ {0} /\ s.sim \in Nat /\ o.sim \in Nat /\ s.tip \in Int
    BY <1>2, TopDelayBounds, SchedAssumption DEF Sealed
  <2>2. ~PastCap(a) => s.sim <= s.tip + Budget \/ s.sim <= Budget
    <3>1. Max({s.tip, 0}) \in {s.tip, 0}
      <4>1. 0 \in Int /\ s.tip \in Int
        BY <2>1
      <4>2. QED
        BY <4>1, MaxPair, Zenon
    <3>2. PastCap(a) <=> s.sim > Max({s.tip, 0}) + Budget
      BY <1>7, Zenon DEF PastCap, HighestRemote
    <3>3. QED
      BY <2>1, <3>1, <3>2
  <2>3. QED
    BY <1>2, <1>8, <2>1, <2>2 DEF Within
<1>10. sc' = [at |-> [sc.at EXCEPT ![p] = r], left |-> sc.left]
  BY <1>1 DEF SchedInv
<1>11. QED
  BY <1>8, <1>9, <1>10, OneSteps DEF s, o

(* Rows that arrive keep it. *)
LEMMA RecvRowsInv ==
    ASSUME SchedInv, NEW p \in Peers, NEW t, RecvRows(p, t)
    PROVE  SchedInv'
<1> DEFINE s == sc.at[p]
           o == sc.at[Other(p)]
           r == [s EXCEPT !.tip = t]
<1>1. sc' = [at |-> [sc.at EXCEPT ![p] = r], left |-> sc.left]
  BY DEF RecvRows, SchedInv
<1>2. Sealed(s) /\ Within(s, o) /\ Sealed(o)
  <2>1. Other(p) \in Peers
    BY DEF Peers, Other
  <2>2. QED
    BY <2>1 DEF SchedInv
<1>3. t \in o.rows
  BY DEF RecvRows
<1> HIDE DEF s, o
<1>4. IsSched(r) /\ r.sim = s.sim /\ r.d = s.d /\ r.rows = s.rows /\ r.prep = s.prep
      /\ r.tip = t
  BY <1>2 DEF Sealed, IsSched
<1> HIDE DEF r
<1>5. Sealed(r) /\ Within(r, o) /\ r.sim >= s.sim
  BY <1>2, <1>3, <1>4, TopDelayBounds DEF Sealed, Within
<1>6. QED
  BY <1>1, <1>5, OneSteps DEF s, o

(* A delay that is committed keeps it. *)
LEMMA AdoptDelayInv ==
    ASSUME SchedInv, NEW p \in Peers, NEW d \in Delays, AdoptDelay(p, d)
    PROVE  SchedInv'
<1> DEFINE s == sc.at[p]
           r == [s EXCEPT !.d = d]
<1>1. sc' = [at |-> [sc.at EXCEPT ![p] = r], left |-> sc'.left]
  BY Zenon DEF AdoptDelay, SchedInv
<1>2. Sealed(s) /\ Within(s, sc.at[Other(p)])
  BY DEF SchedInv
<1> HIDE DEF s
<1>4. IsSched(r) /\ r.sim = s.sim /\ r.d = d /\ r.rows = s.rows /\ r.prep = s.prep
      /\ r.tip = s.tip
  BY <1>2 DEF Sealed, IsSched
<1> HIDE DEF r
<1>5. Sealed(r) /\ Within(r, sc.at[Other(p)]) /\ r.sim >= s.sim
  BY <1>2, <1>4 DEF Sealed, Within
<1>6. QED
  BY <1>1, <1>5, OneSteps DEF s

(* The gates that forbid guessing, closed or opened, keep it. *)
LEMMA GateInv ==
    ASSUME SchedInv, NEW p \in Peers, NEW t,
           rb_enter_lockstep(p) \/ set_hold(p, t) \/ clear_hold(p)
    PROVE  SchedInv'
<1> DEFINE s == sc.at[p]
<1>1. PICK r : /\ Alongside(s, r)
               /\ sc' = [at |-> [sc.at EXCEPT ![p] = r], left |-> sc'.left]
  <2>1. IsSched(s)
    BY DEF SchedInv, Sealed
  <2>2. CASE rb_enter_lockstep(p)
    <3>1. PICK v : v = s.sim + LockTicks
      BY Zenon
    <3>2. sc' = [at |-> [sc.at EXCEPT ![p] = [s EXCEPT !.lock = v]], left |-> sc'.left]
      BY <2>2, <3>1, Zenon DEF rb_enter_lockstep, SchedInv
    <3>3. QED
      BY <2>1, <3>2, FlagsKeep, Zenon
  <2>3. CASE set_hold(p, t)
    <3>1. sc' = [at |-> [sc.at EXCEPT ![p] = [s EXCEPT !.hold = t]], left |-> sc'.left]
      BY <2>3, Zenon DEF set_hold, SchedInv
    <3>2. QED
      BY <2>1, <3>1, FlagsKeep, Zenon
  <2>4. CASE clear_hold(p)
    <3>1. sc' = [at |-> [sc.at EXCEPT ![p] = [s EXCEPT !.hold = NoHold]], left |-> sc'.left]
      BY <2>4, Zenon DEF clear_hold, SchedInv
    <3>2. QED
      BY <2>1, <3>1, FlagsKeep, Zenon
  <2>5. QED
    BY <2>2, <2>3, <2>4
<1>2. Sealed(s) /\ Within(s, sc.at[Other(p)])
  BY DEF SchedInv
<1> HIDE DEF s
<1>3. Sealed(r)
  BY <1>1, <1>2, AlongsideIsSealed
<1>4. Within(r, sc.at[Other(p)]) /\ r.sim >= s.sim
  BY <1>1, <1>2, <1>3 DEF Sealed, Alongside, Within
<1>5. QED
  BY <1>1, <1>3, <1>4, OneSteps DEF s

(* A misprediction keeps it. *)
LEMMA MispredictInv ==
    ASSUME SchedInv, NEW p \in Peers, note_mispredict(p)
    PROVE  SchedInv'
<1> DEFINE o == Other(p)
           r == [AddDebt(sc.at[p]) EXCEPT !.guess = -1, !.cushion = TRUE]
           w == [sc.at[o] EXCEPT !.cushion = TRUE]
<1>1. o \in Peers /\ o # p /\ Other(o) = p /\ Peers = {p, o}
  BY DEF Peers, Other
<1>2. sc' = [at |-> [sc.at EXCEPT ![p] = r, ![o] = w], left |-> sc'.left]
  BY <1>1, Zenon DEF note_mispredict, SchedInv
<1>3. Sealed(sc.at[p]) /\ Sealed(sc.at[o]) /\ Within(sc.at[p], sc.at[o]) /\ Within(sc.at[o], sc.at[p])
  BY <1>1 DEF SchedInv
<1>4. Alongside(sc.at[p], r) /\ Alongside(sc.at[o], w)
  <2>1. IsSched(sc.at[p]) /\ IsSched(sc.at[o])
    BY <1>3, Zenon DEF Sealed
  <2>2. Alongside(sc.at[p], r)
    BY <2>1, FlagsKeep, Zenon
  <2>3. Alongside(sc.at[o], w)
    BY <2>1, FlagsKeep, Zenon
  <2>4. QED
    BY <2>2, <2>3
<1> HIDE DEF r, w
<1>5. Sealed(r) /\ Sealed(w)
  BY <1>3, <1>4, AlongsideIsSealed, Zenon
<1>6. Within(r, w) /\ Within(w, r)
  BY <1>3, <1>4 DEF Alongside, Within
<1>7. /\ sc' = [at |-> sc'.at, left |-> sc'.left]
      /\ sc'.at = [x \in Peers |-> sc'.at[x]] /\ sc'.at[p] = r /\ sc'.at[o] = w
  BY <1>1, <1>2 DEF SchedInv
<1>8. \A x \in Peers : Sealed(sc'.at[x]) /\ Within(sc'.at[x], sc'.at[Other(x)])
  BY <1>1, <1>5, <1>6, <1>7, Zenon
<1>9. QED
  BY <1>7, <1>8 DEF SchedInv

(* A rematch keeps it. *)
LEMMA RematchInv ==
    ASSUME SchedInv, Rematch
    PROVE  SchedInv'
<1> DEFINE f(p) == FreshMatch(sc.at[p])
<1>1. \A p \in Peers : /\ IsSched(f(p)) /\ f(p).sim = 0 /\ f(p).d = StartDelay
                       /\ f(p).rows = 0 .. (StartDelay - 1) /\ f(p).tip = -1
                       /\ ~f(p).prep
  BY DEF FreshMatch, IsSched
<1>2. sc' = [at |-> [p \in Peers |-> f(p)], left |-> sc'.left]
  BY Zenon DEF Rematch, SchedInv
<1> HIDE DEF f
<1>3. \A p \in Peers : Sealed(f(p))
  <2> SUFFICES ASSUME NEW p \in Peers PROVE Sealed(f(p))
    OBVIOUS
  <2> DEFINE g == f(p)
  <2>1. IsSched(g) /\ g.sim = 0 /\ g.d = StartDelay /\ g.rows = 0 .. (StartDelay - 1) /\ g.tip = -1
        /\ ~g.prep
    BY <1>1
  <2> HIDE DEF g
  <2>2. Sealed(g)
    BY <2>1, TopDelayBounds, SchedAssumption DEF Sealed
  <2>3. QED
    BY <2>2 DEF g
<1>4. \A p, o \in Peers : Within(f(p), f(o))
  BY <1>1, TopDelayBounds, SchedAssumption DEF Within
<1>5. \A p \in Peers : Other(p) \in Peers
  BY DEF Peers, Other
<1>6. /\ sc' = [at |-> sc'.at, left |-> sc'.left]
      /\ sc'.at = [x \in Peers |-> sc'.at[x]] /\ \A p \in Peers : sc'.at[p] = f(p)
  BY <1>2
<1>7. QED
  BY <1>3, <1>4, <1>5, <1>6, Zenon DEF SchedInv

(* Every step keeps the invariant. *)
LEMMA SchedStepInv == SchedInv /\ [SchedNext]_sc => SchedInv'
<1> SUFFICES ASSUME SchedInv, [SchedNext]_sc PROVE SchedInv'
  OBVIOUS
<1>1. ASSUME NEW p \in Peers, NEW out, Attempt(p, out) PROVE SchedInv'
  BY <1>1, AttemptInv
<1>2. ASSUME NEW p \in Peers, NEW t, RecvRows(p, t) PROVE SchedInv'
  BY <1>2, RecvRowsInv
<1>3. ASSUME NEW p \in Peers, NEW d \in Delays, AdoptDelay(p, d) PROVE SchedInv'
  BY <1>3, AdoptDelayInv
<1>4. ASSUME NEW p \in Peers, NEW t, rb_enter_lockstep(p) \/ set_hold(p, t) \/ clear_hold(p)
      PROVE  SchedInv'
  BY <1>4, GateInv
<1>5. ASSUME NEW p \in Peers, note_mispredict(p) PROVE SchedInv'
  BY <1>5, MispredictInv
<1>6. CASE Rematch
  BY <1>6, RematchInv
<1>7. CASE UNCHANGED sc
  BY <1>7 DEF SchedInv
<1>8. QED
  BY <1>1, <1>2, <1>3, <1>4, <1>5, <1>6, <1>7 DEF SchedNext

-----------------------------------------------------------------------------
(* For any prediction budget, any delays committed in mid-match and any    *)
(* mispredicts, pacing and rematches, no peer runs further ahead of the    *)
(* other than the longest delay and the budget allow (on_remote_miss).     *)
THEOREM SkewIsBounded == SchedSpec => []SkewBounded
<1>1. SchedInv => SkewBounded
  <2> SUFFICES ASSUME SchedInv, NEW p \in Peers
               PROVE  sc.at[p].sim - sc.at[Other(p)].sim <= TopDelay + Budget + 1
    BY DEF SkewBounded
  <2>1. Sealed(sc.at[p]) /\ Sealed(sc.at[Other(p)]) /\ Within(sc.at[p], sc.at[Other(p)])
    <3>1. Other(p) \in Peers
      BY DEF Peers, Other
    <3>2. QED
      BY <3>1 DEF SchedInv
  <2>2. sc.at[p].sim \in Nat /\ sc.at[Other(p)].sim \in Nat /\ TopDelay \in Nat /\ Budget \in Nat
    BY <2>1, TopDelayBounds, SchedAssumption, Zenon DEF Sealed
  <2>3. QED
    BY <2>1, <2>2 DEF Within
<1>2. QED
  BY <1>1, SchedInitInv, SchedStepInv, PTL DEF SchedSpec

(* In the same matches, the peer that is not ahead waits only for rows the *)
(* other has sealed: the back-fill of prepare_local_tip leaves no hole     *)
(* when the delay is raised, so the two cannot wait for each other.        *)
THEOREM BehindAlwaysFed == SchedSpec => []BehindIsFed
<1>1. SchedInv => BehindIsFed
  <2> SUFFICES ASSUME SchedInv, NEW p \in Peers, sc.at[p].sim <= sc.at[Other(p)].sim
               PROVE  sc.at[p].sim \in sc.at[Other(p)].rows
    BY DEF BehindIsFed
  <2>1. Sealed(sc.at[p]) /\ Sealed(sc.at[Other(p)])
    <3>1. Other(p) \in Peers
      BY DEF Peers, Other
    <3>2. QED
      BY <3>1 DEF SchedInv
  <2>2. QED
    BY <2>1 DEF Sealed
<1>2. QED
  BY <1>1, SchedInitInv, SchedStepInv, PTL DEF SchedSpec

-----------------------------------------------------------------------------
(* The automatic delay. *)

AdSpec == AdInit /\ [][AdNext]_ad

(* The controller's state has these fields, whatever they hold.            *)
IsAd(a) ==
    a = [d |-> a.d, pending |-> a.pending, target |-> a.target, agree |-> a.agree,
         changed |-> a.changed, froze |-> a.froze, bumped |-> a.bumped, enters |-> a.enters,
         evals |-> a.evals, asked |-> a.asked, leadMin |-> a.leadMin]

(* What every step of the controller keeps: when the last evaluation       *)
(* called for more, its target stays above whatever the delay becomes, so  *)
(* it cannot pass for the confirmation of a lower, unless a freeze bumped  *)
(* the delay since; and then the freeze holds a lower back.                *)
AdInv ==
    /\ AdTypeOK /\ IsAd(ad)
    /\ ad.bumped \in Never .. BumpCooldown /\ ad.enters \in Nat
    /\ ad.agree > 0 /\ ad.asked[1] \notin {"lower", "pause"} =>
         ad.froze = 0 \/ (ad.target >= ad.d /\ ad.target >= ad.pending)

-----------------------------------------------------------------------------
(* The extremes of a pair of integers. *)
LEMMA MaxOfPair ==
    ASSUME NEW a \in Int, NEW b \in Int
    PROVE  Max({a, b}) = IF a >= b THEN a ELSE b
<1>1. \E x \in {a, b} : \A y \in {a, b} : x >= y
  OBVIOUS
<1>2. Max({a, b}) \in {a, b} /\ Max({a, b}) >= a /\ Max({a, b}) >= b
  BY <1>1 DEF Max
<1>3. QED
  BY <1>2

(* The smaller of a pair of integers. *)
LEMMA MinOfPair ==
    ASSUME NEW a \in Int, NEW b \in Int
    PROVE  Min({a, b}) = IF a <= b THEN a ELSE b
<1>1. \E x \in {a, b} : \A y \in {a, b} : x <= y
  OBVIOUS
<1>2. Min({a, b}) \in {a, b} /\ Min({a, b}) <= a /\ Min({a, b}) <= b
  BY <1>1 DEF Min
<1>3. QED
  BY <1>2

(* Clip keeps an integer between two others. *)
LEMMA ClipValue ==
    ASSUME NEW x \in Int, NEW lo \in Int, NEW hi \in Int
    PROVE  Clip(x, lo, hi) = IF (IF x <= hi THEN x ELSE hi) <= lo THEN lo
                             ELSE IF x <= hi THEN x ELSE hi
<1>1. Min({x, hi}) = IF x <= hi THEN x ELSE hi
  BY MinOfPair
<1>2. Min({x, hi}) \in Int
  BY <1>1
<1>3. Max({lo, Min({x, hi})}) = IF lo >= Min({x, hi}) THEN lo ELSE Min({x, hi})
  BY <1>2, MaxOfPair
<1>4. QED
  BY <1>1, <1>3 DEF Clip

(* An age grows by one up to its limit; what never happened has no age. *)
LEMMA OlderAge ==
    ASSUME NEW limit \in Nat, NEW age \in Never .. limit
    PROVE  /\ Older(age, limit) \in Never .. limit
           /\ age = 0 /\ limit > 0 => Older(age, limit) = 1
<1>1. CASE age = Never
  BY <1>1 DEF Older, Never
<1>2. CASE age # Never
  <2>1. age \in Nat /\ age + 1 \in Int /\ limit \in Int
    BY <1>2 DEF Never
  <2>2. Older(age, limit) = IF age + 1 <= limit THEN age + 1 ELSE limit
    BY <1>2, <2>1, MinOfPair DEF Older
  <2>3. QED
    BY <2>1, <2>2 DEF Never
<1>3. QED
  BY <1>1, <1>2

(* What a window calls for lies between the bounds; it is below the delay  *)
(* only for as much as the lowest lead exceeds the margin, or because the  *)
(* delay is above the upper bound.                                         *)
LEMMA TargetSafe ==
    ASSUME ad.d \in Nat, NEW w \in AdWindow
    PROVE  /\ Target(w) \in AdFloor .. AdMax
           /\ Target(w) < ad.d => \/ w.leadMin - (ad.d - Target(w)) >= LeadMargin
                                 \/ Target(w) = AdMax
<1>0. AdFloor \in Nat /\ AdMax \in Nat /\ LeadMargin \in Nat /\ ad.d \in Int /\ AdFloor <= AdMax
  BY AutoDelayAssumption
<1>1. w.leadMin \in Int /\ w.lateTicks \in Nat
  BY DEF AdWindow
<1> DEFINE bump == Min({4, Max({Clip(w.lateTicks, 1, 2), 1 - w.leadMin})})
           x == IF w.late THEN ad.d + bump
                ELSE IF w.clean /\ w.leadMin > LeadMargin THEN ad.d - (w.leadMin - LeadMargin)
                ELSE ad.d
<1>2. bump \in Nat
  <2>1. Clip(w.lateTicks, 1, 2) \in 1 .. 2
    BY <1>1, ClipValue
  <2>2. Max({Clip(w.lateTicks, 1, 2), 1 - w.leadMin}) \in Nat
    <3>1. 1 - w.leadMin \in Int
      BY <1>1
    <3>2. QED
      BY <2>1, <3>1, MaxOfPair
  <2>3. QED
    BY <2>2, MinOfPair
<1>3. x \in Int /\ (x < ad.d => x = ad.d - (w.leadMin - LeadMargin))
  <2> HIDE DEF bump
  <2>1. CASE w.late
    BY <1>0, <1>2, <2>1
  <2>2. CASE ~ w.late /\ w.clean /\ w.leadMin > LeadMargin
    BY <1>0, <1>1, <2>2
  <2>3. CASE ~ w.late /\ ~(w.clean /\ w.leadMin > LeadMargin)
    BY <1>0, <2>3
  <2>4. QED
    BY <2>1, <2>2, <2>3
<1>4. Target(w) = Clip(x, AdFloor, AdMax)
  BY DEF Target
<1> HIDE DEF x
<1>5. Target(w) = IF (IF x <= AdMax THEN x ELSE AdMax) <= AdFloor THEN AdFloor
                  ELSE IF x <= AdMax THEN x ELSE AdMax
  BY <1>0, <1>3, <1>4, ClipValue
<1>6. QED
  BY <1>0, <1>1, <1>3, <1>5

(* What the invariant says of the delays, the ages and the windows. *)
LEMMA AdTypes ==
    ASSUME AdInv
    PROVE  /\ AdFloor \in Nat /\ 2 <= AdFloor /\ AdMax \in Nat /\ Cooldown \in Nat /\ LeadMargin \in Nat
           /\ BumpCooldown \in Nat /\ Cooldown >= 2 /\ AdWindows \subseteq AdWindow
           /\ ad.d \in Nat /\ 2 <= ad.d /\ ad.target \in {-1} \cup AdFloor .. AdMax
           /\ ad.agree \in 0 .. 2
<1>1. ad.d \in AdStarts \cup 2 .. AdMax /\ AdStarts \subseteq 2 .. 20 /\ AdMax \in Nat
  BY AutoDelayAssumption DEF AdInv, AdTypeOK
<1>2. ad.d \in Nat /\ 2 <= ad.d
  <2>1. CASE ad.d \in AdStarts
    <3>1. ad.d \in 2 .. 20
      BY <1>1, <2>1, Zenon
    <3>2. QED
      BY <3>1
  <2>2. CASE ad.d \in 2 .. AdMax
    BY <1>1, <2>2
  <2>3. QED
    BY <1>1, <2>1, <2>2, Zenon
<1>3. QED
  BY <1>2, AutoDelayAssumption DEF AdInv, AdTypeOK

(* The evaluation agrees with the one before on a lower only if it calls   *)
(* for one itself, and never asks for less than its own target.            *)
LEMMA ConcursSafe ==
    ASSUME AdInv, NEW t \in AdFloor .. AdMax
    PROVE  LET g == Concurs(t) IN
           /\ g.target \in AdFloor .. AdMax /\ g.agree \in Nat \ {0}
           /\ g.target >= t
           /\ t < ad.d => g.target < ad.d
           /\ t > ad.d => g.target = t
           /\ t < ad.d /\ g.agree >= NeedAgree /\ ad.changed # Never =>
                ad.agree > 0 /\ ad.target < ad.d
<1> DEFINE lowers == t < ad.d /\ ad.target >= 0 /\ ad.target < ad.d
           kept == IF lowers THEN Max({t, ad.target}) ELSE t
           n == IF lowers \/ t = ad.target THEN ad.agree + 1 ELSE 1
<1>1. t \in Int /\ ad.target \in Int /\ ad.d \in Int
  BY AdTypes
<1>2. Max({t, ad.target}) = IF t >= ad.target THEN t ELSE ad.target
  BY <1>1, MaxOfPair, Zenon
<1>3. kept \in AdFloor .. AdMax /\ kept >= t /\ (t < ad.d => kept < ad.d)
        /\ (t > ad.d => kept = t)
  BY <1>1, <1>2, AdTypes
<1>4. n \in Nat \ {0} /\ (t < ad.d /\ n >= NeedAgree /\ ad.changed # Never =>
                           ad.agree > 0 /\ ad.target < ad.d)
  BY <1>1, AdTypes DEF NeedAgree
<1>5. Concurs(t) = [target |-> kept, agree |-> n]
  BY DEF Concurs
<1> HIDE DEF kept, n
<1>6. QED
  BY <1>3, <1>4, <1>5

-----------------------------------------------------------------------------
(* The invariant, one action at a time. *)

(* What one more period leaves of the state. *)
LEMMA AgedFields ==
    ASSUME IsAd(ad), NEW what, NEW old, old = Aged(what)
    PROVE  /\ IsAd(old) /\ old.d = ad.d /\ old.evals = ad.evals + 1
           /\ old.froze = Older(ad.froze, Cooldown) /\ old.bumped = Older(ad.bumped, BumpCooldown)
           /\ old.changed = Older(ad.changed, Cooldown) /\ old.enters = ad.enters
           /\ old.asked = <<what, ad.asked[1]>> /\ old.leadMin = ad.leadMin
           /\ old.target = ad.target /\ old.pending = ad.pending /\ old.agree = ad.agree
<1>1. PICK c, f, b, v, k :
          /\ c = Older(ad.changed, Cooldown) /\ f = Older(ad.froze, Cooldown)
          /\ b = Older(ad.bumped, BumpCooldown) /\ v = ad.evals + 1 /\ k = <<what, ad.asked[1]>>
  BY Zenon
<1>2. old = [ad EXCEPT !.changed = c, !.froze = f, !.bumped = b, !.evals = v, !.asked = k]
  BY <1>1, Zenon DEF Aged
<1>3. /\ IsAd(old) /\ old.d = ad.d /\ old.evals = v /\ old.froze = f /\ old.bumped = b
      /\ old.changed = c /\ old.enters = ad.enters /\ old.asked = k /\ old.leadMin = ad.leadMin
      /\ old.target = ad.target /\ old.pending = ad.pending /\ old.agree = ad.agree
  BY <1>2, Zenon DEF IsAd
<1>4. QED
  BY <1>1, <1>3, Zenon

(* The ages stay in their ranges, and a freeze since the last period is    *)
(* recent at the next.                                                     *)
LEMMA AgesKept ==
    ASSUME AdInv
    PROVE  /\ {Older(ad.changed, Cooldown), Older(ad.froze, Cooldown)} \subseteq Never .. Cooldown
           /\ Older(ad.bumped, BumpCooldown) \in Never .. BumpCooldown
           /\ ad.froze = 0 => Older(ad.froze, Cooldown) \in 0 .. (Cooldown - 1)
<1>1. ad.changed \in Never .. Cooldown /\ ad.froze \in Never .. Cooldown
        /\ ad.bumped \in Never .. BumpCooldown
  BY DEF AdInv, AdTypeOK
<1>2. Older(ad.changed, Cooldown) \in Never .. Cooldown /\ Older(ad.froze, Cooldown) \in Never .. Cooldown
  BY <1>1, AdTypes, OlderAge, Zenon
<1>3. QED
  BY <1>1, <1>2, AdTypes, OlderAge

(* The fields an evaluation leaves, whatever its outcome: the ages, the    *)
(* delay and what was asked; a request is the only change of pending.      *)
LEMMA EvaluateFields ==
    ASSUME AdInv, NEW w \in AdWindow, Evaluate(w)
    PROVE  LET t == Target(w)
               g == Concurs(t)
           IN  /\ IsAd(ad') /\ ad'.d = ad.d /\ ad'.evals = ad.evals + 1 /\ ad.evals < MaxEvals
               /\ ad'.froze = Older(ad.froze, Cooldown)
               /\ ad'.bumped = Older(ad.bumped, BumpCooldown)
               /\ ad'.changed \in {0, Older(ad.changed, Cooldown)}
               /\ ad'.enters = ad.enters /\ ad'.leadMin = w.leadMin
               /\ ad'.asked = <<Ask(w, t), ad.asked[1]>>
               /\ w.long => ad.pending \in {0, ad.d + 1}
               /\ \/ ad'.agree = 0 /\ ad'.target \in {ad.target, t} /\ ad'.pending = ad.pending
                  \/ /\ w.long /\ t # ad.d /\ ad'.target = g.target
                     /\ \/ ad'.agree = Min({g.agree, 2}) /\ ad'.pending = ad.pending
                        \/ /\ ad'.agree = 0 /\ ad'.pending = g.target /\ ~(g.agree < NeedAgree)
                           /\ g.target < ad.d =>
                                /\ Older(ad.changed, Cooldown) \notin 0 .. (Cooldown - 1)
                                /\ Older(ad.froze, Cooldown) \notin 0 .. (Cooldown - 1)
<1> DEFINE t == Target(w)
           g == Concurs(t)
           aged == [Aged(Ask(w, t)) EXCEPT !.leadMin = w.leadMin]
           noted == [aged EXCEPT !.target = g.target, !.agree = Min({g.agree, 2})]
<1>1. /\ w.long => ad.pending \in {0, ad.d + 1}
      /\ ad.evals < MaxEvals
      /\ ad' = IF ~ w.long THEN [aged EXCEPT !.agree = 0]
               ELSE IF t = ad.d THEN [aged EXCEPT !.agree = 0, !.target = t]
               ELSE IF g.agree < NeedAgree \/ HeldBack(aged, g.target) \/ Refuses(g.target) THEN noted
               ELSE AdRequest([noted EXCEPT !.agree = 0, !.changed = 0], g.target)
  BY Zenon DEF Evaluate
<1>2. IsAd(ad)
  BY DEF AdInv
<1>3. /\ IsAd(aged) /\ aged.d = ad.d /\ aged.evals = ad.evals + 1
      /\ aged.froze = Older(ad.froze, Cooldown) /\ aged.bumped = Older(ad.bumped, BumpCooldown)
      /\ aged.changed = Older(ad.changed, Cooldown) /\ aged.enters = ad.enters
      /\ aged.leadMin = w.leadMin /\ aged.asked = <<Ask(w, t), ad.asked[1]>>
      /\ aged.target = ad.target /\ aged.pending = ad.pending
  <2>1. PICK what : what = Ask(w, t)
    BY Zenon
  <2>2. PICK old : old = Aged(what)
    BY Zenon
  <2>3. /\ IsAd(old) /\ old.d = ad.d /\ old.evals = ad.evals + 1
        /\ old.froze = Older(ad.froze, Cooldown) /\ old.bumped = Older(ad.bumped, BumpCooldown)
        /\ old.changed = Older(ad.changed, Cooldown) /\ old.enters = ad.enters
        /\ old.asked = <<what, ad.asked[1]>>
        /\ old.target = ad.target /\ old.pending = ad.pending
    BY <2>2, AgedFields, Zenon DEF AdInv
  <2>4. aged = [old EXCEPT !.leadMin = w.leadMin]
    BY <2>1, <2>2, Zenon
  <2> HIDE DEF aged, t, g
  <2>5. QED
    BY <2>1, <2>3, <2>4 DEF IsAd
<1> HIDE DEF aged, t, g
<1>4. CASE ~ w.long
  <2>1. ad' = [aged EXCEPT !.agree = 0]
    BY <1>1, <1>4, Zenon
  <2>2. QED
    BY <1>1, <1>3, <2>1, Zenon DEF IsAd, t, g
<1>5. CASE w.long /\ t = ad.d
  <2>1. ad' = [aged EXCEPT !.agree = 0, !.target = t]
    BY <1>1, <1>5
  <2>2. QED
    BY <1>1, <1>3, <2>1, Zenon DEF IsAd, t, g
<1>6. CASE w.long /\ t # ad.d /\ (g.agree < NeedAgree \/ HeldBack(aged, g.target) \/ Refuses(g.target))
  <2>1. ad' = noted
    BY <1>1, <1>6
  <2>2. QED
    BY <1>1, <1>3, <1>6, <2>1, Zenon DEF IsAd, t, g
<1>7. CASE w.long /\ t # ad.d /\ ~(g.agree < NeedAgree) /\ ~ HeldBack(aged, g.target) /\ ~ Refuses(g.target)
  <2>1. ad' = AdRequest([noted EXCEPT !.agree = 0, !.changed = 0], g.target)
    BY <1>1, <1>7
  <2>2. g.target < ad.d => /\ Older(ad.changed, Cooldown) \notin 0 .. (Cooldown - 1)
                           /\ Older(ad.froze, Cooldown) \notin 0 .. (Cooldown - 1)
    BY <1>3, <1>7, Zenon DEF HeldBack
  <2>3. QED
    BY <1>1, <1>3, <1>7, <2>1, <2>2, Zenon DEF IsAd, AdRequest, t, g
<1>8. QED
  BY <1>4, <1>5, <1>6, <1>7, Zenon

(* An evaluation, whatever its window, keeps the invariant and lowers only *)
(* on evidence.                                                            *)
LEMMA EvaluateInv ==
    ASSUME AdInv, NEW w \in AdWindows, Evaluate(w)
    PROVE  AdInv' /\ LowerIsSafe
<1> DEFINE t == Target(w)
           g == Concurs(t)
<1>1. w \in AdWindow
  BY AdTypes
<1>2. t \in AdFloor .. AdMax
      /\ (t < ad.d => w.leadMin - (ad.d - t) >= LeadMargin \/ t = AdMax)
  BY <1>1, AdTypes, TargetSafe, Zenon
<1>3. /\ g.target \in AdFloor .. AdMax /\ g.agree \in Nat \ {0} /\ g.target >= t
      /\ t < ad.d => g.target < ad.d
      /\ t > ad.d => g.target = t
      /\ t < ad.d /\ g.agree >= NeedAgree /\ ad.changed # Never => ad.agree > 0 /\ ad.target < ad.d
  BY <1>2, ConcursSafe, Zenon
<1>4. Min({g.agree, 2}) \in 0 .. 2
  BY <1>3, MinOfPair
<1>5. /\ IsAd(ad') /\ ad'.d = ad.d /\ ad'.evals = ad.evals + 1 /\ ad.evals < MaxEvals
      /\ ad'.froze = Older(ad.froze, Cooldown)
      /\ ad'.bumped = Older(ad.bumped, BumpCooldown)
      /\ ad'.changed \in {0, Older(ad.changed, Cooldown)}
      /\ ad'.enters = ad.enters /\ ad'.leadMin = w.leadMin
      /\ ad'.asked = <<Ask(w, t), ad.asked[1]>>
      /\ w.long => ad.pending \in {0, ad.d + 1}
      /\ \/ ad'.agree = 0 /\ ad'.target \in {ad.target, t} /\ ad'.pending = ad.pending
         \/ /\ w.long /\ t # ad.d /\ ad'.target = g.target
            /\ \/ ad'.agree = Min({g.agree, 2}) /\ ad'.pending = ad.pending
               \/ /\ ad'.agree = 0 /\ ad'.pending = g.target /\ ~(g.agree < NeedAgree)
                  /\ g.target < ad.d =>
                       /\ Older(ad.changed, Cooldown) \notin 0 .. (Cooldown - 1)
                       /\ Older(ad.froze, Cooldown) \notin 0 .. (Cooldown - 1)
  BY <1>1, EvaluateFields, Zenon
<1>6. NeedAgree \in 1 .. 2 /\ ad'.asked[1] = Ask(w, t) /\ ad'.asked[2] = ad.asked[1]
  BY <1>5 DEF NeedAgree
<1>7. w.long /\ t < ad.d => Ask(w, t) = "lower"
  BY <1>2, AdTypes DEF Ask
<1> HIDE DEF t, g
<1>8. AdTypeOK'
  <2>1. {ad'.changed, ad'.froze} \subseteq Never .. Cooldown
    BY <1>5, AgesKept, AdTypes DEF Never
  <2>2. ad'.evals \in 0 .. MaxEvals
    BY <1>5, AutoDelayAssumption DEF AdInv, AdTypeOK
  <2>3. ad'.pending \in {0} \cup 2 .. AdMax /\ ad'.target \in {-1} \cup AdFloor .. AdMax
          /\ ad'.agree \in 0 .. 2 /\ ad'.d \in AdStarts \cup 2 .. AdMax
    BY <1>2, <1>3, <1>4, <1>5, AdTypes DEF AdInv, AdTypeOK
  <2>4. QED
    BY <2>1, <2>2, <2>3, Zenon DEF AdTypeOK
<1>9. ad'.bumped \in Never .. BumpCooldown /\ ad'.enters \in Nat
  BY <1>5, AgesKept, AdTypes, Zenon DEF AdInv
<1>10. ad'.agree > 0 /\ ad'.asked[1] \notin {"lower", "pause"} =>
         ad'.target >= ad'.d /\ ad'.target >= ad'.pending
  <2> SUFFICES ASSUME ad'.agree > 0, ad'.asked[1] \notin {"lower", "pause"}
               PROVE  ad'.target >= ad'.d /\ ad'.target >= ad'.pending
    BY Zenon
  <2>1. w.long /\ t # ad.d /\ ad'.target = g.target /\ ad'.pending = ad.pending
    BY <1>5
  <2>2. t > ad.d /\ ad'.target = t
    BY <1>2, <1>3, <1>6, <1>7, <2>1, AdTypes
  <2>3. QED
    BY <1>2, <1>5, <2>1, <2>2, AdTypes
<1>11. LowerIsSafe
  <2> SUFFICES ASSUME ad'.pending # ad.pending, ad'.pending # 0, ad'.pending < ad.d
               PROVE  /\ \/ ad'.leadMin - (ad.d - ad'.pending) >= LeadMargin
                         \/ ad'.pending = AdMax
                      /\ ad'.froze \notin 0 .. (Cooldown - 1)
                      /\ Older(ad.changed, Cooldown) \notin 0 .. (Cooldown - 1)
                      /\ ad.changed # Never => ad'.asked[1] = "lower" /\ ad'.asked[2] \in {"lower", "pause"}
    BY Zenon DEF LowerIsSafe
  <2>1. /\ w.long /\ ad'.pending = g.target /\ ~(g.agree < NeedAgree)
        /\ Older(ad.changed, Cooldown) \notin 0 .. (Cooldown - 1)
        /\ Older(ad.froze, Cooldown) \notin 0 .. (Cooldown - 1)
    BY <1>5, Zenon
  <2>2. t < ad.d
    BY <1>2, <1>3, <2>1, AdTypes
  <2>3. ad'.leadMin - (ad.d - ad'.pending) >= LeadMargin \/ ad'.pending = AdMax
    BY <1>1, <1>2, <1>3, <1>5, <2>1, <2>2, AdTypes DEF AdWindow
  <2>4. ad.changed # Never => ad.asked[1] \in {"lower", "pause"}
    BY <1>3, <1>6, <2>1, <2>2, AgesKept, AdTypes DEF AdInv
  <2>5. QED
    BY <1>5, <1>6, <1>7, <2>1, <2>2, <2>3, <2>4, Zenon
<1>12. QED
  BY <1>5, <1>8, <1>9, <1>10, <1>11 DEF AdInv

(* A period without an evaluation only lets time pass. *)
LEMMA PauseInv ==
    ASSUME AdInv, NoEvaluation
    PROVE  AdInv' /\ LowerIsSafe
<1>1. ad.evals < MaxEvals /\ ad' = Aged("pause") /\ IsAd(ad)
  BY DEF NoEvaluation, AdInv
<1>2. PICK new : new = ad'
  BY Zenon
<1>3. new = Aged("pause")
  BY <1>1, <1>2, Zenon
<1>4. /\ IsAd(new) /\ new.d = ad.d /\ new.evals = ad.evals + 1
      /\ new.froze = Older(ad.froze, Cooldown) /\ new.bumped = Older(ad.bumped, BumpCooldown)
      /\ new.changed = Older(ad.changed, Cooldown) /\ new.enters = ad.enters
      /\ new.asked = <<"pause", ad.asked[1]>> /\ new.leadMin = ad.leadMin
      /\ new.target = ad.target /\ new.pending = ad.pending /\ new.agree = ad.agree
  BY <1>1, <1>3, AgedFields, Zenon
<1>5. new.asked[1] = "pause"
  BY <1>4
<1>6. AdTypeOK'
  BY <1>1, <1>2, <1>4, AgesKept, AutoDelayAssumption DEF AdInv, AdTypeOK
<1>7. QED
  BY <1>2, <1>4, <1>5, <1>6, AgesKept, Zenon DEF AdInv, LowerIsSafe

(* A freeze, with or without the bump it triggers, keeps the invariant and *)
(* lowers nothing.                                                         *)
LEMMA FreezeInv ==
    ASSUME AdInv, NEW counts \in BOOLEAN, NEW past \in BOOLEAN, FreezeEnter(counts, past)
    PROVE  AdInv' /\ LowerIsSafe
<1>1. StormEnters \in Nat /\ ad.enters \in Nat /\ IsAd(ad) /\ AdTypeOK
  BY AutoDelayAssumption DEF AdInv
<1>2. PICK n, m : /\ n = (IF past THEN 0 ELSE ad.enters) + 1
                  /\ m = IF counts THEN Min({n, StormEnters}) ELSE ad.enters
  BY Zenon
<1>3. m \in Nat
  <2>1. n \in Nat
    BY <1>1, <1>2
  <2>2. QED
    BY <1>1, <1>2, <2>1, MinOfPair
<1> DEFINE frozen == [ad EXCEPT !.froze = 0, !.enters = m]
           storm == counts /\ n >= StormEnters /\ ad.bumped \notin 0 .. (BumpCooldown - 1) /\ ad.d < AdMax
<1>4. ad' = IF storm THEN AdRequest([frozen EXCEPT !.bumped = 0, !.enters = 0], ad.d + 1)
            ELSE frozen
  BY <1>2, Zenon DEF FreezeEnter
<1>5. CASE ~ storm
  <2>1. ad' = [ad EXCEPT !.froze = 0, !.enters = m]
    BY <1>4, <1>5, Zenon
  <2>2. /\ IsAd(ad') /\ ad'.d = ad.d /\ ad'.pending = ad.pending /\ ad'.target = ad.target
        /\ ad'.agree = ad.agree /\ ad'.changed = ad.changed /\ ad'.froze = 0
        /\ ad'.bumped = ad.bumped /\ ad'.enters = m /\ ad'.evals = ad.evals
        /\ ad'.asked = ad.asked
    BY <1>1, <2>1, Zenon DEF IsAd
  <2>3. AdTypeOK'
    BY <1>1, <2>2, AdTypes DEF AdTypeOK, Never
  <2>4. QED
    BY <1>3, <2>2, <2>3 DEF AdInv, LowerIsSafe
<1>6. CASE storm
  <2>1. PICK u : u = ad.d + 1
    BY Zenon
  <2>2. ad' = [[[ad EXCEPT !.froze = 0, !.enters = m] EXCEPT !.bumped = 0, !.enters = 0]
                 EXCEPT !.pending = u]
    BY <1>4, <1>6, <2>1 DEF AdRequest
  <2>3. /\ IsAd(ad') /\ ad'.d = ad.d /\ ad'.pending = u /\ ad'.target = ad.target
        /\ ad'.agree = ad.agree /\ ad'.changed = ad.changed /\ ad'.froze = 0
        /\ ad'.bumped = 0 /\ ad'.enters = 0 /\ ad'.evals = ad.evals
        /\ ad'.asked = ad.asked
    BY <1>1, <2>2, Zenon DEF IsAd
  <2>4. u \in 2 .. AdMax /\ u > ad.d
    BY <1>6, <2>1, AdTypes
  <2>5. AdTypeOK'
    BY <1>1, <2>3, <2>4, AdTypes DEF AdTypeOK, Never
  <2>7. ad'.bumped \in Never .. BumpCooldown
    BY <2>3, AdTypes DEF Never
  <2>8. LowerIsSafe
    BY <2>3, <2>4, AdTypes DEF LowerIsSafe
  <2>9. QED
    BY <2>1, <2>3, <2>4, <2>5, <2>7, <2>8, AdTypes DEF AdInv
<1>7. QED
  BY <1>5, <1>6

(* The commit of a pending delay keeps the invariant and asks for nothing. *)
LEMMA CommitInv ==
    ASSUME AdInv, AdCommit
    PROVE  AdInv' /\ LowerIsSafe
<1>1. IsAd(ad) /\ AdTypeOK
  BY DEF AdInv
<1>2. ad.pending # 0 /\ ad' = [ad EXCEPT !.d = ad.pending, !.pending = 0]
  BY DEF AdCommit
<1>3. /\ IsAd(ad') /\ ad'.d = ad.pending /\ ad'.pending = 0 /\ ad'.target = ad.target
      /\ ad'.agree = ad.agree /\ ad'.changed = ad.changed /\ ad'.froze = ad.froze
      /\ ad'.bumped = ad.bumped /\ ad'.enters = ad.enters /\ ad'.evals = ad.evals
      /\ ad'.asked = ad.asked
  BY <1>1, <1>2, Zenon DEF IsAd
<1>4. AdTypeOK'
  BY <1>1, <1>2, <1>3 DEF AdTypeOK
<1>5. ad.target \in Int /\ ad.pending \in Nat
  BY <1>1, AdTypes DEF AdTypeOK
<1>6. ad.agree > 0 /\ ad.asked[1] \notin {"lower", "pause"} =>
        ad.froze = 0 \/ (ad.target >= ad.pending /\ ad.target >= 0)
  BY <1>5 DEF AdInv
<1>7. QED
  BY <1>3, <1>4, <1>6 DEF AdInv, LowerIsSafe

(* The invariant holds at the start of a match. *)
LEMMA AdInitInv == AdInit => AdInv
<1> SUFFICES ASSUME AdInit PROVE AdInv
  OBVIOUS
<1>1. /\ IsAd(ad) /\ ad.d \in AdStarts /\ ad.pending = 0 /\ ad.target = -1 /\ ad.agree = 0
      /\ ad.changed = Never /\ ad.froze = Never /\ ad.bumped = Never /\ ad.enters = 0
      /\ ad.evals = 0
  BY DEF AdInit, IsAd
<1>2. AdTypeOK /\ ad.bumped \in Never .. BumpCooldown
  BY <1>1, AutoDelayAssumption DEF AdTypeOK, Never
<1>3. QED
  BY <1>1, <1>2 DEF AdInv

(* Every step keeps the invariant and is a safe lower, or none. *)
LEMMA AdStepInv == AdInv /\ [AdNext]_ad => AdInv' /\ [LowerIsSafe]_ad
<1> SUFFICES ASSUME AdInv, [AdNext]_ad PROVE AdInv' /\ [LowerIsSafe]_ad
  OBVIOUS
<1>1. ASSUME NEW w \in AdWindows, Evaluate(w)
      PROVE  AdInv' /\ LowerIsSafe
  BY <1>1, EvaluateInv
<1>2. CASE NoEvaluation
  BY <1>2, PauseInv
<1>3. ASSUME NEW counts \in BOOLEAN, NEW past \in BOOLEAN, FreezeEnter(counts, past)
      PROVE  AdInv' /\ LowerIsSafe
  BY <1>3, FreezeInv
<1>4. CASE AdCommit
  BY <1>4, CommitInv, Zenon
<1>5. CASE UNCHANGED ad
  BY <1>5 DEF AdInv, AdTypeOK, IsAd
<1>6. QED
  BY <1>1, <1>2, <1>3, <1>4, <1>5 DEF AdNext

(* np_auto_delay_tick lowers the delay only where the lowest lead of the   *)
(* window keeps the margin, no change or freeze is recent and, after the   *)
(* first change, two evaluations in a row called for less, or a pause came *)
(* between them: whatever delay the lobby set, whatever the windows, the   *)
(* freezes and the bumps.  A lobby delay above AdMax comes down to AdMax   *)
(* on any lead, but waits like every other lower.                          *)
THEOREM LowersOnlyOnEvidence == AdSpec => LowersAreSafe
<1>1. AdInit => AdInv
  BY AdInitInv
<1>2. AdInv /\ [AdNext]_ad => AdInv' /\ [LowerIsSafe]_ad
  BY AdStepInv, Zenon
<1>3. QED
  BY <1>1, <1>2, PTL DEF AdSpec, LowersAreSafe

(* Every delay the session is asked for lies between its least and the     *)
(* most a bump may reach: the delay it runs is above that only while it is *)
(* the lobby's.                                                            *)
THEOREM DelayWithinBounds == AdSpec => []AdTypeOK
<1>1. AdInv => AdTypeOK
  BY DEF AdInv
<1>2. QED
  BY <1>1, AdInitInv, AdStepInv, PTL DEF AdSpec
=============================================================================
