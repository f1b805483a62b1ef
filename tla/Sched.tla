------------------------------- MODULE Sched -------------------------------
(***************************************************************************)
(* The admission scheduler of rollback play, src/sched/rnet_sched.c, as    *)
(* poll_admit of src/rollback/rnet_rb_driver.c drives it, for two peers    *)
(* that wait for each other's rows: the row of wire tick T + D is sealed   *)
(* and sent when tick T is first tried; a missing row of the other peer is *)
(* waited for (no-invent, boot tip, prediction cap, cushion rebuild, depth *)
(* and grace waits) or invented; the ahead peer paces itself.              *)
(*                                                                         *)
(* Time is in the timers only: an attempt finds some set of them run out,  *)
(* and a timer armed by the attempt itself has not run out.  Debt counts   *)
(* slices of at most 6 ms, rows are delivered in order up to a tip, and    *)
(* the transit estimate behind "achievable" is any.  Left out are the      *)
(* knobs (zero delay, flat gap-1 cap, GAP1_INVENT=0, pinned lockstep), the *)
(* media gate, which the driver leaves unbound, the absurd catch-up that   *)
(* lifts the cushion wait, which nothing in the repository arms, and the   *)
(* telemetry.                                                              *)
(***************************************************************************)
EXTENDS Integers, FiniteSetsExt

CONSTANTS
    Budget,         \* input_prediction, P
    StartDelay,     \* the committed delay of the match
    Delays,         \* the delays the session may commit later
    OffStreak,      \* grace expiries in a row that switch the grace off: 15
    AheadArm, AheadEvery,   \* admits ahead of the tip before, and between, slices: 8, 4
    DebtCap,        \* the pacing debt's cap, in slices
    LockTicks,      \* the ticks of lockstep after a fork: 60
    Plans           \* bounds: [last, changes, rematches, holds]: the last tick to play,
                    \* the mispredicts and changes of delay or gate, the rematches,
                    \* and the ticks a session may be held at

SchedPlan == [last : Nat, changes : Nat, rematches : Nat, holds : SUBSET Nat]

ASSUME SchedAssumption ==
    /\ Budget \in Nat \ {0}
    /\ Plans \subseteq SchedPlan
    /\ Delays \subseteq 2 .. 20 /\ StartDelay \in 2 .. 20
    /\ LockTicks \in Nat

VARIABLE sc     \* sc.at[p]: peer p's scheduler; sc.left: what is left of the plan

Peers == {1, 2}
NoHold == -1
Other(p) == 3 - p
Timers == {"pace", "hold", "wait", "off"}
TopDelay == Max(Delays \cup {StartDelay})
SchedWire == 0 .. (Max({b.last : b \in Plans}) + TopDelay)

(* The statics of np_invent_grace_stall_ex and on_remote_miss, per process. *)
FreshStatics == [graceWire |-> 0, expired |-> FALSE, streak |-> 0, off |-> FALSE, missWire |-> 0]

(* What reset_session clears, and the rows of a new match: the delay       *)
(* prefix is the sender's, and is sent like any row.  The statics stay.    *)
FreshMatch(q) ==
    [sim |-> 0, d |-> StartDelay, rows |-> 0 .. (StartDelay - 1), prep |-> FALSE, tip |-> -1,
     guess |-> -1, lock |-> 0, hold |-> NoHold, cushion |-> FALSE, debt |-> 0, pacing |-> FALSE, paced |-> FALSE,
     ahead |-> 0, graceWire |-> q.graceWire, expired |-> q.expired, streak |-> q.streak,
     off |-> q.off, missWire |-> q.missWire]

SchedInit ==
    \E b \in Plans :
        sc = [at |-> [p \in Peers |-> FreshMatch(FreshStatics)], left |-> b]

HighestRemote(q) == Max({q.tip, 0})
Lead(q) == HighestRemote(q) - q.sim
MaxOk(q) == q.d + Max({Budget, 2})

(* rb_gate_lockstep_no_invent: no row is invented in lockstep or on hold. *)
NoInvent(q) == q.hold # NoHold \/ q.sim < q.lock
Held(q) == q.hold # NoHold /\ q.sim >= q.hold

(* Mutant: after a raise of D only the tip is sealed, with no back-fill. *)
PrepareTipOnly(q) ==
    IF q.prep THEN q ELSE [q EXCEPT !.rows = @ \cup {q.sim + q.d}, !.prep = TRUE]

(* prepare_local_tip: every missing row of sim .. sim + D is sealed, once  *)
(* for a tick; a raise of D during a stall is back-filled at the next.     *)
Prepare(q) ==
    IF q.prep THEN q ELSE [q EXCEPT !.rows = @ \cup q.sim .. (q.sim + q.d), !.prep = TRUE]

(* np_timesync_throttle: a slice of the debt is shaved off each new tick. *)
Paced(q, out) ==
    IF ~ q.paced /\ q.debt > 0
    THEN [q EXCEPT !.paced = TRUE, !.debt = @ - 1, !.pacing = TRUE]
    ELSE [q EXCEPT !.paced = TRUE, !.pacing = @ /\ "pace" \notin out]

AddDebt(q) == [q EXCEPT !.debt = Min({@ + 1, DebtCap})]

(* np_timesync_note_ahead_skew *)
AheadSkew(q) ==
    IF NoInvent(q) \/ Lead(q) >= 0 THEN [q EXCEPT !.ahead = 0]
    ELSE IF q.ahead + 1 < AheadArm THEN [q EXCEPT !.ahead = @ + 1]
    ELSE AddDebt([q EXCEPT !.ahead = AheadArm - AheadEvery])

(* The end of pre_admit: a full cushion ends the rebuild at once, an       *)
(* achievable one after the hold, an absurd one never.                     *)
Rebuilt(q, out) ==
    /\ Lead(q) <= MaxOk(q)
    /\ Lead(q) >= q.d \/ ("hold" \in out /\ Lead(q) >= 1)

PreAdmit(q, out) ==
    LET a == AheadSkew(q)
    IN  [a EXCEPT !.cushion = @ /\ ~ Rebuilt(a, out)]

(* np_invent_grace_stall_ex, as the scheduler it leaves and whether it     *)
(* stalls; only a miss deeper than one row counts towards the streak.      *)
GraceStall(q, deep, out) ==
    LET on == [q EXCEPT !.off = FALSE]
        n == q.streak + (IF deep /\ ~ q.expired THEN 1 ELSE 0)
        first == [on EXCEPT !.graceWire = q.sim, !.expired = FALSE,
                            !.streak = IF q.graceWire # 0 /\ ~ q.expired THEN 0 ELSE @]
        over == [on EXCEPT !.expired = TRUE, !.streak = IF n = OffStreak THEN 0 ELSE n,
                           !.off = n = OffStreak]
    IN  IF q.off /\ "off" \notin out THEN [q |-> q, stall |-> FALSE]
        ELSE IF q.graceWire # q.sim THEN [q |-> first, stall |-> TRUE]
        ELSE [q |-> IF "wait" \in out THEN over ELSE on, stall |-> "wait" \notin out]

(* Mutant: the prediction cap is one row too generous. *)
PastCapLoose(q) == q.sim > HighestRemote(q) + Budget + 1

PastCap(q) == q.sim > HighestRemote(q) + Budget

(* on_remote_miss: the waits for a real row, before prediction is thought of. *)
MustWait(q) ==
    \/ NoInvent(q)
    \/ q.tip <= q.d
    \/ PastCap(q)
    \/ q.cushion

(* post_admit, then the tick is run, the session's sim tick follows and,   *)
(* at its end, the lockstep is released.                                   *)
Advanced(q) ==
    [q EXCEPT !.sim = @ + 1, !.paced = FALSE, !.prep = FALSE,
              !.lock = IF q.sim + 1 < @ THEN @ ELSE 0]

Invent(q) == Advanced([q EXCEPT !.guess = q.sim])

OnRemoteMiss(q, out) ==
    LET deep == q.sim > q.tip + 1
        m == [q EXCEPT !.missWire = q.sim]
        g == GraceStall(m, deep, out)
    IN  IF MustWait(q)
        THEN q
        ELSE IF deep /\ (q.missWire # q.sim \/ "wait" \notin out) THEN m
        ELSE IF g.stall THEN g.q
        ELSE Invent(g.q)

HasRow(p, q) == q.sim <= q.tip /\ q.sim \in sc.at[Other(p)].rows

Armed(q) ==
    {t \in Timers : \/ t = "pace" /\ q.pacing
                    \/ t = "hold" /\ q.cushion
                    \/ t = "wait" /\ q.sim \in {q.missWire, q.graceWire}
                    \/ t = "off" /\ q.off}

(* One attempt of poll_admit at a Live tick, the timers in out run out; on *)
(* hold it returns before the row is sealed.                               *)
Attempt(p, out) ==
    LET q == Paced(Prepare(sc.at[p]), out)
        a == PreAdmit(q, out)
        r == IF q.pacing THEN q ELSE IF HasRow(p, a) THEN Advanced(a) ELSE OnRemoteMiss(a, out)
    IN  /\ sc.at[p].sim < sc.left.last /\ ~ Held(sc.at[p]) /\ out \subseteq Armed(sc.at[p])
        /\ sc' = [sc EXCEPT !.at[p] = r]

(* A bundle of the other peer arrives. *)
RecvRows(p, t) ==
    /\ t \in sc.at[Other(p)].rows /\ t > sc.at[p].tip
    /\ sc' = [sc EXCEPT !.at[p].tip = t]

(* The session's committed delay, floored, is adopted: sync_delay_from_session. *)
AdoptDelay(p, d) ==
    /\ d # sc.at[p].d
    /\ sc.at[p].sim < sc.left.last
    /\ sc.left.changes > 0
    /\ sc' = [sc EXCEPT !.at[p].d = d, !.left.changes = @ - 1]

(* A fork is proven: a window of lockstep, which a later fork extends. *)
rb_enter_lockstep(p) ==
    /\ sc.at[p].sim + LockTicks > sc.at[p].lock
    /\ sc.left.changes > 0
    /\ sc' = [sc EXCEPT !.at[p].lock = sc.at[p].sim + LockTicks, !.left.changes = @ - 1]

(* The session is held at tick t, at once when t has passed, and let go. *)
set_hold(p, t) ==
    /\ t \in sc.left.holds /\ t # sc.at[p].hold
    /\ sc.left.changes > 0
    /\ sc' = [sc EXCEPT !.at[p].hold = t, !.left.changes = @ - 1]
clear_hold(p) ==
    /\ sc.at[p].hold # NoHold
    /\ sc' = [sc EXCEPT !.at[p].hold = NoHold]

(* The true row of an invented tick is in and differs: a mispredict, and   *)
(* an episode whose end both peers note.                                   *)
note_mispredict(p) ==
    /\ sc.at[p].guess \in 0 .. sc.at[p].tip
    /\ sc.left.changes > 0
    /\ sc' = [sc EXCEPT !.at[p] = [AddDebt(@) EXCEPT !.guess = -1, !.cushion = TRUE],
                        !.at[Other(p)].cushion = TRUE,
                        !.left.changes = @ - 1]

(* Both peers return to the lobby and start again: bind calls reset_session. *)
Rematch ==
    /\ sc.left.rematches > 0
    /\ sc' = [sc EXCEPT !.at = [p \in Peers |-> FreshMatch(sc.at[p])], !.left.rematches = @ - 1]

SchedNext ==
    \/ \E p \in Peers, out \in SUBSET Timers : Attempt(p, out)
    \/ \E p \in Peers, t \in SchedWire : RecvRows(p, t)
    \/ \E p \in Peers, d \in Delays : AdoptDelay(p, d)
    \/ \E p \in Peers : rb_enter_lockstep(p) \/ clear_hold(p)
    \/ \E p \in Peers, t \in SchedWire : set_hold(p, t)
    \/ \E p \in Peers : note_mispredict(p)
    \/ Rematch

----------------------------------------------------------------------------
SchedTypeOK ==
    /\ sc.left \in SchedPlan
    /\ \A p \in Peers :
           LET q == sc.at[p]
           IN  /\ q.sim \in 0 .. sc.left.last /\ q.d \in Delays \cup {StartDelay}
               /\ q.rows \subseteq SchedWire /\ q.tip \in SchedWire \cup {-1}
               /\ q.guess \in SchedWire \cup {-1} /\ q.debt \in 0 .. DebtCap
               /\ q.streak \in 0 .. OffStreak /\ q.hold \in SchedWire \cup {NoHold}

(* However ticks are invented, paced and re-delayed, no peer runs further  *)
(* ahead of the other than the delay and the prediction cap allow          *)
(* (on_remote_miss's cap against the tip prepare_local_tip seals).         *)
SkewBounded ==
    \A p \in Peers : sc.at[p].sim - sc.at[Other(p)].sim <= TopDelay + Budget + 1

(* A peer that is not ahead never waits for a row that nobody has sealed,  *)
(* so two peers cannot wait for each other whatever they refuse to invent: *)
(* prepare_local_tip's back-fill, with the delay raised and lowered.       *)
BehindIsFed ==
    \A p \in Peers :
        sc.at[p].sim <= sc.at[Other(p)].sim => sc.at[p].sim \in sc.at[Other(p)].rows
============================================================================
