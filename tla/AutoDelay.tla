----------------------------- MODULE AutoDelay -----------------------------
(***************************************************************************)
(* How the host of a rollback match moves the input delay D                *)
(* (src/sched/rnet_sched.c): np_auto_delay_tick evaluates the window of    *)
(* arrivals every 5 s, np_adapt_delay_on_pcap_enter answers a storm of     *)
(* prediction-cap freezes, and both ask the session for another D, which   *)
(* commits it some ticks later.                                            *)
(*                                                                         *)
(* Time is counted in evaluation periods.  A window is reduced to what the *)
(* evaluation reads of it: whether it is long enough, under late arrivals  *)
(* or free of misses, its lowest lead and its lateness in ticks.  A match  *)
(* starts with any delay a lobby admits (2 to 20), below the floor and     *)
(* above the most an evaluation may ask for included.                      *)
(***************************************************************************)
EXTENDS Integers, FiniteSetsExt

CONSTANTS
    AdWindows,      \* the windows that may be evaluated, see AdWindow
    AdStarts,       \* the delays a match may start with
    AdFloor, AdMax, \* RB_AUTO_DELAY_LOWER_FLOOR (RB_FORCE_TURN_DELAY_FLOOR on a
                    \* forced relay), RB_ADAPT_DELAY_MAX
    LeadMargin,     \* RB_AUTO_DELAY_LEAD_MARGIN
    Cooldown,       \* RB_AUTO_DELAY_COOLDOWN_MS, in periods
    BumpCooldown,   \* RB_ADAPT_COOLDOWN_MS, in periods
    StormEnters,    \* RB_ADAPT_FREEZE_ENTERS_THRESH
    MaxEvals        \* bound on the evaluations

AdWindow == [long : BOOLEAN, late : BOOLEAN, clean : BOOLEAN, leadMin : Int, lateTicks : Nat]

ASSUME AutoDelayAssumption ==
    /\ AdWindows \subseteq AdWindow
    /\ {AdFloor, AdMax, LeadMargin, Cooldown, BumpCooldown, StormEnters, MaxEvals} \subseteq Nat
    /\ 2 <= AdFloor /\ AdFloor <= AdMax /\ Cooldown >= 2
    /\ AdStarts \subseteq 2 .. 20

VARIABLE ad

Never == -1     \* an age: it has not happened
Older(age, limit) == IF age = Never THEN Never ELSE Min({age + 1, limit})

AdInit ==
    \E start \in AdStarts :
    ad = [d |-> start, pending |-> 0, target |-> -1, agree |-> 0,
          changed |-> Never, froze |-> Never, bumped |-> Never, enters |-> 0,
          evals |-> 0, asked |-> <<"none", "none">>, leadMin |-> 0]

Clip(x, lo, hi) == Max({lo, Min({x, hi})})

(* What the window calls for. *)
Target(w) ==
    Clip(IF w.late THEN ad.d + Min({4, Max({Clip(w.lateTicks, 1, 2), 1 - w.leadMin})})
         ELSE IF w.clean /\ w.leadMin > LeadMargin THEN ad.d - (w.leadMin - LeadMargin)
         ELSE ad.d,
         AdFloor, AdMax)

(* The request is refused when it is what the session runs already. *)
AdRequest(a, value) == [a EXCEPT !.pending = value]
Refuses(value) == value = ad.d /\ ad.pending = 0

(* How evaluations confirm one another: raises on the same target, lowers  *)
(* on the direction, keeping the higher of their targets.                  *)
Concurs(t) ==
    LET lowers == t < ad.d /\ ad.target >= 0 /\ ad.target < ad.d
        kept == IF lowers THEN Max({t, ad.target}) ELSE t
        n == IF lowers \/ t = ad.target THEN ad.agree + 1 ELSE 1
    IN  [target |-> kept, agree |-> n]
NeedAgree == IF ad.changed = Never THEN 1 ELSE 2

(* Mutant: only a change of its own holds a lower back, not a freeze. *)
HeldBackByChange(a, t) == t < a.d /\ a.changed \in 0 .. (Cooldown - 1)

(* A lower waits out the last change and the last freeze. *)
HeldBack(a, t) ==
    /\ t < a.d
    /\ \/ a.changed \in 0 .. (Cooldown - 1)
       \/ a.froze \in 0 .. (Cooldown - 1)

Ask(w, t) == IF ~ w.long \/ t = ad.d THEN "none" ELSE IF t < ad.d THEN "lower" ELSE "raise"

(* One more evaluation period has passed; what the evaluation came to is  *)
(* remembered next to the one before (a history).                          *)
Aged(what) ==
    [ad EXCEPT !.changed = Older(@, Cooldown), !.froze = Older(@, Cooldown),
               !.bumped = Older(@, BumpCooldown), !.evals = @ + 1, !.asked = <<what, @[1]>>]

(* np_auto_delay_tick on a window of play.  A window is long from 120 live *)
(* ticks on, and a request commits 2 D + 8 ticks, at most 48, after it is  *)
(* made: in a long window only a bump made since the last evaluation can   *)
(* still be pending, and a bump asks for one tick more.                    *)
Evaluate(w) ==
    LET t == Target(w)
        g == Concurs(t)
        aged == [Aged(Ask(w, t)) EXCEPT !.leadMin = w.leadMin]
        noted == [aged EXCEPT !.target = g.target, !.agree = Min({g.agree, 2})]
    IN  /\ ad.evals < MaxEvals
        /\ w.long => ad.pending \in {0, ad.d + 1}
        /\ ad' = IF ~ w.long THEN [aged EXCEPT !.agree = 0]
                 ELSE IF t = ad.d THEN [aged EXCEPT !.agree = 0, !.target = t]
                 ELSE IF g.agree < NeedAgree \/ HeldBack(aged, g.target) \/ Refuses(g.target) THEN noted
                 ELSE AdRequest([noted EXCEPT !.agree = 0, !.changed = 0], g.target)

(* A period without an evaluation: pre_admit is held or paced before it    *)
(* gets to np_auto_delay_tick, or a movie plays and the window is thrown   *)
(* away.  The evaluations before it keep their say.                        *)
NoEvaluation ==
    /\ ad.evals < MaxEvals
    /\ ad' = Aged("pause")

(* np_pcap_freeze_enter at the prediction cap.  Only the first call of a   *)
(* freeze counts for a bump, and none while a movie plays; the storm       *)
(* window, which opens at any time, may have passed since the last one.    *)
FreezeEnter(counts, past) ==
    LET n == (IF past THEN 0 ELSE ad.enters) + 1
        frozen == [ad EXCEPT !.froze = 0, !.enters = IF counts THEN Min({n, StormEnters}) ELSE @]
        storm == /\ counts
                 /\ n >= StormEnters
                 /\ ad.bumped \notin 0 .. (BumpCooldown - 1)
                 /\ ad.d < AdMax
    IN  ad' = IF storm THEN AdRequest([frozen EXCEPT !.bumped = 0, !.enters = 0], ad.d + 1)
              ELSE frozen

(* The tick the session set for the change is reached. *)
AdCommit ==
    /\ ad.pending # 0
    /\ ad' = [ad EXCEPT !.d = ad.pending, !.pending = 0]

AdNext ==
    \/ \E w \in AdWindows : Evaluate(w)
    \/ NoEvaluation
    \/ \E counts, past \in BOOLEAN : FreezeEnter(counts, past)
    \/ AdCommit

----------------------------------------------------------------------------
AdTypeOK ==
    /\ ad.d \in AdStarts \cup 2 .. AdMax /\ ad.pending \in {0} \cup 2 .. AdMax
    /\ ad.target \in {-1} \cup AdFloor .. AdMax /\ ad.agree \in 0 .. 2
    /\ {ad.changed, ad.froze} \subseteq Never .. Cooldown /\ ad.evals \in 0 .. MaxEvals

(* The delay is lowered only where the evidence holds: the window's lowest *)
(* lead keeps the margin after it, no change and no freeze is recent, and, *)
(* after the first change, the evaluation before called for less as well   *)
(* ("a too-small D turns into invents", np_auto_delay_tick).  When a pause *)
(* lies between, the confirmation may be older than that.  The one lower   *)
(* that looks at no lead takes a delay above AdMax, which only a lobby can *)
(* have set, down to AdMax; it too waits out a change and a freeze.        *)
LowerIsSafe ==
    ad'.pending # ad.pending /\ ad'.pending # 0 /\ ad'.pending < ad.d =>
        /\ \/ ad'.leadMin - (ad.d - ad'.pending) >= LeadMargin
           \/ ad'.pending = AdMax
        /\ ad'.froze \notin 0 .. (Cooldown - 1)
        /\ Older(ad.changed, Cooldown) \notin 0 .. (Cooldown - 1)
        /\ ad.changed # Never => ad'.asked[1] = "lower" /\ ad'.asked[2] \in {"lower", "pause"}
LowersAreSafe == [][LowerIsSafe]_ad
============================================================================
