------------------------------ MODULE RbDriver ------------------------------
(***************************************************************************)
(* The rollback episode driver of every peer, src/rollback/                *)
(* rnet_rb_driver.c, over an unreliable network.                           *)
(*                                                                         *)
(* d[i] is the RNetRbDriver of seat i.  A driver operation is a function   *)
(* from such a record to the next one; what it sends it leaves in `out`.   *)
(* poll_admit runs the operations one after the other; here each is an     *)
(* action, which adds only the polls between which datagrams arrived.      *)
(*                                                                         *)
(* The guest is the sequence of rows it simulated, so its digest is that   *)
(* sequence: digests agree iff the inputs did.  A snapshot keyed t is the  *)
(* sequence before tick t.  The match starts where the boot gate releases  *)
(* it (module RbGate): tick 0 simulated and agreed, sim = 1.               *)
(*                                                                         *)
(* The network is the set of datagrams sent; receiving does not remove     *)
(* one, so they are duplicated, reordered and (never received) lost.       *)
(***************************************************************************)
EXTENDS RbEpisode, HashConfirm, SequencesExt

CONSTANTS
    MaxTick,                     \* the sim stops here
    EarlyMax,                    \* RB_EARLY_SEAL_MAX
    Scenarios                    \* what the host, the players and the link may do

VARIABLES
    calls,                       \* the scenario
    d,                           \* the driver of each seat
    net                          \* datagrams sent

rbVars == <<calls, d, net>>

Peers(p) == Seats \ {p.me}                       \* rb_expect_mask
Pad(s, t) == IF t \in calls.press[s] THEN 1 ELSE 0
Truth(t) == [s \in Seats |-> Pad(s, t)]

NoEp == [epoch |-> NoEpoch, load |-> 0, target |-> 0]
NoDefer == [op |-> "BEGIN", from |-> 0, epoch |-> NoEpoch, load |-> 0, target |-> 0, re |-> FALSE]
None == <<>>

Send(p, m) == [p EXCEPT !.out = @ \cup {m}]
SendAll(p, ms) == [p EXCEPT !.out = @ \cup ms]

Driver0(i) ==
    [me |-> i, sim |-> 1, game |-> <<Truth(0)>>, snap |-> (0 :> None),
     hist |-> [s \in Seats |-> IF s \in Seats \ {i}
                               THEN (0 :> [v |-> Pad(s, 0), pred |-> FALSE]) ELSE <<>>],
     pub |-> 1 + calls.delay, seen |-> [s \in Seats |-> 1],
     stage |-> "Idle", init |-> FALSE, ep |-> NoEp, core |-> CoreReset(0),
     base |-> None, bases |-> None, posts |-> None, own |-> None,
     commits |-> {}, answered |-> {}, extends |-> 0,
     seq |-> 0, begun |-> {}, newest |-> [s \in Seats |-> 0], nacked |-> <<>>,
     defer |-> NoDefer, ePost |-> <<>>, eBase |-> <<>>, eSeal |-> <<>>,
     owed |-> {}, lost |-> {}, cool |-> 0, retry |-> 0, cap |-> 0, lock |-> 0,
     drain |-> "None", marks |-> {}, acks |-> {}, hold |-> 0,
     chain |-> [s \in Seats \ {i} |->
                   NoteLocal(NotePeer(HcReset, 0, <<Truth(0)>>), 0, <<Truth(0)>>)],
     slipped |-> FALSE, out |-> {}]

RbInit ==
    /\ calls \in Scenarios
    /\ d = [i \in Seats |-> Driver0(i)]
    /\ net = {}

----------------------------------------------------------------------------
(* Rows, snapshots, the hash chain *)

\* rb_vt_get_input_row, every seat occupied: our own seat has every row we have
\* published, D past the tip included; a remote seat its history.
RowOf(p, s, t) ==
    IF s = p.me THEN IF t < p.pub THEN [v |-> Pad(s, t), pred |-> FALSE] ELSE NoRow
    ELSE IF t \in DOMAIN p.hist[s] THEN p.hist[s][t] ELSE NoRow
Rows(p) == [s \in Seats |-> [t \in 0 .. MaxTick + calls.delay |-> RowOf(p, s, t)]]

LocalRowsCover(p, load, target) == \A t \in load .. target : RowOf(p, p.me, t) # NoRow

\* rnet_ih_put: the history keeps calls.depth ticks.
HistPut(h, t, row) == (t :> row) @@ [k \in {k \in DOMAIN h : k > t - calls.depth} |-> h[k]]

\* rnet_ih_invent_hold_last: the newest earlier row of the seat, neutral if none.
HoldLast(p, s) ==
    LET past == {k \in DOMAIN p.hist[s] : k < p.sim}
    IN  IF past = {} THEN 0 ELSE p.hist[s][Max(past)].v

\* The host's snapshot ring holds the newest calls.snaps keys.
SnapSave(snap, t, g) ==
    LET all == (t :> g) @@ snap
    IN  IF Cardinality(DOMAIN all) <= calls.snaps THEN all
        ELSE [k \in DOMAIN all \ {Min(DOMAIN all)} |-> all[k]]

\* rb_snap_floor: the fork cap bounds the search, and is lifted once it has aged out.
CapNow(p) == IF p.cap > 0 /\ p.cap <= Min(DOMAIN p.snap) THEN 0 ELSE p.cap
SnapReach(p, want) ==
    {t \in DOMAIN p.snap : t <= want /\ (CapNow(p) > 0 => t < CapNow(p))}

ChainLocal(p, t, dig) == [p EXCEPT !.chain = [s \in Peers(p) |-> NoteLocal(@[s], t, dig)]]
ChainResolved(p) == Min({IF p.chain[s].res < 0 THEN 0 ELSE p.chain[s].res : s \in Peers(p)})
FrameCommit(p, t, dig) == [op |-> "FC", from |-> p.me, tick |-> t, dig |-> dig]
FrameCommits(p, ticks, dig) ==
    IF calls.chain THEN {FrameCommit(p, t, dig[t]) : t \in ticks} ELSE {}

----------------------------------------------------------------------------
(* Ending and opening an episode *)

\* Mutants: a correction counts as made when its episode ends, however it ends; the
\* watermark rises with every episode that ends, as the core's terminal phases do.
ClearPaid(p) ==
    [p EXCEPT !.stage = "Idle", !.init = FALSE, !.posts = None, !.commits = {},
              !.base = None, !.bases = None, !.ep = NoEp, !.core = CoreReset(@.res),
              !.owed = {t \in @ : t < p.ep.load}]
ClearRaised(p) ==
    [p EXCEPT !.stage = "Idle", !.init = FALSE, !.posts = None, !.commits = {},
              !.base = None, !.bases = None, !.ep = NoEp,
              !.core = CoreReset(PromoteSealed(@).res)]

\* rb_episode_clear
Clear(p) ==
    [p EXCEPT !.stage = "Idle", !.init = FALSE, !.posts = None, !.commits = {},
              !.base = None, !.bases = None, !.ep = NoEp, !.core = CoreReset(@.res)]

\* rb_episode_abort: whatever the class, the aborting side cools down.
Abort(p, class) ==
    [Clear(Send(p, [op |-> "ABORT", from |-> p.me, epoch |-> p.ep.epoch, class |-> class]))
        EXCEPT !.cool = p.sim + calls.cool]
Cooling(p) == p.sim < p.cool

\* rb_enter_lockstep
EnterLockstep(p) == [p EXCEPT !.lock = Larger(@, p.sim + calls.lock)]
NoInvent(p) == p.hold > 0 \/ p.sim < p.lock

\* rb_nack_begin: remembered, so that a repeat of the BEGIN repeats the NACK.
NackAt(p, epoch, front) ==
    Send([p EXCEPT !.nacked = (epoch :> front) @@ @],
         [op |-> "NACK", from |-> p.me, epoch |-> epoch, front |-> front])
Nack(p, epoch) == NackAt(p, epoch, p.core.res)

BeginMsg(p, re) ==
    [op |-> "BEGIN", from |-> p.me, epoch |-> p.ep.epoch, load |-> p.ep.load,
     target |-> p.ep.target, re |-> re]
PostMsg(p) ==
    [op |-> "POST", from |-> p.me, epoch |-> p.ep.epoch, target |-> p.ep.target, dig |-> p.own]

\* rb_send_local_seal_rows
SendSealRows(p) ==
    Send(p, [op |-> "SEAL", from |-> p.me, epoch |-> p.ep.epoch, base |-> p.ep.load,
             target |-> p.ep.target, rows |-> ExportRows(p.core, p.me)])

ApplySeal(p, m) ==
    LET c == ApplyPeerRows(p.core, p.me, Rows(p), m.epoch, m.base, m.target, m.from, m.rows)
    IN  [p EXCEPT !.core = c, !.slipped = @ \/ c.target > p.ep.target]

\* rb_epoch_is_early: an answer to a peer's BEGIN that has not been processed here.
IsEarly(p, epoch) ==
    /\ epoch[2] # p.me
    /\ p.stage = "Idle" \/ epoch # p.ep.epoch
    /\ epoch = p.defer.epoch \/ epoch[1] > p.newest[epoch[2]]

\* The follower's share of rb_begin_episode, and rb_early_seal_take: answers that
\* beat the BEGIN here are applied, those of episodes that may yet open are kept.
TakeEarly(p) ==
    LET e == p.ep.epoch
        here(f) == {s \in DOMAIN f : f[s].epoch = e}
        still(f) == [s \in {s \in DOMAIN f : f[s].epoch # e /\ IsEarly(p, f[s].epoch)} |-> f[s]]
        q == [p EXCEPT
                !.posts = [s \in here(p.ePost) |-> p.ePost[s]],
                !.bases = [s \in {s \in here(p.eBase) : p.eBase[s].load = p.ep.load} |-> p.eBase[s].dig],
                !.ePost = still(@), !.eBase = still(@),
                !.eSeal = SelectSeq(@, LAMBDA m : m.epoch # e /\ IsEarly(p, m.epoch))]
    IN  FoldLeft(ApplySeal, q, SelectSeq(p.eSeal, LAMBDA m : m.epoch = e))

\* The tail of rb_begin_episode: seal load .. target and enter Sealing.
Open(p, epoch, load, target, init) ==
    LET c == SealInputs(p.core, p.me, Rows(p), epoch, load, target)
        q == [p EXCEPT !.core = c, !.ep = [epoch |-> epoch, load |-> load, target |-> target],
                       !.stage = "Sealing", !.init = init, !.extends = 0, !.posts = None,
                       !.commits = {}, !.bases = None, !.answered = {}]
        s == SendSealRows(IF init THEN Send(q, BeginMsg(q, FALSE)) ELSE q)
    IN  IF init THEN s ELSE TakeEarly(s)

\* rb_begin_episode as the initiator of a correction of tick t.
CanInitiate(p, t) ==
    /\ p.stage = "Idle" /\ ~Cooling(p) /\ p.drain = "None" /\ t # 0
    /\ SnapReach(p, t) # {}
    /\ p.sim - 1 - Max(SnapReach(p, t)) < SealSpan
Initiate(p, t) ==
    LET q == [p EXCEPT !.seq = @ + 1, !.cap = CapNow(p)]
    IN  IF CanInitiate(p, t)
        THEN Open(q, <<q.seq, p.me>>, Max(SnapReach(p, t)), p.sim - 1, TRUE) ELSE p

\* rb_begin_episode as a follower: the snapshot may be taken at our live tip; a
\* correction owed before the load tick, or a missing row of ours, is a NACK.
Follow(p, m) ==
    LET q == IF m.load \notin DOMAIN p.snap /\ m.load = p.sim
             THEN [p EXCEPT !.snap = SnapSave(@, p.sim, p.game)] ELSE p
        before == {t \in p.owed : t < m.load}
    IN  IF m.load \notin DOMAIN q.snap THEN Nack(q, m.epoch)
        ELSE IF before # {} THEN NackAt(q, m.epoch, Min(before) - 1)
        ELSE IF ~LocalRowsCover(q, m.load, m.target) THEN Nack(q, m.epoch)
        ELSE IF m.target - m.load >= SealSpan THEN q
        ELSE Open(q, m.epoch, m.load, m.target, FALSE)

\* rb_follow_or_defer, on an idle driver.
FollowOrDefer(p, m) == IF m.load > p.sim THEN [p EXCEPT !.defer = m] ELSE Follow(p, m)

----------------------------------------------------------------------------
(* Wire ingress, rb_drain_wire *)

\* rb_tip_extend: grow the target and run the seal / replay / verify cycle again.
CanTipExtend(p, target, notify) ==
    /\ p.stage \in {"TipHold", "Verifying"}
    /\ notify => p.drain = "None"
    /\ p.extends < calls.extends
    /\ p.ep.load \in DOMAIN p.snap
    /\ LocalRowsCover(p, p.ep.load, target)
    /\ CanExtend(p.core, target)

\* Mutant: the target grows, and the rows are not replayed again.
TipExtendHeld(p, tick, notify) ==
    LET q == [p EXCEPT !.ep.target = Larger(tick, @), !.extends = @ + 1]
    IN  IF notify THEN Send(q, BeginMsg(q, TRUE)) ELSE q

TipExtend(p, tick, notify) ==
    LET target == Larger(tick, p.ep.target)
        q == [p EXCEPT !.core = SetPhase(ExtendTarget(@, p.me, Rows(p), target), "Seal"),
                       !.ep.target = target, !.extends = @ + 1, !.posts = None,
                       !.commits = {}, !.own = None, !.base = None, !.bases = None,
                       !.stage = "Sealing"]
    IN  SendSealRows(IF notify THEN Send(q, BeginMsg(q, TRUE)) ELSE q)

\* BEGIN with the REREPLAY flag: never a new episode.
OnExtend(p, m) ==
    IF p.stage \in {"TipHold", "Verifying"} /\ m.epoch = p.ep.epoch
    THEN IF CanTipExtend(p, Larger(m.target, p.ep.target), FALSE)
         THEN TipExtend(p, m.target, FALSE) ELSE Abort(p, "REALIGN")
    ELSE IF m.epoch = p.defer.epoch
    THEN [p EXCEPT !.defer.target = Larger(@, m.target)]
    ELSE Send(p, [op |-> "NACK", from |-> p.me, epoch |-> m.epoch, front |-> p.core.res])

\* Of two episodes the lower initiator seat wins; a newer one of the same seat
\* means that the older is over there.
Supersedes(new, held) == new[2] < held[2] \/ (new[2] = held[2] /\ new[1] > held[1])

\* A BEGIN against one that is held for its load tick.
AgainstDeferred(p, m) ==
    IF p.defer = NoDefer THEN FollowOrDefer(p, m)
    ELSE IF Supersedes(m.epoch, p.defer.epoch)
    THEN FollowOrDefer([Nack(p, p.defer.epoch) EXCEPT !.defer = NoDefer], m)
    ELSE Nack(p, m.epoch)

\* Mutant: only a BEGIN that was refused is known when it comes again.
RepeatedNack(p, m) == m.epoch \in DOMAIN p.nacked

Repeated(p, m) == m.epoch \in p.begun

\* BEGIN: a repeat repeats our NACK; one overtaken by a newer one of its seat is
\* refused; then it is arbitrated against the episode that is open here.
OnBegin(p, m) ==
    LET seq == m.epoch[1]
        seat == m.epoch[2]
        q == [p EXCEPT !.begun = @ \cup {m.epoch}, !.newest[seat] = Larger(@, seq)]
    IN  IF m.re THEN OnExtend(p, m)
        ELSE IF Repeated(p, m)
        THEN IF m.epoch \in DOMAIN p.nacked THEN NackAt(p, m.epoch, p.nacked[m.epoch]) ELSE p
        ELSE IF seq < p.newest[seat] THEN Nack(q, m.epoch)
        ELSE IF p.stage = "Idle" THEN AgainstDeferred(q, m)
        ELSE IF \/ seat < p.ep.epoch[2]
                \/ ~p.init /\ Supersedes(m.epoch, p.ep.epoch)
        THEN AgainstDeferred(Clear(q), m)
        ELSE Nack(q, m.epoch)

OnNack(p, m) ==
    IF p.stage # "Idle" /\ m.epoch = p.ep.epoch
    THEN Abort([p EXCEPT !.core = Demote(@, m.front)], "REALIGN") ELSE p

\* ABORT: dropped here too, with the sender's cooldown class mirrored.
OnAbort(p, m) ==
    IF p.defer # NoDefer /\ m.epoch = p.defer.epoch THEN [p EXCEPT !.defer = NoDefer]
    ELSE IF p.stage # "Idle" /\ m.epoch = p.ep.epoch
    THEN [Clear(p) EXCEPT !.cool = p.sim + (IF m.class = "REALIGN" THEN 0 ELSE calls.cool)]
    ELSE p

\* COMMIT: tip-hold ends when every peer has committed.
OnCommit(p, m) ==
    LET q == [p EXCEPT !.commits = @ \cup {m.from}]
    IN  IF p.stage # "TipHold" \/ m.epoch # p.ep.epoch THEN p
        ELSE IF Peers(p) \subseteq q.commits THEN Clear(q) ELSE q

OnSeal(p, m) ==
    IF p.stage # "Idle" /\ m.epoch = p.ep.epoch
    THEN [ApplySeal(p, m) EXCEPT !.answered = @ \cup {m.from}]
    ELSE IF IsEarly(p, m.epoch)
    THEN [p EXCEPT !.eSeal = Append(IF Len(@) < EarlyMax THEN @ ELSE Tail(@), m)]
    ELSE p

\* rb_baseline_try_compare: one verdict per exchange; a fork caps later loads.
CompareBaselines(p) ==
    LET q == [p EXCEPT !.bases = None,
                       !.cap = IF @ = 0 \/ p.ep.load < @ THEN p.ep.load ELSE @]
    IN  IF p.base = None \/ p.bases = None THEN p
        ELSE IF \A s \in DOMAIN p.bases : <<p.bases[s]>> = p.base THEN [p EXCEPT !.bases = None]
        ELSE Abort(EnterLockstep(q), "ABORT")

OnBase(p, m) ==
    IF IsEarly(p, m.epoch) THEN [p EXCEPT !.eBase = (m.from :> m) @@ @]
    ELSE IF p.stage = "Idle" \/ m.epoch # p.ep.epoch \/ m.load # p.ep.load THEN p
    ELSE CompareBaselines([p EXCEPT !.bases = (m.from :> m.dig) @@ @,
                                    !.answered = @ \cup {m.from}])

\* A POST is kept whatever the stage: an answer that is early is still an answer.
OnPost(p, m) ==
    IF IsEarly(p, m.epoch) THEN [p EXCEPT !.ePost = (m.from :> m) @@ @]
    ELSE IF p.stage = "Idle" \/ m.epoch # p.ep.epoch THEN p
    ELSE [p EXCEPT !.posts = (m.from :> m) @@ @, !.answered = @ \cup {m.from}]

OnResolved(p, m) == [p EXCEPT !.core = SetConvergence(@, m.tick)]
OnFrameCommit(p, m) == [p EXCEPT !.chain[m.from] = NotePeer(@, m.tick, m.dig)]

\* FRAME_COMMIT_REQUEST: answered from the chain of the first peer.
OnRequest(p, m) ==
    LET ring == p.chain[Min(Peers(p))].local
    IN  IF m.to = p.me /\ m.tick < p.sim /\ m.tick \in DOMAIN ring
        THEN Send(p, FrameCommit(p, m.tick, ring[m.tick])) ELSE p

\* Mutant: any marker is taken for one of a peer that has all of them.
OnQuiesceAll(p, m) ==
    [p EXCEPT !.marks = @ \cup {m.from}, !.acks = @ \cup {m.from},
              !.drain = IF @ = "None" THEN "Draining" ELSE @]

\* QUIESCE: the peer opens no more episodes, and makes us drain too.
OnQuiesce(p, m) ==
    [p EXCEPT !.marks = @ \cup {m.from},
              !.acks = IF m.all THEN @ \cup {m.from} ELSE @,
              !.drain = IF @ = "None" THEN "Draining" ELSE @]

----------------------------------------------------------------------------
(* The episode pump *)

\* rb_run_replay and rb_replay_finish: save the tip, load, exchange baselines,
\* re-run load .. target on sealed rows, and put sim on the corrected timeline.
Replayed(p) ==
    LET load == p.ep.load
        rows == [t \in load .. p.ep.target |-> [s \in Seats |-> p.core.rows[s][t].v]]
        run(t) == p.snap[load] \o [k \in 1 .. (t - load) |-> rows[load + k - 1]]
        ticks == load .. p.ep.target
        keyed == FoldLeft(LAMBDA snap, k : SnapSave(snap, load + k - 1, run(load + k - 1)),
                          p.snap, [k \in 1 .. Cardinality(ticks) |-> k])
        dig == [t \in ticks |-> run(t + 1)]
        noted == FoldLeft(LAMBDA q, k : ChainLocal(q, load + k - 1, dig[load + k - 1]),
                          p, [k \in 1 .. Cardinality(ticks) |-> k])
    IN  [SendAll(noted, FrameCommits(p, ticks, dig)) EXCEPT
            !.game = run(p.ep.target + 1), !.sim = p.ep.target + 1,
            !.snap = [t \in {t \in DOMAIN keyed : t <= p.ep.target} |-> keyed[t]],
            !.owed = @ \ ticks, !.slipped = @ \/ p.ep.target < p.core.res]

\* rb_enter_verify
EnterVerify(p) ==
    LET q == [p EXCEPT !.own = p.game, !.stage = "Verifying",
                       !.core = SetPhase(@, "Verify")]
    IN  Send(q, PostMsg(q))

RunReplay(p) ==
    LET q == [p EXCEPT !.snap = SnapSave(@, p.sim, p.game)]
        b == CompareBaselines(
                 Send([q EXCEPT !.base = <<q.snap[p.ep.load]>>],
                      [op |-> "BASE", from |-> p.me, epoch |-> p.ep.epoch,
                       load |-> p.ep.load, dig |-> q.snap[p.ep.load]]))
    IN  IF p.ep.load \notin DOMAIN q.snap THEN Abort(q, "NO_SNAP")
        ELSE IF b.stage = "Idle" THEN b
        ELSE IF \E s \in Seats : ~(p.ep.load .. p.ep.target \subseteq DOMAIN p.core.rows[s])
        THEN Abort(b, "ABORT")
        ELSE EnterVerify(Replayed(b))

\* rb_commit_episode
CommitEpisode(p) ==
    LET q == [p EXCEPT !.core = PromoteSealed(@), !.cap = 0,
                       !.chain = [s \in Peers(p) |-> PrimeAfter(p.ep.target)]]
        h == IF CanTipHold(q.core)
             THEN [q EXCEPT !.core = EnterTipHold(@), !.stage = "TipHold", !.commits = {}]
             ELSE Clear([q EXCEPT !.core = SetPhase(@, "Commit")])
    IN  SendAll(h, {[op |-> "COMMIT", from |-> p.me, epoch |-> h.ep.epoch],
                    [op |-> "RESOLVED", from |-> p.me, tick |-> h.core.res]})

\* rb_pump_episode in Verifying: only a POST for the current tip counts.
Posted(p) == {s \in DOMAIN p.posts : p.posts[s].target = p.ep.target}
Verdict(p) ==
    IF \A s \in Peers(p) : p.posts[s].dig = p.own
    THEN CommitEpisode(p) ELSE Abort(EnterLockstep(p), "ABORT")

\* rb_reconcile_wire, the retry of the oldest correction that is still owed.
InWindow(p, t) == t >= p.sim - calls.depth /\ t < p.sim
Retries(p) ==
    /\ p.stage = "Idle" /\ ~Cooling(p) /\ p.sim >= p.retry
    /\ p.drain = "None" /\ p.defer = NoDefer
    /\ \E t \in p.owed : InWindow(p, t)
Retry(p) ==
    LET t == Min({t \in p.owed : InWindow(p, t)})
        q == Initiate(p, t)
    IN  IF SnapReach(p, t) = {} \/ p.sim - 1 - t >= SealSpan
        THEN [p EXCEPT !.owed = @ \ {t}, !.lost = @ \cup {t}, !.cap = CapNow(p)]
        ELSE IF q.stage = "Idle" THEN [p EXCEPT !.retry = p.sim + calls.cool]
        ELSE q

\* The scan: predicted rows above the watermark whose wire row has come, in
\* (slot, tick) order.  Predictions that held are promoted up to the first that
\* did not; that one is promoted, owed, and opened, extended over or left owed.
Late(p) ==
    {x \in Peers(p) \X (p.core.res + 1 .. p.sim - 1) :
        /\ InWindow(p, x[2]) /\ x[2] \in DOMAIN p.hist[x[1]]
        /\ p.hist[x[1]][x[2]].pred /\ x[2] < p.seen[x[1]]}
Wrong(p) == {x \in Late(p) : p.hist[x[1]][x[2]].v # Pad(x[1], x[2])}
Before(x, y) == x[1] < y[1] \/ (x[1] = y[1] /\ x[2] <= y[2])
FirstWrong(p) == CHOOSE x \in Wrong(p) : \A y \in Wrong(p) : Before(x, y)
Promote(p, xs) ==
    [p EXCEPT !.hist = [s \in Seats |-> [t \in DOMAIN @[s] |->
        IF <<s, t>> \in xs THEN [v |-> Pad(s, t), pred |-> FALSE] ELSE @[s][t]]]]
Scan(p) ==
    LET x == FirstWrong(p)
        q == [Promote(p, {y \in Late(p) : Before(y, x)}) EXCEPT !.owed = @ \cup {x[2]}]
    IN  IF Wrong(p) = {} THEN Promote(p, Late(p))
        ELSE IF p.stage = "Idle"
        THEN IF p.defer = NoDefer THEN Initiate(q, x[2]) ELSE q
        ELSE IF /\ p.stage = "TipHold" /\ x[2] \notin p.ep.load .. p.ep.target
                /\ CanTipExtend(q, Larger(x[2], p.ep.target), TRUE)
        THEN TipExtend(q, x[2], TRUE) ELSE q
Reconciled(p) == IF Retries(p) THEN Retry(p) ELSE Scan(p)

----------------------------------------------------------------------------
(* Actions *)

\* One driver step: the new record, its datagrams moved to the network.
Step(i, q) ==
    /\ q.out \subseteq net => q # [d[i] EXCEPT !.out = q.out]
    /\ d' = [d EXCEPT ![i] = [q EXCEPT !.out = {}]]
    /\ net' = net \cup q.out
    /\ UNCHANGED calls
Inbox(i, op) == {m \in net : m.op = op /\ m.from # i}

RecvBegin(i)    == \E m \in Inbox(i, "BEGIN") : Step(i, OnBegin(d[i], m))
RecvNack(i)     == \E m \in Inbox(i, "NACK") : Step(i, OnNack(d[i], m))
RecvAbort(i)    == \E m \in Inbox(i, "ABORT") : Step(i, OnAbort(d[i], m))
RecvCommit(i)   == \E m \in Inbox(i, "COMMIT") : Step(i, OnCommit(d[i], m))
RecvSeal(i)     == \E m \in Inbox(i, "SEAL") : Step(i, OnSeal(d[i], m))
RecvBase(i)     == \E m \in Inbox(i, "BASE") : Step(i, OnBase(d[i], m))
RecvPost(i)     == \E m \in Inbox(i, "POST") : Step(i, OnPost(d[i], m))
RecvResolved(i) == \E m \in Inbox(i, "RESOLVED") : Step(i, OnResolved(d[i], m))
RecvFrame(i)    == \E m \in Inbox(i, "FC") : Step(i, OnFrameCommit(d[i], m))
RecvRequest(i)  == \E m \in Inbox(i, "FCREQ") : Step(i, OnRequest(d[i], m))
RecvQuiesce(i)  == \E m \in Inbox(i, "QUIESCE") : Step(i, OnQuiesce(d[i], m))

\* The session: an input bundle brings the next row of seat s.
RecvRow(i, s) ==
    /\ s # i /\ d[i].seen[s] < d[s].pub
    /\ Step(i, [d[i] EXCEPT !.seen[s] = @ + 1])

\* The live half of poll_admit.  The local tip is published first; a remote row
\* that has not come is invented, unless the scheduler waits for it.
LiveOpen(p) == p.stage \in {"Idle", "TipHold"} /\ ~(p.hold > 0 /\ p.sim >= p.hold)
Prepared(p) == [p EXCEPT !.pub = Larger(@, p.sim + calls.delay + 1)]
Arrived(p, s) == p.sim < p.seen[s]
MayInvent(p, s) == ~NoInvent(p) /\ p.sim < p.seen[s] + calls.predict

\* finish_frame: digest into every chain and out; the clock; lockstep; the watermark.
Finished(p) ==
    LET q == ChainLocal(SendAll(p, FrameCommits(p, {p.sim}, [t \in {p.sim} |-> p.game])),
                        p.sim, p.game)
        gone == {t \in p.owed : t < p.sim + 1 - calls.depth}
        r == [q EXCEPT !.sim = @ + 1, !.owed = @ \ gone, !.lost = @ \cup gone,
                       !.lock = IF p.sim + 1 >= @ THEN 0 ELSE @,
                       !.chain = [s \in Peers(p) |-> HealStaleGap(@[s])]]
    IN  [r EXCEPT !.core = SetConvergence(@, ChainResolved(r))]

Admitted(p) ==
    LET row(s) == IF s = p.me THEN Pad(s, p.sim)
                  ELSE IF Arrived(p, s) THEN Pad(s, p.sim) ELSE HoldLast(p, s)
    IN  [Prepared(p) EXCEPT
            !.snap = SnapSave(@, p.sim, p.game),
            !.game = Append(@, [s \in Seats |-> row(s)]),
            !.hist = [s \in Seats |-> IF s \in Peers(p)
                        THEN HistPut(@[s], p.sim, [v |-> row(s), pred |-> ~Arrived(p, s)])
                        ELSE @[s]]]

Admit(i) ==
    /\ LiveOpen(d[i]) /\ d[i].sim < calls.last
    /\ \A s \in Peers(d[i]) : Arrived(d[i], s) \/ MayInvent(d[i], s)
    /\ Step(i, Finished(Admitted(d[i])))
\* A stalled poll still publishes the local tip of this tick, once.
Stall(i) == LiveOpen(d[i]) /\ d[i].sim < calls.last /\ Step(i, Prepared(d[i]))

Reconcile(i) == (Retries(d[i]) \/ Late(d[i]) # {}) /\ Step(i, Reconciled(d[i]))

Replay(i) ==
    /\ d[i].stage = "Sealing" /\ RowsComplete(d[i].core, Peers(d[i]))
    /\ Step(i, RunReplay(d[i]))
Verify(i) ==
    /\ d[i].stage = "Verifying" /\ Peers(d[i]) \subseteq Posted(d[i])
    /\ Step(i, Verdict(d[i]))
RunwaySpent(i) ==
    /\ d[i].stage = "TipHold" /\ d[i].sim > d[i].ep.target + calls.runway
    /\ Step(i, Clear(d[i]))

\* The watchdog of a stage that waits on a peer, and of a held BEGIN.  It is long:
\* it runs out on an episode that every peer has left, else calls.timeouts times.
Spend(field) == calls[field] > 0 /\ calls' = [calls EXCEPT ![field] = @ - 1]
Orphaned(i) ==
    \A s \in Peers(d[i]) : /\ d[i].ep.epoch # d[s].ep.epoch /\ d[i].ep.epoch # d[s].defer.epoch
                           /\ s = d[i].ep.epoch[2] \/ d[i].ep.epoch \in d[s].begun
Expire(i) ==
    LET q == IF d[i].stage = "TipHold" THEN Clear(d[i]) ELSE Abort(d[i], "ABORT")
    IN  /\ d[i].stage # "Idle"
        /\ IF Orphaned(i) THEN UNCHANGED calls ELSE Spend("timeouts")
        /\ d' = [d EXCEPT ![i] = [q EXCEPT !.out = {}]] /\ net' = net \cup q.out
DeferExpire(i) ==
    LET q == [Nack(d[i], d[i].defer.epoch) EXCEPT !.defer = NoDefer]
    IN  /\ d[i].defer # NoDefer /\ d[i].stage = "Idle" /\ d[i].sim < d[i].defer.load
        /\ Spend("timeouts")
        /\ d' = [d EXCEPT ![i] = [q EXCEPT !.out = {}]] /\ net' = net \cup q.out
\* rb_defer_pump
Resume(i) ==
    /\ d[i].defer # NoDefer /\ d[i].stage = "Idle" /\ d[i].sim >= d[i].defer.load
    /\ Step(i, Follow([d[i] EXCEPT !.defer = NoDefer], d[i].defer))

\* rb_begin_resend and rb_post_resend.
Resend(i, m) == m \notin net /\ Step(i, Send(d[i], m))
ResendBegin(i) ==
    /\ d[i].stage \in {"Sealing", "Verifying"} /\ d[i].init
    /\ ~(Peers(d[i]) \subseteq d[i].answered) /\ Resend(i, BeginMsg(d[i], FALSE))
ResendPost(i) ==
    d[i].stage \in {"Verifying", "TipHold"} /\ Resend(i, PostMsg(d[i]))

\* rb_request_missing_frame_commits
RequestFrame(i, s) ==
    LET t == d[i].chain[s].res + 1
        m == [op |-> "FCREQ", from |-> i, to |-> s, tick |-> t]
    IN  /\ s # i /\ calls.chain /\ d[i].stage \in {"Idle", "TipHold"} /\ t < d[i].sim
        /\ t \in DOMAIN d[i].chain[s].local /\ t \notin DOMAIN d[i].chain[s].peer
        /\ Resend(i, m)

\* Coordinated stop: the marker is only ever sent from idle.
RequestQuiesce(i) ==
    /\ d[i].drain = "None" /\ Spend("stops")
    /\ d' = [d EXCEPT ![i].drain = "Draining"] /\ UNCHANGED net
MarkMsg(p) == [op |-> "QUIESCE", from |-> p.me, all |-> Peers(p) \subseteq p.marks]
\* rb_quiesce_pump.  It ends with every marker and every acknowledgement, or with
\* the markers alone once the grace for the acknowledgements has run out or the
\* peer has said BYE (wire_ok = 0: nothing is sent any more).
Left(p) == \E s \in Peers(p) : d[s].drain \in {"Drained", "TimedOut"}
QuiescePump(i, wire_ok, grace_over) ==
    LET p == d[i]
        drained == /\ Peers(p) \subseteq p.marks
                   /\ ~wire_ok \/ Peers(p) \subseteq p.acks \/ grace_over
    IN  /\ p.drain = "Draining" /\ p.stage = "Idle" /\ p.defer = NoDefer
        /\ wire_ok \/ Left(p)
        /\ Step(i, [(IF wire_ok THEN Send(p, MarkMsg(p)) ELSE p) EXCEPT
                       !.drain = IF drained THEN "Drained" ELSE @])
QuiesceTimeout(i) ==
    /\ d[i].drain = "Draining"
    /\ IF Left(d[i]) THEN UNCHANGED calls ELSE Spend("timeouts")
    /\ d' = [d EXCEPT ![i].drain = "TimedOut"] /\ UNCHANGED net

\* Session hold.
SetHold(i) ==
    /\ calls.hold > 0 /\ d[i].hold = 0 /\ d[i].sim < calls.hold
    /\ Step(i, [d[i] EXCEPT !.hold = calls.hold])
ClearHold(i) == d[i].hold > 0 /\ d[i].sim >= d[i].hold /\ Step(i, [d[i] EXCEPT !.hold = 0])

\* The network drops a datagram; a watchdog of either end may then run out.
Lose == \E m \in net :
           /\ m.op \in calls.lossy /\ calls.losses > 0
           /\ calls' = [calls EXCEPT !.losses = @ - 1, !.timeouts = @ + 2]
           /\ net' = net \ {m} /\ UNCHANGED d

SeatStep(i) ==
    \/ RecvBegin(i) \/ RecvNack(i) \/ RecvAbort(i) \/ RecvCommit(i) \/ RecvSeal(i)
    \/ RecvBase(i) \/ RecvPost(i) \/ RecvResolved(i) \/ RecvFrame(i) \/ RecvRequest(i)
    \/ RecvQuiesce(i) \/ Admit(i) \/ Stall(i) \/ Reconcile(i) \/ Replay(i) \/ Verify(i)
    \/ RunwaySpent(i) \/ Expire(i) \/ DeferExpire(i) \/ Resume(i) \/ ResendBegin(i)
    \/ ResendPost(i) \/ RequestQuiesce(i) \/ QuiesceTimeout(i) \/ SetHold(i) \/ ClearHold(i)
    \/ \E wire_ok, grace_over \in BOOLEAN : QuiescePump(i, wire_ok, grace_over)
    \/ \E s \in Seats : RecvRow(i, s) \/ RequestFrame(i, s)

\* Nothing is left to do: every peer has run its ticks and stands idle.
Settled ==
    \A i \in Seats :
        /\ d[i].stage = "Idle" /\ d[i].defer = NoDefer
        /\ d[i].sim = IF d[i].hold > 0 THEN d[i].hold ELSE calls.last
        /\ d[i].drain # "Draining" /\ Late(d[i]) = {}
        /\ \A s \in Peers(d[i]) : d[i].seen[s] = d[s].pub
Rest == Settled /\ UNCHANGED rbVars

RbNext == Lose \/ Rest \/ \E i \in Seats : SeatStep(i)

\* The hosts keep polling: something happens as long as anything is left to do.
RbFair == []<><<TRUE>>_rbVars \/ []<>Settled
RbSpec == RbInit /\ [][RbNext]_rbVars /\ RbFair

----------------------------------------------------------------------------
(* Properties *)

\* Ticks the guest of seat i ran on a row of seat s that is not the one s played.
WrongAt(i, s) == {t \in 0 .. d[i].sim - 1 : d[i].game[t + 1][s] # Pad(s, t)}
WrongTicks(i) == UNION {WrongAt(i, s) : s \in Seats}
Pending(i, s, t) ==
    t \in DOMAIN d[i].hist[s] /\ d[i].hist[s][t].pred /\ t > d[i].core.res

\* A mispredicted tick is never forgotten: it is still predicted above the
\* watermark (so reconcile will look at it), owed, or declared lost -- through
\* aborts, NACKs, yielded and superseded episodes, timeouts and lost datagrams.
CorrectionKept ==
    \A i \in Seats : \A s \in Seats : \A t \in WrongAt(i, s) :
        Pending(i, s, t) \/ t \in d[i].owed \cup d[i].lost

\* The two ways the watermark can pass a tick that was not replayed: rows of a
\* tip-extension whose BEGIN was not received raise the core's target only, and an
\* old BEGIN rewinds the sim below the watermark.
Slipped == \E i \in Seats : d[i].slipped

\* A mispredicted tick is never forgotten, outside those two (rb_clear_correction,
\* rb_reconcile_predictions and the recovery of slipped corrections).
CorrectionKeptUnlessSlipped == Slipped \/ CorrectionKept

\* What resolved_through covers was simulated on the rows that were played, at
\* every peer, whoever raised it (own verdict, RESOLVED of a peer, digest chain).
ResolvedIsTrue ==
    Slipped \/ \A i \in Seats : \A t \in WrongTicks(i) : t > d[i].core.res

\* A peer that committed (tip-hold) holds the true state through its target.
CommitAgrees ==
    \A i \in Seats : d[i].stage = "TipHold" =>
        \A t \in WrongTicks(i) : t > d[i].ep.target

\* What a stop says of the others.  A drained peer has everyone's marker, so no
\* peer has an episode open that it opened itself; and when everyone has also
\* acknowledged ours, nobody has one open or waiting at all, but for one that its
\* opener has aborted, entered by a BEGIN delivered late.  (After the grace alone
\* a peer may still be in an episode that the drained one opened.)
Aborted(e) == \E m \in net : m.op = "ABORT" /\ m.epoch = e
DrainedIdle ==
    \A i \in Seats : d[i].drain = "Drained" => \A j \in Seats :
        /\ d[j].stage # "Idle" => ~d[j].init
        /\ Peers(d[i]) \subseteq d[i].acks =>
               /\ d[j].stage = "Idle" \/ Aborted(d[j].ep.epoch)
               /\ d[j].defer = NoDefer \/ Aborted(d[j].defer.epoch)

\* Every episode ends at every peer that opened it and a requested stop completes,
\* at every peer, also when a BEGIN, POST, SEAL_ROWS or COMMIT was lost: nobody
\* waits for ever on a peer that left (in scenarios where old answers, delivered
\* again and again, do not overwrite newer ones).
Settles == [](calls.live => <>Settled)
============================================================================
