# recomp-net in TLA+

recomp-net is a C library that runs the network side of a recompiled console
game: it brings two or more peers into a session, keeps their frames equal
(lockstep, or prediction with rollback), moves save states between them, and
finds the peers in the first place (lobby, LAN room, ICE). This directory models
its protocols in TLA+, checks them with TLC and proves the central safety
properties with TLAPS. Line numbers are those of `src/` of the repository.

1. The system  2. Modules  3. What is checked  4. What is proved  5. Observations
6. What is not modelled  7. Running

## 1. The system

| part | code | what it keeps | its steps |
|---|---|---|---|
| startup profiles | `session/rnet_session.c` 89-100, 397-525 | masks of offers, ACKs and receipts, the choice | begin, OFFER, ACK, drive, gate in `try_admit` |
| bootstrap | 747-844, 2311-2373 | phase, delay, READY mask | HELLO, READY, START, `maybe_bootstrap` |
| lockstep | 613-745, 845-911, 2375-2691, 3152-3549, 3774-3810, 4439-4527 | tick, delay, input rings, published and heard hashes, epoch | `try_admit`, `advance`, INPUT, INPUT_CONFIRM, DELAY_SYNC, `hard_resync` |
| state transfer and probe | 1400-2309, 3994-4437, 4569-4603 | sender window, ACKs per receiver, chunk bits, parked seat, stall flag | BEGIN, CHUNK, ACK, PROBE, REPLY, DONE, abort, drop |
| control queues | 965-1275, 4605-5170 | FIFOs of 8 to 256 entries | coalesce, shed, refuse, take |
| liveness and BYE | 912-922, 3572-3747 | receive stamps, departed peers | BYE, deadlines |
| frame hashes | `rollback/rnet_hash_confirm.c`, `rnet_rb_quorum.c` | rings of local and peer digests, watermark | note, advance, heal |
| rollback | `rollback/rnet_rollback.c`, `rnet_rb_driver.c`, `input/rnet_input_hist.c` | phase, span, seal rows, stage, deferred BEGIN, predicted rows | begin, follow, NACK, ABORT, replay, verify, tip hold, quiesce, start gate |
| scheduler | `sched/rnet_sched.c` | timers, pacing debt, automatic delay | pre-admit, miss, evaluate, bump |
| lobby, packages | `lobby/rnet_lobby_client.c`, `rnet_ice_xfer.c` | room, ready, launch, automatch; a transfer | messages of the server; chunks |
| LAN room | `lobby/rnet_lan_direct.c` | one seat, the settings, guest handles | JOIN_REQ, CAPS, KICK, SWAPREQ, LEAVE, START, CLOSE |
| host ICE | `nat/rnet_host_ice.c`, `rnet_sig_hold.c`, `ice/` | agents, negotiation ids, held signals | offer, answer, report, retry |

The host program owns the loop. It calls `pump` (receive, drive the handshakes,
repeat what is unanswered) and then either `try_admit` and `advance` (lockstep)
or `poll_admit` of the rollback driver, which asks the scheduler whether to wait
for a row or to invent it. All a session knows of another seat it knows from
datagrams, which are lost, repeated and reordered. Sessions are single threaded.

What makes it hard: handshakes whose last message may be lost; datagrams of an
earlier handshake, tick or epoch that arrive late; ring slots that are reused; a
delay that changes while rows are in flight; corrections that overlap; seats
that wait for each other. `PROJECT.json` lists these hazards at their lines
with the properties that cover them.

## 2. Modules

| module | models |
|---|---|
| `Profiles`, `Bootstrap` | how a session starts |
| `Lockstep`, `SharedLog` | lockstep play, and what it promises its host |
| `StateSync` | save-state transfers and probes |
| `ControlQueues`, `PeerLiveness` | a session's inbound queues; who is still there |
| `HashConfirm`, `HashChain` | chains of digests; one chain against several peers, with the quorum |
| `RbEpisode`, `RbDriver` | the passive half of an episode; the driver of both peers over a network |
| `RbGate` | the mod-set handshake and boot digest before a rollback match |
| `Sched`, `AutoDelay` | admission of two peers that wait for each other; the delay controller |
| `Lobby`, `ModXfer`, `HostIce`, `LanDirect` | the waiting rooms and what is exchanged in them |
| `MCLockstep`, `MCState`, `MCRollback`, `MCStart`, `MCPartsLive`, `MCPartsSafe` | instances for TLC |
| `StartProofs` (profiles, bootstrap), `LockstepProofs`, `StateSyncInvariant`, `StateSyncProofs`, `QueuesProofs`, `RollbackProofs` (start gate, digest chain), `PacingProofs`, `LanDirectProofs` | theorems |

Actions have the name of the function they model where there is one; `map` in
`PROJECT.json` gives the lines of every definition.

**The link.** A network is a set of datagrams. Receiving leaves a datagram in
it, so each may arrive again, late and in any order; a `Lose` action takes
datagrams away where a liveness property needs the sender to repeat itself.
The lobby connection is a WebSocket and keeps its order.

**Time.** A timer is a choice: a step that the code takes when a time has passed
may be taken at any time, or only while a bound lasts. `PeerLiveness` and
`AutoDelay`, which are about ages, count them.

**Data.** A hash is modelled by what it hashes, a save state by the id of its
transfer, a match's settings by a number, a guest program by the sequence of
rows it ran on. Ticks and epochs do not wrap, except in `ControlQueues`, where
the wrapped comparison `rb_epoch_before` is the subject.

**Scenarios.** Components with many API calls take a set of plans (`Scenarios`,
`Plans`, `Rooms`, `XferPlans`, ...): what the users and the link may do in a
behaviour, and how often. The runs check the union of the plans; the theorems
hold for all of them.

**Composition.** Three modules are made of others: `HashChain` and `RbDriver` use
`HashConfirm`; `RbDriver` uses `RbEpisode`. Parts that share no state are
put side by side in one run by `MCStart`, `MCPartsLive` and `MCPartsSafe`: the
variable `part` says which of them a behaviour is about. `RbDriver` starts where
`RbGate` ends, `Lockstep` where `Bootstrap` has seeded the delay prefix, and
`Profiles` runs beside `Bootstrap` and gates admission.

**Lockstep.** `ring[i][j]` are the rings, `hash` is `published_hash`, `heard` is
`peer_history_hash`. `Put` is the ring store and evicts whatever shares the
slot. `try_admit` is the whole call: sample, send the INPUT bundle, refresh the
confirm window, resolve, compare, publish. `sampled` and `played` are history
variables. `SharedLog` is one log per epoch of which each seat is shown a
prefix, in order.

**RbDriver.** Each operation is a function from a driver record to the next;
what it sends it leaves in `out`. `poll_admit` runs them one after the other;
here each is an action, which adds only the polls between which something
arrived. A late row that differs from its prediction is first put to the input replace
contract (`rnet_rb_driver.c:3603`); with no host gate set, as the driver leaves them,
its answer for a predicted row of a completed tick is always to rewind, and `Scan`
rewinds. A stop ends with every marker and acknowledgement, with the markers alone
(the 500 ms grace, or a peer that left), or by its timeout; the model has all three.

**Sched.** A row is sealed once for a tick, when it is first tried, and not while the
session is held: a raise of the delay during a stall is back-filled at the next tick.
The no-invent gate is computed, as in `rb_gate_lockstep_no_invent`, from the lockstep
window after a fork and from the hold. The cushion wait has in the code an exception
for an absurd catch-up, whose flag nothing in the repository sets; it is left out.

**ModXfer.** Datagrams of a link are a bag: a pump reads any of them in any order, up
to a bound. The last ACK of a blob leaves before the blob is queued, the queue may be
full, the watchdog may run out and the install hook may fail; all are in the pump.

**LanDirect.** A guest joins again from the address of its last handle (a fixed port)
or from a fresh one. Nothing in a datagram tells two handles at one address apart, so
what was sent by or to the earlier one reaches the later; the history variable `loose`
marks a handle to which this happened, or which the host let go (kick, close, LEAVE).

**AutoDelay.** A match starts with any delay the lobby admits, 2 to 20. Time is counted in evaluation periods of 5 s; a window is what
the evaluation reads of it. A request commits `2 D + 8` ticks (at most 48) after
it is made and a window counts only from 120 live ticks on, so at such an
evaluation nothing but a bump made since the last one can be pending; `Evaluate`
has this as a guard.

## 3. What is checked

Passing runs:

| run | instance | properties |
|---|---|---|
| `lockstep` | 2 seats, 2 inputs, ring of 4, 3 frames | `PlaysWhatWasSampled`, `LeadBounded` |
| `lockstep_delay` | delay raised from 1 to 2 (clamped from 3) | `TypeOK`, `NeverStranded`, `ImplementsSharedLog` |
| `lockstep_resync` | one `hard_resync` each | `NoFalseDesync` |
| `lockstep_live` | lossy, fair, 2 frames | `EveryFramePlayed` |
| `state` | 8 scenarios: two guests, two chunks, uploads, a repeat, both ways, a dropped peer, probes | `SentMeansReceived`, `AppliedOnce`, `StallMatches`, `TransferEnds`, `ParkedReleased` |
| `rollback` | 11 scenarios for two drivers: dual initiation, losses, tip extension, digest chain, shallow snapshots, quiesce and its timeout, hold | `CorrectionKeptUnlessSlipped`, `ResolvedIsTrue`, `CommitAgrees`, `DrainedIdle`, `Settles` |
| `start` | bootstrap and profiles, 2 seats, lossy, fair | `QuietOnlyWhenHeard`, `RoomAgrees`, `EveryoneRuns` |
| `parts_live` | liveness, start gate with 8 rooms, lobby with 5 plans, ICE links | `StartVerified`, `ViewsAgree`, `ReadyAgain`, `DepartureNoticed`, `EveryoneLeaves`, `FramesSettle`, `LinkedUnlessFailed` |
| `parts_safe` | profiles and bootstrap with 3 seats, queues, digest chain, scheduler, automatic delay, package transfer, LAN room | `PartsTypeOK`, `Agreement`, `NoFrameBeforeBarrier`, `NobodyRunsAlone`, `PrefixHeld`, `DigestsHonest`, `SkewBounded`, `BehindIsFed`, `PackageIntact`, `SeatKept`, `StartedWithHostCaps`, `LowersAreSafe`, `LostOnlyToNewer` |

What they say, beyond their names:

- *Starting.* Seats that finish the profile barrier decided the same
  (`Agreement`); no frame runs before that (`NoFrameBeforeBarrier`); a seat goes
  quiet only when nobody needs it (`QuietOnlyWhenHeard`). A seat runs only when
  all have a transport (`NobodyRunsAlone`), and its rows have no hole but the one that
  a HELLO after START opens at a guest with a shorter delay (`PrefixHeld`). A rollback match starts only when the mod set and every tick-0
  digest were compared (`StartVerified`), and otherwise all leave
  (`EveryoneLeaves`).
- *Playing.* Frames are what was sampled, in one common order; a frame played
  anywhere can be played everywhere (`NeverStranded`); nobody that follows the
  protocol is called desynced. A mispredicted tick is corrected, owed or declared
  lost (`CorrectionKeptUnlessSlipped`); what is called resolved or committed is
  true at every peer. After a stop with all markers no peer is in an episode that it
  opened; with all acknowledgements as well none is in any, but an aborted one
  (`DrainedIdle`). Two schedulers stay within `TopDelay + Budget + 1` ticks of
  each other and never wait for each other's unmade rows (`BehindIsFed`). The automatic delay is lowered only when the arrivals
  leave a margin, no freeze or change is recent, and, after a first change, a second
  evaluation agrees (`LowersAreSafe`); the exception to the margin is a lobby's delay
  above `RB_ADAPT_DELAY_MAX`, which is clipped.
- *Exchanging.* A sender's success means that every seat it expects stored the whole
  of this transfer, which passed its check unless a chunk was damaged
  (`SentMeansReceived`: the last byte is acknowledged before the CRC); no transfer is applied twice;
  admission is stalled exactly as long as a transfer or probe is open. A queue
  loses an episode's message only to a newer one (`LostOnlyToNewer`). What is
  handed up of a package is whole, and a host that reports it sent has a guest that
  received all of it, in this very transfer (`PackageIntact`); that it was installed
  is more than the report says.
- *Meeting.* A guest of a LAN room holds the seat it believes it has, unless the host
  let it go or it took a datagram of an earlier handle at its address (`SeatKept`); one
  that starts the host's match has the host's settings, and with the same exception
  starts no other (`StartedWithHostCaps`). The lobby's clients and its server
  agree when the connection is quiet (`ViewsAgree`), and the answers of clients
  to updates come to an end (`FramesSettle`).

**Bounds**, and why they reach the interesting cases. `lockstep` scales the
constants down together: delay 1, ring of 4 for 128, windows of 1 and 2 for 8
and 64; three frames use wire ticks 0 to 4, so slot 0 is reused while tick 0 may
still be repeated. `lockstep_resync` has no `advance`: it is about rows and
confirms of two epochs for the same ticks, which exist at tick 0; it tells states
apart by the sessions and the network only (`VIEW Present`), since its property and
no action reads the history variables. Queues hold 2
entries and rings 2 slots, so that they overflow. `state` and `rollback` allow
one or two losses, aborts or timeouts each, at any point. In `parts_safe` the
scheduler has a prediction budget of 1, a delay that rises from 2 to 3, a lockstep of
2 ticks and a hold at tick 3; the automatic delay starts below its floor and above its
maximum and has cooldowns of 3 and 2 periods and five periods, enough for a change, a
bump and two evaluations after them; the host's bootstrap delay is longer than one
guest's and shorter than the other's; a transfer reads bursts of two datagrams with one
lost and one retry, into a queue of one blob; LAN guests open two or three handles and
the room is closed and opened again. At
`MaxTick` a lockstep host goes on calling `try_admit`, as a real one would.
Symmetry is used where seats are interchangeable and no liveness is checked.

**Deadlock** is checked in the lockstep and rollback runs. Elsewhere the protocol
may end: a refused agreement, a finished transfer, a closed room, a used-up plan.

**Fairness.** The host calls `pump`, `try_admit`, `advance` and `poll_admit` for
ever, and a timer that ran out is acted on: weak fairness on those steps. This is
the library's contract with its host. A kind of datagram that is sent again and
again is received in the end: strong fairness on receiving it, per sender and
kind in `Profiles`, for READY and START in `Bootstrap`, and in `Lockstep` only for
*some* datagram that changes the seat. `StateSync` assumes it only of what
somebody still repeats (`Resent`). The lobby's connection delivers what was
sent. In `RbDriver` something happens as long as anything is left to do
(`RbFair`); `Settles` is asked of the scenarios marked `live`, in which old
answers, delivered again and again, do not overwrite newer ones.

Every property has a mutant next to the definition it changes, a plausible slip
in one function; with it in place TLC finds the property violated.

### Where the code and its documentation disagree

Three runs state what a comment or a document says and are violated.

- `lockstep_delay_gap`. After a DELAY_SYNC increase, `try_admit` samples only the
  new tip, and nobody makes the rows between the old and the new one; every seat
  waits for them. `prepare_local_tip` has the back-fill and the comment that
  lockstep relies on it (session.c 4685-4690).
- `state_parked`. A guest that is parked on one probe and hears the next one
  repeats its match with the new checksum, although its application was not asked;
  the comment at session.c 2247-2249 and `docs/protocol.md:139-142` say that a
  late answer cannot satisfy the next probe.
- `ice_retry`. A guest's retry stamps its new offer with the old negotiation id,
  because the agent gathers, and emits the offer, before `gen` is raised
  (`rnet_host_ice.c` 306-308). The host ignores it, and every later retry is one
  id behind; the comments at `rnet_host_ice.c` 155-156 and `host_ice.h` 31-37 say
  that a retry is answered.

## 4. What is proved

For every value of the constants that satisfies the named assumptions:

| theorem | statement |
|---|---|
| `StartProofs`: `TypeCorrect`, `AgreementHolds`, `NoFrameBeforeBarrierHolds`, `QuietOnlyWhenHeardHolds`, `SelectionNeverChangesHolds` | the barrier agrees, comes before the first frame, is final, and falls quiet only when heard |
| `StartProofs`: `BootTypeCorrect`, `BootBarrier`, `BootPrefix` | nobody runs alone; the rows leave no hole but that of a late HELLO |
| `LockstepProofs`: `TypeCorrect`, `PlaysWhatWasSampledHolds`, `AgreementHolds`, `NeverStrandedHolds`, `NoFalseDesyncHolds`, `LeadBoundedHolds` | lockstep's safety |
| `LockstepProofs`: `Refinement` | `Lockstep` implements `SharedLog` |
| `StateSyncProofs`: `SentAndReceived`, `NothingAppliedTwice`, `StallIsRight` | what is reported sent was stored by every receiver; nothing is applied twice; the stall flag is right |
| `QueuesProofs`: `QueuesLoseOnlyToNewer` | what a full or coalescing queue gives up was superseded |
| `RollbackProofs`: `GateVerifies`, `GateRefusalStands` | whoever plays tick 1 compared everything; a refusal is final |
| `RollbackProofs`: `DigestsAreHonest` | confirmed ticks, reported mismatches and quorum verdicts are true of the seats |
| `PacingProofs`: `SkewIsBounded`, `BehindAlwaysFed` | two peers stay together and never wait for each other |
| `PacingProofs`: `LowersOnlyOnEvidence`, `DelayWithinBounds` | the delay is lowered on evidence only, and what is asked for stays in its bounds |
| `LanDirectProofs`: `SeatIsKept`, `StartsOnHostTerms` | the seat, and the settings a guest starts with |

**Profiles.** The properties speak of two seats, a step changes one, and what it
knows of the other it knows from a datagram that may be old. The invariant says
of every OFFER and ACK in `net`, and of every bit in a mask, that it is still
true of its sender (`OffersHonest`, `AcksHonest`, `ReceiptsHonest`,
`NetHonest`). It is preserved because a seat's struct only grows (`Grows`).
`SeatInv` ties a choice to the offers it was made from. The transcript hash is
injective in the model.

**Bootstrap.** `Barrier`: a READY, sent, counted or on the link, is from a seat
that opened its transport, and a START, or a seat that runs, proves that all
have. `BootPrefix` holds for any configured delays. The rows of a seat are an initial
segment that ends at its tip or one before, with at most one gap, which begins at the
seat's own delay and ends before the host's (`Segment`); a seat that has passed its
first frame has no gap left before it.

**Lockstep.** Neither agreement nor the absence of a false desync is inductive.
The invariant takes `sampled` as the truth and says that every copy agrees with
it: rows in rings and in flight (`RowsHonest`, `NetHonest`), frames resolved,
heard, in flight and played (`HashHonest`, `HeardHonest`, `PlayedHonest`). Three
things make it inductive. A seat keeps the rows it still has to play
(`RowsKept`): `SlotDistance` with `2 * (MaxDelay + 1) <= History` (20 and 128 in
the code) shows that no live row is evicted. A seat that confirmed a tick has
played it or still holds it resolved (`Holds`), so a frame is never played before
all seats have it. And a seat makes no row twice in an epoch
(`SuppressedAtZero`). `Persist` and `Kept` carry honest facts across a step in
which a seat's samples only grow.

**StateSync.** A sender learns that a blob arrived from an ACK that may be old, of
an earlier transfer or of a blob that was damaged on the way, and it leaves before the
CRC is compared. The invariant
`TransferInv` says what each piece of state proves: a full ACK, counted by the
sender (`SenderOK`) or in flight (`MsgOK`), that its receiver stored every chunk of
this transfer or has since heard of a later one (`Got`); a watermark at the end, that the CRC
was right (`ReceiverOK`). An open transfer is its sender's latest and no receiver
knows a later one, so that `Got` of it is `SentMeansReceived`. That nothing is applied
twice follows from what a receiver remembers of a source (`received`): everything
applied is older, or is the transfer it finished last. The stall flag needs that a
parked guest has no open transfer (`StallInv`). Assumed: `StateAssumption`, the types
of a scenario and that a blob has a chunk, since `state_begin` refuses a size of 0.

**RbGate.** `SeatSound` says what a seat's own flags prove: a gate that is passed
has compared every fellow's digest, a set that is settled and accepted is one
that everybody who had to answer can run, one that is not is a refusal.
`Honest` says what a datagram proves of its sender: a FRAME_COMMIT that it ran
tick 0, an ACK that it fits. Both speak of rooms without overrides
(`ALLOW_MOD_MISMATCH`, `ALLOW_BOOT_FORK`), as `StartVerified` does.

**ControlQueues.** `LostOnlyToNewer` is an action property: it compares a queue with
what it was. The invariant `CtlInv` has one part per kind of queue. An episode queue
is no longer than its capacity and holds no identity twice (`CtlQueueOK`), so that an
entry which is overwritten, shed or pushed out is the one the rules of
`handle_decoded` name. A FRAME_COMMIT or SIO queue is the end of what arrived
(`FifoOK`). The RESOLVED queue has one entry per seat, and the highest watermark of a
seat is what was taken from it joined with the entry that waits (`ResOK`), which is
why a seat's newest watermark survives merging in any order. Assumed: room for an
entry of every other seat (`CapAssumption`; 8 slots in the code), and watermarks that
span less than half of the range of a tick (`WatermarksOrdered`), without which
`rb_epoch_before` is no order.

**HashChain.** A verdict is about what the seats computed; the chain knows it from two
rings whose slots are reused, from commits in any order and from a conflict flag per
slot. `ChainInv` says of each entry what it proves: a local digest, that we computed
it (`LocalOK`); a peer digest, that it is the first peer's, with the flag set exactly
when the peers differ on that tick (`PeerOK`); a gathered commit, that its seat sent
it (`HeardOK`, `SaidOK`). Then a match is an agreement of all seats (`MatchIs`), the
watermark passes only such ticks, and only a heal goes past a tick without its
digests. Assumed: at least one and at most 8 peers (`ChainPeersAssumption`).

**Sched.** `Sealed`: a peer has sealed every row up to its tick (the back-fill of
`prepare_local_tip`), the next one as well once it has tried the tick, and none past
its longest delay. `Within`: its tip is a
row of the other peer, and its tick within the prediction cap of one. The bound
on the skew follows from the second, that the peer behind is fed from the first.
The proof first shows that timers, pacing and grace move no tick, delay or row
(`Alongside`), so that what matters of an attempt is small. Assumed: a budget of
at least 1 and delays between 2 and 20, as the code clamps them.

**AutoDelay.** That two evaluations called for less does not follow from the
agreement counter: the code compares the target of the evaluation before with
the *present* delay, so a call for more could pass for a call for less once the
delay has been bumped past it. The invariant `AdInv` says why it does not: the
target of a call for more stays above the delay and above whatever is pending,
unless a freeze came since, and then the freeze's cooldown holds the lower back.
With a pause between the two evaluations (a movie, a held admission) that
cooldown can run out first; the property says so. Assumed: starting delays from 2 to
20, a floor of at least 2 and at most the maximum, and a cooldown of at least 2 periods
(30 s and 5 s in the code).

**LanDirect.** The host keeps the seat as a name in the room and as an address in
its handle, a guest as the state of its own handle, and LEAVE, KICK and START are
single datagrams that may come late or twice. The invariant relates the three
with what is on the way. `Addresses`: two guests never share an address, and an open
room's handle knows exactly the guest whose name is in the seat. `Datagram`: a JOIN_OK
or START that was sent while the present handle existed, and the handle was not let go,
is from the host that has it in the seat, and any START carries the settings of its
match. `Seating`: what a handle took over from them. Nothing is assumed.

Where a component is one record, the proofs first state that it is the record of
its fields (`IsAd`, `IsSched`, `IsLan`, ...); this makes a step's effect on each
field a fact the provers can use.

Assumptions are named `ASSUME`s in the components and evaluated by the runs.
Ticks and epochs do not wrap: `MaxEpoch < 65536` is the epoch's width on the
wire, and a 32-bit tick lasts two years at 60 frames a second.

Only model-checked:

- every liveness property (`EveryFramePlayed`, `RoomAgrees`, `EveryoneRuns`,
  `TransferEnds`, `ParkedReleased`, `Settles`, `DepartureNoticed`,
  `EveryoneLeaves`, `FramesSettle`, `LinkedUnlessFailed`): fairness and `ENABLED`
  are beyond the proof system;
- the safety of `RbDriver`, `ModXfer` and `Lobby`. `RbDriver` and `ModXfer` run over
  queues of messages with folds, and what a fold computes for every input needs
  induction over data; what a lobby client sees is the effect of all frames the
  server queued for it, one after the other, which is the same induction;
- that `RbEpisode`, `HostIce` and `PeerLiveness` are well-typed (`PartsTypeOK` and the
  runs that contain them).

## 5. Observations

Differences met while modelling, without a run of their own.

- Rollback: SEAL_ROWS of a tip extension that overtake its BEGIN raise the core's
  target only, so that a commit covers ticks that were not replayed; an old BEGIN
  can rewind the sim below the watermark. `Slipped` names the two, and the
  rollback properties except them (`docs/rollback.md:197`).
- State transfer: the receiver acknowledges the last byte before it compares the CRC
  (session.c 2064-2069); after a mismatch it acknowledges 0 (1694), which the sender's
  monotone acknowledgement ignores. So the sender may report complete what failed its
  check, and the receiver goes on only when the application aborts. `TransferEnds`
  excepts damaged blobs.
- Bootstrap: only HELLO's version is checked (813); a HELLO after START changes
  the delay without seeding its rows (795), and with a longer delay the guest waits for
  rows of its own that nobody makes.
- Quiesce: `rb_driver.h:306` says of a drained peer "nothing in flight on either side";
  after the grace for the acknowledgements (3727-3734) the other may still be in an
  episode that the drained one opened.
- Profiles: "Identical offers/ACKs retransmit until every peer has acknowledged
  receipt" (`docs/startup-profiles.md:29`); a seat whose receipts are complete goes
  quiet, and one whose last receipt was lost retransmits for ever, with status 1.
- Control queues: `rb_epoch_before` (558, 1093-1099) orders epochs by a wrapped
  difference, which is no order across more than half the range.
- Hold: `hold_settled` does not wait for what `rb_driver.h` 324-326 says.
- Scheduler: the statics of `np_invent_grace_stall_ex` (321-327), like those of
  `np_auto_delay_tick`, survive a rematch, although `rnet_sched_reset_session` says
  that nothing of the prior match gates the next. `Sched` keeps them over a
  rematch; `AutoDelay` is one match.
- Automatic delay: a lobby may set up to 20, an evaluation asks for at most 16 (1526):
  a longer delay is lowered whatever the arrivals say, also when rows came late. On a forced relay the floor of 6 raises a smaller delay. A movie's window neither counts nor resets the agreement
  streak, so the two agreeing evaluations may have movies between them.
- Lobby: `set_launch_blocked` (4562-4564) and the automatch state outlive a
  connection. The sender of a package looks at the queue before the archive is
  put into it (about 5208-5216).
- Package chunks: a repeated chunk of a finished single-chunk blob starts it again
  (`rnet_ice_xfer.c:207`, `ice_xfer.h` 13-18), so that a header can be handed up twice,
  and the second fails the transfer; the host may by then have reported it sent.
- LAN room: the source check of LEAVE (658-672) is meant to keep an unseated sender from
  emptying the seat; a late LEAVE of an earlier handle at the seated guest's own address
  passes it, and a late START of an earlier match is obeyed (1061-1082). START carries no `host_slot` (`rnet_lan_direct.c` 345-385); a guest that
  lost the notice of a swap starts with its old view of the seats.
- Host ICE: two moves in one pump lose a held offer; a guest that joins again
  starts its ids at 1; held signals are not cleared when a guest leaves.
- `docs/architecture.md:38` says admission needs the remote rows of `T + D`; the code
  needs those of `T`. `session.h:165` says both peers apply a delay at the effective
  tick, which a late DELAY_SYNC does not give; the safety properties hold all the
  same.

## 6. What is not modelled

- In modelled parts: observers; the acknowledgement-driven part of the INPUT
  window; rollback with more than two seats and its chain repair
  (`check_chain_fork`); the legacy knobs that are read from the environment;
  telemetry; seat swaps, chat and list probes of the lobby; chat and pings of the
  LAN room; byte encodings everywhere.
- Whole parts, with the reason in `PROJECT.json`: transport and hub, network
  simulator, wire codec, host relay, LAN file lobby and beacon, websocket framing,
  RTT probes, account login, chat filter, digests and platform code, and the input
  replace contract, a predicate that says no more than "rewind" without the engine's
  gates.
- External: the lobby server and the ICE library, modelled from how the code uses
  them.

## 7. Running

    tlc -workers 2 -config MCPartsSafe.cfg MCPartsSafe
    tlapm LanDirectProofs.tla

Every run ends within three minutes on two cores. From nothing, each proof module
takes one to four minutes. The lockstep proofs make Zenon the default prover (`USE
Zenon`) and cite `SMT` where a leaf needs arithmetic; the others name the prover where
the default order would lose time.
