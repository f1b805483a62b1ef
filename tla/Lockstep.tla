------------------------------ MODULE Lockstep ------------------------------
(***************************************************************************)
(* Delay-sync lockstep once every seat is RUNNING: a seat samples its      *)
(* input for wire tick T + D while it plays T, sends its rows in INPUT     *)
(* packets, resolves a wire tick as soon as it has every seat's row,       *)
(* advertises the resolved inputs in INPUT_CONFIRM, and admits frame T     *)
(* only when every seat confirmed the same inputs.  DELAY_SYNC changes D   *)
(* at a later tick; hard_resync starts a new input epoch after a load.     *)
(*                                                                         *)
(* Source: src/session/rnet_session.c (store_remote_frame, try_admit and   *)
(* the functions it calls, the delay functions, hard_resync,               *)
(* prime_delay_inputs) and src/input/rnet_rings.c.                         *)
(*                                                                         *)
(* Abstractions: Seats are the occupied seats (an empty seat is the same   *)
(* neutral row everywhere); a hash is what it hashes; an INPUT packet is   *)
(* modelled row by row, and the extra rows the peer's ACK asks for are     *)
(* left out, because red >= D + 1 already covers every row a lockstep peer *)
(* can miss (EveryFramePlayed depends on it); paces are "at some later     *)
(* time".  Ticks and epochs do not wrap below the bounds.  A datagram      *)
(* reaches any subset of the seats, any number of times, in any order.     *)
(***************************************************************************)
EXTENDS Integers, FiniteSets

CONSTANTS
    Seats, Inputs,
    Neutral,        \* the row that seeds ticks 0 .. D - 1
    NoRow,          \* an empty ring slot
    Delay,          \* the input delay every seat starts with
    NewDelays,      \* delays the host may ask for
    MinDelay, MaxDelay,  \* the clamp on them: 2 and 20
    Redundancy,     \* cfg.bundle_redundancy
    Slop,           \* 8
    Ancient,        \* 64
    TrailFloor,     \* 16
    Margin,         \* 8
    History,        \* RNET_HISTORY_LENGTH
    MaxTick,        \* bound: no seat advances past this tick
    MaxEpoch,       \* bound: hard_resyncs per seat
    Lossy

ASSUME DelayAssumption ==
    /\ MaxDelay \in Nat /\ Delay \in 1 .. MaxDelay /\ MinDelay \in 1 .. MaxDelay
    /\ NewDelays \subseteq Nat
ASSUME RingAssumption ==
    /\ {Redundancy, Slop, Ancient, TrailFloor, Margin} \subseteq Nat
    /\ History \in Nat /\ 2 * (MaxDelay + 1) <= History
ASSUME BoundsAssumption == MaxTick \in Nat /\ MaxEpoch \in Nat /\ MaxEpoch < 65536
ASSUME RowsAssumption == Neutral \in Inputs /\ NoRow \notin Inputs

Wire == 0 .. (MaxTick + MaxDelay)
Epoch == 0 .. MaxEpoch
Row == Inputs \cup {NoRow}
Frame == [Seats -> Row]          \* the resolved inputs of one wire tick
NoFrame == [j \in Seats |-> NoRow]
NoDelay == [value |-> 0, effective |-> 0]

VARIABLES
    epoch,      \* input_epoch
    sim_tick,
    delay,
    pending,    \* delay_pending_*, or NoDelay
    ring,       \* ring[i][j]: seat i's ring of seat j's rows (i = j: local_ring)
    hash,       \* hash[i][w]: published_hash, or NoFrame
    heard,      \* heard[i][j][w]: peer_history_hash, or NoFrame
    desync,     \* input_desync
    suppress,   \* input_send_suppress
    admitted,   \* try_admit returned 1 and the host has not called advance yet
    net,
    sampled,    \* history: sampled[i][e][w], the row seat i made for itself
    played      \* history: played[i][e][t], the inputs given to host.publish

sessions == <<epoch, sim_tick, delay, pending, ring, hash, heard, desync, suppress, admitted>>
vars == <<sessions, net, sampled, played>>

Min2(a, b) == IF a < b THEN a ELSE b
Max2(a, b) == IF a < b THEN b ELSE a
Clamp(x, lo, hi) == Min2(Max2(x, lo), hi)

NoRows == [w \in Wire |-> NoRow]
Seeded == [w \in Wire |-> IF w < Delay THEN Neutral ELSE NoRow]

(* seed_delay_prefix has run: START put every seat in RUNNING at tick 0. *)
Init ==
    /\ epoch = [i \in Seats |-> 0]
    /\ sim_tick = [i \in Seats |-> 0]
    /\ delay = [i \in Seats |-> Delay]
    /\ pending = [i \in Seats |-> NoDelay]
    /\ ring = [i \in Seats |-> [j \in Seats |-> IF j = i THEN Seeded ELSE NoRows]]
    /\ hash = [i \in Seats |-> [w \in Wire |-> NoFrame]]
    /\ heard = [i \in Seats |-> [j \in Seats |-> [w \in Wire |-> NoFrame]]]
    /\ desync = [i \in Seats |-> FALSE]
    /\ suppress = [i \in Seats |-> FALSE]
    /\ admitted = [i \in Seats |-> FALSE]
    /\ net = {}
    /\ sampled = [i \in Seats |-> [e \in Epoch |-> IF e = 0 THEN Seeded ELSE NoRows]]
    /\ played = [i \in Seats |-> [e \in Epoch |-> [w \in Wire |-> NoFrame]]]

-----------------------------------------------------------------------------
(* The rings: one slot per tick % History. *)
SameSlot(w, x) == w % History = x % History

(* Store v at w: whatever shared the slot is gone. *)
Put(f, w, v, none) ==
    [x \in Wire |-> IF x = w THEN v ELSE IF SameSlot(x, w) THEN none ELSE f[x]]

Highest(r) ==
    LET held == {w \in Wire : r[w] # NoRow}
    IN  IF held = {} THEN 0 ELSE CHOOSE w \in held : \A x \in held : x <= w

Tip(i) == sim_tick[i] + delay[i]

remote_tick_in_live_window(i, j, w) ==
    LET slop == Redundancy + Slop
        hi == Tip(i) + slop
    IN  \/ sim_tick[i] - slop <= w /\ w <= hi
        \/ /\ Highest(ring[i][j]) < w /\ w <= hi
           /\ sim_tick[i] <= Ancient \/ sim_tick[i] <= w + Ancient

(* store_remote_frame's early returns; the first copy of a row wins. *)
Storable(i, m) ==
    /\ m.from # i
    /\ remote_tick_in_live_window(i, m.from, m.wire)
    /\ ring[i][m.from][m.wire] = NoRow

-----------------------------------------------------------------------------
(* Mutant: the window is the configured redundancy alone. *)
red_configured(d) == Max2(Redundancy, 1)

(* What send_input_bundle covers: D + 1 rows at least. *)
Red(d) == Max2(Max2(Redundancy, 1), d + 1)

send_input_bundle(i, r, d, e) ==
    LET tip == sim_tick[i] + d
    IN  {[op |-> "INPUT", from |-> i, epoch |-> e, wire |-> w, row |-> r[w]] :
            w \in {x \in Max2(tip + 1 - Red(d), 0) .. tip : r[x] # NoRow}}

Complete(r, w) == \A j \in Seats : r[j][w] # NoRow
Resolved(r, w) == [j \in Seats |-> r[j][w]]

Trail(i) == Clamp(delay[i] + Redundancy + Slop, TrailFloor, History \div 2)
ConfirmWindow(i) == Max2(sim_tick[i] - Trail(i), 0) .. Tip(i)

(* The ticks try_admit resolves anew: those of the window without a        *)
(* published hash, and the one to play.                                    *)
Prepared(i, r) ==
    {w \in ConfirmWindow(i) : Complete(r, w) /\ (hash[i][w] = NoFrame \/ w = sim_tick[i])}

Published(i, r) ==
    LET P == Prepared(i, r)
    IN  [w \in Wire |-> IF w \in P THEN Resolved(r, w)
                        ELSE IF \E x \in P : SameSlot(x, w) THEN NoFrame
                        ELSE hash[i][w]]

Conflict(i, w, frame) == \E j \in Seats \ {i} : heard[i][j][w] \notin {NoFrame, frame}

Confirms(i, r, h) ==
    {[op |-> "CONFIRM", from |-> i, epoch |-> epoch[i], wire |-> w, frame |-> h[w]] :
        w \in {x \in ConfirmWindow(i) : /\ h[x] # NoFrame
                                        /\ hash[i][x] = NoFrame => ~Conflict(i, x, h[x])}}

(* Mutant: the confirmations of the other seats not waited for. *)
agree_always(i, w, frame) == frame # NoFrame

wire_confirmations_agree(i, w, frame) ==
    /\ frame # NoFrame
    /\ \A j \in Seats \ {i} : heard[i][j][w] = frame

(* Mutant: the input is sampled again on every call. *)
sample_again(i, v) == Put(ring[i][i], Tip(i), v, NoRow)

(* The row sampled for Tip(i), unless the ring has one. *)
WithSample(i, v) ==
    IF ring[i][i][Tip(i)] # NoRow THEN ring[i][i] ELSE Put(ring[i][i], Tip(i), v, NoRow)

WithPlayed(i, t, frame) == [played EXCEPT ![i][epoch[i]][t] = frame]

(* One call of the host for its current tick.  An admitted frame is run    *)
(* and advance called before the next one, except at the bound MaxTick,    *)
(* where the host goes on calling.  (r and h each range over one value,    *)
(* which TLC computes once.)                                               *)
try_admit(i, v) ==
    /\ ~desync[i]
    /\ admitted[i] => sim_tick[i] = MaxTick
    /\ \E r \in {[ring[i] EXCEPT ![i] = WithSample(i, v)]} : \E h \in {Published(i, r)} :
          LET t == sim_tick[i]
              clash == \E w \in Prepared(i, r) : Conflict(i, w, h[w])
              ok == Complete(r, t) /\ ~clash /\ wire_confirmations_agree(i, t, h[t])
          IN  /\ ring' = [ring EXCEPT ![i] = r]
              /\ sampled' = IF ring[i][i][Tip(i)] # NoRow THEN sampled
                            ELSE [sampled EXCEPT ![i][epoch[i]][Tip(i)] = v]
              /\ hash' = [hash EXCEPT ![i] = h]
              /\ desync' = [desync EXCEPT ![i] = clash]
              /\ admitted' = [admitted EXCEPT ![i] = @ \/ ok]
              /\ played' = IF ok THEN WithPlayed(i, t, h[t]) ELSE played
              /\ net' = net \cup Confirms(i, r, h) \cup
                        (IF suppress[i] THEN {}
                         ELSE send_input_bundle(i, WithSample(i, v), delay[i], epoch[i]))
    /\ UNCHANGED <<epoch, sim_tick, delay, pending, heard, suppress>>

(* Mutant: the clock moves on without an admitted frame. *)
advance_unadmitted(i) ==
    /\ sim_tick[i] < MaxTick
    /\ sim_tick' = [sim_tick EXCEPT ![i] = @ + 1]
    /\ UNCHANGED <<epoch, delay, pending, ring, hash, heard, desync, suppress, admitted,
                   net, sampled, played>>

(* advance and apply_pending_delay: the host has run the frame. *)
advance(i) ==
    /\ admitted[i] /\ sim_tick[i] < MaxTick
    /\ sim_tick' = [sim_tick EXCEPT ![i] = @ + 1]
    /\ admitted' = [admitted EXCEPT ![i] = FALSE]
    /\ IF pending[i] # NoDelay /\ pending[i].effective <= sim_tick[i] + 1
       THEN /\ delay' = [delay EXCEPT ![i] = pending[i].value]
            /\ pending' = [pending EXCEPT ![i] = NoDelay]
       ELSE UNCHANGED <<delay, pending>>
    /\ UNCHANGED <<epoch, ring, hash, heard, desync, suppress, net, sampled, played>>

DelaySync(i, p) ==
    {[op |-> "DELAY", from |-> i, value |-> p.value, effective |-> p.effective]}

(* The tail of rnet_session_pump. *)
pump(i) ==
    /\ net' = net \cup (IF suppress[i] THEN {}
                        ELSE send_input_bundle(i, ring[i][i], delay[i], epoch[i]))
                  \cup (IF pending[i] = NoDelay THEN {} ELSE DelaySync(i, pending[i]))
    /\ UNCHANGED <<sessions, sampled, played>>

(* Mutant: the delay asked for is taken as it is. *)
request_unclamped(i, d) ==
    /\ i = 0 /\ d # delay[i]
    /\ pending' = [pending EXCEPT ![i] =
           [value |-> d, effective |-> sim_tick[i] + 2 * delay[i] + Margin]]
    /\ net' = net \cup DelaySync(i, pending'[i])
    /\ UNCHANGED <<epoch, sim_tick, delay, ring, hash, heard, desync, suppress, admitted,
                   sampled, played>>

(* The host (seat 0, rnet_sched.c) asks for another delay. *)
request_delay_change(i, d) ==
    /\ i = 0
    /\ LET clamped == Clamp(d, MinDelay, MaxDelay)
           asked == [value |-> clamped, effective |-> sim_tick[i] + 2 * delay[i] + Margin]
           again == /\ pending[i].effective > sim_tick[i] /\ pending[i].value = clamped
       IN  /\ clamped # delay[i] \/ pending[i] # NoDelay
           /\ pending' = IF again THEN pending ELSE [pending EXCEPT ![i] = asked]
           /\ net' = net \cup DelaySync(i, pending'[i])
    /\ UNCHANGED <<epoch, sim_tick, delay, ring, hash, heard, desync, suppress, admitted,
                   sampled, played>>

-----------------------------------------------------------------------------
(* Mutant: a row of another epoch stored. *)
input_any_epoch(i, m) ==
    /\ m.op = "INPUT" /\ Storable(i, m)
    /\ ring' = [ring EXCEPT ![i][m.from] = Put(@, m.wire, m.row, NoRow)]
    /\ UNCHANGED <<epoch, sim_tick, delay, pending, hash, heard, desync, suppress, admitted>>

OnInput(i, m) ==
    /\ m.op = "INPUT"
    /\ m.epoch = epoch[i] /\ Storable(i, m)
    /\ ring' = [ring EXCEPT ![i][m.from] = Put(@, m.wire, m.row, NoRow)]
    /\ UNCHANGED <<epoch, sim_tick, delay, pending, hash, heard, desync, suppress, admitted>>

OnConfirm(i, m) ==
    /\ m.op = "CONFIRM"
    /\ m.epoch = epoch[i]
    /\ heard' = [heard EXCEPT ![i][m.from] = Put(@, m.wire, m.frame, NoFrame)]
    /\ desync' = [desync EXCEPT ![i] = @ \/ hash[i][m.wire] \notin {NoFrame, m.frame}]
    /\ UNCHANGED <<epoch, sim_tick, delay, pending, ring, hash, suppress, admitted>>

OnDelaySync(i, m) ==
    /\ m.op = "DELAY"
    /\ IF m.effective <= sim_tick[i]
       THEN /\ delay' = [delay EXCEPT ![i] = m.value]
            /\ pending' = [pending EXCEPT ![i] = NoDelay]
       ELSE /\ pending' = [pending EXCEPT ![i] = [value |-> m.value, effective |-> m.effective]]
            /\ UNCHANGED delay
    /\ UNCHANGED <<epoch, sim_tick, ring, hash, heard, desync, suppress, admitted>>

handle_decoded(i, m) ==
    /\ m.from # i
    /\ OnInput(i, m) \/ OnConfirm(i, m) \/ OnDelaySync(i, m)
    /\ UNCHANGED <<net, sampled, played>>

-----------------------------------------------------------------------------
(* After a load the host restarts the seat at tick 0 in a new epoch ...    *)
hard_resync(i) ==
    /\ epoch[i] < MaxEpoch
    /\ epoch' = [epoch EXCEPT ![i] = @ + 1]
    /\ sim_tick' = [sim_tick EXCEPT ![i] = 0]
    /\ pending' = [pending EXCEPT ![i] = NoDelay]
    /\ ring' = [ring EXCEPT ![i] = [j \in Seats |-> NoRows]]
    /\ hash' = [hash EXCEPT ![i] = [w \in Wire |-> NoFrame]]
    /\ heard' = [heard EXCEPT ![i] = [j \in Seats |-> [w \in Wire |-> NoFrame]]]
    /\ desync' = [desync EXCEPT ![i] = FALSE]
    /\ suppress' = [suppress EXCEPT ![i] = TRUE]
    /\ admitted' = [admitted EXCEPT ![i] = FALSE]
    /\ UNCHANGED <<delay, net, sampled, played>>

Primed(f, i, v) ==
    [w \in Wire |-> IF sim_tick[i] <= w /\ w < Tip(i) THEN v ELSE f[w]]

(* ... and, once every peer is ready, gives it the rows before the tip.    *)
(* Host contract (session.h:350): prime follows a hard_resync, once.       *)
prime_delay_inputs(i, v) ==
    /\ suppress[i]
    /\ ring' = [ring EXCEPT ![i][i] = Primed(@, i, v)]
    /\ sampled' = [sampled EXCEPT ![i][epoch[i]] = Primed(@, i, v)]
    /\ suppress' = [suppress EXCEPT ![i] = FALSE]
    /\ net' = net \cup send_input_bundle(i, Primed(ring[i][i], i, v), delay[i], epoch[i])
    /\ UNCHANGED <<epoch, sim_tick, delay, pending, hash, heard, desync, admitted, played>>

(* Everything seat i has in flight is lost. *)
Lose(i) ==
    /\ Lossy
    /\ net' = {m \in net : m.from # i}
    /\ UNCHANGED <<sessions, sampled, played>>

Next ==
    \/ \E i \in Seats :
          \/ \E v \in Inputs : try_admit(i, v) \/ prime_delay_inputs(i, v)
          \/ advance(i) \/ pump(i) \/ hard_resync(i) \/ Lose(i)
          \/ \E d \in NewDelays : request_delay_change(i, d)
    \/ \E i \in Seats : \E m \in net : handle_decoded(i, m)

Spec == Init /\ [][Next]_vars

(* The host keeps calling try_admit and advance.  Of a link that carries   *)
(* something new to a seat again and again, something new arrives: INPUT   *)
(* and CONFIRM are sent until they are not needed any more.                *)
News(i) == \E m \in net : handle_decoded(i, m)

Fairness ==
    \A i \in Seats :
        /\ WF_vars(\E v \in Inputs : try_admit(i, v))
        /\ WF_vars(advance(i))
        /\ SF_sessions(News(i))

FairSpec == Spec /\ Fairness

-----------------------------------------------------------------------------
Packet ==
    [op : {"INPUT"}, from : Seats, epoch : Epoch, wire : Wire, row : Inputs]
    \cup [op : {"CONFIRM"}, from : Seats, epoch : Epoch, wire : Wire, frame : Frame]
    \cup [op : {"DELAY"}, from : Seats, value : 0 .. MaxDelay, effective : Nat]

(* The types: a tick, a delay and a stored row stay within their bounds,   *)
(* also when the host asks for a delay past MaxDelay (the clamp).          *)
TypeOK ==
    /\ epoch \in [Seats -> Epoch]
    /\ sim_tick \in [Seats -> 0 .. MaxTick]
    /\ delay \in [Seats -> 0 .. MaxDelay]
    /\ pending \in [Seats -> [value : 0 .. MaxDelay, effective : Nat]]
    /\ ring \in [Seats -> [Seats -> [Wire -> Row]]]
    /\ hash \in [Seats -> [Wire -> Frame]]
    /\ heard \in [Seats -> [Seats -> [Wire -> Frame]]]
    /\ desync \in [Seats -> BOOLEAN]
    /\ suppress \in [Seats -> BOOLEAN]
    /\ admitted \in [Seats -> BOOLEAN]
    /\ net \subseteq Packet
    /\ sampled \in [Seats -> [Epoch -> [Wire -> Row]]]
    /\ played \in [Seats -> [Epoch -> [Wire -> Frame]]]

(* A frame plays what the seats themselves put in their rings: no invented *)
(* and no stale row reaches host.publish.                                  *)
PlaysWhatWasSampled ==
    \A i, j \in Seats : \A e \in Epoch : \A t \in Wire :
        played[i][e][t] # NoFrame => played[i][e][t][j] = sampled[j][e][t]

(* Lockstep: two seats that have both played frame t of an epoch played    *)
(* the same inputs, whatever was lost, repeated or late, whenever each     *)
(* applied a delay change, and whatever of an earlier epoch still arrives. *)
Agreement ==
    \A i, j \in Seats : \A e \in Epoch : \A t \in Wire :
        played[i][e][t] # NoFrame /\ played[j][e][t] # NoFrame
            => played[i][e][t] = played[j][e][t]

(* The frame of an epoch's tick t, as its seats sampled it. *)
Truth(e, t) == [j \in Seats |-> sampled[j][e][t]]

Log == INSTANCE SharedLog WITH
    Tick <- Wire, None <- NoFrame, shown <- played,
    log <- [e \in Epoch |-> [t \in Wire |->
               IF \E i \in Seats : played[i][e][t] # NoFrame THEN Truth(e, t) ELSE NoFrame]]

(* The session implements the shared log: host.publish is called with the  *)
(* frames of one common log, in order and without gaps, by every seat      *)
(* (which contains Agreement).                                             *)
ImplementsSharedLog == Log!Spec

(* INPUT_CONFIRM: no seat plays a frame that another seat of its epoch has *)
(* not yet resolved to the same inputs, so no seat can be left behind      *)
(* without the rows of a frame somebody has already played.                *)
NeverStranded ==
    \A i, j \in Seats : \A t \in Wire :
        played[i][epoch[j]][t] # NoFrame /\ sim_tick[j] <= t
            => hash[j][t] = played[i][epoch[j]][t]

(* Seats that follow the protocol never raise input_desync: not when a     *)
(* confirm overtakes a row, and not when one of an earlier epoch arrives.  *)
NoFalseDesync == \A i \in Seats : ~desync[i]

(* A seat leads another of the same epoch by at most the delay and one     *)
(* frame: what the confirm trail and the live window are sized for.        *)
LeadBounded ==
    \A i, j \in Seats : epoch[i] = epoch[j] => sim_tick[i] <= sim_tick[j] + MaxDelay + 1

(* Under loss every frame is played in the end: the INPUT window (D + 1    *)
(* rows at least) and the confirm trail cover whatever a slower seat can   *)
(* still miss.                                                             *)
EveryFramePlayed == <>(\A i \in Seats : sim_tick[i] = MaxTick)
=============================================================================
