--------------------------- MODULE ControlQueues ---------------------------
(***************************************************************************)
(* The inbound queues of a session, src/session/rnet_session.c: what       *)
(* handle_decoded does with the datagrams the host drains itself (RB_SYNC, *)
(* SEAL_ROWS, BASELINE, POST, RESOLVED, FRAME_COMMIT, SIO transfers, the   *)
(* mod set and its answers), and the rnet_session_take_* calls.            *)
(*                                                                         *)
(* A datagram is [op, from, epoch, id, val]: id stands for the fields that *)
(* identify it beside sender and epoch, val for its payload.  Any datagram *)
(* of the scenario may arrive at any time, again and out of order.  The    *)
(* last four fields of cq are history variables.                           *)
(***************************************************************************)
EXTENDS Integers, Sequences, FiniteSetsExt

CONSTANTS
    Remote,                      \* the other seats; we are seat 0
    CtrlCap,                     \* RNET_RB_CTRL_QUEUE
    FcCap,                       \* RNET_RB_FC_QUEUE, RNET_SIO_XFER_QUEUE
    EpochMod,                    \* 2^32: epoch ids and ticks wrap here
    CtlScenarios,                \* [wire: the datagrams, ours: rb_peer_slot or AnySeat]
    MaxArrivals                  \* bound: datagrams received in one behaviour

VARIABLE cq

AnySeat == -1
Fifos == {"SYNC", "SEAL", "BASE", "POST", "RES", "FC", "SIO"}
Newest == {"FC", "SIO"}           \* the queues that drop their oldest
NoVal == -1

\* rb_epoch_before: the sign of the wrapped 32-bit difference.
EpochBefore(a, b) == (a - b) % EpochMod >= EpochMod \div 2
Latest(a, b) == IF EpochBefore(a, b) THEN b ELSE a

Datagram == [op : STRING, from : Remote, epoch : Int, id : Int, val : Nat]
Watermarks ==
    {m.val : m \in {w \in UNION {c.wire : c \in CtlScenarios} : w.op = "RES"}}

\* A queue has room for the entry of every other seat: RNET_MAX_SLOTS is 8.
ASSUME CapAssumption ==
    /\ CtrlCap \in Nat \ {0} /\ FcCap \in Nat \ {0}
    /\ IsFiniteSet(Remote) /\ Cardinality(Remote) <= CtrlCap
ASSUME WireAssumption == \A c \in CtlScenarios : c.wire \subseteq Datagram

\* The watermarks in play span less than half the range of a tick, so that
\* rb_epoch_before orders them.
ASSUME WatermarksOrdered ==
    \A a, b, d \in Watermarks :
        /\ a # b => (EpochBefore(a, b) <=> ~EpochBefore(b, a))
        /\ EpochBefore(a, b) /\ EpochBefore(b, d) => EpochBefore(a, d)

CtlInit ==
    cq \in {[wire |-> c.wire, ours |-> c.ours, q |-> [o \in Fifos |-> <<>>],
             modset |-> NoVal, ack |-> [s \in Remote |-> NoVal], dropped |-> 0, lastFrom |-> -1,
             arrivals |-> 0, log |-> [o \in Newest |-> <<>>], high |-> [s \in Remote |-> NoVal],
             told |-> [s \in Remote |-> NoVal], owed |-> [s \in Remote |-> NoVal]] :
                c \in CtlScenarios}

\* A group-scoped session takes episode control from its own console group only.
Scoped(m) == m.op \in {"SYNC", "BASE", "POST"} => cq.ours \in {AnySeat, m.from}

SameIdentity(e, m) ==
    /\ e.from = m.from /\ e.epoch = m.epoch /\ e.id = m.id
    /\ m.op = "SYNC" => e.val = m.val
Copies(q, m) == {k \in DOMAIN q : SameIdentity(q[k], m)}

\* A full queue sheds its tail while the tail is of an older epoch.
Shed(q, m) ==
    IF Len(q) >= CtrlCap /\ EpochBefore(Head(q).epoch, m.epoch) THEN Tail(q) ELSE q

\* What the episode queues become, and whether the datagram was refused.
Coalesced(q, m) ==
    [k \in DOMAIN q |-> IF k \in Copies(q, m) /\ m.op \in {"BASE", "POST"} THEN m ELSE q[k]]
QueuedCtl(q, m) ==
    LET r == IF m.op = "SYNC" THEN q ELSE Shed(q, m)
    IN  IF Copies(q, m) # {} THEN Coalesced(q, m)
        ELSE IF Len(r) < CtrlCap THEN Append(r, m) ELSE r
RefusedCtl(q, m) ==
    Copies(q, m) = {} /\ Len(IF m.op = "SYNC" THEN q ELSE Shed(q, m)) >= CtrlCap

Arrive(m) == [cq EXCEPT !.arrivals = @ + 1]

RecvCtl(m) ==
    /\ m.op \in {"SYNC", "SEAL", "BASE", "POST"} /\ Scoped(m)
    /\ cq' = [Arrive(m) EXCEPT !.q[m.op] = QueuedCtl(@, m),
                               !.dropped = @ + (IF RefusedCtl(cq.q[m.op], m) THEN 1 ELSE 0)]

\* FRAME_COMMIT and SIO: the oldest makes room.
QueuedFifo(q, m) == Append(IF Len(q) < FcCap THEN q ELSE Tail(q), m)
RecvFifo(m) ==
    /\ m.op \in Newest
    /\ cq' = [Arrive(m) EXCEPT !.q[m.op] = QueuedFifo(@, m), !.log[m.op] = Append(@, m)]

\* RESOLVED: one entry per seat, the highest it said.

\* Mutant: the last watermark heard replaces the one that waits.
MergedLast(e, m) == [e EXCEPT !.val = m.val]

Merged(e, m) == [e EXCEPT !.val = Latest(@, m.val)]
QueuedRes(q, m) ==
    LET mine == {k \in DOMAIN q : q[k].from = m.from}
    IN  IF mine # {} THEN [k \in DOMAIN q |-> IF k \in mine THEN Merged(q[k], m) ELSE q[k]]
        ELSE IF Len(q) < CtrlCap THEN Append(q, m) ELSE q
RefusedRes(q, m) == Len(q) >= CtrlCap /\ \A k \in DOMAIN q : q[k].from # m.from
\* Ghost: the highest watermark of each seat, so far.
Joined(a, b) == IF a = NoVal THEN b ELSE Latest(a, b)
HeardFrom(marks, m) == [marks EXCEPT ![m.from] = Joined(@, m.val)]

RecvResolved(m) ==
    /\ m.op = "RES"
    /\ cq' = [Arrive(m) EXCEPT !.q["RES"] = QueuedRes(@, m),
                  !.dropped = @ + (IF RefusedRes(cq.q["RES"], m) THEN 1 ELSE 0),
                  !.high = HeardFrom(@, m)]

\* The mod set keeps the last text; the answers keep the last of each seat.
RecvModset(m) ==
    /\ m.op = "MODSET"
    /\ cq' = [Arrive(m) EXCEPT !.modset = m.val]
Answered(ack, m) == [ack EXCEPT ![m.from] = m.val]
RecvModsetAck(m) ==
    /\ m.op = "ACK"
    /\ cq' = [Arrive(m) EXCEPT !.ack = Answered(@, m), !.owed[m.from] = m.val]

TakeFrom(o) ==
    /\ cq.q[o] # <<>>
    /\ LET e == Head(cq.q[o])
       IN  cq' = [cq EXCEPT !.q[o] = Tail(@), !.lastFrom = IF o = "SIO" THEN @ ELSE e.from,
                      !.told = IF o = "RES" THEN HeardFrom(@, e) ELSE @]

\* take_modset clears the flag even when the caller's buffer is too short.
TakeModset == cq.modset # NoVal /\ cq' = [cq EXCEPT !.modset = NoVal]

Waiting == {s \in Remote : cq.ack[s] # NoVal}
TakeModsetAck ==
    /\ Waiting # {}
    /\ LET s == Min(Waiting)
       IN  cq' = [cq EXCEPT !.ack[s] = NoVal, !.lastFrom = s, !.owed[s] = NoVal]

CtlRecv(m) ==
    \/ RecvCtl(m) \/ RecvFifo(m) \/ RecvResolved(m) \/ RecvModset(m) \/ RecvModsetAck(m)
CtlRecvAny == cq.arrivals < MaxArrivals /\ \E m \in cq.wire : CtlRecv(m)
CtlNext ==
    \/ CtlRecvAny
    \/ \E o \in Fifos : TakeFrom(o)
    \/ TakeModset
    \/ TakeModsetAck
----------------------------------------------------------------------------
CtlTypeOK ==
    /\ \A o \in Fifos : Len(cq.q[o]) <= (IF o \in Newest THEN FcCap ELSE CtrlCap)
    /\ cq.lastFrom \in Remote \cup {-1}
    /\ cq.dropped \in 0 .. MaxArrivals

\* The newest of each seat is not lost: its highest resolved-through watermark was
\* taken or waits, its latest answer to the mod set waits until it is taken, and of
\* FRAME_COMMIT and SIO the latest wait in arrival order.
NewestKept ==
    /\ \A s \in Remote : cq.high[s] # NoVal =>
           \/ cq.told[s] = cq.high[s]
           \/ \E k \in DOMAIN cq.q["RES"] :
                  cq.q["RES"][k].from = s /\ cq.q["RES"][k].val = cq.high[s]
    /\ cq.ack = cq.owed
    /\ \A o \in Newest :
           LET lost == Len(cq.log[o]) - Len(cq.q[o])
           IN  lost >= 0 /\ \A k \in DOMAIN cq.q[o] : cq.q[o][k] = cq.log[o][lost + k]

\* What one step may do to the queues: see LostOnlyToNewer.
GivesUpOlder ==
    /\ NewestKept'
    /\ \A o \in {"SYNC", "SEAL", "BASE", "POST"} :
           /\ cq'.arrivals > cq.arrivals =>
                  \A k \in DOMAIN cq.q[o] :
                      \/ Copies(cq'.q[o], cq.q[o][k]) # {}
                      \/ /\ o # "SYNC"
                         /\ EpochBefore(cq.q[o][k].epoch, cq'.q[o][Len(cq'.q[o])].epoch)
           /\ \A k \in DOMAIN cq'.q[o] : Copies(cq'.q[o], cq'.q[o][k]) = {k}

\* What a queue gives up was superseded, in any arrival order.  The newest of each
\* seat is kept (modset_ack_pending is a mask, not a flag); a datagram leaves an
\* episode queue without being taken only for one of a later epoch, and never that
\* of RB_SYNC, which refuses the newcomer; and a retransmit is coalesced into the
\* copy that waits, so that copies cannot fill a queue.
LostOnlyToNewer == [][GivesUpOlder]_cq
============================================================================
