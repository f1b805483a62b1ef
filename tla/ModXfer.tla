------------------------------ MODULE ModXfer ------------------------------
(***************************************************************************)
(* A mod package fetched from the host while the room waits: the request   *)
(* and its refusals (rnet_lobby_client.c), the held ICE signals            *)
(* (rnet_sig_hold.c), the two ICE agents (rnet_ice_agent.c) and the blob   *)
(* transfer over them (rnet_ice_xfer.c).                                   *)
(*                                                                         *)
(* Signals travel through the lobby server, in order for each receiver.    *)
(* An agent is known by its generation: the credentials of one juice       *)
(* agent.  Two agents link when each holds the other's description.        *)
(* Datagrams of a link may be late, lost or out of order.  Blob 1 is the   *)
(* header, blob 2 the archive, a chunk is <<blob, offset>>.  Timers are    *)
(* choices: a retry, a watchdog or the 2 s wait for the path's name may    *)
(* pass at any pump.  The install hook is the engine's: it may fail.       *)
(***************************************************************************)
EXTENDS Integers, Sequences, SequencesExt, FiniteSets, BagsExt

CONSTANTS Takers,       \* the guests
          ArchiveLen,   \* chunks of the archive; the header is one
          XferWindow,   \* XFER_WINDOW, in chunks
          XferReady,    \* XFER_READY, completed blobs not yet taken
          HoldCap,      \* RNET_SIG_HOLD_PER_PEER
          XferPlans     \* set of [calls, n, lose, late, burst, big]

VARIABLE mx

Source == 0
NoPeer == -1
Ends == Takers \cup {Source}

BlobLen(id) == IF id = 1 THEN 1 ELSE ArchiveLen
Blob(id) == [i \in 1 .. BlobLen(id) |-> <<id, i - 1>>]

NoAgent == [gen |-> 0, remote |-> 0, gathered |-> FALSE, ctl |-> FALSE]
NotReceiving == [on |-> FALSE, id |-> 0, buf |-> <<>>]

\* What mod_xfer_reset leaves: no transfer, no agent, nothing held.
IdleEnd == [peer |-> NoPeer, job |-> 0, sending |-> FALSE, ag |-> NoAgent, path |-> "none",
            hold |-> FALSE, priced |-> FALSE, q |-> <<>>, una |-> 0, nxt |-> 0,
            rx |-> NotReceiving, ready |-> <<>>, hdr |-> FALSE]

Unheld == [p \in Ends |-> <<>>]

\* made counts the agents.  Ghosts: job names an end's transfer, done holds the
\* blobs <<guest, job of the host, blob>> a guest has received to the last chunk,
\* out says how an end's last transfer ended.
XferInit ==
  \E plan \in XferPlans :
    mx = [end |-> [e \in Ends |-> IdleEnd], kept |-> [e \in Ends |-> Unheld],
          sig |-> [e \in Ends |-> <<>>], air |-> [e \in Ends |-> EmptyBag],
          has |-> {}, made |-> 0, done |-> {},
          out |-> [e \in Ends |-> <<"none", NoPeer, 0>>], left |-> plan]

Busy(s, e) == s.end[e].peer # NoPeer
Linked(s, e) == s.end[e].path # "none"

-----------------------------------------------------------------------------
(* Signals and agents.                                                     *)

Signal(s, who, m) ==
  [s EXCEPT !.sig = [e \in Ends |-> IF e \in who THEN Append(@[e], m) ELSE @[e]]]

\* mod_xfer_emit addresses xfer_peer; while it is empty the server tells
\* every other member.
Emit(s, e) ==
  Signal(s, IF Busy(s, e) THEN {s.end[e].peer} ELSE Ends \ {e},
         [op |-> "sdp", from |-> e, gen |-> s.end[e].ag.gen])

\* A juice agent with fresh credentials.
ice_create_juice(s, e, ctl, gathered) ==
  [s EXCEPT !.made = @ + 1,
            !.end[e].ag = [gen |-> s.made + 1, remote |-> 0,
                           gathered |-> gathered, ctl |-> ctl]]

\* A second description restarts the agent.  The answerer gathers again and
\* answers; the offerer's restarted agent has nothing pending to gather.
rnet_ice_agent_push_signal(s, e, g) ==
  LET a == s.end[e].ag
      p == s.end[e].peer
      t == IF a.remote = 0 THEN s
           ELSE [ice_create_juice(s, e, a.ctl, FALSE) EXCEPT
                   !.end[e].path = "none", !.air[e] = EmptyBag]
      u == [t EXCEPT !.end[e].ag.remote = g]
  IN IF u.end[e].ag.gathered \/ a.ctl THEN u
     ELSE Emit([u EXCEPT !.end[e].ag.gathered = TRUE], e)

mod_xfer_reset(s, e, how) ==
  [s EXCEPT !.end[e] = IdleEnd, !.kept[e] = Unheld, !.air[e] = EmptyBag,
            !.out[e] = <<how, s.end[e].peer, s.end[e].job>>]

mod_xfer_fail(s, e) == mod_xfer_reset(s, e, "failed")

\* The offerer gathers, and emits its offer, inside rnet_ice_xfer_open: only
\* then is the peer named and what was held for it replayed.
mod_xfer_open(s, e, p, ctl) ==
  LET t == ice_create_juice(s, e, ctl, ctl)
      u == IF ctl THEN Emit(t, e) ELSE t
      v == [u EXCEPT !.end[e].peer = p, !.end[e].job = u.made, !.kept[e][p] = <<>>,
                     !.out[e] = <<"none", p, 0>>]
  IN FoldLeft(LAMBDA r, g : rnet_ice_agent_push_signal(r, e, g), v, s.kept[e][p])

\* The host's answer to a request: already sending, or nothing it can pack
\* for this plan, is a refusal; else the archive is packed and held.
mod_xfer_on_request(s, e, p, packs) ==
  IF Busy(s, e) \/ ~packs THEN Signal(s, {p}, [op |-> "nak"])
  ELSE [mod_xfer_open(s, e, p, TRUE) EXCEPT !.end[e].sending = TRUE,
                                            !.end[e].hold = TRUE]

\* A description from anyone but the peer of the moment is held for later.
OnIceSignal(s, e, m) ==
  IF s.end[e].peer = m.from THEN rnet_ice_agent_push_signal(s, e, m.gen)
  ELSE IF Len(s.kept[e][m.from]) < HoldCap
    THEN [s EXCEPT !.kept[e][m.from] = Append(@, m.gen)] ELSE s

OnSignal(e) ==
  /\ mx.sig[e] # <<>>
  /\ LET m == Head(mx.sig[e])
         s == [mx EXCEPT !.sig[e] = Tail(@)]
     IN \/ /\ m.op = "req"
           /\ \E packs \in BOOLEAN : mx' = mod_xfer_on_request(s, e, m.from, packs)
        \/ m.op = "nak" /\ mx' = mod_xfer_fail(s, e)
        \/ m.op = "sdp" /\ mx' = OnIceSignal(s, e, m)

XferMay(e, op) == <<e, op>> \in mx.left.calls /\ mx.left.n > 0
XferSpent(s) == [s EXCEPT !.left.n = @ - 1]

rnet_lobby_mod_request(e) ==
  /\ XferMay(e, "request") /\ e # Source /\ ~Busy(mx, e)
  /\ mx' = XferSpent(Signal(mod_xfer_open(mx, e, Source, FALSE), {Source},
                            [op |-> "req", from |-> e]))

rnet_lobby_mod_cancel(e) ==
  /\ XferMay(e, "cancel") /\ Busy(mx, e)
  /\ mx' = XferSpent(mod_xfer_reset(mx, e, "cancelled"))

\* libjuice finds a pair (external); its type is known, or not yet.
Link(e) ==
  /\ Busy(mx, e) /\ ~Linked(mx, e)
  /\ LET a == mx.end[e].ag
         b == mx.end[mx.end[e].peer].ag
     IN /\ a.remote = b.gen /\ b.remote = a.gen /\ a.gathered /\ b.gathered
        /\ \E path \in {"direct", "relay", "unknown"} :
             mx' = [mx EXCEPT !.end[e].path = path]

-----------------------------------------------------------------------------
(* Blobs over the link.                                                    *)

\* rnet_ice_agent_send: to the far agent, if it is still there.
Fly(s, e, ms) ==
  LET p == s.end[e].peer IN
  IF s.end[p].ag.gen = s.end[e].ag.remote /\ s.end[p].peer = e
    THEN [s EXCEPT !.air[p] = @ (+) SetToBag(ms)] ELSE s

SendAck(s, e, id, got) == Fly(s, e, {[op |-> "ack", id |-> id, n |-> got]})

handle_ack(s, e, m) ==
  LET x == s.end[e] IN
  IF x.q = <<>> \/ Head(x.q) # m.id \/ m.n < x.una THEN s
  ELSE IF m.n >= BlobLen(m.id)
    THEN [s EXCEPT !.end[e].q = Tail(@), !.end[e].una = 0, !.end[e].nxt = 0]
  ELSE [s EXCEPT !.end[e].una = m.n, !.end[e].nxt = IF m.n > @ THEN m.n ELSE @]

\* Another blob's chunk, or any chunk once the last blob is complete, starts
\* a reception; within one only the next chunk is taken.  The last chunk is
\* acknowledged before push_ready, which drops the blob when the queue is full.
handle_data(s, e, m) ==
  LET rx  == IF s.end[e].rx.on /\ s.end[e].rx.id = m.id THEN s.end[e].rx
             ELSE [on |-> TRUE, id |-> m.id, buf |-> <<>>]
      buf == IF m.n = Len(rx.buf) THEN Append(rx.buf, <<m.id, m.n>>) ELSE rx.buf
      t   == SendAck(s, e, m.id, Len(buf))
  IN IF Len(buf) < BlobLen(m.id)
       THEN [t EXCEPT !.end[e].rx = [rx EXCEPT !.buf = buf]]
     ELSE [t EXCEPT !.end[e].rx = NotReceiving,
                    !.end[e].ready = IF Len(@) < XferReady THEN Append(@, buf) ELSE @,
                    !.done = @ \cup {<<e, s.end[s.end[e].peer].job, m.id>>}]

handle_pkt(s, e, m) ==
  LET t == [s EXCEPT !.air[e] = BagRemove(@, m)]
  IN IF m.op = "ack" THEN handle_ack(t, e, m) ELSE handle_data(t, e, m)

\* What one pump may find: up to left.burst of the datagrams on their way, in any
\* order.
Bursts(air) ==
  {ms \in BoundedSeq(DOMAIN air, mx.left.burst) :
     \A m \in ToSet(ms) : Len(SelectSeq(ms, LAMBDA x : x = m)) <= air[m]}

\* The first blob of the queue goes out up to the window; after a silence,
\* again from the first chunk not acknowledged.
Unsent(x, retry) ==
  IF x.nxt > x.una + XferWindow \/ (retry /\ x.nxt > x.una) THEN x.una ELSE x.nxt

SendWindow(s, e, retry) ==
  LET x == s.end[e]
      from == Unsent(x, retry)
      len == BlobLen(Head(x.q))
      upto == IF len < x.una + XferWindow THEN len ELSE x.una + XferWindow
  IN IF x.q = <<>> \/ from >= upto THEN s
     ELSE [Fly(s, e, {[op |-> "data", id |-> Head(x.q), n |-> i] : i \in from .. upto - 1})
           EXCEPT !.end[e].nxt = upto]

RelayAllows(s, e) == ~(s.end[e].path = "relay" /\ s.left.big)

\* Once the path has a name, or has had its 2 s, the held blobs are queued;
\* a package the relay may not carry is refused instead.
mod_xfer_release_held(s, e, waited) ==
  IF ~s.end[e].hold \/ (s.end[e].path = "unknown" /\ ~waited) THEN s
  ELSE IF RelayAllows(s, e)
    THEN [s EXCEPT !.end[e].q = <<1, 2>>, !.end[e].priced = TRUE,
                   !.end[e].hold = FALSE]
  ELSE mod_xfer_reset(Signal(s, {s.end[e].peer}, [op |-> "nak"]), e, "refused")

\* The first blob must be the header, the next the archive it announced; the
\* install hook checks the digest, and there may be none or it may fail.
mod_xfer_on_blob(s, e, b, installs) ==
  IF ~Busy(s, e) THEN s
  ELSE IF ~s.end[e].hdr
    THEN IF b = Blob(1) /\ RelayAllows(s, e)
           THEN [s EXCEPT !.end[e].hdr = TRUE] ELSE mod_xfer_fail(s, e)
  ELSE IF b = Blob(2) /\ installs
    THEN mod_xfer_reset([s EXCEPT !.has = @ \cup {e}], e, "installed")
  ELSE mod_xfer_fail(s, e)

SendDoneIdle(s, e) ==
  IF s.end[e].sending /\ s.end[e].q = <<>>
    THEN mod_xfer_reset(s, e, "sent") ELSE s

\* The sender is done when everything queued has left, and something was.
SendDone(s, e) ==
  IF s.end[e].sending /\ s.end[e].priced /\ s.end[e].q = <<>>
    THEN mod_xfer_reset(s, e, "sent") ELSE s

\* One pump of a linked transfer: what arrived, what goes out, the 180 s of the
\* watchdog, the held archive, the blobs completed, the end.
rnet_lobby_mod_xfer_pump(e) ==
  /\ Linked(mx, e)
  /\ \E got \in Bursts(mx.air[e]), retry, waited, stalled, installs \in BOOLEAN :
       /\ retry => mx.left.late > 0 /\ mx.end[e].nxt > mx.end[e].una
       /\ waited => mx.end[e].path = "unknown" /\ mx.end[e].hold
       /\ stalled \/ ~installs => got # <<>>
       /\ LET s == [mx EXCEPT !.left.late = IF retry THEN @ - 1 ELSE @]
              r == FoldLeft(LAMBDA v, m : handle_pkt(v, e, m), s, got)
              w == SendWindow(r, e, retry)
              h == mod_xfer_release_held(w, e, waited)
              b == FoldLeft(LAMBDA v, x : mod_xfer_on_blob(v, e, x, installs),
                            [h EXCEPT !.end[e].ready = <<>>], h.end[e].ready)
          IN mx' = IF stalled THEN mod_xfer_fail(w, e) ELSE SendDone(b, e)

\* ICE fails or never connects (25 s).
Watchdog(e) == Busy(mx, e) /\ mx' = mod_xfer_fail(mx, e)

LoseDatagram(e) ==
  /\ mx.left.lose > 0
  /\ \E m \in DOMAIN mx.air[e] :
       mx' = [mx EXCEPT !.air[e] = BagRemove(@, m), !.left.lose = @ - 1]

XferNext ==
  \E e \in Ends :
    \/ rnet_lobby_mod_request(e) \/ rnet_lobby_mod_cancel(e) \/ OnSignal(e)
    \/ Link(e) \/ rnet_lobby_mod_xfer_pump(e) \/ Watchdog(e) \/ LoseDatagram(e)

-----------------------------------------------------------------------------
\* A package arrives whole, and is reported sent only when it arrived.  A buffer
\* under reception holds the first chunks of one blob in order, and what is handed up
\* is a whole blob, however receptions are restarted by late chunks (handle_data).
\* When the host reports a package sent, the guest it sent it to has received the
\* header and the archive of this very transfer to the last chunk
\* (rnet_lobby_mod_xfer_pump: done is not idle before anything was queued) -- no
\* more: the last ACK leaves before the guest's queue, watchdog and install hook.
PackageIntact ==
  /\ \A e \in Ends :
       /\ IsPrefix(mx.end[e].rx.buf, Blob(mx.end[e].rx.id))
       /\ \A i \in 1 .. Len(mx.end[e].ready) : mx.end[e].ready[i] \in {Blob(1), Blob(2)}
  /\ mx.out[Source][1] = "sent" =>
       \A id \in 1 .. 2 : <<mx.out[Source][2], mx.out[Source][3], id>> \in mx.done
=============================================================================
