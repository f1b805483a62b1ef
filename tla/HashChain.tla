----------------------------- MODULE HashChain -----------------------------
(***************************************************************************)
(* One seat's chain of frame digests against several peers: finish_frame   *)
(* notes our own digest of a tick, a FRAME_COMMIT that arrives notes a     *)
(* peer's (in any order, any number of times), and a gap that has aged out *)
(* of the rings is healed.  Source: src/rollback/rnet_hash_confirm.c, and  *)
(* rnet_rb_quorum.c, which gathers the seats' digests of one exchange.     *)
(***************************************************************************)
EXTENDS HashConfirm, Sequences

CONSTANTS
    ChainPeers,                  \* peer_mask
    Histories,                   \* what the seats computed: tick -> seat -> digest
    LastTick                     \* bound: the last tick of a behaviour

VARIABLE hc

MaxPeers == 8                    \* RNET_HC_MAX_PEERS, RNET_RB_QUORUM_SEATS
ASSUME ChainPeersAssumption == ChainPeers # {} /\ ChainPeers \subseteq 0 .. MaxPeers - 1
ASSUME LastTickAssumption == LastTick \in Nat

Us == 0
Truths(t) == hc.truth[t]
SeatsAgree(t) == \A s \in ChainPeers : Truths(t)[s] = Truths(t)[Us]

\* rnet_rb_quorum: one exchange, the seats expected, what they answered.
QuorumReset(epoch) == [epoch |-> epoch, digest |-> <<>>]
QuorumNote(q, seat, epoch, dig) ==
    IF epoch # q.epoch \/ seat \notin ChainPeers THEN q
    ELSE [q EXCEPT !.digest = WithDigest(@, seat, dig)]
QuorumComplete(q) == DOMAIN q.digest = ChainPeers
\* rnet_rb_quorum_view: the common digest, or one that differs from ours.
QuorumView(q, ours) ==
    LET first == q.digest[Min(DOMAIN q.digest)]
        other == {s \in DOMAIN q.digest : q.digest[s] # ours}
    IN  IF \A s \in DOMAIN q.digest : q.digest[s] = first THEN first
        ELSE q.digest[Max(other)]

ChainInit ==
    hc \in {[truth |-> h, c |-> HcReset, tip |-> 0, skipped |-> {}, q |-> QuorumReset(0)] :
               h \in Histories}

\* finish_frame; the exchange of the newest tick is opened with it.
OwnFrame ==
    /\ hc.tip <= LastTick
    /\ hc' = [hc EXCEPT !.c = NoteLocal(@, hc.tip, Truths(hc.tip)[Us]), !.tip = @ + 1,
                        !.q = QuorumReset(hc.tip)]
PeerFrame(s, t) ==
    /\ t < hc.tip + 2
    /\ hc' = [hc EXCEPT !.c = NotePeerFrom(@, ChainPeers, s, t, Truths(t)[s]),
                        !.q = QuorumNote(@, s, t, Truths(t)[s])]
    /\ hc' # hc
\* skipped is history: the ticks jumped of which a ring no longer held the digest.
Heal ==
    /\ HealStaleGap(hc.c) # hc.c
    /\ hc' = [hc EXCEPT !.c = HealStaleGap(@),
                        !.skipped = @ \cup ((hc.c.res + 1) .. HealStaleGap(hc.c).res
                                              \ (DOMAIN hc.c.local \cap DOMAIN hc.c.peer))]

ChainNext ==
    \/ OwnFrame
    \/ \E s \in ChainPeers, t \in 0 .. LastTick : PeerFrame(s, t)
    \/ Heal
----------------------------------------------------------------------------
\* No verdict on the digests is wrong, however the commits were ordered, repeated or
\* displaced in the rings: every tick under the watermark was computed alike by all
\* seats (but for ticks a heal jumped because a ring had lost their digest),
\* peek_mismatch reports the first unconfirmed tick exactly when the seats differ
\* there, and a complete exchange passes the host's comparison exactly when nobody
\* differs from us: disagreeing answers never add up to our own digest.
DigestsHonest ==
    /\ \A t \in 0 .. hc.c.res : t \in hc.skipped \/ SeatsAgree(t)
    /\ LET t == hc.c.res + 1
       IN  t \in DOMAIN hc.c.local \cap DOMAIN hc.c.peer => (Mismatch(hc.c) <=> ~SeatsAgree(t))
    /\ QuorumComplete(hc.q) =>
           LET ours == Truths(hc.q.epoch)[Us]
           IN  QuorumView(hc.q, ours) = ours <=> SeatsAgree(hc.q.epoch)
============================================================================
