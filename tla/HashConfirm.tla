---------------------------- MODULE HashConfirm ----------------------------
(***************************************************************************)
(* Frame-hash confirmation, src/rollback/rnet_hash_confirm.c: a chain of   *)
(* per-tick state digests, ours against a peer's (or against every peer of *)
(* a mask), and the watermark of the ticks on which they agree.            *)
(*                                                                         *)
(* A chain is a record.  `local` and `peer` are the rings: partial         *)
(* functions from ticks to digests in which a tick displaces the one that  *)
(* shares its slot.  `res` is resolved_through, -1 before resolved_valid.  *)
(* `heard` is the quorum ring (tick -> seat -> digest), `split` the ticks  *)
(* whose quorum_conflict is set.                                           *)
(***************************************************************************)
EXTENDS Integers, FiniteSetsExt

CONSTANT
    HcRing                       \* RNET_HC_RING, the slots of a ring

ASSUME HcRingAssumption == HcRing \in Nat \ {0}

HcReset == [local |-> <<>>, peer |-> <<>>, res |-> -1, heard |-> <<>>, split |-> {}]

\* slot_of: storing tick t forgets the other ticks of its slot.
Others(ring, t) == {k \in DOMAIN ring : k % HcRing # t % HcRing}
RingPut(ring, t, v) == [k \in Others(ring, t) \cup {t} |-> IF k = t THEN v ELSE ring[k]]

\* A table of digests by seat, with one written.
WithDigest(said, seat, dig) ==
    [s \in DOMAIN said \cup {seat} |-> IF s = seat THEN dig ELSE said[s]]

\* Mutant: quorum_conflict is not looked at.
MatchAtFirst(c, t) ==
    t \in DOMAIN c.local /\ t \in DOMAIN c.peer /\ c.local[t] = c.peer[t]

MatchAt(c, t) ==
    /\ t \in DOMAIN c.local /\ t \in DOMAIN c.peer
    /\ c.local[t] = c.peer[t]
    /\ t \notin c.split

\* try_advance: one tick at a time, up to the first that is missing or differs.
TryAdvance(c) ==
    [c EXCEPT !.res = Max({r \in c.res .. Max(DOMAIN c.local \cup {c.res}) :
                              \A t \in (c.res + 1) .. r : MatchAt(c, t)})]

NoteLocal(c, t, dig) == TryAdvance([c EXCEPT !.local = RingPut(@, t, dig)])

NotePeer(c, t, dig) ==
    TryAdvance([c EXCEPT !.peer = RingPut(@, t, dig),
                         !.split = {k \in @ : k % HcRing # t % HcRing}])

\* note_peer_from with a peer mask: the peer digest of a tick exists once every
\* seat of the mask has committed it; disagreeing seats leave it in `split`.
NotePeerFrom(c, mask, seat, t, dig) ==
    LET known == IF t \in DOMAIN c.heard THEN c.heard[t] ELSE <<>>
        said  == WithDigest(known, seat, dig)
        base  == [c EXCEPT !.heard = RingPut(@, t, said),
                           !.peer = IF known = <<>> /\ t \notin DOMAIN @
                                    THEN [k \in Others(@, t) |-> @[k]] ELSE @]
        first == said[Min(mask)]
    IN  IF seat \notin mask THEN c
        ELSE IF DOMAIN said # mask THEN base
        ELSE TryAdvance([base EXCEPT
                 !.peer = RingPut(@, t, first),
                 !.split = {k \in @ : k % HcRing # t % HcRing}
                           \cup {k \in {t} : \E s \in mask : said[s] # first}])

\* prime_after: everything up to last_ok is agreed, nothing after it is known.
PrimeAfter(last) == [HcReset EXCEPT !.res = last]

\* peek_mismatch: the first unconfirmed tick, when both digests are known and differ.
Mismatch(c) ==
    LET t == c.res + 1
    IN  t \in DOMAIN c.local /\ t \in DOMAIN c.peer /\ ~MatchAt(c, t)

\* heal_stale_gap: the next tick has aged out of both rings.  Jump to the newest
\* tick both hold, provided every such tick agrees.
HealStaleGap(c) ==
    LET both == {t \in DOMAIN c.local \cap DOMAIN c.peer : t > c.res}
    IN  IF /\ c.res >= 0
           /\ (c.res + 1) \notin DOMAIN c.local \cup DOMAIN c.peer
           /\ both # {}
           /\ \A t \in both : MatchAt(c, t)
        THEN [c EXCEPT !.res = Max(both)] ELSE c

Confirmed(c, t) == c.res >= 0 /\ t <= c.res
============================================================================
