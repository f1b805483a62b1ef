----------------------------- MODULE RbEpisode -----------------------------
(***************************************************************************)
(* The passive half of a rollback episode, src/rollback/rnet_rollback.c:   *)
(* the phase, the sealed rows of the span that is replayed, which of them  *)
(* the owners have confirmed, and the resolved-through watermark.          *)
(*                                                                         *)
(* A session is a record.  A row is [v, pred]: the pad and is_predicted; a *)
(* sealed row that is not valid is absent from `rows[slot]`.  `mask[slot]` *)
(* is peer_seal_mask.  The span is base .. base + span - 1.                *)
(***************************************************************************)
EXTENDS Integers, TLC

CONSTANTS
    Seats,                       \* the seats of the match, 0 .. slot_count - 1
    SealSpan                     \* seal_max_span

ASSUME SeatsAssumption == Seats \subseteq Nat /\ SealSpan \in Nat \ {0}

NoEpoch == <<0, 0>>              \* an epoch id is <<sequence, initiator seat>>
NoRow == [v |-> -1, pred |-> FALSE]

CoreReset(res) ==
    [phase |-> "Live", epoch |-> NoEpoch, target |-> 0, base |-> 0, span |-> 0,
     sealed |-> FALSE, rows |-> [s \in Seats |-> <<>>], mask |-> [s \in Seats |-> {}],
     res |-> res]

\* fill_local_row over `ticks`.  row[s][t] is the host's get_input_row, NoRow if it
\* has none.  A remote seat is sealed from history only when the wire confirmed it.
FillRows(c, me, row, ticks) ==
    LET ok(s) == {t \in ticks : row[s][t] # NoRow /\ (s = me \/ ~row[s][t].pred)}
    IN  [c EXCEPT !.rows = [s \in Seats |-> [t \in ok(s) |-> row[s][t]] @@ c.rows[s]],
                  !.mask = [s \in Seats |-> IF s = me THEN @[s] ELSE @[s] \cup ok(s)]]

\* begin_episode followed by seal_inputs(load, target).
SealInputs(c, me, row, epoch, load, target) ==
    LET b == [CoreReset(c.res) EXCEPT !.phase = "Seal", !.epoch = epoch, !.target = target]
    IN  IF target < load \/ target - load >= SealSpan THEN b
        ELSE [FillRows(b, me, row, load .. target)
                 EXCEPT !.base = load, !.span = target - load + 1, !.sealed = TRUE]

CanExtend(c, target) ==
    /\ c.sealed /\ c.phase \notin {"Live", "Commit", "Abort"}
    /\ target <= c.target \/ target - c.base < SealSpan

\* extend_target: Verify falls back to Replay, TipHold stays.
ExtendTarget(c, me, row, target) ==
    LET d == [c EXCEPT !.phase = IF @ = "Verify" THEN "Replay" ELSE @]
    IN  IF target <= c.target THEN d
        ELSE [FillRows(d, me, row, (c.base + c.span) .. target)
                 EXCEPT !.span = target - c.base + 1, !.target = target]

\* apply_peer_seal_rows: a chunk for this epoch and base, whose target is not
\* older than ours.  A wider one grows the span.  A predicted row never replaces
\* an authoritative one, but is credited.
ApplyPeerRows(c, me, row, epoch, base, target, slot, rows) ==
    LET grown == IF target > c.target THEN ExtendTarget(c, me, row, target) ELSE c
        held  == grown.rows[slot]
        known == {t \in DOMAIN rows : t < base + grown.span}
        keep  == {t \in known : rows[t].pred /\ t \in DOMAIN held /\ ~held[t].pred}
    IN  IF \/ ~c.sealed \/ epoch # c.epoch \/ base # c.base
           \/ target < c.target \/ (target > c.target /\ ~CanExtend(c, target)) THEN c
        ELSE [grown EXCEPT
                 !.rows[slot] = [t \in known \ keep |-> rows[t]] @@ held,
                 !.mask[slot] = @ \cup known]

\* all_peer_seal_rows_complete over expected_peer_mask.
RowsComplete(c, peers) ==
    c.sealed /\ \A s \in peers : c.base .. (c.base + c.span - 1) \subseteq c.mask[s]

\* export_seal_rows_chunk: the rows of one seat over the sealed span.
ExportRows(c, slot) ==
    [t \in DOMAIN c.rows[slot] \cap (c.base .. (c.base + c.span - 1)) |-> c.rows[slot][t]]

Larger(a, b) == IF a > b THEN a ELSE b

SetConvergence(c, tick) == [c EXCEPT !.res = Larger(@, tick)]
Demote(c, tick) == [c EXCEPT !.res = IF tick < @ THEN tick ELSE @]

\* commit_promote_sealed: the watermark rises to the core's own target.
PromoteSealed(c) == SetConvergence(c, c.target)

\* enter_tip_hold; a session that is not in Verify refuses it.
CanTipHold(c) == c.phase = "Verify" /\ c.sealed
EnterTipHold(c) == [PromoteSealed(c) EXCEPT !.phase = "TipHold"]

\* set_phase: a terminal phase raises the watermark.
SetPhase(c, phase) ==
    [(IF phase \in {"Commit", "Abort"} THEN PromoteSealed(c) ELSE c) EXCEPT !.phase = phase]
============================================================================
