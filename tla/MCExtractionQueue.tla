-------------------------- MODULE MCExtractionQueue --------------------------
(* Small instances of the extraction queue.  Two rows share a channel, so    *)
(* that a claim holds several sub-batches, or two ticks hold one row each.   *)
(* The backoff schedule has two entries: one retry that waits, and the       *)
(* attempt that exhausts the budget.                                         *)
EXTENDS ExtractionQueue, TLC
CONSTANTS m1, m2, c1, c2, t1, t2
TwoRows    == {m1, m2}
OneChannel == [m \in {m1, m2} |-> c1]
ShortSchedule == <<1, 0>>
OverlapSymmetry == Permutations({m1, m2}) \cup Permutations({t1, t2})
=============================================================================
