--------------------------- MODULE MCBudgetRunner ---------------------------
(* Small instances of BudgetRunner. *)
EXTENDS BudgetRunner, TLC

CONSTANTS w1, w2, c1, c2

Limits(decoded, work, records) ==
  [DecodedBytes |-> decoded, WorkUnits |-> work, FindingRecords |-> records]

Symmetric ==
  Permutations({w1, w2} \cap Worker) \cup Permutations({c1, c2} \cap Commit)

\* One bounded dimension: two fragments' allowances do not fit into the total.
WorkPerFragment == Limits(None, 2, None)
WorkInTotal == Limits(None, 3, None)
WorkUses == {Limits(0, n, 0) : n \in 0 .. 2}

\* A bounded dimension beside one with only a fragment limit and one without any.
MixedPerFragment == Limits(1, 2, None)
MixedInTotal == Limits(None, 3, None)
MixedUses == {Limits(0, 0, 0), Limits(1, 1, 2), Limits(1, 2, 2), Limits(0, 2, 2)}

=============================================================================
