-------------------------- MODULE MCAlertEvaluator --------------------------
(* Small instances of AlertEvaluator for TLC.                              *)
EXTENDS AlertEvaluator, TLC

Drop == [type |-> "tvl_drop_pct", threshold |-> 50, enabled |-> TRUE, cooldown_secs |-> 2]
Below == [type |-> "tvl_below", threshold |-> 1, enabled |-> TRUE, cooldown_secs |-> 1]
Off == [Below EXCEPT !.enabled = FALSE]
Exposure == [type |-> "by_chance", threshold |-> 60, enabled |-> TRUE, cooldown_secs |-> 0]

Rules == {Below, Off, Exposure}
JustBelow == {Below}
JustDrop == {Drop}
Symmetry == Permutations(Evaluator)
=============================================================================
