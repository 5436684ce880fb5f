\* One evaluator and a node that answers.
CONSTANTS
  Evaluator = {worker}
  Rule = {a1}
  Wallet = {w1}
  Config <- JustBelow
  Value = {1}
  None = None
  Interval = 1
  MaxTime = 2
  MaxTriggers = 2
SPECIFICATION Spec
INVARIANT KeepsEvaluating
