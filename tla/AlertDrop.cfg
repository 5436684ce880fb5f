\* A drop rule and a total that rises.
CONSTANTS
  Evaluator = {worker}
  Rule = {a1}
  Wallet = {w1}
  Config <- JustDrop
  Value = {1, 3}
  None = None
  Interval = 1
  MaxTime = 2
  MaxTriggers = 2
SPECIFICATION Spec
INVARIANT DropMeansDrop
