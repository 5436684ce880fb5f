\* Two evaluators, one rule, one wallet.
CONSTANTS
  Evaluator = {api, worker}
  Rule = {a1}
  Wallet = {w1}
  Config <- Rules
  Value = {1}
  None = None
  Interval = 1
  MaxTime = 3
  MaxTriggers = 2
SPECIFICATION Spec
SYMMETRY Symmetry
INVARIANTS
  TypeOK
  CooldownUnlessRaced
  NoOrphanTriggers
