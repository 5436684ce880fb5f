\* Every series of up to four prices from 0 to 3, every pair of windows up to 3.
CONSTANTS
  Kind = {"ma_cross", "volatility", "correlation"}
  MaxWindow = 3
  MaxPrice = 3
  MaxLength = 4
SPECIFICATION Spec
INVARIANTS
  TypeOK
  WindowIsSuffix
  EquityFromStretches
  DrawdownIsDeepest
  FiniteOnPositive
  ZeroSpoils
CHECK_DEADLOCK FALSE
