CONSTANTS
  Plans <- OuterJoins
  Runs <- TwoOuterJoins
  WidthOf <- Width
SPECIFICATION Spec
INVARIANTS Closed
CHECK_DEADLOCK FALSE
