CONSTANTS
  Plans <- OuterJoins
  Runs <- PrintedOuterJoin
  WidthOf <- Width
SPECIFICATION Spec
INVARIANTS ResultComplete
CHECK_DEADLOCK FALSE
