CONSTANTS
  Plans <- OuterJoins
  Runs <- OuterJoinOnThreads
  WidthOf <- Width
SPECIFICATION Spec
INVARIANTS ResultComplete
CHECK_DEADLOCK FALSE
