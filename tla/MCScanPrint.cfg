CONSTANTS
  Plans <- ScanAndPrint
  Runs <- ScanAndPrintRuns
  WidthOf <- Width
  MorselRows = 2
  SourceRows = 7
  FirstPlans = {}
SPECIFICATION BackendsSpec
INVARIANT PrintedFresh
CHECK_DEADLOCK FALSE
