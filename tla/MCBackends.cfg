CONSTANTS
  Plans <- TPCH
  Runs <- CompleteRuns
  WidthOf <- Width
  MorselRows = 2
  SourceRows = 5
  FirstPlans <- OnePlan
SPECIFICATION BackendsSpec
INVARIANTS TypeOK Closed RowsAgree SharedNotParallel TopologicalOrder TasksOnTime ResultComplete
INVARIANTS GeneratedOnce ScopesSound WellTyped SinksInStep FragmentsMatch ColumnsFresh
CHECK_DEADLOCK FALSE
