SPECIFICATION Spec
CONSTANTS
  ExpandTree <- Expand
  Scenarios <- AllScenarios
  MaxRuns = 2
  MaxFaults = 1
  Levels = 4
INVARIANTS AllOrNothing FailsForAReason 
\* agen exits
CHECK_DEADLOCK FALSE
