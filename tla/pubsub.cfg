SPECIFICATION FairSpec
CONSTANTS
  lamps = lamps
  alarms = alarms
  onlyLamps = onlyLamps
  everything = everything
  Channels <- TwoChannels
  Patterns <- TwoPatterns
  Matches <- Overlap
  BufferSize = 2
  MaxMessages = 3
  MaxRuns = 2
  MaxFailures = 1
INVARIANTS EveryCopyAccounted DispatchedInOrder
  
\* Run may return for good once MaxRuns is used up
CHECK_DEADLOCK FALSE
