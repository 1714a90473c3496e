SPECIFICATION FairSpec
CONSTANTS
  Consumers = {c1}
  MaxDeliveries = 2
  DeadLetter = TRUE
  Count = 2
  MaxLen = 0
  MaxEntries = 1
  MaxStarts = 1
  MaxFaults = 1
PROPERTY RunConsumesUntilCancelled
\* every process may end for good once MaxStarts is used up
CHECK_DEADLOCK FALSE
