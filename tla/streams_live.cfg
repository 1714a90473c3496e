SPECIFICATION FairSpec
CONSTANTS
  Consumers = {c1, c2}
  MaxDeliveries = 2
  DeadLetter = TRUE
  Count = 1
  MaxLen = 0
  MaxEntries = 1
  MaxStarts = 2
  MaxFaults = 1
PROPERTY EveryEntrySettles
\* every process may end for good once MaxStarts is used up
CHECK_DEADLOCK FALSE
