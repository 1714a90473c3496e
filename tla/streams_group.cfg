SPECIFICATION Spec
CONSTANTS
  Consumers = {c1, c2}
  MaxDeliveries = 2
  DeadLetter = TRUE
  Count = 2
  MaxLen = 0
  MaxEntries = 1
  MaxStarts = 3
  MaxFaults = 1
SYMMETRY Symmetry
INVARIANTS NoEntryLost GivenUpOnlyAfterTries DeliveriesBounded
PROPERTIES  ImplementsAtLeastOnce
\* every process may end for good once MaxStarts is used up
CHECK_DEADLOCK FALSE
