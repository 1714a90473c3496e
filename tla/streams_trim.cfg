SPECIFICATION Spec
CONSTANTS
  Consumers = {c1, c2}
  MaxDeliveries = 2
  DeadLetter = FALSE
  Count = 1
  MaxLen = 1
  MaxEntries = 2
  MaxStarts = 2
  MaxFaults = 0
SYMMETRY Symmetry
INVARIANT IInv
\* every process may end for good once MaxStarts is used up
CHECK_DEADLOCK FALSE
