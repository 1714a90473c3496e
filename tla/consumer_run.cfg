SPECIFICATION FairSpec
CONSTANTS
  s1 = s1
  s2 = s2
  s3 = s3
  Streams <- ThreeStreams
  AddressLists <- UpToThree
  Runners = {r1}
  MaxRuns = 2
  MaxFaults = 2
INVARIANTS ReadyMeansGroups NoReclaimerLeft
PROPERTY CancelledRunReturns
\* Run may return for good once MaxRuns is used up
CHECK_DEADLOCK FALSE
