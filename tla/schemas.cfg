SPECIFICATION ESpec
CONSTANTS
  Documents <- AllSchemas
  DepthLimit = 5
INVARIANTS FiniteTypes PresenceKept TypesDeclared MethodsExist DuplicatesFound
PROPERTY LoweringEnds
\* a document is refused or lowered
CHECK_DEADLOCK FALSE
