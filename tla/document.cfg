SPECIFICATION BSpec
CONSTANTS
  Documents <- AllDocuments
  DepthLimit = 4
  Filters <- AllFilters
  Go <- AllGo
  Tails <- AllTails
INVARIANTS  MessagesAsWritten KeyWinsWhenUnshared SumsImplemented OneTypePerThing
\* a document is refused or generated for
CHECK_DEADLOCK FALSE
