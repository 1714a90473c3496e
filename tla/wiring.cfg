SPECIFICATION Spec
CONSTANTS
  Documents <- AllDocuments
INVARIANTS WiringIsDeclared 
\* a document is refused or generated for
CHECK_DEADLOCK FALSE
