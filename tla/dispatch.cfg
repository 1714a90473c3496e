SPECIFICATION Spec
CONSTANTS
  A = A
  B = B
  C = C
  Topics = {t1, t2}
  Parameterized = Parameterized
  ShapeLists <- Overlapping
  MaxOperations = 3
  MaxMiddleware = 2
INVARIANTS  OneHandlerTakesIt AckedIffHandled
\* Dispatch returns
CHECK_DEADLOCK FALSE
