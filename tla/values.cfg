SPECIFICATION Spec
CONSTANTS
  Sums <- AllSums
  Compositions <- AllCompositions
  Patterns <- AllPatterns
  Subjects <- AllSubjects
  IntBits = 4
  Codecs <- AllCodecs
  Declarations <- AllDeclarations
INVARIANTS  MergedMeansAll  ValidatedAsDeclared
            WrittenReadsBack DefaultOnlyForAbsent
\* each part ends: refused, read, merged, converted or validated
CHECK_DEADLOCK FALSE
