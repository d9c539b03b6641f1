SPECIFICATION FairSpec
CONSTANTS
  Words <- MCWords
  Packages <- MCPackages
  MaxRetries = 3
INVARIANTS
  TypeOK
  ReturnedIsExpected
  FailureExplained
PROPERTIES
  CallEnds
