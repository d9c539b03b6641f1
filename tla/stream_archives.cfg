SPECIFICATION Spec
CONSTANTS
  i1 = i1
  i2 = i2
  Junk = Junk
  Images <- MCImages
  Small = {}
  Parts <- MCParts
  PartsOf <- MCPartsOf
  Files <- MCFiles
  Archives <- AnyArchives
INVARIANTS
  TypeOK
  StruckOffIsWritten
  SignedInstalls
  VerifierAgrees
PROPERTIES
  SignedBeforeWritten
  WriterSpec
