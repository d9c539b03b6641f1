SPECIFICATION Spec
CONSTANTS
  i1 = i1
  i2 = i2
  Junk = Junk
  Images <- MCImages
  Small = {i2}
  Parts <- MCParts
  PartsOf <- MCPartsOf
  Files <- MCFiles
  Archives <- SignedArchives
INVARIANTS
  SignedInstalls
