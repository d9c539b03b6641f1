SPECIFICATION Spec
CONSTANTS
  BlockSize = 2
  DeviceSize = 6
  Words <- MCWords
  Numbers <- MCNumbers
  Images <- AlignedImages
INVARIANTS
  TypeOK
  NeverMixed
  RefusedMeansDisturbed
  RootsAgree
  EveryLeafCounts
PROPERTIES
  WriterSpec
