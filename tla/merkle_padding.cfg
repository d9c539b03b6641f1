SPECIFICATION Spec
CONSTANTS
  BlockSize = 2
  DeviceSize = 4
  Words <- MCWords
  Numbers <- MCNumbers
  Images <- UnalignedImages
INVARIANTS
  RefusedMeansDisturbed
