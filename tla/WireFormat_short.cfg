\* One altered column is enough.
CONSTANTS
  ByteBase = 2
  Magic <- MCMagic
  Ids <- MCIds
  Versions <- MCVersions
  Lengths <- MCLengths
  Cuts <- MCCuts
  Foreign <- MCForeign
  MaxAltered = 1
SPECIFICATION Spec
CONSTRAINT Bounds
INVARIANTS
  ShortRowsAreInvalid
