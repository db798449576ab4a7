\* Nine columns, any one of them altered, or the three of a share.
CONSTANTS
  ByteBase = 2
  Magic <- MCMagic
  Ids <- MCIds
  Versions <- MCVersions
  Lengths <- MCLengths
  Cuts <- MCCuts
  Foreign <- MCForeign
  MaxAltered = 1
SPECIFICATION Spec
CONSTRAINT Bounds
INVARIANTS
  NeverPanics
  UploadsAccepted
  OnlyMalformedIsInvalid
  ReadsBack
  SelfTestPasses
