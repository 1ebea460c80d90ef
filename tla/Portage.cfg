CONSTANTS
  Captures <- MCCaptures
  MaxInt = 20
  Strings <- MCStrings
  HasPrefix <- MCHasPrefix
SPECIFICATION Spec
INVARIANTS
  TotalPreorder
  AgreesWithReference
  RangesPartition
