\* Programs of the signer: load, then one call of what they export.
CONSTANTS
  Images <- MCImages
  MaxSlot = 10
  MaxCalls = 2
SPECIFICATION FairSpec
INVARIANTS
  TypeOK
  OperandsAreTheExpressions
  CallersOperandsStay
PROPERTIES
  EveryCallEnds
