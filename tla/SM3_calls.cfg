\* Four calls of write and sum on one object.
CONSTANTS
  Block = 5
  LenBytes = 2
  Inputs <- MCInputs
  MaxCalls = 4
SPECIFICATION Spec
INVARIANTS
  TypeOK
  NothingIsLost
  ChunkHasRoom
  DigestIsOfTheMessage
PROPERTIES
  BlocksAreWhole
