\* Signatures, and what their receiver makes of them.
CONSTANTS
  N = 16
  D = 8
  BitXor <- MCXor
  Keys <- MCKeys
  Agents <- MCAgents
  Randoms <- MCRandoms
  Facts <- MCFacts
SPECIFICATION Spec
INVARIANTS
  TypeOK
  EveryByteIsSomewhere
  ReceiverReads
  SealFits
