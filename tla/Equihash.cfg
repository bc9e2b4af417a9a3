CONSTANTS
  K = 2
  ByteBits = 2
  WordBits = 4
  CollisionBitLength = 2
  Hashes <- MCHashes
SPECIFICATION EquihashSpec
INVARIANTS UnpacksBits AcceptsSolutions
CHECK_DEADLOCK FALSE
