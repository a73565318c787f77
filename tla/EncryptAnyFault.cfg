SPECIFICATION Spec
CONSTANTS
  BlockSize = 2
  StreamChunk = 5
  SizeWidth = 2
  SizeBase = 3
  SaltWidth = 2
  MacWidth = 4
  MaxLength = 8
  PlainByte = {1, 2}
  Passwords = {k1, k2}
  Randoms = {r1}
  MaxGrowth = 1
  NoFile = NoFile
  Faults = {"open", "write", "malloc", "read", "mac_malloc", "mac_write", "close", "crash", "grow"}
  Byte <- MCByte
  Texts <- MCTexts
INVARIANT TypeOK
INVARIANT ReleasedOnReturn
INVARIANT FitsUnlessGrown
INVARIANT SuccessIsSealed
INVARIANT VerifiedIsWhole
PROPERTY EventuallyEnds
