SPECIFICATION Spec
CONSTANTS
  BlockSize = 2
  StreamChunk = 4
  SizeWidth = 2
  SizeBase = 3
  SaltWidth = 2
  MacWidth = 4
  MaxLength = 3
  PlainByte = {1, 2}
  Passwords = {k1, k2}
  Randoms = {r1}
  MaxGrowth = 3
  NoFile = NoFile
  Faults = {"grow"}
  Byte <- MCByte
  Texts <- MCTexts
INVARIANT CiphertextFits
