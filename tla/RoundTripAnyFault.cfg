SPECIFICATION Spec
CONSTANTS
  BlockSize = 2
  StreamChunk = 4
  SizeWidth = 2
  SizeBase = 3
  SaltWidth = 2
  MacWidth = 4
  MaxLength = 5
  PlainByte = {1, 2}
  Passwords = {k1, k2}
  Randoms = {r1}
  NoFile = NoFile
  MaxAttempts = 2
  EncryptFaults = {"open", "write", "malloc", "mac_malloc", "mac_write", "close", "crash"}
  DecryptFaults = {"open", "write", "malloc", "read", "crash"}
  Byte <- MCByte
  Texts <- MCTexts
PROPERTY ImplementsSealedBox
PROPERTY RightKeyDelivers
INVARIANT RightKeyOpens
