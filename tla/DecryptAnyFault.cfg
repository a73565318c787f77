SPECIFICATION Spec
CONSTANTS
  BlockSize = 2
  StreamChunk = 4
  SizeWidth = 2
  SizeBase = 3
  SaltWidth = 2
  MacWidth = 4
  MaxLength = 7
  PlainByte = {1, 2}
  Passwords = {k1, k2}
  Password1 = k1
  Random1 = r1
  NoFile = NoFile
  Faults = {"open", "write", "malloc", "read", "reread", "close", "crash"}
  Byte <- MCByte
  Files <- MCFiles
INVARIANT TypeOK
INVARIANT NoOutputBeforeVerify
INVARIANT SuccessIsPlaintext
INVARIANT OutputIsPrefix
INVARIANT WrapsIfUnderdeclared
INVARIANT ReleasedOnReturn
PROPERTY EventuallyEnds
