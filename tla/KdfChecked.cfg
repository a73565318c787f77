SPECIFICATION Spec
CONSTANTS
  HashBlock = 4
  LengthWidth = 2
  DigestSize = 2
  IndexWidth = 4
  Iterations = 3
  MaxMessage = 9
  MaxPiece = 5
  PieceByte = {0, 128}
  MaxUses = 2
  Pieces <- MCPieces
  Squeeze <- MCSqueeze
  ByteXor <- MCXor
  Contexts <- MCContexts
  Macs <- MCMacs
INVARIANT TypeOK
INVARIANT DigestIsOfMessage
INVARIANT HmacIsRfc2104
INVARIANT KeysArePbkdf2
PROPERTY UpdateReturns
PROPERTY EventuallyEnds
