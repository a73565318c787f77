--------------------------------- MODULE MCKdf ---------------------------------
(***************************************************************************)
(* Instances of Kdf for TLC.  A block of 4 bytes and a digest of 2 keep    *)
(* the proportion of 64 to 32; the digest is a checksum of the blocks that *)
(* depends on every byte and on its position.  Keys are empty, shorter     *)
(* than a block, a block and longer; derived keys are less than a digest,  *)
(* one, and more, whole or not.                                            *)
(***************************************************************************)
EXTENDS Kdf, Bitwise

CONSTANTS MaxPiece, PieceByte

MCPieces == UNION {[1 .. n -> PieceByte] : n \in 0 .. MaxPiece}

MCXor(a, b) == a ^^ b

\* A checksum modulo a prime, a byte of it per factor.
MCSqueeze(blocks) ==
  LET flat == [j \in 1 .. HashBlock * Len(blocks) |->
                 blocks[((j - 1) \div HashBlock) + 1][((j - 1) % HashBlock) + 1]]
      sum(factor) ==
        LET after[j \in 0 .. Len(flat)] ==
              IF j = 0 THEN factor ELSE (after[j - 1] * factor + flat[j] + 1) % 251
        IN  after[Len(flat)]
  IN  [k \in 1 .. DigestSize |-> sum(30 + k)]

Keys == {<<>>, <<200>>, <<1, 2, 3, 4>>, <<1, 2, 3, 4, 5>>}

MCContexts == [password : Keys, salt : {<<9>>, <<9, 9>>}, keySize : {1, 2, 3, 4, 5}]

MCMacs == [password : Keys, data : {[k \in 1 .. n |-> 10 * k] : n \in 0 .. 9}]
=============================================================================
