---------------------------- MODULE MCEncryptFile ----------------------------
(***************************************************************************)
(* Instances of EncryptFile for TLC.  The widths are the real ones divided *)
(* by eight (a block of 2, a salt of 2, a MAC of 4), but for a size field  *)
(* of two digits in base 3, which holds every size that is used.  The      *)
(* buffer holds two blocks, and the texts end in every phase of a block    *)
(* and of a chunk.  Their last block is arbitrary and includes values that *)
(* look like padding; the bytes before it tell their positions apart.      *)
(***************************************************************************)
EXTENDS EncryptFile

CONSTANTS MaxLength, PlainByte

Front(n) == [i \in 1 .. n |-> i % (BlockSize + 1)]

MCTexts ==
  UNION {LET free == Smaller(n, BlockSize)
         IN  {Front(n - free) \o tail : tail \in [1 .. free -> PlainByte]}
         : n \in 0 .. MaxLength}

MCByte == 0 .. 2
=============================================================================
