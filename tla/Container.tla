------------------------------ MODULE Container ------------------------------
(***************************************************************************)
(* The encrypted file format of cipher.c and the cryptography it is made   *)
(* of, as constant-level operators shared by the encryption and decryption *)
(* machines.                                                               *)
(*                                                                         *)
(* A file is a sequence of cells, one per byte.  A plaintext cell is its   *)
(* byte.  A cell of an encrypted file is <<kind, value, index>>: the       *)
(* index-th byte of a value of the header, of a ciphertext block or of a   *)
(* MAC.  A cut can fall inside any value, as it can in the real file.      *)
(*                                                                         *)
(* The cryptography is symbolic: AES is a permutation under its key and    *)
(* HMAC and PBKDF2 are injective.  In CBC mode a ciphertext block then     *)
(* stands for exactly what it depends on: the derived key, the IV and the  *)
(* plaintext of the chain up to and including that block.                  *)
(***************************************************************************)
EXTENDS Integers, Sequences

CONSTANTS
  BlockSize,   \* BLOCK_SIZE (16)
  StreamChunk, \* STREAM_CHUNK (65536)
  SizeWidth,   \* bytes of the original-size field (8)
  SizeBase,    \* values of a byte of that field (256)
  SaltWidth,   \* KDF_SALT_SIZE (16)
  MacWidth,    \* HMAC_SIZE (32)
  Byte         \* values of a plaintext byte

ASSUME SizesAssumption ==
  /\ BlockSize \in Nat \ {0}
  /\ StreamChunk \in Nat \ {0}
  /\ SizeWidth \in Nat \ {0}
  /\ SizeBase \in Nat \ {0, 1}
  /\ SaltWidth \in Nat \ {0}
  /\ MacWidth \in Nat \ {0}

\* Padding bytes hold counts up to the block size and are bytes like any other;
\* -1 is kept free to stand for a byte that carries no information.
ASSUME ByteAssumption ==
  /\ 0 .. BlockSize \subseteq Byte
  /\ -1 \notin Byte

Smaller(a, b) == IF a < b THEN a ELSE b

-----------------------------------------------------------------------------
(* Cells and the header *)

Cells(kind, value, width) == [i \in 1 .. width |-> <<kind, value, i>>]

\* The size as big-endian digits: a size that does not fit loses its high digits.
SizeCells(n) ==
  [i \in 1 .. SizeWidth |-> <<"size", (n \div SizeBase ^ (SizeWidth - i)) % SizeBase, i>>]

\* The shift-and-or loop that reads the digits back, a prefix at a time.
SizeOf(cells) ==
  LET value[i \in 0 .. SizeWidth] ==
        IF i = 0 THEN 0 ELSE value[i - 1] * SizeBase + cells[i][2]
  IN  value[SizeWidth]

HeaderWidth == SizeWidth + SaltWidth + BlockSize

-----------------------------------------------------------------------------
(* Key derivation: PBKDF2 over the salt followed by a purpose tag *)

Purpose == {"ENC", "MAC"}

DerivedKey(password, salt, purpose) ==
  [password |-> password, salt |-> salt, purpose |-> purpose]

-----------------------------------------------------------------------------
(* CBC mode *)

\* prev before the first block: the IV alone, no plaintext behind it.
ChainStart(key, iv) == [key |-> key, iv |-> iv, plain |-> <<>>]

\* One block appended to the chain; the result is both the ciphertext and
\* the next prev.
CbcEncryptBlock(prev, block) == [prev EXCEPT !.plain = @ \o block]

\* What CBC decryption makes of a block that is not the next one of the
\* chain under this key: bytes that carry no information.
Junk == [i \in 1 .. BlockSize |-> -1]

CbcDecryptBlock(key, prev, block) ==
  LET length == Len(block.plain)
      plain  == SubSeq(block.plain, length - BlockSize + 1, length)
  IN  IF /\ block.key = key
         /\ length >= BlockSize
         /\ block = CbcEncryptBlock(prev, plain)
      THEN plain
      ELSE Junk

-----------------------------------------------------------------------------
(* PKCS#7 padding *)

Padding(length) == [i \in 1 .. (BlockSize - length) |-> BlockSize - length]

AddPadding(data) == data \o Padding(Len(data))

\* Mutant of PaddingIsValid: a whole block of padding is refused.
PaddingBelowBlock(block) ==
  LET count == block[BlockSize]
  IN  /\ count \in 1 .. BlockSize - 1
      /\ \A i \in (BlockSize - count + 1) .. BlockSize : block[i] = count

PaddingIsValid(block) ==
  LET count == block[BlockSize]
  IN  /\ count \in 1 .. BlockSize
      /\ \A i \in (BlockSize - count + 1) .. BlockSize : block[i] = count

RemovePadding(block) == SubSeq(block, 1, BlockSize - block[BlockSize])

-----------------------------------------------------------------------------
(* Ciphertext and MAC *)

BlockCells(block) == Cells("cipher", block, BlockSize)

\* The block that BlockSize cells of a file hold, if they hold one.
IsBlock(cells) ==
  /\ Len(cells) = BlockSize
  /\ cells[1][1] = "cipher"
  /\ cells = BlockCells(cells[1][2])

CiphertextCells(blocks) ==
  [j \in 1 .. (BlockSize * Len(blocks)) |->
     <<"cipher", blocks[((j - 1) \div BlockSize) + 1], ((j - 1) % BlockSize) + 1>>]

MacCells(key, data) == Cells("mac", [key |-> key, data |-> data], MacWidth)

-----------------------------------------------------------------------------
(* The whole file, said without the streaming that produces it *)

\* text padded to whole blocks, as PKCS#7 defines it
Padded(text) == text \o Padding(Len(text) % BlockSize)

\* The CBC chain of a text: block i depends on the padded text up to block i.
Chain(text, key, iv) ==
  [i \in 1 .. (Len(text) \div BlockSize + 1) |->
     [ChainStart(key, iv) EXCEPT !.plain = SubSeq(Padded(text), 1, i * BlockSize)]]

Sealed(text, size, password, salt, iv) ==
  LET body == SizeCells(size) \o salt \o iv
                \o CiphertextCells(Chain(text, DerivedKey(password, salt, "ENC"), iv))
  IN  body \o MacCells(DerivedKey(password, salt, "MAC"), body)

\* What a decoder holding the password accepts: lengths that fit and a MAC
\* over everything before it under the key its salt derives.
Verifies(file, password) ==
  LET ciphertext == Len(file) - HeaderWidth - MacWidth
      body       == SubSeq(file, 1, Len(file) - MacWidth)
      salt       == SubSeq(file, SizeWidth + 1, SizeWidth + SaltWidth)
  IN  /\ ciphertext > 0
      /\ ciphertext % BlockSize = 0
      /\ SubSeq(file, Len(file) - MacWidth + 1, Len(file))
           = MacCells(DerivedKey(password, salt, "MAC"), body)

\* A file is a sequence of cells.  Its first bytes make a number, whatever they are,
\* and no MAC in it is over memory that a decoder was given and nobody has written.
IsFile(f) ==
  /\ f \in Seq({f[k] : k \in DOMAIN f})
  /\ Len(f) >= SizeWidth => SizeOf(SubSeq(f, 1, SizeWidth)) \in Nat
  /\ \A k \in DOMAIN f :
       f[k][1] = "mac" => \A j \in DOMAIN f[k][2].data : f[k][2].data[j][1] # "uninitialized"

\* The text under the last ciphertext block of a file: what the encryption read,
\* found without the block-by-block decryption.
TextUnder(f) ==
  LET padded == f[Len(f) - MacWidth][2].plain
  IN  SubSeq(padded, 1, Len(padded) - padded[Len(padded)])

\* The sealed form of a text of bytes, whatever size the header declares.
IsSealed(f, p) ==
  LET text == TextUnder(f)
  IN  /\ text \in Seq(Byte)
      /\ f = Sealed(text, SizeOf(SubSeq(f, 1, SizeWidth)), p,
                    SubSeq(f, SizeWidth + 1, SizeWidth + SaltWidth),
                    SubSeq(f, SizeWidth + SaltWidth + 1, HeaderWidth))
=============================================================================
