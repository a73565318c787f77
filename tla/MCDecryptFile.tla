---------------------------- MODULE MCDecryptFile ----------------------------
(***************************************************************************)
(* Instances of DecryptFile for TLC.  The files are what encryption can    *)
(* leave behind (a whole file, a file whose declared size is not the size  *)
(* of its text because the input changed or could not be read to its end,  *)
(* a prefix after a crash or a lost MAC) and what can happen to one later: *)
(* a byte changed, a block dropped, doubled or moved, bytes appended, or a *)
(* file that was never encrypted.                                          *)
(***************************************************************************)
EXTENDS DecryptFile

CONSTANTS MaxLength, PlainByte, Password1, Random1

MCByte == 0 .. BlockSize

\* Texts of every length whose last bytes, a block and one more, are arbitrary:
\* the bytes that can be mistaken for padding.  CBC tells the others apart anyway.
Front(n) == [i \in 1 .. n |-> (i % BlockSize) + 1]
TextsOver(bytes) ==
  UNION {LET free == Smaller(n, BlockSize + 1)
         IN  {Front(n - free) \o tail : tail \in [1 .. free -> bytes]}
         : n \in 0 .. MaxLength}

Salt1 == Cells("random", Random1, SaltWidth)
Iv1   == Cells("random", Random1, BlockSize)

\* The sizes ftell may have reported, for any text: at least one byte, the whole
\* input, more of it than could be read, or less by all that a growing input appended,
\* also where that outgrew encrypted_data.
DeclaredSizes == 1 .. MaxLength + 1

SealedFrom(text) ==
  {Sealed(text, n, Password1, Salt1, Iv1) : n \in DeclaredSizes}

WholeFiles == UNION {SealedFrom(text) : text \in TextsOver(PlainByte)}

PlainTexts == {Front(n) : n \in 0 .. MaxLength}

\* One file per length of text, its declared size the length.
ModelFiles ==
  {Sealed(text, Len(text), Password1, Salt1, Iv1) : text \in PlainTexts \ {<<>>}}

CutFiles == UNION {Prefixes(f) : f \in ModelFiles}

Damaged(cell) ==
  IF cell[1] = "size" THEN [cell EXCEPT ![2] = (@ + 1) % SizeBase]
                      ELSE <<"damaged", 0, cell[3]>>

DamagedFiles ==
  UNION {{[f EXCEPT ![i] = Damaged(@)] : i \in 1 .. Len(f)} : f \in ModelFiles}

\* The ciphertext of a file with its blocks rearranged along a map of positions.
Rearranged(f, blocks) ==
  SubSeq(f, 1, HeaderWidth)
    \o [j \in 1 .. BlockSize * Len(blocks) |->
          f[HeaderWidth + BlockSize * (blocks[((j - 1) \div BlockSize) + 1] - 1)
              + ((j - 1) % BlockSize) + 1]]
    \o SubSeq(f, Len(f) - MacWidth + 1, Len(f))

RearrangedFiles ==
  UNION {LET n == (Len(f) - HeaderWidth - MacWidth) \div BlockSize
         IN  {Rearranged(f, order) : order \in UNION {[1 .. m -> 1 .. n] : m \in 1 .. n}}
         : f \in ModelFiles}

ExtendedFiles ==
  {f \o Cells("foreign", 0, n) : f \in ModelFiles, n \in 1 .. BlockSize}

ForeignFiles ==
  {Cells("foreign", 0, n) : n \in 0 .. HeaderWidth + MacWidth + 2 * BlockSize}

MCFiles ==
  WholeFiles \cup CutFiles \cup DamagedFiles \cup RearrangedFiles \cup ExtendedFiles
    \cup ForeignFiles
=============================================================================
