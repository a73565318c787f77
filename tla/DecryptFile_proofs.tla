------------------------- MODULE DecryptFile_proofs -------------------------
(***************************************************************************)
(* For every set of files, key, block size, chunk size and set of faults:  *)
(* the types of DecryptFile, that every exit releases what was acquired,   *)
(* that the output is touched only once the MAC of the whole file has been *)
(* verified, however the reads of the verification pass are cut; and, from *)
(* "The chain of a padded text" on, what the decryption writes: the sealed *)
(* text up to the declared size when the function returns 0, a prefix of   *)
(* it otherwise, as long as no short read or flush goes unnoticed.  The    *)
(* last section says of one step what RoundTrip_proofs needs.              *)
(*                                                                         *)
(* The lemmas about the format, up to "A sealed file", are those of        *)
(* EncryptFile_proofs, where they are needed too.                          *)
(***************************************************************************)
EXTENDS DecryptFile, SequenceTheorems, TLAPS

IsSequence(s) == s \in Seq({s[i] : i \in DOMAIN s})

\* Cells without the last byte of a MAC: no decoder accepts them.
Unsealed(cells) ==
  /\ IsSequence(cells)
  /\ \A k \in DOMAIN cells : ~(cells[k][1] = "mac" /\ cells[k][3] = MacWidth)

-----------------------------------------------------------------------------
(* Division *)

LEMMA Euclid ==
  ASSUME NEW B \in Nat \ {0}, NEW x \in Nat
  PROVE  x \div B \in Nat /\ x % B \in Nat /\ x % B < B /\ x = B * (x \div B) + (x % B)
<1>1. x % B \in 0 .. B - 1
  OBVIOUS
<1>2. x = B * (x \div B) + (x % B)
  OBVIOUS
<1>3. x \div B \in Int
  OBVIOUS
<1>4. x \div B >= 0
  OBVIOUS
<1>5. QED
  BY <1>1, <1>2, <1>3, <1>4

LEMMA AtLeastOnce ==
  ASSUME NEW B \in Nat \ {0}, NEW k \in Int, k >= 1 PROVE B * k >= B
OBVIOUS

LEMMA QuotientUnique ==
  ASSUME NEW B \in Nat \ {0}, NEW q \in Nat, NEW r \in Nat, r < B,
         NEW d \in Nat, NEW m \in Nat, m < B, B * q + r = B * d + m
  PROVE  q = d /\ r = m
<1>1. B * (q - d) = m - r /\ B * (d - q) = r - m
  <2>1. \A a, b \in Int : B * (a - b) = B * a - B * b
    OBVIOUS
  <2>2. QED
    BY <2>1
<1>2. ~(q - d >= 1)
  BY <1>1, AtLeastOnce
<1>3. ~(d - q >= 1)
  BY <1>1, AtLeastOnce
<1>4. q = d
  BY <1>2, <1>3
<1>5. QED
  BY <1>1, <1>4

\* Dividing a number given by its quotient and remainder.
LEMMA DivMod ==
  ASSUME NEW B \in Nat \ {0}, NEW q \in Nat, NEW r \in Nat, r < B
  PROVE  (B * q + r) \div B = q /\ (B * q + r) % B = r
<1> DEFINE x == B * q + r
<1>1. x \in Nat
  OBVIOUS
<1>2. x \div B \in Nat /\ x % B \in Nat /\ x % B < B /\ x = B * (x \div B) + (x % B)
  BY <1>1, Euclid
<1>3. QED
  BY <1>2, QuotientUnique

-----------------------------------------------------------------------------
(* Sequences of cells *)

LEMMA SequenceIs == ASSUME NEW S, NEW s \in Seq(S) PROVE IsSequence(s)
BY LenProperties, ElementOfSeq DEF IsSequence

\* Two sequences one after the other.
LEMMA JoinedCells ==
  ASSUME NEW a, NEW b, IsSequence(a), IsSequence(b)
  PROVE  /\ IsSequence(a \o b)
         /\ Len(a) \in Nat /\ Len(b) \in Nat /\ Len(a \o b) = Len(a) + Len(b)
         /\ DOMAIN a = 1 .. Len(a) /\ DOMAIN b = 1 .. Len(b)
         /\ DOMAIN (a \o b) = 1 .. Len(a) + Len(b)
         /\ \A i \in 1 .. Len(a) : (a \o b)[i] = a[i]
         /\ \A i \in Len(a) + 1 .. Len(a) + Len(b) : (a \o b)[i] = b[i - Len(a)]
<1> DEFINE S == {a[i] : i \in DOMAIN a} \cup {b[i] : i \in DOMAIN b}
<1>1. a \in Seq(S) /\ b \in Seq(S)
  BY DEF IsSequence
<1>a. Len(a) \in Nat /\ Len(b) \in Nat /\ DOMAIN a = 1 .. Len(a) /\ DOMAIN b = 1 .. Len(b)
  BY <1>1, LenProperties
<1> HIDE DEF S
<1>2. /\ (a \o b) \in Seq(S) /\ Len(a \o b) = Len(a) + Len(b)
      /\ \A i \in 1 .. Len(a) + Len(b) :
           (a \o b)[i] = IF i <= Len(a) THEN a[i] ELSE b[i - Len(a)]
  BY <1>1, ConcatProperties
<1>3. IsSequence(a \o b) /\ DOMAIN (a \o b) = 1 .. Len(a) + Len(b)
  BY <1>2, SequenceIs, LenProperties
<1>4. \A i \in 1 .. Len(a) : (a \o b)[i] = a[i]
  BY <1>a, <1>2
<1>5. \A i \in Len(a) + 1 .. Len(a) + Len(b) : (a \o b)[i] = b[i - Len(a)]
  BY <1>a, <1>2
<1>6. QED
  BY <1>a, <1>2, <1>3, <1>4, <1>5

\* Two sequences with the same cells are the same.
LEMMA SameCells ==
  ASSUME NEW a, NEW b, IsSequence(a), IsSequence(b), Len(a) = Len(b),
         \A i \in 1 .. Len(a) : a[i] = b[i]
  PROVE  a = b
<1> DEFINE S == {a[i] : i \in DOMAIN a} \cup {b[i] : i \in DOMAIN b}
<1>1. a \in Seq(S) /\ b \in Seq(S)
  BY DEF IsSequence
<1> HIDE DEF S
<1>2. QED
  BY <1>1, SeqEqual

\* The first cells of a sequence.
LEMMA FirstCells ==
  ASSUME NEW a, IsSequence(a), NEW n \in 0 .. Len(a)
  PROVE  /\ IsSequence(SubSeq(a, 1, n)) /\ Len(SubSeq(a, 1, n)) = n
         /\ DOMAIN SubSeq(a, 1, n) = 1 .. n
         /\ \A i \in 1 .. n : SubSeq(a, 1, n)[i] = a[i] /\ i \in DOMAIN a
<1> DEFINE S == {a[i] : i \in DOMAIN a}
<1>1. a \in Seq(S)
  BY DEF IsSequence
<1>2. Len(a) \in Nat /\ n \in Nat /\ n <= Len(a) /\ DOMAIN a = 1 .. Len(a)
  BY <1>1, LenProperties
<1> HIDE DEF S
<1>3. \A i \in 1 .. n : a[i] \in S
  BY <1>1, <1>2, ElementOfSeq
<1>4. /\ SubSeq(a, 1, n) \in Seq(S)
      /\ Len(SubSeq(a, 1, n)) = IF 1 <= n THEN n - 1 + 1 ELSE 0
      /\ \A i \in 1 .. n - 1 + 1 : SubSeq(a, 1, n)[i] = a[1 + i - 1]
  BY <1>2, <1>3, SubSeqProperties
<1>5. Len(SubSeq(a, 1, n)) = n
  BY <1>2, <1>4
<1>6. \A i \in 1 .. n : SubSeq(a, 1, n)[i] = a[i] /\ i \in DOMAIN a
  <2>1. \A i \in 1 .. n : i \in 1 .. n - 1 + 1 /\ 1 + i - 1 = i
    BY <1>2
  <2>2. QED
    BY <1>2, <1>4, <2>1
<1>7. QED
  BY <1>4, <1>5, <1>6, SequenceIs, LenProperties

\* A function on an initial segment is a sequence.
LEMMA CellsOfFunction ==
  ASSUME NEW n \in Nat, NEW f, f = [i \in 1 .. n |-> f[i]]
  PROVE  IsSequence(f) /\ Len(f) = n /\ DOMAIN f = 1 .. n
BY DEF IsSequence

\* Appending does not change the cells before.
LEMMA FirstOfJoined ==
  ASSUME NEW a, NEW b, IsSequence(a), IsSequence(b), NEW n \in 0 .. Len(a)
  PROVE  SubSeq(a \o b, 1, n) = SubSeq(a, 1, n)
<1>1. /\ IsSequence(a \o b) /\ Len(a) \in Nat /\ Len(b) \in Nat
      /\ Len(a \o b) = Len(a) + Len(b)
      /\ \A i \in 1 .. Len(a) : (a \o b)[i] = a[i]
  BY JoinedCells
<1>2. n \in 0 .. Len(a \o b) /\ 1 .. n \subseteq 1 .. Len(a)
  BY <1>1
<1>3. /\ IsSequence(SubSeq(a, 1, n)) /\ Len(SubSeq(a, 1, n)) = n
      /\ \A i \in 1 .. n : SubSeq(a, 1, n)[i] = a[i]
  BY FirstCells
<1>4. /\ IsSequence(SubSeq(a \o b, 1, n)) /\ Len(SubSeq(a \o b, 1, n)) = n
      /\ \A i \in 1 .. n : SubSeq(a \o b, 1, n)[i] = (a \o b)[i]
  BY <1>1, <1>2, FirstCells
<1>5. \A i \in 1 .. n : SubSeq(a \o b, 1, n)[i] = SubSeq(a, 1, n)[i]
  BY <1>1, <1>2, <1>3, <1>4
<1>6. QED
  BY <1>3, <1>4, <1>5, SameCells

-----------------------------------------------------------------------------
(* Cells without the end of a MAC *)

LEMMA UnsealedSize ==
  ASSUME NEW n
  PROVE  Unsealed(SizeCells(n)) /\ Len(SizeCells(n)) = SizeWidth
<1> DEFINE f == SizeCells(n)
<1>1. f = [i \in 1 .. SizeWidth |-> f[i]]
  BY DEF SizeCells
<1>2. IsSequence(f) /\ Len(f) = SizeWidth /\ DOMAIN f = 1 .. SizeWidth
  <2> HIDE DEF f
  <2>1. QED
    BY <1>1, CellsOfFunction, SizesAssumption
<1>3. \A i \in 1 .. SizeWidth : f[i][1] = "size"
  BY DEF SizeCells
<1>4. QED
  BY <1>2, <1>3 DEF Unsealed

LEMMA UnsealedCiphertext ==
  ASSUME NEW blocks, Len(blocks) \in Nat
  PROVE  /\ Unsealed(CiphertextCells(blocks))
         /\ Len(CiphertextCells(blocks)) = BlockSize * Len(blocks)
<1> DEFINE f == CiphertextCells(blocks)
           n == BlockSize * Len(blocks)
<1>1. n \in Nat
  BY SizesAssumption
<1>a. f = [j \in 1 .. n |-> f[j]]
  <2> HIDE DEF n
  <2>1. QED
    BY DEF CiphertextCells, n
<1>2. IsSequence(f) /\ Len(f) = n /\ DOMAIN f = 1 .. n
  <2> HIDE DEF f, n
  <2>1. QED
    BY <1>1, <1>a, CellsOfFunction
<1>3. \A j \in 1 .. n : f[j][1] = "cipher"
  BY DEF CiphertextCells
<1>4. QED
  BY <1>2, <1>3 DEF Unsealed

-----------------------------------------------------------------------------
(* The ciphertext, block by block *)

\* The block a cell is in, and its place in that block.
LEMMA CellPlace ==
  ASSUME NEW B \in Nat \ {0}, NEW n \in Nat, NEW j \in 1 .. B * n
  PROVE  (j - 1) \div B \in 0 .. n - 1 /\ (j - 1) % B \in 0 .. B - 1
<1>1. j \in Nat /\ 1 <= j /\ j <= B * n
  <2>1. B * n \in Nat
    OBVIOUS
  <2>2. QED
    BY <2>1
<1>2. PICK d \in Nat, m \in Nat :
        d = (j - 1) \div B /\ m = (j - 1) % B /\ m < B /\ j - 1 = B * d + m
  <2>1. j - 1 \in Nat
    BY <1>1
  <2>2. QED
    BY <2>1, Euclid
<1>3. ~(d >= n)
  <2>1. SUFFICES ASSUME d >= n PROVE FALSE
    OBVIOUS
  <2>2. PICK k \in Nat : d = n + k
    <3>1. d - n \in Nat /\ d = n + (d - n)
      BY <1>2, <2>1
    <3>2. QED
      BY <3>1
  <2>3. B * (n + k) = B * n + B * k /\ B * k \in Nat /\ B * n \in Nat
    BY <2>2
  <2>4. j - 1 >= B * n
    BY <1>1, <1>2, <2>2, <2>3
  <2>5. QED
    BY <1>1, <2>3, <2>4
<1>4. QED
  BY <1>2, <1>3

-----------------------------------------------------------------------------
(* The MAC *)

\* The cells of a MAC, and the cells before its last one.
LEMMA MacShape ==
  ASSUME NEW key, NEW data
  PROVE  /\ IsSequence(MacCells(key, data)) /\ Len(MacCells(key, data)) = MacWidth
         /\ MacWidth \in Nat \ {0}
         /\ \A i \in 1 .. MacWidth :
              MacCells(key, data)[i] = <<"mac", [key |-> key, data |-> data], i>>
<1> DEFINE f == MacCells(key, data)
<1>1. MacWidth \in Nat \ {0}
  BY SizesAssumption
<1>2. f = [i \in 1 .. MacWidth |-> f[i]]
  BY DEF MacCells, Cells
<1>3. IsSequence(f) /\ Len(f) = MacWidth
  <2> HIDE DEF f
  <2>1. QED
    BY <1>1, <1>2, CellsOfFunction
<1>4. \A i \in 1 .. MacWidth : f[i] = <<"mac", [key |-> key, data |-> data], i>>
  BY DEF MacCells, Cells
<1>5. QED
  BY <1>1, <1>3, <1>4

-----------------------------------------------------------------------------
(* A sealed file *)

\* Padding is made of bytes and fills the block.
LEMMA PaddingType ==
  ASSUME NEW n \in 0 .. BlockSize
  PROVE  /\ Padding(n) \in Seq(Byte)
         /\ Len(Padding(n)) = BlockSize - n
<1>1. BlockSize - n \in Byte
  BY SizesAssumption, ByteAssumption
<1>2. Padding(n) \in [1 .. (BlockSize - n) -> Byte]
  BY <1>1 DEF Padding
<1>3. BlockSize - n \in Nat
  BY SizesAssumption
<1>4. QED
  BY <1>2, <1>3

\* Padding completes the last block and changes nothing before it.
LEMMA PaddedShape ==
  ASSUME NEW text \in Seq(Byte)
  PROVE  LET n == Len(text) \div BlockSize
             r == Len(text) % BlockSize
         IN  /\ n \in Nat /\ r \in Nat /\ r < BlockSize /\ Len(text) = BlockSize * n + r
             /\ Padded(text) \in Seq(Byte) /\ Len(Padded(text)) = BlockSize * (n + 1)
             /\ \A i \in 1 .. Len(text) : Padded(text)[i] = text[i]
             /\ \A i \in Len(text) + 1 .. BlockSize * (n + 1) : Padded(text)[i] = BlockSize - r
<1> DEFINE n   == Len(text) \div BlockSize
           r   == Len(text) % BlockSize
           pad == Padding(r)
<1>1. /\ Len(text) \in Nat /\ BlockSize \in Nat \ {0}
      /\ n \in Nat /\ r \in Nat /\ r < BlockSize /\ Len(text) = BlockSize * n + r
  BY SizesAssumption, LenProperties, Euclid
<1>2. Padded(text) = text \o pad
  BY DEF Padded
<1> HIDE DEF n, r
<1>a. r \in 0 .. BlockSize
  BY <1>1
<1>3. pad \in Seq(Byte) /\ Len(pad) = BlockSize - r
  BY <1>a, PaddingType
<1>4. \A i \in 1 .. BlockSize - r : pad[i] = BlockSize - r
  BY DEF Padding
<1> HIDE DEF pad
<1>5. BlockSize * (n + 1) = BlockSize * n + BlockSize
  BY <1>1
<1>6. Len(text) + Len(pad) = BlockSize * (n + 1)
  BY <1>1, <1>3, <1>5
<1>7. text \o pad \in Seq(Byte)
  BY <1>3, ConcatProperties
<1>8. /\ Len(text \o pad) = BlockSize * (n + 1)
      /\ \A i \in 1 .. Len(text) : (text \o pad)[i] = text[i]
      /\ \A i \in Len(text) + 1 .. BlockSize * (n + 1) : (text \o pad)[i] = pad[i - Len(text)]
  BY <1>3, <1>6, SequenceIs, JoinedCells
<1>9. ASSUME NEW i \in Len(text) + 1 .. BlockSize * (n + 1)
      PROVE  (text \o pad)[i] = BlockSize - r
  <2>1. i - Len(text) \in 1 .. BlockSize - r
    BY <1>1, <1>5
  <2>2. QED
    BY <1>4, <1>8, <2>1
<1>10. QED
  BY <1>1, <1>2, <1>7, <1>8, <1>9 DEF n, r

\* The blocks of a text's chain.
LEMMA ChainShape ==
  ASSUME NEW text \in Seq(Byte), NEW key, NEW v
  PROVE  /\ Len(Chain(text, key, v)) = (Len(text) \div BlockSize) + 1
         /\ \A i \in 1 .. (Len(text) \div BlockSize) + 1 :
              Chain(text, key, v)[i]
                = [key |-> key, iv |-> v, plain |-> SubSeq(Padded(text), 1, i * BlockSize)]
<1> DEFINE n    == (Len(text) \div BlockSize) + 1
           f    == Chain(text, key, v)
           g(i) == [ChainStart(key, v) EXCEPT !.plain = SubSeq(Padded(text), 1, i * BlockSize)]
<1>1. n \in Nat
  BY SizesAssumption, LenProperties, Euclid
<1>2. \A x : [ChainStart(key, v) EXCEPT !.plain = x] = [key |-> key, iv |-> v, plain |-> x]
  BY DEF ChainStart
<1>3. f = [i \in 1 .. n |-> g(i)]
  BY DEF Chain
<1>4. \A i \in 1 .. n :
        g(i) = [key |-> key, iv |-> v, plain |-> SubSeq(Padded(text), 1, i * BlockSize)]
  BY <1>2
<1> HIDE DEF n, f, g
<1>5. f = [i \in 1 .. n |-> f[i]] /\ \A i \in 1 .. n : f[i] = g(i)
  BY <1>3
<1>6. Len(f) = n
  BY <1>1, <1>5, CellsOfFunction
<1>7. /\ Len(f) = n
      /\ \A i \in 1 .. n :
           f[i] = [key |-> key, iv |-> v, plain |-> SubSeq(Padded(text), 1, i * BlockSize)]
  BY <1>4, <1>5, <1>6
<1>8. QED
  BY <1>7 DEF n, f

\* Where the ciphertext of a sealed file is.
CiphertextLies(f, blocks, total) ==
  /\ Len(f) = HeaderWidth + total + MacWidth
  /\ \A j \in 1 .. total :
       f[HeaderWidth + j]
         = <<"cipher", blocks[((j - 1) \div BlockSize) + 1], ((j - 1) % BlockSize) + 1>>

LEMMA SealedLayout ==
  ASSUME NEW text \in Seq(Byte), NEW size, NEW p, NEW s, NEW v,
         IsSequence(s), Len(s) = SaltWidth, IsSequence(v), Len(v) = BlockSize
  PROVE  CiphertextLies(Sealed(text, size, p, s, v),
                        Chain(text, DerivedKey(p, s, "ENC"), v),
                        BlockSize * ((Len(text) \div BlockSize) + 1))
<1> DEFINE blocks == Chain(text, DerivedKey(p, s, "ENC"), v)
           total  == BlockSize * ((Len(text) \div BlockSize) + 1)
           head   == SizeCells(size) \o s \o v
           cells  == CiphertextCells(blocks)
           body   == head \o cells
           mac    == MacCells(DerivedKey(p, s, "MAC"), body)
<1>1. /\ BlockSize \in Nat \ {0} /\ SizeWidth \in Nat /\ SaltWidth \in Nat /\ MacWidth \in Nat
      /\ (Len(text) \div BlockSize) + 1 \in Nat /\ total \in Nat
  BY SizesAssumption, LenProperties, Euclid
<1>2. Sealed(text, size, p, s, v) = body \o mac
  BY DEF Sealed
<1>3. Len(blocks) = (Len(text) \div BlockSize) + 1
  BY ChainShape
<1>4. \A j \in 1 .. total :
        cells[j] = <<"cipher", blocks[((j - 1) \div BlockSize) + 1], ((j - 1) % BlockSize) + 1>>
  BY <1>3 DEF CiphertextCells
<1> HIDE DEF blocks
<1>5. IsSequence(cells) /\ Len(cells) = total
  BY <1>1, <1>3, UnsealedCiphertext DEF Unsealed
<1> HIDE DEF total, cells
<1>6. IsSequence(head) /\ Len(head) = HeaderWidth
  <2>1. IsSequence(SizeCells(size)) /\ Len(SizeCells(size)) = SizeWidth
    BY UnsealedSize DEF Unsealed
  <2>2. /\ IsSequence(SizeCells(size) \o s)
        /\ Len(SizeCells(size) \o s) = SizeWidth + SaltWidth
    BY <2>1, JoinedCells
  <2>3. IsSequence(head) /\ Len(head) = (SizeWidth + SaltWidth) + BlockSize
    BY <2>2, JoinedCells
  <2>4. QED
    BY <1>1, <2>3 DEF HeaderWidth
<1> HIDE DEF head
<1>7. /\ IsSequence(body) /\ Len(body) = HeaderWidth + total /\ HeaderWidth \in Nat
      /\ \A i \in HeaderWidth + 1 .. HeaderWidth + total : body[i] = cells[i - HeaderWidth]
  BY <1>5, <1>6, JoinedCells
<1>8. IsSequence(mac) /\ Len(mac) = MacWidth
  BY MacShape
<1> HIDE DEF body, mac
<1>9. /\ Len(body \o mac) = (HeaderWidth + total) + MacWidth
      /\ \A i \in 1 .. HeaderWidth + total : (body \o mac)[i] = body[i]
  <2>1. /\ Len(body \o mac) = Len(body) + Len(mac)
        /\ \A i \in 1 .. Len(body) : (body \o mac)[i] = body[i]
    BY <1>7, <1>8, JoinedCells
  <2>2. QED
    BY <1>7, <1>8, <2>1
<1>10. ASSUME NEW j \in 1 .. total PROVE (body \o mac)[HeaderWidth + j] = cells[j]
  <2>1. /\ HeaderWidth + j \in HeaderWidth + 1 .. HeaderWidth + total
        /\ HeaderWidth + j \in 1 .. HeaderWidth + total
        /\ (HeaderWidth + j) - HeaderWidth = j
    BY <1>1, <1>7
  <2>2. QED
    BY <1>7, <1>9, <2>1
<1>11. QED
  BY <1>1, <1>2, <1>4, <1>7, <1>9, <1>10 DEF blocks, total, CiphertextLies

\* A file under whose password a decoder finds the text, and all of it.
SealsText(f, p, text) ==
  /\ IsSealed(f, p)
  /\ TextUnder(f) = text
  /\ SizeOf(SubSeq(f, 1, SizeWidth)) = Len(text)

-----------------------------------------------------------------------------
(* The invariant: what has been read at each place of the function *)

FileCells == {file[k] : k \in DOMAIN file}

Over == {"done", "crashed"}

\* What the function holds at each place.
HeldByPlace ==
  /\ pc \in {"open_input", "done", "crashed"} => held = {}
  /\ pc \in {"read_size", "read_salt"} => held = {"input"}
  /\ pc \in {"read_iv", "measure", "read_mac", "alloc_chunk"} => held = {"input", "ctx"}
  /\ pc = "alloc_hmac" => held = {"input", "ctx", "chunk_buf"}
  /\ pc \in {"verify_read", "check_mac"} => held = {"input", "ctx", "chunk_buf", "hmac_data"}
  /\ pc = "open_output" => held = {"input", "ctx", "chunk_buf"}
  /\ pc \in {"decrypt", "last_block", "close"} => held = {"input", "ctx", "chunk_buf", "output"}

\* The fields of the header are the first bytes of the file.
SizeInv ==
  pc \notin Over \cup {"open_input", "read_size"} =>
    SizeWidth <= Len(file) /\ sizeBytes = SubSeq(file, 1, SizeWidth)

SaltInv ==
  pc \notin Over \cup {"open_input", "read_size", "read_salt"} =>
    /\ SizeWidth + SaltWidth <= Len(file)
    /\ salt = SubSeq(file, SizeWidth + 1, SizeWidth + SaltWidth)

IvInv ==
  pc \notin Over \cup {"open_input", "read_size", "read_salt", "read_iv"} =>
    /\ HeaderWidth <= Len(file)
    /\ iv = SubSeq(file, SizeWidth + SaltWidth + 1, HeaderWidth)

\* The position of the stream before and after the fields.
PosInv ==
  /\ pc \in {"open_input", "read_size"} => pos = 0
  /\ pc = "read_salt" => pos = SizeWidth
  /\ pc = "read_iv" => pos = SizeWidth + SaltWidth
  /\ pc \in {"alloc_chunk", "alloc_hmac"} => pos = HeaderWidth

Measured == Running /\ pc \notin {"open_input", "read_size", "read_salt", "read_iv", "measure"}

MeasureInv == Measured => EncryptedSize > 0 /\ EncryptedSize % BlockSize = 0

MacInv ==
  Measured /\ pc # "read_mac" =>
    storedMac = SubSeq(file, Len(file) - MacWidth + 1, Len(file))

\* The verification pass has gathered the file up to the position of the stream.
VerifyInv ==
  pc \in {"verify_read", "check_mac"} =>
    /\ hmacData = SubSeq(file, 1, pos)
    /\ pos + remaining = HeaderWidth + EncryptedSize

\* The output is opened, and anything written, only after the MAC has verified.
OutputInv ==
  /\ pc \in {"open_output", "decrypt", "last_block", "close"} => Verifies(file, password)
  /\ disk # NoFile => Verifies(file, password)

OutIsSequence == \E S : out \in Seq(S)

\* TypeOK in two parts: where the function stands, and the memory it works on.
ControlTypes ==
  /\ pc \in Places
  /\ result \in {"none", "0", "-1"}
  /\ held \subseteq Resources

DataTypes ==
  /\ password \in Passwords
  /\ pos \in 0 .. Len(file)
  /\ Len(sizeBytes) <= SizeWidth
  /\ Len(salt) <= SaltWidth
  /\ Len(iv) <= BlockSize
  /\ Len(storedMac) \in {0, MacWidth}
  /\ hmacData # <<>> => Len(hmacData) <= HeaderWidth + EncryptedSize
  /\ remaining \in Nat
  /\ Len(out) \in Nat
  /\ unnoticed \in BOOLEAN
  /\ OutIsSequence

\* The places after the MAC has been read.
Late ==
  {"alloc_chunk", "alloc_hmac", "verify_read", "check_mac", "open_output", "decrypt",
   "last_block", "close"}

DecryptInv ==
  /\ IsFile(file)
  /\ ControlTypes /\ DataTypes
  /\ HeldByPlace
  /\ SizeInv /\ SaltInv /\ IvInv /\ PosInv
  /\ MeasureInv /\ MacInv /\ VerifyInv
  /\ OutputInv

-----------------------------------------------------------------------------
(* Sequences and sizes *)

\* A slice of a sequence: its elements and its length.
LEMMA Slice ==
  ASSUME NEW S, NEW s \in Seq(S), NEW m \in Nat \ {0}, NEW n \in Nat,
         n <= Len(s), m <= n + 1
  PROVE  /\ SubSeq(s, m, n) \in Seq(S)
         /\ Len(SubSeq(s, m, n)) = n - m + 1
         /\ \A i \in 1 .. n - m + 1 : SubSeq(s, m, n)[i] = s[m + i - 1]
<1>1. \A i \in m .. n : s[i] \in S
  BY ElementOfSeq
<1>2. QED
  BY <1>1, SubSeqProperties

\* Two neighbouring slices make one.
LEMMA Joined ==
  ASSUME NEW S, NEW s \in Seq(S), NEW k \in Nat, NEW n \in Nat, k <= n, n <= Len(s)
  PROVE  SubSeq(s, 1, k) \o SubSeq(s, k + 1, n) = SubSeq(s, 1, n)
<1>1. Len(s) \in Nat
  BY LenProperties
<1>2. 1 \in 1 .. Len(s) + 1 /\ k \in 1 - 1 .. Len(s) /\ n \in k .. Len(s)
  BY <1>1
<1>3. QED
  BY <1>2, ConcatAdjacentSubSeq

\* The file is a sequence, and the widths are positive.
LEMMA FileType ==
  ASSUME IsFile(file)
  PROVE  file \in Seq(FileCells) /\ Len(file) \in Nat
BY LenProperties DEF IsFile, FileCells

LEMMA Widths ==
  /\ SizeWidth \in Nat \ {0} /\ SaltWidth \in Nat \ {0} /\ BlockSize \in Nat \ {0}
  /\ MacWidth \in Nat \ {0} /\ StreamChunk \in Nat \ {0}
  /\ HeaderWidth \in Nat /\ HeaderWidth = SizeWidth + SaltWidth + BlockSize
BY SizesAssumption DEF HeaderWidth

\* A positive multiple of a block holds a block.
LEMMA WholeBlock ==
  ASSUME NEW n \in Int, n > 0, n % BlockSize = 0
  PROVE  n >= BlockSize
<1>1. BlockSize \in Nat \ {0}
  BY Widths
<1>2. SUFFICES ASSUME n < BlockSize PROVE FALSE
  BY <1>1
<1>3. n % BlockSize = n
  BY <1>1, <1>2
<1>4. QED
  BY <1>3

\* fread gives the next cells of the file, and no more than was asked for.
LEMMA FreadCells ==
  ASSUME IsFile(file), pos \in 0 .. Len(file), NEW wanted \in Nat, NEW error,
         NEW got \in Fread(wanted, error)
  PROVE  /\ got \in Seq(FileCells) /\ Len(got) \in Nat
         /\ Len(got) <= wanted /\ pos + Len(got) <= Len(file)
         /\ got = SubSeq(file, pos + 1, pos + Len(got))
<1> DEFINE there == Smaller(wanted, Len(file) - pos)
<1>1. file \in Seq(FileCells) /\ Len(file) \in Nat /\ pos \in Nat /\ pos <= Len(file)
  BY FileType
<1>2. there \in Nat /\ there <= wanted /\ pos + there <= Len(file)
  BY <1>1 DEF Smaller
<1>3. PICK n \in Nat : n <= there /\ got = SubSeq(file, pos + 1, pos + n)
  <2>1. 0 .. there \subseteq Nat /\ {there} \subseteq 0 .. there
    BY <1>2
  <2> HIDE DEF there
  <2>2. \E n \in 0 .. there : got = SubSeq(file, pos + 1, pos + n)
    BY <2>1, <1>2 DEF Fread, there
  <2>3. QED
    BY <2>1, <2>2, <1>2
<1>4. pos + 1 \in Nat \ {0} /\ pos + n \in Nat /\ pos + n <= Len(file) /\ pos + 1 <= pos + n + 1
  BY <1>1, <1>2, <1>3
<1>5. got \in Seq(FileCells) /\ Len(got) = (pos + n) - (pos + 1) + 1
  BY <1>1, <1>3, <1>4, Slice
<1>6. Len(got) = n
  BY <1>1, <1>3, <1>5
<1>7. QED
  BY <1>1, <1>2, <1>3, <1>5, <1>6

-----------------------------------------------------------------------------
(* One step at a time *)

\* No step touches the file or the key, so what depends on them alone stays.
LEMMA FileStays ==
  ASSUME UNCHANGED inputVars
  PROVE  /\ file' = file /\ password' = password
         /\ EncryptedSize' = EncryptedSize
         /\ IsFile(file)' = IsFile(file)
         /\ Verifies(file, password)' = Verifies(file, password)
BY DEF inputVars, EncryptedSize

\* A step that ends the function needs the types, and that what it leaves in the
\* output was allowed.
LEMMA EndingStep ==
  ASSUME DecryptInv, UNCHANGED inputVars, pc' \in Over, held' = {},
         ControlTypes', DataTypes',
         disk' # NoFile => disk # NoFile \/ pc \in {"decrypt", "last_block", "close"}
  PROVE  DecryptInv'
<1>1. /\ IsFile(file)' /\ Verifies(file, password)' = Verifies(file, password)
  BY FileStays DEF DecryptInv
<1>2. OutputInv'
  BY <1>1 DEF DecryptInv, OutputInv, Over
<1>3. HeldByPlace' /\ SizeInv' /\ SaltInv' /\ IvInv' /\ PosInv' /\ MeasureInv' /\ MacInv' /\ VerifyInv'
  BY DEF HeldByPlace, SizeInv, SaltInv, IvInv, PosInv, MeasureInv, Measured, Running, MacInv,
         VerifyInv, Over
<1>4. QED
  BY <1>1, <1>2, <1>3 DEF DecryptInv

\* An error exit ends the function and leaves the rest of its memory alone.
LEMMA FailingStep ==
  ASSUME DecryptInv, UNCHANGED inputVars, NEW given, NEW released, Fail(given, released),
         held \subseteq released, DataTypes',
         "output" \in held => pc \in {"decrypt", "last_block", "close"}
  PROVE  DecryptInv'
<1>1. pc' = "done" /\ held' = {} /\ result' = "-1"
  BY DEF Fail, Return
<1>2. disk' # NoFile => disk # NoFile \/ pc \in {"decrypt", "last_block", "close"}
  BY DEF Fail
<1>3. ControlTypes'
  BY <1>1 DEF ControlTypes, Places, Resources
<1>4. QED
  BY <1>1, <1>2, <1>3, EndingStep DEF Over

\* After the MAC has been read, the header, the MAC and the length stay as they are.
LEMMA LateStep ==
  ASSUME DecryptInv, UNCHANGED <<inputVars, headerVars>>, pc \in Late, pc' \in Late
  PROVE  IsFile(file)' /\ SizeInv' /\ SaltInv' /\ IvInv' /\ MeasureInv' /\ MacInv'
<1>1. /\ SizeWidth <= Len(file) /\ sizeBytes = SubSeq(file, 1, SizeWidth)
      /\ SizeWidth + SaltWidth <= Len(file)
      /\ salt = SubSeq(file, SizeWidth + 1, SizeWidth + SaltWidth)
      /\ HeaderWidth <= Len(file)
      /\ iv = SubSeq(file, SizeWidth + SaltWidth + 1, HeaderWidth)
  BY DEF DecryptInv, SizeInv, SaltInv, IvInv, Late, Over
<1>2. /\ EncryptedSize > 0 /\ EncryptedSize % BlockSize = 0
      /\ storedMac = SubSeq(file, Len(file) - MacWidth + 1, Len(file))
  BY DEF DecryptInv, MeasureInv, MacInv, Measured, Running, Late
<1>3. /\ file' = file /\ EncryptedSize' = EncryptedSize /\ IsFile(file)'
      /\ sizeBytes' = sizeBytes /\ salt' = salt /\ iv' = iv /\ storedMac' = storedMac
  BY FileStays DEF headerVars, DecryptInv
<1>4. SizeInv' /\ SaltInv' /\ IvInv'
  BY <1>1, <1>3 DEF SizeInv, SaltInv, IvInv
<1>5. MeasureInv' /\ MacInv'
  BY <1>2, <1>3 DEF MeasureInv, MacInv
<1>6. QED
  BY <1>3, <1>4, <1>5

\* Before the output is opened, nothing has been written.
LEMMA DiskStays ==
  ASSUME DecryptInv, UNCHANGED inputVars, UNCHANGED disk,
         pc' \notin {"open_output", "decrypt", "last_block", "close"}
         \/ pc \in {"open_output", "decrypt", "last_block", "close"}
  PROVE  OutputInv'
<1>1. Verifies(file, password)' = Verifies(file, password)
  BY FileStays
<1>2. QED
  BY <1>1 DEF DecryptInv, OutputInv

\* Memory a step leaves alone keeps its types.
LEMMA DataStays ==
  ASSUME DataTypes, UNCHANGED <<inputVars, unnoticed, headerVars, verifyVars, pos, remaining, out>>
  PROVE  DataTypes'
BY FileStays DEF DataTypes, OutIsSequence, inputVars, headerVars, verifyVars

LEMMA OpenInputInv ==
  ASSUME DecryptInv, OpenInput PROVE DecryptInv'
<1>1. pc = "open_input" /\ held = {} /\ DataTypes /\ IsFile(file) /\ ControlTypes
  BY DEF DecryptInv, OpenInput, HeldByPlace
<1>2. UNCHANGED <<inputVars, unnoticed, headerVars, verifyVars, pos, remaining, prev, out>>
  BY DEF OpenInput
<1>3. DataTypes' /\ IsFile(file)' /\ pos' = pos /\ UNCHANGED inputVars
  BY <1>1, <1>2, DataStays, FileStays
<1>4. CASE Fail(out, {})
  BY <1>1, <1>3, <1>4, FailingStep
<1>5. CASE pc' = "read_size" /\ held' = {"input"} /\ UNCHANGED <<result, disk>>
  <2>1. ControlTypes' /\ HeldByPlace'
    BY <1>1, <1>5 DEF ControlTypes, HeldByPlace, Places, Resources
  <2>2. SizeInv' /\ SaltInv' /\ IvInv' /\ MeasureInv' /\ MacInv' /\ VerifyInv'
    BY <1>5 DEF SizeInv, SaltInv, IvInv, MeasureInv, MacInv, VerifyInv, Measured
  <2>3. PosInv'
    BY <1>1, <1>3, <1>5 DEF PosInv, DecryptInv
  <2>4. OutputInv'
    BY <1>3, <1>5, DiskStays
  <2>5. QED
    BY <1>3, <2>1, <2>2, <2>3, <2>4 DEF DecryptInv
<1>6. QED
  BY <1>4, <1>5 DEF OpenInput

LEMMA ReadSizeInv ==
  ASSUME DecryptInv, ReadSize PROVE DecryptInv'
<1>1. /\ pc = "read_size" /\ held = {"input"} /\ pos = 0
      /\ DataTypes /\ IsFile(file) /\ ControlTypes
  BY DEF DecryptInv, ReadSize, HeldByPlace, PosInv
<1>2. PICK got \in Fread(SizeWidth, "read") :
        /\ sizeBytes' = got /\ pos' = pos + Len(got)
        /\ IF Len(got) = SizeWidth THEN Continue("read_salt") ELSE Fail(out, {"input"})
  BY DEF ReadSize
<1>3. UNCHANGED <<inputVars, unnoticed, salt, iv, storedMac, verifyVars, remaining, prev, out>>
  BY DEF ReadSize
<1>4. /\ Len(got) \in Nat /\ Len(got) <= SizeWidth /\ pos + Len(got) <= Len(file)
      /\ got = SubSeq(file, 1, Len(got))
  BY <1>1, Widths, FreadCells DEF DataTypes
<1>5. IsFile(file)' /\ UNCHANGED inputVars /\ file' = file /\ Len(file) \in Nat
  BY <1>1, <1>3, FileStays, FileType
<1>6. DataTypes'
  BY <1>1, <1>2, <1>3, <1>4, <1>5, Widths
     DEF DataTypes, OutIsSequence, inputVars, verifyVars, EncryptedSize
<1>7. CASE Len(got) # SizeWidth
  BY <1>1, <1>2, <1>5, <1>6, <1>7, FailingStep
<1>8. CASE Len(got) = SizeWidth
  <2>1. pc' = "read_salt" /\ UNCHANGED exitVars
    BY <1>2, <1>8 DEF Continue
  <2>2. ControlTypes' /\ HeldByPlace'
    BY <1>1, <2>1 DEF ControlTypes, HeldByPlace, Places, exitVars
  <2>3. SizeInv'
    BY <1>1, <1>2, <1>4, <1>5, <1>8 DEF SizeInv
  <2>4. SaltInv' /\ IvInv' /\ MeasureInv' /\ MacInv' /\ VerifyInv'
    BY <2>1 DEF SaltInv, IvInv, MeasureInv, MacInv, VerifyInv, Measured
  <2>5. PosInv'
    BY <1>1, <1>2, <1>8, <2>1, Widths DEF PosInv
  <2>6. OutputInv'
    BY <1>5, <2>1, DiskStays DEF exitVars
  <2>7. QED
    BY <1>5, <1>6, <2>2, <2>3, <2>4, <2>5, <2>6 DEF DecryptInv
<1>9. QED
  BY <1>7, <1>8

LEMMA ReadSaltInv ==
  ASSUME DecryptInv, ReadSalt PROVE DecryptInv'
<1>1. /\ pc = "read_salt" /\ held = {"input"} /\ pos = SizeWidth
      /\ DataTypes /\ IsFile(file) /\ ControlTypes
      /\ SizeWidth <= Len(file) /\ sizeBytes = SubSeq(file, 1, SizeWidth)
  BY DEF DecryptInv, ReadSalt, HeldByPlace, PosInv, SizeInv, Over
<1>2. PICK got \in Fread(SaltWidth, "read") :
        /\ salt' = got /\ pos' = pos + Len(got)
        /\ IF Len(got) = SaltWidth
           THEN /\ pc' = "read_iv"
                /\ held' = held \cup {"ctx"}
                /\ UNCHANGED <<result, disk>>
           ELSE Fail(out, {"input"})
  BY DEF ReadSalt
<1>3. UNCHANGED <<inputVars, unnoticed, sizeBytes, iv, storedMac, verifyVars, remaining, prev, out>>
  BY DEF ReadSalt
<1>4. /\ Len(got) \in Nat /\ Len(got) <= SaltWidth /\ pos + Len(got) <= Len(file)
      /\ got = SubSeq(file, SizeWidth + 1, SizeWidth + Len(got))
  BY <1>1, Widths, FreadCells DEF DataTypes
<1>5. IsFile(file)' /\ UNCHANGED inputVars /\ file' = file /\ Len(file) \in Nat
  BY <1>1, <1>3, FileStays, FileType
<1>6. DataTypes'
  BY <1>1, <1>2, <1>3, <1>4, <1>5, Widths
     DEF DataTypes, OutIsSequence, inputVars, verifyVars, EncryptedSize
<1>7. CASE Len(got) # SaltWidth
  BY <1>1, <1>2, <1>5, <1>6, <1>7, FailingStep
<1>8. CASE Len(got) = SaltWidth
  <2>1. pc' = "read_iv" /\ held' = held \cup {"ctx"} /\ UNCHANGED <<result, disk>>
    BY <1>2, <1>8
  <2>2. ControlTypes' /\ HeldByPlace'
    BY <1>1, <2>1 DEF ControlTypes, HeldByPlace, Places, Resources
  <2>3. SizeInv' /\ SaltInv'
    BY <1>1, <1>2, <1>3, <1>4, <1>5, <1>8 DEF SizeInv, SaltInv
  <2>4. IvInv' /\ MeasureInv' /\ MacInv' /\ VerifyInv'
    BY <2>1 DEF IvInv, MeasureInv, MacInv, VerifyInv, Measured
  <2>5. PosInv'
    BY <1>1, <1>2, <1>8, <2>1 DEF PosInv
  <2>6. OutputInv'
    BY <1>5, <2>1, DiskStays
  <2>7. QED
    BY <1>5, <1>6, <2>2, <2>3, <2>4, <2>5, <2>6 DEF DecryptInv
<1>9. QED
  BY <1>7, <1>8

LEMMA ReadIvInv ==
  ASSUME DecryptInv, ReadIv PROVE DecryptInv'
<1>1. /\ pc = "read_iv" /\ held = {"input", "ctx"} /\ pos = SizeWidth + SaltWidth
      /\ DataTypes /\ IsFile(file) /\ ControlTypes
      /\ SizeWidth <= Len(file) /\ sizeBytes = SubSeq(file, 1, SizeWidth)
      /\ SizeWidth + SaltWidth <= Len(file)
      /\ salt = SubSeq(file, SizeWidth + 1, SizeWidth + SaltWidth)
  BY DEF DecryptInv, ReadIv, HeldByPlace, PosInv, SizeInv, SaltInv, Over
<1>2. PICK got \in Fread(BlockSize, "read") :
        /\ iv' = got /\ pos' = pos + Len(got)
        /\ IF Len(got) = BlockSize THEN Continue("measure") ELSE Fail(out, {"ctx", "input"})
  BY DEF ReadIv
<1>3. UNCHANGED <<inputVars, unnoticed, sizeBytes, salt, storedMac, verifyVars, remaining, prev, out>>
  BY DEF ReadIv
<1>4. /\ Len(got) \in Nat /\ Len(got) <= BlockSize /\ pos + Len(got) <= Len(file)
      /\ got = SubSeq(file, SizeWidth + SaltWidth + 1, SizeWidth + SaltWidth + Len(got))
  BY <1>1, Widths, FreadCells DEF DataTypes
<1>5. IsFile(file)' /\ UNCHANGED inputVars /\ file' = file /\ Len(file) \in Nat
  BY <1>1, <1>3, FileStays, FileType
<1>6. DataTypes'
  BY <1>1, <1>2, <1>3, <1>4, <1>5, Widths
     DEF DataTypes, OutIsSequence, inputVars, verifyVars, EncryptedSize
<1>7. CASE Len(got) # BlockSize
  BY <1>1, <1>2, <1>5, <1>6, <1>7, FailingStep
<1>8. CASE Len(got) = BlockSize
  <2>1. pc' = "measure" /\ UNCHANGED exitVars
    BY <1>2, <1>8 DEF Continue
  <2>2. ControlTypes' /\ HeldByPlace'
    BY <1>1, <2>1 DEF ControlTypes, HeldByPlace, Places, exitVars
  <2>3. SizeInv' /\ SaltInv' /\ IvInv'
    BY <1>1, <1>2, <1>3, <1>4, <1>5, <1>8, Widths DEF SizeInv, SaltInv, IvInv
  <2>4. MeasureInv' /\ MacInv' /\ VerifyInv' /\ PosInv'
    BY <2>1 DEF MeasureInv, MacInv, VerifyInv, Measured, PosInv
  <2>5. OutputInv'
    BY <1>5, <2>1, DiskStays DEF exitVars
  <2>6. QED
    BY <1>5, <1>6, <2>2, <2>3, <2>4, <2>5 DEF DecryptInv
<1>9. QED
  BY <1>7, <1>8

LEMMA MeasureStepInv ==
  ASSUME DecryptInv, Measure PROVE DecryptInv'
<1>1. /\ pc = "measure" /\ held = {"input", "ctx"}
      /\ DataTypes /\ IsFile(file) /\ ControlTypes
      /\ SizeInv /\ SaltInv /\ IvInv
  BY DEF DecryptInv, Measure, HeldByPlace
<1>2. /\ UNCHANGED <<inputVars, unnoticed, headerVars, verifyVars, remaining, prev, out>>
      /\ pos' = Len(file)
  BY DEF Measure
<1>3. IsFile(file)' /\ UNCHANGED inputVars /\ file' = file /\ Len(file) \in Nat
      /\ EncryptedSize' = EncryptedSize
  BY <1>1, <1>2, FileStays, FileType
<1>4. DataTypes'
  BY <1>1, <1>2, <1>3 DEF DataTypes, OutIsSequence, inputVars, headerVars, verifyVars
<1>5. CASE EncryptedSize > 0 /\ EncryptedSize % BlockSize = 0
  <2>1. pc' = "read_mac" /\ UNCHANGED exitVars
    BY <1>5 DEF Measure, Continue
  <2>2. ControlTypes' /\ HeldByPlace'
    BY <1>1, <2>1 DEF ControlTypes, HeldByPlace, Places, exitVars
  <2>3. SizeInv' /\ SaltInv' /\ IvInv'
    BY <1>1, <1>2, <1>3 DEF SizeInv, SaltInv, IvInv, headerVars, Over
  <2>4. MeasureInv'
    BY <1>3, <1>5 DEF MeasureInv
  <2>5. MacInv' /\ VerifyInv' /\ PosInv'
    BY <2>1 DEF MacInv, VerifyInv, PosInv
  <2>6. OutputInv'
    BY <1>3, <2>1, DiskStays DEF exitVars
  <2>7. QED
    BY <1>3, <1>4, <2>2, <2>3, <2>4, <2>5, <2>6 DEF DecryptInv
<1>6. CASE ~(EncryptedSize > 0 /\ EncryptedSize % BlockSize = 0)
  <2>1. Fail(out, {"ctx", "input"})
    BY <1>6 DEF Measure
  <2>2. QED
    BY <1>1, <1>3, <1>4, <2>1, FailingStep
<1>7. QED
  BY <1>5, <1>6

LEMMA ReadMacInv ==
  ASSUME DecryptInv, ReadMac PROVE DecryptInv'
<1>1. /\ pc = "read_mac" /\ held = {"input", "ctx"}
      /\ DataTypes /\ IsFile(file) /\ ControlTypes
      /\ SizeInv /\ SaltInv /\ IvInv
      /\ EncryptedSize > 0 /\ EncryptedSize % BlockSize = 0
  BY DEF DecryptInv, ReadMac, HeldByPlace, MeasureInv, Measured, Running
<1>2. UNCHANGED <<inputVars, unnoticed, sizeBytes, salt, iv, verifyVars, remaining, prev, out>>
  BY DEF ReadMac
<1>3. IsFile(file)' /\ UNCHANGED inputVars /\ file' = file /\ Len(file) \in Nat
      /\ EncryptedSize' = EncryptedSize /\ file \in Seq(FileCells)
  BY <1>1, <1>2, FileStays, FileType
<1>4. CASE UNCHANGED <<storedMac, pos>> /\ Fail(out, {"ctx", "input"})
  <2>1. DataTypes'
    BY <1>1, <1>2, <1>4, DataStays DEF headerVars
  <2>2. QED
    BY <1>1, <1>3, <1>4, <2>1, FailingStep
<1>5. CASE /\ storedMac' = SubSeq(file, Len(file) - MacWidth + 1, Len(file))
           /\ pos' = HeaderWidth
           /\ Continue("alloc_chunk")
  <2>1. pc' = "alloc_chunk" /\ UNCHANGED exitVars
    BY <1>5 DEF Continue
  <2>2. HeaderWidth <= Len(file) /\ Len(storedMac') = MacWidth
    <3>1. HeaderWidth + MacWidth < Len(file)
      BY <1>1, <1>3, Widths DEF EncryptedSize
    <3>2. /\ HeaderWidth <= Len(file)
          /\ Len(file) - MacWidth + 1 \in Nat \ {0} /\ Len(file) - MacWidth + 1 <= Len(file) + 1
      BY <1>3, <3>1, Widths
    <3>3. Len(storedMac') = Len(file) - (Len(file) - MacWidth + 1) + 1
      BY <1>3, <1>5, <3>2, Slice
    <3>4. QED
      BY <1>3, <3>2, <3>3, Widths
  <2>3. DataTypes'
    BY <1>1, <1>2, <1>3, <1>5, <2>2, Widths
       DEF DataTypes, OutIsSequence, inputVars, verifyVars
  <2>4. ControlTypes' /\ HeldByPlace'
    BY <1>1, <2>1 DEF ControlTypes, HeldByPlace, Places, exitVars
  <2>5. SizeInv' /\ SaltInv' /\ IvInv'
    BY <1>1, <1>2, <1>3 DEF SizeInv, SaltInv, IvInv, Over
  <2>6. MeasureInv' /\ MacInv'
    BY <1>1, <1>3, <1>5 DEF MeasureInv, MacInv
  <2>7. VerifyInv' /\ PosInv'
    BY <1>5, <2>1 DEF VerifyInv, PosInv
  <2>8. OutputInv'
    BY <1>3, <2>1, DiskStays DEF exitVars
  <2>9. QED
    BY <1>3, <2>3, <2>4, <2>5, <2>6, <2>7, <2>8 DEF DecryptInv
<1>6. QED
  BY <1>4, <1>5 DEF ReadMac

LEMMA AllocChunkInv ==
  ASSUME DecryptInv, AllocChunk PROVE DecryptInv'
<1>1. /\ pc = "alloc_chunk" /\ held = {"input", "ctx"} /\ pos = HeaderWidth
      /\ DataTypes /\ IsFile(file) /\ ControlTypes
  BY DEF DecryptInv, AllocChunk, HeldByPlace, PosInv
<1>2. UNCHANGED <<inputVars, unnoticed, headerVars, verifyVars, pos, remaining, prev, out>>
  BY DEF AllocChunk
<1>3. DataTypes' /\ IsFile(file)' /\ pos' = pos /\ UNCHANGED inputVars
  BY <1>1, <1>2, DataStays, FileStays
<1>4. CASE Fail(out, {"ctx", "input"})
  BY <1>1, <1>3, <1>4, FailingStep
<1>5. CASE pc' = "alloc_hmac" /\ held' = held \cup {"chunk_buf"} /\ UNCHANGED <<result, disk>>
  <2>1. ControlTypes' /\ HeldByPlace'
    BY <1>1, <1>5 DEF ControlTypes, HeldByPlace, Places, Resources
  <2>2. SizeInv' /\ SaltInv' /\ IvInv' /\ MeasureInv' /\ MacInv'
    BY <1>1, <1>2, <1>5, LateStep DEF Late
  <2>3. PosInv' /\ VerifyInv'
    BY <1>1, <1>3, <1>5 DEF PosInv, VerifyInv
  <2>4. OutputInv'
    BY <1>3, <1>5, DiskStays
  <2>5. QED
    BY <1>3, <2>1, <2>2, <2>3, <2>4 DEF DecryptInv
<1>6. QED
  BY <1>4, <1>5 DEF AllocChunk

\* The three fields of the header, one after the other, are the head of the file.
LEMMA HeaderIsHead ==
  ASSUME IsFile(file), HeaderWidth <= Len(file)
  PROVE  /\ SubSeq(file, 1, SizeWidth) \o SubSeq(file, SizeWidth + 1, SizeWidth + SaltWidth)
              \o SubSeq(file, SizeWidth + SaltWidth + 1, HeaderWidth)
            = SubSeq(file, 1, HeaderWidth)
         /\ Len(SubSeq(file, 1, HeaderWidth)) = HeaderWidth
<1>1. file \in Seq(FileCells) /\ Len(file) \in Nat
  BY FileType
<1>2. SubSeq(file, 1, SizeWidth) \o SubSeq(file, SizeWidth + 1, SizeWidth + SaltWidth)
        = SubSeq(file, 1, SizeWidth + SaltWidth)
  BY <1>1, Widths, ConcatAdjacentSubSeq
<1>3. SubSeq(file, 1, SizeWidth + SaltWidth) \o SubSeq(file, SizeWidth + SaltWidth + 1, HeaderWidth)
        = SubSeq(file, 1, HeaderWidth)
  BY <1>1, Widths, ConcatAdjacentSubSeq
<1>4. Len(SubSeq(file, 1, HeaderWidth)) = HeaderWidth - 1 + 1
  BY <1>1, Widths, Slice
<1>5. QED
  BY <1>2, <1>3, <1>4, Widths

LEMMA AllocHmacDataInv ==
  ASSUME DecryptInv, AllocHmacData PROVE DecryptInv'
<1>1. /\ pc = "alloc_hmac" /\ held = {"input", "ctx", "chunk_buf"} /\ pos = HeaderWidth
      /\ DataTypes /\ IsFile(file) /\ ControlTypes
      /\ EncryptedSize > 0
      /\ HeaderWidth <= Len(file) /\ sizeBytes = SubSeq(file, 1, SizeWidth)
      /\ salt = SubSeq(file, SizeWidth + 1, SizeWidth + SaltWidth)
      /\ iv = SubSeq(file, SizeWidth + SaltWidth + 1, HeaderWidth)
  BY DEF DecryptInv, AllocHmacData, HeldByPlace, PosInv, SizeInv, SaltInv, IvInv, MeasureInv,
         Measured, Running, Over
<1>2. UNCHANGED <<inputVars, unnoticed, headerVars, pos, prev, out>>
  BY DEF AllocHmacData
<1>3. IsFile(file)' /\ UNCHANGED inputVars /\ file' = file /\ Len(file) \in Nat
      /\ EncryptedSize' = EncryptedSize /\ EncryptedSize \in Int
  BY <1>1, <1>2, FileStays, FileType, Widths DEF EncryptedSize
<1>4. CASE UNCHANGED <<hmacData, remaining>> /\ Fail(out, {"ctx", "chunk_buf", "input"})
  <2>1. DataTypes'
    BY <1>1, <1>2, <1>4, DataStays DEF verifyVars
  <2>2. QED
    BY <1>1, <1>3, <1>4, <2>1, FailingStep
<1>5. CASE /\ hmacData' = sizeBytes \o salt \o iv
           /\ remaining' = EncryptedSize
           /\ pc' = "verify_read"
           /\ held' = held \cup {"hmac_data"}
           /\ UNCHANGED <<result, disk>>
  <2>1. hmacData' = SubSeq(file, 1, HeaderWidth) /\ Len(hmacData') = HeaderWidth
    BY <1>1, <1>5, HeaderIsHead
  <2>2. DataTypes'
    <3>1. Len(hmacData') <= HeaderWidth + EncryptedSize /\ remaining' \in Nat
      BY <1>1, <1>3, <1>5, <2>1, Widths
    <3>2. QED
      BY <1>1, <1>2, <1>3, <3>1 DEF DataTypes, OutIsSequence, inputVars, headerVars
  <2>3. ControlTypes' /\ HeldByPlace'
    BY <1>1, <1>5 DEF ControlTypes, HeldByPlace, Places, Resources
  <2>4. SizeInv' /\ SaltInv' /\ IvInv' /\ MeasureInv' /\ MacInv'
    BY <1>1, <1>2, <1>5, LateStep DEF Late
  <2>5. VerifyInv' /\ PosInv'
    BY <1>1, <1>2, <1>3, <1>5, <2>1 DEF PosInv, VerifyInv
  <2>6. OutputInv'
    BY <1>3, <1>5, DiskStays
  <2>7. QED
    BY <1>3, <2>2, <2>3, <2>4, <2>5, <2>6 DEF DecryptInv
<1>6. QED
  BY <1>4, <1>5 DEF AllocHmacData

LEMMA VerifyReadInv ==
  ASSUME DecryptInv, VerifyRead PROVE DecryptInv'
<1>1. /\ pc = "verify_read" /\ held = {"input", "ctx", "chunk_buf", "hmac_data"}
      /\ DataTypes /\ IsFile(file) /\ ControlTypes /\ EncryptedSize > 0
      /\ hmacData = SubSeq(file, 1, pos)
      /\ pos + remaining = HeaderWidth + EncryptedSize
  BY DEF DecryptInv, VerifyRead, HeldByPlace, VerifyInv, MeasureInv, Measured, Running
<1>2. UNCHANGED <<inputVars, unnoticed, headerVars, prev, out, exitVars>>
  BY DEF VerifyRead
<1>3. IsFile(file)' /\ UNCHANGED inputVars /\ file' = file /\ Len(file) \in Nat
      /\ file \in Seq(FileCells)
      /\ EncryptedSize' = EncryptedSize /\ EncryptedSize \in Int
      /\ pos \in Nat /\ pos <= Len(file) /\ remaining \in Nat
  BY <1>1, <1>2, FileStays, FileType, Widths DEF EncryptedSize, DataTypes
<1>4. /\ pc' \in {"verify_read", "check_mac"}
      /\ \E n \in Nat : /\ n <= Len(file) /\ hmacData' = SubSeq(file, 1, n)
                        /\ pos' = n /\ remaining' \in Nat /\ n + remaining' = pos + remaining
  <2>1. CASE remaining = 0 /\ pc' = "check_mac" /\ UNCHANGED <<hmacData, pos, remaining>>
    BY <1>1, <1>3, <2>1
  <2>2. ASSUME remaining > 0, NEW got \in Fread(Smaller(remaining, StreamChunk), "read"),
               hmacData' = hmacData \o got, pos' = pos + Len(got),
               remaining' = remaining - Len(got),
               pc' = IF got = <<>> THEN "check_mac" ELSE "verify_read"
        PROVE  /\ pc' \in {"verify_read", "check_mac"}
               /\ \E n \in Nat :
                    /\ n <= Len(file) /\ hmacData' = SubSeq(file, 1, n)
                    /\ pos' = n /\ remaining' \in Nat /\ n + remaining' = pos + remaining
    <3>1. Smaller(remaining, StreamChunk) \in Nat /\ Smaller(remaining, StreamChunk) <= remaining
      BY <1>3, Widths DEF Smaller
    <3>2. /\ Len(got) \in Nat /\ Len(got) <= remaining /\ pos + Len(got) <= Len(file)
          /\ got = SubSeq(file, pos + 1, pos + Len(got))
      BY <1>1, <1>3, <3>1, FreadCells DEF DataTypes
    <3>3. PICK n \in Nat : n = Len(got)
      BY <3>2
    <3>4. pos + n \in Nat /\ pos <= pos + n /\ pos + n <= Len(file)
      BY <1>3, <3>2, <3>3
    <3>5. SubSeq(file, 1, pos) \o SubSeq(file, pos + 1, pos + n) = SubSeq(file, 1, pos + n)
      BY <1>3, <3>4, Joined
    <3>6. hmacData' = SubSeq(file, 1, pos + n)
      BY <1>1, <2>2, <3>2, <3>3, <3>5
    <3>7. pos' = pos + n /\ remaining' \in Nat /\ pos + n + remaining' = pos + remaining
      BY <1>3, <2>2, <3>2, <3>3
    <3>8. pc' \in {"verify_read", "check_mac"}
      BY <2>2
    <3>9. QED
      BY <3>4, <3>6, <3>7, <3>8
  <2>3. QED
    BY <2>1, <2>2 DEF VerifyRead
<1>5. PICK n \in Nat : /\ n <= Len(file) /\ hmacData' = SubSeq(file, 1, n)
                       /\ pos' = n /\ remaining' \in Nat /\ n + remaining' = pos + remaining
  BY <1>4
<1>6. DataTypes'
  <2>1. n <= Len(file) /\ 1 <= n + 1
    BY <1>5
  <2>2. Len(SubSeq(file, 1, n)) = n - 1 + 1
    BY <1>3, <2>1, Slice
  <2>3. Len(hmacData') = n
    BY <1>5, <2>2
  <2>4. Len(hmacData') <= HeaderWidth + EncryptedSize
    <3>1. n \in Nat /\ remaining' \in Nat /\ n + remaining' = pos + remaining
      BY <1>5
    <3>2. n <= n + remaining'
      <4>1. \A a, b \in Nat : a <= a + b
        OBVIOUS
      <4>2. QED
        BY <3>1, <4>1
    <3>3. QED
      BY <1>1, <2>3, <3>1, <3>2
  <2>5. pos' \in 0 .. Len(file)
    BY <1>3, <1>5
  <2>6. remaining' \in Nat /\ EncryptedSize' = EncryptedSize
    BY <1>3, <1>5
  <2>7. QED
    BY <1>1, <1>2, <2>4, <2>5, <2>6 DEF DataTypes, OutIsSequence, inputVars, headerVars
<1>7. ControlTypes' /\ HeldByPlace'
  BY <1>1, <1>2, <1>4 DEF ControlTypes, HeldByPlace, Places, exitVars
<1>8. SizeInv' /\ SaltInv' /\ IvInv' /\ MeasureInv' /\ MacInv'
  BY <1>1, <1>2, <1>4, LateStep DEF Late
<1>9. VerifyInv' /\ PosInv'
  BY <1>1, <1>3, <1>4, <1>5 DEF VerifyInv, PosInv
<1>10. OutputInv'
  BY <1>2, <1>3, <1>4, DiskStays DEF exitVars
<1>11. QED
  BY <1>3, <1>6, <1>7, <1>8, <1>9, <1>10 DEF DecryptInv

-----------------------------------------------------------------------------
(* The comparison *)

LEMMA CellsAt ==
  ASSUME NEW kind, NEW value, NEW width \in Nat
  PROVE  /\ Cells(kind, value, width) \in Seq({<<kind, value, i>> : i \in 1 .. width})
         /\ Len(Cells(kind, value, width)) = width
         /\ \A i \in 1 .. width : Cells(kind, value, width)[i] = <<kind, value, i>>
BY DEF Cells

\* What is hashed when the reads have ended early contains memory nobody has
\* written; no MAC of the file is over such memory, so the comparison fails.
LEMMA ShortHashDiffers ==
  ASSUME IsFile(file), NEW n \in Nat, NEW m \in Nat \ {0}, n <= Len(file),
         MacWidth <= Len(file), NEW key,
         MacCells(key, SubSeq(file, 1, n) \o Cells("uninitialized", 0, m))
           = SubSeq(file, Len(file) - MacWidth + 1, Len(file))
  PROVE  FALSE
<1> DEFINE hashed == SubSeq(file, 1, n) \o Cells("uninitialized", 0, m)
           k      == Len(file) - MacWidth + 1
<1>0. MacCells(key, hashed) = SubSeq(file, k, Len(file))
  OBVIOUS
<1> HIDE DEF hashed
<1>1. file \in Seq(FileCells) /\ Len(file) \in Nat /\ DOMAIN file = 1 .. Len(file)
  BY FileType, LenProperties
<1>2. k \in Nat \ {0} /\ k <= Len(file) /\ k <= Len(file) + 1 /\ Len(file) - k + 1 = MacWidth
  BY <1>1, Widths DEF k
<1>3. SubSeq(file, k, Len(file))[1] = file[k]
  <2>1. 1 \in 1 .. Len(file) - k + 1
    BY <1>2, Widths
  <2>2. SubSeq(file, k, Len(file))[1] = file[k + 1 - 1]
    <3> HIDE DEF k
    <3>1. QED
      BY <1>1, <1>2, <2>1, Slice
  <2>3. QED
    BY <1>2, <2>2
<1>4. MacCells(key, hashed)[1] = <<"mac", [key |-> key, data |-> hashed], 1>>
  <2>1. 1 \in 1 .. MacWidth /\ MacWidth \in Nat
    BY Widths
  <2>2. QED
    BY <2>1, CellsAt DEF MacCells
<1>5. file[k] = <<"mac", [key |-> key, data |-> hashed], 1>>
  BY <1>0, <1>3, <1>4
<1>6. file[k][1] = "mac" /\ file[k][2].data = hashed
  BY <1>5
<1>7. k \in DOMAIN file
  BY <1>1, <1>2
<1>8. \A j \in DOMAIN hashed : hashed[j][1] # "uninitialized"
  BY <1>6, <1>7 DEF IsFile
<1>9. n + 1 \in DOMAIN hashed /\ hashed[n + 1] = <<"uninitialized", 0, 1>>
  <2> DEFINE S    == FileCells \cup {<<"uninitialized", 0, i>> : i \in 1 .. m}
             head == SubSeq(file, 1, n)
             tail == Cells("uninitialized", 0, m)
  <2>1. tail \in Seq(S) /\ Len(tail) = m /\ tail[1] = <<"uninitialized", 0, 1>>
    <3>1. /\ tail \in Seq({<<"uninitialized", 0, i>> : i \in 1 .. m}) /\ Len(tail) = m
          /\ \A i \in 1 .. m : tail[i] = <<"uninitialized", 0, i>>
      BY CellsAt
    <3>2. QED
      BY <3>1
  <2>2. head \in Seq(S) /\ Len(head) = n
    <3>1. 1 <= n + 1 /\ n - 1 + 1 = n
      OBVIOUS
    <3>2. SubSeq(file, 1, n) \in Seq(FileCells) /\ Len(SubSeq(file, 1, n)) = n
      BY <1>1, <3>1, Slice
    <3>3. QED
      BY <3>2
  <2> HIDE DEF S, head, tail
  <2>3. /\ Len(head \o tail) = Len(head) + Len(tail)
        /\ (head \o tail) \in Seq(S)
        /\ \A i \in 1 .. Len(head) + Len(tail) : (head \o tail)[i] =
             IF i <= Len(head) THEN head[i] ELSE tail[i - Len(head)]
    BY <2>1, <2>2, ConcatProperties
  <2>4. n + 1 \in 1 .. Len(head) + Len(tail) /\ ~(n + 1 <= Len(head))
    BY <2>1, <2>2
  <2>5. hashed = head \o tail
    BY DEF hashed, head, tail
  <2>6. DOMAIN hashed = 1 .. Len(head) + Len(tail)
    BY <2>3, <2>5, LenProperties
  <2>7. (head \o tail)[n + 1] = tail[(n + 1) - Len(head)]
    BY <2>3, <2>4
  <2>8. (n + 1) - Len(head) = 1
    BY <2>2
  <2>9. QED
    BY <2>1, <2>4, <2>5, <2>6, <2>7, <2>8
<1>10. QED
  BY <1>8, <1>9

\* The comparison succeeds only on a file that verifies.
LEMMA CheckedVerifies ==
  ASSUME DecryptInv, pc = "check_mac", MacCells(MacKey, HashedData) = storedMac
  PROVE  Verifies(file, password)
<1>1. /\ IsFile(file) /\ pos \in Nat /\ pos <= Len(file) /\ remaining \in Nat
      /\ EncryptedSize > 0 /\ EncryptedSize % BlockSize = 0
      /\ salt = SubSeq(file, SizeWidth + 1, SizeWidth + SaltWidth)
      /\ storedMac = SubSeq(file, Len(file) - MacWidth + 1, Len(file))
      /\ hmacData = SubSeq(file, 1, pos)
      /\ pos + remaining = HeaderWidth + EncryptedSize
  <2>1. Len(file) \in Nat
    BY FileType DEF DecryptInv
  <2>2. QED
    BY <2>1 DEF DecryptInv, DataTypes, SaltInv, MeasureInv, MacInv, VerifyInv, Measured, Running, Over
<1>2. file \in Seq(FileCells) /\ Len(file) \in Nat
  BY <1>1, FileType
<1>3. pos + remaining = Len(file) - MacWidth /\ MacWidth <= Len(file)
  BY <1>1, <1>2, Widths DEF EncryptedSize
<1>4. Len(hmacData) = pos
  <2>1. 1 <= pos + 1 /\ pos - 1 + 1 = pos
    BY <1>1
  <2>2. QED
    BY <1>1, <1>2, <2>1, Slice
<1>5. HeaderWidth + EncryptedSize - Len(hmacData) = remaining
  <2>1. pos \in Nat /\ remaining \in Nat /\ HeaderWidth + EncryptedSize = pos + remaining
    BY <1>1
  <2>2. HeaderWidth \in Nat /\ EncryptedSize \in Int
    BY <1>2, Widths DEF EncryptedSize
  <2>3. QED
    BY <1>4, <2>1, <2>2
<1>6. HashedData = SubSeq(file, 1, pos) \o Cells("uninitialized", 0, remaining)
  BY <1>1, <1>5 DEF HashedData
<1>7. CASE remaining > 0
  <2>1. remaining \in Nat \ {0} /\ pos \in Nat /\ pos <= Len(file)
    BY <1>1, <1>7
  <2>2. MacCells(MacKey, SubSeq(file, 1, pos) \o Cells("uninitialized", 0, remaining))
          = SubSeq(file, Len(file) - MacWidth + 1, Len(file))
    BY <1>1, <1>6
  <2>3. QED
    BY <1>1, <1>3, <2>1, <2>2, ShortHashDiffers
<1>8. CASE remaining = 0
  <2>1. Cells("uninitialized", 0, 0) = <<>>
    BY DEF Cells
  <2>2. pos = Len(file) - MacWidth
    BY <1>1, <1>3, <1>8
  <2>3. SubSeq(file, 1, pos) \in Seq(FileCells)
    <3>1. 1 <= pos + 1
      BY <1>1
    <3>2. QED
      BY <1>1, <1>2, <3>1, Slice
  <2>4. HashedData = SubSeq(file, 1, pos)
    BY <1>6, <1>8, <2>1, <2>3, ConcatEmptySeq
  <2>5. QED
    BY <1>1, <2>2, <2>4 DEF Verifies, MacKey, EncryptedSize
<1>9. QED
  BY <1>1, <1>7, <1>8

LEMMA CheckMacInv ==
  ASSUME DecryptInv, CheckMac PROVE DecryptInv'
<1>1. /\ pc = "check_mac" /\ held = {"input", "ctx", "chunk_buf", "hmac_data"}
      /\ DataTypes /\ IsFile(file) /\ ControlTypes
  BY DEF DecryptInv, CheckMac, HeldByPlace
<1>2. UNCHANGED <<inputVars, unnoticed, headerVars, verifyVars, pos, remaining, prev, out>>
  BY DEF CheckMac
<1>3. DataTypes' /\ IsFile(file)' /\ pos' = pos /\ UNCHANGED inputVars
      /\ Verifies(file, password)' = Verifies(file, password)
  BY <1>1, <1>2, DataStays, FileStays
<1>4. CASE MacCells(MacKey, HashedData) # storedMac
  <2>1. Fail(out, {"hmac_data", "ctx", "chunk_buf", "input"})
    BY <1>4 DEF CheckMac
  <2>2. QED
    BY <1>1, <1>3, <2>1, FailingStep
<1>5. CASE MacCells(MacKey, HashedData) = storedMac
  <2>1. pc' = "open_output" /\ held' = held \ {"hmac_data"} /\ UNCHANGED <<result, disk>>
    BY <1>5 DEF CheckMac
  <2>2. Verifies(file, password)
    BY <1>1, <1>5, CheckedVerifies
  <2>3. ControlTypes' /\ HeldByPlace'
    BY <1>1, <2>1 DEF ControlTypes, HeldByPlace, Places, Resources
  <2>4. SizeInv' /\ SaltInv' /\ IvInv' /\ MeasureInv' /\ MacInv'
    BY <1>1, <1>2, <2>1, LateStep DEF Late
  <2>5. PosInv' /\ VerifyInv' /\ OutputInv'
    BY <1>3, <2>1, <2>2 DEF PosInv, VerifyInv, OutputInv
  <2>6. QED
    BY <1>3, <2>3, <2>4, <2>5 DEF DecryptInv
<1>6. QED
  BY <1>4, <1>5

-----------------------------------------------------------------------------
(* The decryption pass *)

\* Appending a sequence leaves a sequence.
LEMMA Grown ==
  ASSUME OutIsSequence, NEW T, NEW t \in Seq(T), out' = out \o t
  PROVE  OutIsSequence' /\ Len(out') \in Nat
<1>1. PICK S : out \in Seq(S)
  BY DEF OutIsSequence
<1>2. out \in Seq(S \cup T) /\ t \in Seq(S \cup T)
  BY <1>1
<1>3. out' \in Seq(S \cup T)
  BY <1>2, ConcatProperties
<1>4. QED
  BY <1>3, LenProperties DEF OutIsSequence

\* What decrypting some cells gives is a sequence.
LEMMA PlainIsSequence ==
  ASSUME NEW cells, Len(cells) \in Nat
  PROVE  \E T : PlainOf(cells) \in Seq(T)
<1> DEFINE n    == BlockSize * (Len(cells) \div BlockSize)
           f(j) == PlainAt(cells, ((j - 1) \div BlockSize) + 1)[((j - 1) % BlockSize) + 1]
<1>1. n \in Nat
  BY Widths
<1>2. PlainOf(cells) = [j \in 1 .. n |-> f(j)]
  BY DEF PlainOf
<1> HIDE DEF n, f
<1>3. [j \in 1 .. n |-> f(j)] \in Seq({f(j) : j \in 1 .. n})
  BY <1>1
<1>4. QED
  BY <1>2, <1>3

\* A slice of anything is a sequence.
LEMMA SliceIsSequence ==
  ASSUME NEW s, NEW n \in Int
  PROVE  /\ SubSeq(s, 1, n) \in Seq({s[i] : i \in 1 .. n})
         /\ Len(SubSeq(s, 1, n)) \in Nat
<1>1. SubSeq(s, 1, n) \in Seq({s[i] : i \in 1 .. n})
  BY SubSeqProperties
<1>2. QED
  BY <1>1, LenProperties

LEMMA OpenOutputInv ==
  ASSUME DecryptInv, OpenOutput PROVE DecryptInv'
<1>1. /\ pc = "open_output" /\ held = {"input", "ctx", "chunk_buf"}
      /\ DataTypes /\ IsFile(file) /\ ControlTypes
      /\ EncryptedSize > 0 /\ EncryptedSize % BlockSize = 0 /\ HeaderWidth <= Len(file)
      /\ Verifies(file, password)
  BY DEF DecryptInv, OpenOutput, HeldByPlace, MeasureInv, Measured, Running, IvInv, Over, OutputInv
<1>2. UNCHANGED <<inputVars, unnoticed, headerVars, verifyVars, out>>
  BY DEF OpenOutput
<1>3. IsFile(file)' /\ UNCHANGED inputVars /\ file' = file /\ Len(file) \in Nat
      /\ EncryptedSize' = EncryptedSize /\ EncryptedSize \in Int
      /\ Verifies(file, password)' = Verifies(file, password)
  BY <1>1, <1>2, FileStays, FileType, Widths DEF EncryptedSize
<1>4. CASE UNCHANGED <<prev, pos, remaining>> /\ Fail(out, {"ctx", "chunk_buf", "input"})
  <2>1. DataTypes'
    BY <1>1, <1>2, <1>4, DataStays
  <2>2. QED
    BY <1>1, <1>3, <1>4, <2>1, FailingStep
<1>5. CASE /\ pc' = "decrypt"
           /\ held' = held \cup {"output"}
           /\ pos' = HeaderWidth
           /\ remaining' = EncryptedSize - BlockSize
           /\ UNCHANGED result
  <2>1. remaining' \in Nat /\ pos' \in 0 .. Len(file)
    <3>1. EncryptedSize >= BlockSize
      BY <1>1, <1>3, WholeBlock
    <3>2. QED
      BY <1>1, <1>3, <1>5, <3>1, Widths
  <2>2. DataTypes'
    BY <1>1, <1>2, <1>3, <2>1
       DEF DataTypes, OutIsSequence, inputVars, headerVars, verifyVars
  <2>3. ControlTypes' /\ HeldByPlace'
    BY <1>1, <1>5 DEF ControlTypes, HeldByPlace, Places, Resources
  <2>4. SizeInv' /\ SaltInv' /\ IvInv' /\ MeasureInv' /\ MacInv'
    BY <1>1, <1>2, <1>5, LateStep DEF Late
  <2>5. PosInv' /\ VerifyInv' /\ OutputInv'
    BY <1>1, <1>3, <1>5 DEF PosInv, VerifyInv, OutputInv
  <2>6. QED
    BY <1>3, <2>2, <2>3, <2>4, <2>5 DEF DecryptInv
<1>6. QED
  BY <1>4, <1>5 DEF OpenOutput

\* A step of the decryption pass that stays in the pass needs its data only.
LEMMA DecryptingStep ==
  ASSUME DecryptInv, UNCHANGED <<inputVars, headerVars>>, DataTypes',
         pc \in {"decrypt", "last_block"}, pc' \in {"decrypt", "last_block", "close"},
         UNCHANGED exitVars
  PROVE  DecryptInv'
<1>1. UNCHANGED inputVars /\ result' = result /\ held' = held /\ disk' = disk
  BY DEF exitVars
<1>2. SizeInv' /\ SaltInv' /\ IvInv' /\ MeasureInv' /\ MacInv' /\ IsFile(file)'
  BY LateStep DEF Late
<1>3. ControlTypes' /\ HeldByPlace'
  BY <1>1 DEF DecryptInv, ControlTypes, HeldByPlace, Places
<1>4. PosInv' /\ VerifyInv'
  BY DEF PosInv, VerifyInv
<1>5. OutputInv'
  BY <1>1, DiskStays
<1>6. QED
  BY <1>2, <1>3, <1>4, <1>5 DEF DecryptInv

LEMMA DecryptChunkInv ==
  ASSUME DecryptInv, DecryptChunk PROVE DecryptInv'
<1>1. /\ pc = "decrypt" /\ held = {"input", "ctx", "chunk_buf", "output"}
      /\ DataTypes /\ IsFile(file) /\ pos \in 0 .. Len(file) /\ remaining \in Nat
  BY DEF DecryptInv, DecryptChunk, HeldByPlace, DataTypes
<1>2. PICK got \in Fread(Smaller(remaining, StreamChunk), "reread") :
        /\ pos' = pos + Len(got)
        /\ unnoticed' = (unnoticed \/ Len(got) < Smaller(remaining, StreamChunk))
        /\ \/ Continue("last_block") /\ UNCHANGED <<remaining, out>>
           \/ /\ out' = out \o PlainOf(got)
              /\ remaining' = remaining - Len(got)
              /\ Continue("decrypt")
           \/ /\ UNCHANGED <<out, remaining>>
              /\ Fail(AllButLast(out \o PlainOf(got)), {"ctx", "chunk_buf", "input", "output"})
  BY DEF DecryptChunk
<1>3. UNCHANGED <<inputVars, headerVars, verifyVars>>
  BY DEF DecryptChunk
<1>4. Len(got) \in Nat /\ Len(got) <= remaining /\ pos + Len(got) <= Len(file)
  <2>1. Smaller(remaining, StreamChunk) \in Nat /\ Smaller(remaining, StreamChunk) <= remaining
    BY <1>1, Widths DEF Smaller
  <2>2. QED
    BY <1>1, <2>1, FreadCells
<1>5. /\ remaining' \in Nat /\ pos' \in 0 .. Len(file)' /\ unnoticed' \in BOOLEAN
      /\ EncryptedSize' = EncryptedSize /\ UNCHANGED inputVars
  <2>1. remaining' \in Nat
    BY <1>1, <1>2, <1>4
  <2>2. pos' \in 0 .. Len(file)
    BY <1>1, <1>2, <1>4, FileType
  <2>3. unnoticed' \in BOOLEAN
    BY <1>2
  <2>4. QED
    BY <1>3, <2>1, <2>2, <2>3, FileStays
<1>6. OutIsSequence' /\ Len(out') \in Nat
  <2>1. CASE out' = out
    BY <1>1, <2>1 DEF DataTypes, OutIsSequence
  <2>2. CASE out' = out \o PlainOf(got)
    <3>1. PICK T : PlainOf(got) \in Seq(T)
      BY <1>4, PlainIsSequence
    <3>2. QED
      BY <1>1, <2>2, <3>1, Grown DEF DataTypes
  <2>3. QED
    BY <1>2, <2>1, <2>2
<1>7. DataTypes'
  BY <1>1, <1>3, <1>5, <1>6 DEF DataTypes, inputVars, headerVars, verifyVars
<1>8. CASE Fail(AllButLast(out \o PlainOf(got)), {"ctx", "chunk_buf", "input", "output"})
  BY <1>1, <1>5, <1>7, <1>8, FailingStep
<1>9. CASE pc' \in {"decrypt", "last_block"} /\ UNCHANGED exitVars
  BY <1>1, <1>3, <1>7, <1>9, DecryptingStep
<1>10. QED
  BY <1>2, <1>8, <1>9 DEF Continue

LEMMA DecryptEndInv ==
  ASSUME DecryptInv, DecryptEnd PROVE DecryptInv'
<1>1. pc = "decrypt" /\ pc' = "last_block" /\ UNCHANGED exitVars /\ DataTypes
  BY DEF DecryptInv, DecryptEnd, Continue
<1>2. UNCHANGED <<inputVars, unnoticed, headerVars, verifyVars, pos, remaining, prev, out>>
  BY DEF DecryptEnd
<1>3. DataTypes'
  BY <1>1, <1>2, DataStays
<1>4. QED
  BY <1>1, <1>2, <1>3, DecryptingStep

\* The declared size is a number, so the clamped length is one.
LEMMA ClampType ==
  ASSUME DecryptInv, pc = "last_block", NEW length \in Nat
  PROVE  Clamp(length) \in Int
<1>1. SizeWidth <= Len(file) /\ sizeBytes = SubSeq(file, 1, SizeWidth) /\ IsFile(file)
  BY DEF DecryptInv, SizeInv, Over
<1>2. OriginalSize \in Nat
  BY <1>1, Widths, FileType DEF IsFile, OriginalSize
<1>3. Len(out) \in Nat
  BY DEF DecryptInv, DataTypes
<1>4. QED
  BY <1>2, <1>3 DEF Clamp, Smaller

\* What the last block adds to the output, and how the function goes on.
LEMMA WriteLastTypes ==
  ASSUME DecryptInv, pc = "last_block", NEW plain, Len(plain) \in Nat, WriteLast(plain)
  PROVE  /\ OutIsSequence' /\ Len(out') \in Nat
         /\ \/ Continue("close")
            \/ \E given : Fail(given, {"ctx", "chunk_buf", "input", "output"})
<1> DEFINE written == SubSeq(plain, 1, Clamp(Len(plain)))
<1>1. OutIsSequence /\ Len(out) \in Nat
  BY DEF DecryptInv, DataTypes
<1>2. \E T : written \in Seq(T)
  BY ClampType, SliceIsSequence
<1> HIDE DEF written
<1>3. \/ out' = out \o written /\ Continue("close")
      \/ out' = out /\ Fail(AllButLast(out \o written), {"ctx", "chunk_buf", "input", "output"})
  BY DEF WriteLast, written
<1>4. CASE out' = out \o written /\ Continue("close")
  BY <1>1, <1>2, <1>4, Grown
<1>5. CASE out' = out /\ Fail(AllButLast(out \o written), {"ctx", "chunk_buf", "input", "output"})
  BY <1>1, <1>5 DEF OutIsSequence
<1>6. QED
  BY <1>3, <1>4, <1>5

LEMMA LastBlockInv ==
  ASSUME DecryptInv, LastBlock PROVE DecryptInv'
<1>1. /\ pc = "last_block" /\ held = {"input", "ctx", "chunk_buf", "output"}
      /\ DataTypes /\ IsFile(file) /\ pos \in 0 .. Len(file)
      /\ OutIsSequence /\ Len(out) \in Nat
  BY DEF DecryptInv, LastBlock, HeldByPlace, DataTypes
<1>2. UNCHANGED <<inputVars, headerVars, verifyVars, remaining>>
  BY DEF LastBlock
<1>3. PICK got \in Fread(BlockSize, "reread") :
        /\ pos' = pos + Len(got)
        /\ unnoticed' = (unnoticed \/ Len(got) < BlockSize)
        /\ \/ NoLastBlock
           \/ /\ PaddingIsValid(PlainOf(got))
              /\ WriteLast(RemovePadding(PlainOf(got)))
           \/ \E n \in 0 .. BlockSize - 1 : WriteLast(SubSeq(Junk, 1, n))
           \/ out' = out /\ Fail(out, {"ctx", "chunk_buf", "input", "output"})
  BY DEF LastBlock
<1>4. Len(got) \in Nat /\ pos + Len(got) <= Len(file)
  BY <1>1, Widths, FreadCells
<1>5. /\ pos' \in 0 .. Len(file)' /\ unnoticed' \in BOOLEAN
      /\ EncryptedSize' = EncryptedSize /\ UNCHANGED inputVars
  <2>1. pos' \in 0 .. Len(file)
    BY <1>1, <1>3, <1>4, FileType
  <2>2. unnoticed' \in BOOLEAN
    BY <1>3
  <2>3. QED
    BY <1>2, <2>1, <2>2, FileStays
<1>6. /\ OutIsSequence' /\ Len(out') \in Nat
      /\ \/ Continue("close")
         \/ \E given : Fail(given, {"ctx", "chunk_buf", "input", "output"})
  <2>1. CASE NoLastBlock
    BY <1>1, <2>1 DEF NoLastBlock, OutIsSequence
  <2>2. CASE PaddingIsValid(PlainOf(got)) /\ WriteLast(RemovePadding(PlainOf(got)))
    <3>1. BlockSize - PlainOf(got)[BlockSize] \in Int
      BY <2>2, Widths DEF PaddingIsValid
    <3>2. Len(RemovePadding(PlainOf(got))) \in Nat
      BY <3>1, SliceIsSequence DEF RemovePadding
    <3>3. QED
      BY <1>1, <2>2, <3>2, WriteLastTypes
  <2>3. CASE \E n \in 0 .. BlockSize - 1 : WriteLast(SubSeq(Junk, 1, n))
    <3>1. PICK n \in 0 .. BlockSize - 1 : WriteLast(SubSeq(Junk, 1, n))
      BY <2>3
    <3>2. Len(SubSeq(Junk, 1, n)) \in Nat
      BY <3>1, SliceIsSequence
    <3>3. QED
      BY <1>1, <3>1, <3>2, WriteLastTypes
  <2>4. CASE out' = out /\ Fail(out, {"ctx", "chunk_buf", "input", "output"})
    BY <1>1, <2>4 DEF OutIsSequence
  <2>5. QED
    BY <1>3, <2>1, <2>2, <2>3, <2>4
<1>7. DataTypes'
  BY <1>1, <1>2, <1>5, <1>6 DEF DataTypes, inputVars, headerVars, verifyVars
<1>8. CASE \E given : Fail(given, {"ctx", "chunk_buf", "input", "output"})
  BY <1>1, <1>5, <1>7, <1>8, FailingStep
<1>9. CASE Continue("close")
  BY <1>1, <1>2, <1>7, <1>9, DecryptingStep DEF Continue
<1>10. QED
  BY <1>6, <1>8, <1>9

-----------------------------------------------------------------------------
(* The end of the process *)

LEMMA CloseAndReturnInv ==
  ASSUME DecryptInv, CloseAndReturn PROVE DecryptInv'
<1>1. pc = "close" /\ DataTypes /\ held = {"input", "ctx", "chunk_buf", "output"}
  BY DEF DecryptInv, CloseAndReturn, HeldByPlace
<1>2. UNCHANGED <<inputVars, headerVars, verifyVars, pos, remaining, prev, out>>
  BY DEF CloseAndReturn
<1>3. pc' = "done" /\ result' = "0" /\ held' = {}
  BY <1>1 DEF CloseAndReturn, Return
<1>4. unnoticed' \in BOOLEAN
  BY DEF CloseAndReturn
<1>5. DataTypes'
  BY <1>1, <1>2, <1>4, FileStays
     DEF DataTypes, OutIsSequence, inputVars, headerVars, verifyVars
<1>6. ControlTypes'
  BY <1>3 DEF ControlTypes, Places
<1>7. QED
  BY <1>1, <1>2, <1>3, <1>5, <1>6, EndingStep DEF Over

LEMMA CrashInv ==
  ASSUME DecryptInv, Crash PROVE DecryptInv'
<1>1. DataTypes /\ ControlTypes /\ HeldByPlace
  BY DEF DecryptInv
<1>2. UNCHANGED <<inputVars, unnoticed, headerVars, verifyVars, pos, remaining, prev, out>>
  BY DEF Crash
<1>3. pc' = "crashed" /\ held' = {} /\ UNCHANGED result
  BY DEF Crash
<1>4. DataTypes'
  BY <1>1, <1>2, DataStays
<1>5. ControlTypes'
  BY <1>1, <1>3 DEF ControlTypes, Places
<1>6. disk' # NoFile => disk # NoFile \/ pc \in {"decrypt", "last_block", "close"}
  <2>1. CASE "output" \in held
    BY <1>1, <2>1 DEF HeldByPlace, ControlTypes, Places
  <2>2. CASE "output" \notin held
    BY <2>2 DEF Crash
  <2>3. QED
    BY <2>1, <2>2
<1>7. QED
  BY <1>2, <1>3, <1>4, <1>5, <1>6, EndingStep DEF Over

LEMMA StutterInv ==
  ASSUME DecryptInv, UNCHANGED vars PROVE DecryptInv'
<1>1. UNCHANGED <<inputVars, unnoticed, headerVars, verifyVars, pos, remaining, prev, out>>
      /\ UNCHANGED <<pc, result, held, disk>>
  BY DEF vars, exitVars
<1>2. DataTypes' /\ IsFile(file)' /\ file' = file /\ EncryptedSize' = EncryptedSize
      /\ Verifies(file, password)' = Verifies(file, password)
  BY <1>1, DataStays, FileStays DEF DecryptInv
<1>3. ControlTypes' /\ HeldByPlace' /\ PosInv' /\ OutputInv'
  BY <1>1, <1>2 DEF DecryptInv, ControlTypes, HeldByPlace, PosInv, OutputInv
<1>4. SizeInv' /\ SaltInv' /\ IvInv'
  BY <1>1, <1>2 DEF DecryptInv, SizeInv, SaltInv, IvInv, headerVars
<1>5. MeasureInv' /\ MacInv' /\ VerifyInv'
  BY <1>1, <1>2 DEF DecryptInv, MeasureInv, Measured, Running, MacInv, VerifyInv, headerVars,
                    verifyVars
<1>6. QED
  BY <1>2, <1>3, <1>4, <1>5 DEF DecryptInv

\* A process about to call the function on a file meets the invariant.
LEMMA ReadyInv == Ready /\ password \in Passwords /\ IsFile(file) => DecryptInv
<1>1. SUFFICES ASSUME Ready, password \in Passwords, IsFile(file) PROVE DecryptInv
  OBVIOUS
<1>2. IsFile(file) /\ password \in Passwords /\ Ready
  BY <1>1
<1>3. Len(file) \in Nat
  BY <1>2, FileType
<1>4. ControlTypes /\ HeldByPlace
  <2>1. pc = "open_input" /\ result = "none" /\ held = {}
    BY <1>2 DEF Ready
  <2>2. QED
    BY <2>1 DEF ControlTypes, Places, HeldByPlace
<1>5. DataTypes
  <2>1. /\ pos = 0 /\ remaining = 0 /\ hmacData = <<>> /\ unnoticed = FALSE
        /\ sizeBytes = <<>> /\ salt = <<>> /\ iv = <<>> /\ storedMac = <<>> /\ out = <<>>
    BY <1>2 DEF Ready
  <2>2. <<>> \in Seq({}) /\ Len(<<>>) = 0
    OBVIOUS
  <2>3. OutIsSequence
    BY <2>1, <2>2 DEF OutIsSequence
  <2>4. 0 <= SizeWidth /\ 0 <= SaltWidth /\ 0 <= BlockSize /\ 0 \in 0 .. Len(file)
    BY <1>3, Widths
  <2>5. QED
    BY <1>2, <2>1, <2>2, <2>3, <2>4 DEF DataTypes
<1>6. SizeInv /\ SaltInv /\ IvInv /\ MeasureInv /\ MacInv /\ VerifyInv
  BY <1>2 DEF Ready, SizeInv, SaltInv, IvInv, MeasureInv, MacInv, VerifyInv, Measured
<1>7. PosInv /\ OutputInv
  BY <1>2 DEF Ready, PosInv, OutputInv
<1>8. QED
  BY <1>2, <1>4, <1>5, <1>6, <1>7 DEF DecryptInv

LEMMA InitInv == Init => DecryptInv
BY ReadyInv, FilesAssumption DEF Init

LEMMA NextInv == DecryptInv /\ [Next]_vars => DecryptInv'
<1>1. SUFFICES ASSUME DecryptInv, [Next]_vars PROVE DecryptInv'
  OBVIOUS
<1>2. CASE OpenInput \/ ReadSize \/ ReadSalt \/ ReadIv
  BY <1>1, <1>2, OpenInputInv, ReadSizeInv, ReadSaltInv, ReadIvInv
<1>3. CASE Measure \/ ReadMac \/ AllocChunk
  BY <1>1, <1>3, MeasureStepInv, ReadMacInv, AllocChunkInv
<1>4. CASE AllocHmacData \/ VerifyRead \/ CheckMac
  BY <1>1, <1>4, AllocHmacDataInv, VerifyReadInv, CheckMacInv
<1>5. CASE OpenOutput \/ DecryptChunk \/ DecryptEnd \/ LastBlock
  BY <1>1, <1>5, OpenOutputInv, DecryptChunkInv, DecryptEndInv, LastBlockInv
<1>6. CASE CloseAndReturn \/ Crash
  BY <1>1, <1>6, CloseAndReturnInv, CrashInv
<1>7. CASE Ended \/ UNCHANGED vars
  BY <1>1, <1>7, StutterInv DEF Ended
<1>8. QED
  BY <1>1, <1>2, <1>3, <1>4, <1>5, <1>6, <1>7 DEF Next, Step

-----------------------------------------------------------------------------
(* The theorems *)

LEMMA Invariance == Spec => []DecryptInv
BY InitInv, NextInv, PTL DEF Spec

\* The variables keep their types: hmac_data is never filled past its allocation,
\* no loop counter goes below zero (cipher.c:329-354, 418).
THEOREM DecryptTypes == Spec => []TypeOK
<1>1. DecryptInv => TypeOK
  BY DEF DecryptInv, ControlTypes, DataTypes, TypeOK
<1>2. QED
  BY <1>1, Invariance, PTL

\* Every exit has closed the streams, freed the buffers and wiped the key context
\* (cipher.c:265-465).
THEOREM DecryptReleases == Spec => []ReleasedOnReturn
<1>1. DecryptInv => ReleasedOnReturn
  BY DEF DecryptInv, HeldByPlace, ReleasedOnReturn
<1>2. QED
  BY <1>1, Invariance, PTL

\* The output path is touched only for a file whose MAC verifies under the
\* password, whatever read stops short and wherever the process dies
\* (cipher.c:364-374).
THEOREM DecryptVerifiesFirst == Spec => []NoOutputBeforeVerify
<1>1. DecryptInv => NoOutputBeforeVerify
  BY DEF DecryptInv, OutputInv, NoOutputBeforeVerify
<1>2. QED
  BY <1>1, Invariance, PTL


-----------------------------------------------------------------------------
(* The chain of a padded text, link by link *)

\* The chain of a text, and the chain after j blocks of a padded one.
ChainOver(key, start, text) == [key |-> key, iv |-> start, plain |-> text]

Link(padded, key, start, j) == ChainOver(key, start, SubSeq(padded, 1, BlockSize * j))

\* A slice of the first cells is a slice of the whole.
LEMMA SliceOfFirst ==
  ASSUME NEW S, NEW s \in Seq(S), NEW m \in Nat \ {0}, NEW n \in Nat, NEW l \in Nat,
         n <= l, l <= Len(s), m <= n + 1
  PROVE  SubSeq(SubSeq(s, 1, l), m, n) = SubSeq(s, m, n)
<1>1. /\ SubSeq(s, 1, l) \in Seq(S) /\ Len(SubSeq(s, 1, l)) = l
      /\ \A i \in 1 .. l : SubSeq(s, 1, l)[i] = s[i]
  <2>1. /\ SubSeq(s, 1, l) \in Seq(S) /\ Len(SubSeq(s, 1, l)) = l - 1 + 1
        /\ \A i \in 1 .. l - 1 + 1 : SubSeq(s, 1, l)[i] = s[1 + i - 1]
    BY Slice
  <2>2. QED
    BY <2>1
<1> DEFINE first == SubSeq(s, 1, l)
           a     == SubSeq(first, m, n)
           b     == SubSeq(s, m, n)
<1>2. /\ a \in Seq(S) /\ Len(a) = n - m + 1
      /\ \A i \in 1 .. n - m + 1 : a[i] = first[m + i - 1]
  <2> HIDE DEF first
  <2>1. QED
    BY <1>1, Slice DEF first
<1>3. /\ b \in Seq(S) /\ Len(b) = n - m + 1
      /\ \A i \in 1 .. n - m + 1 : b[i] = s[m + i - 1]
  BY <1>1, Slice
<1> HIDE DEF a, b
<1>4. \A i \in 1 .. n - m + 1 : m + i - 1 \in 1 .. l
  OBVIOUS
<1>5. \A i \in 1 .. n - m + 1 : a[i] = b[i]
  BY <1>1, <1>2, <1>3, <1>4
<1>6. IsSequence(a) /\ IsSequence(b)
  BY <1>2, <1>3, SequenceIs
<1>7. a = b
  BY <1>2, <1>3, <1>5, <1>6, SameCells
<1>8. QED
  BY <1>7 DEF a, b

\* A block after a link makes a longer one.
LEMMA ExtendedLink ==
  ASSUME NEW key, NEW start, NEW x, NEW y
  PROVE  CbcEncryptBlock(ChainOver(key, start, x), y) = ChainOver(key, start, x \o y)
<1> DEFINE link == [key |-> key, iv |-> start, plain |-> x]
<1>1. \A z : [link EXCEPT !.plain = z] = [key |-> key, iv |-> start, plain |-> z]
  OBVIOUS
<1>2. link.plain = x
  OBVIOUS
<1> HIDE DEF link
<1>3. CbcEncryptBlock(link, y) = [link EXCEPT !.plain = link.plain \o y]
  BY DEF CbcEncryptBlock
<1>4. CbcEncryptBlock(link, y) = [key |-> key, iv |-> start, plain |-> link.plain \o y]
  BY <1>1, <1>3, Zenon
<1>5. QED
  BY <1>2, <1>4, Zenon DEF link, ChainOver

\* A slice from the start of a slice.
LEMMA SliceOfSlice ==
  ASSUME NEW S, NEW s \in Seq(S), NEW a \in Nat, NEW b \in Nat, NEW n \in Nat,
         a + n <= b, b <= Len(s)
  PROVE  SubSeq(SubSeq(s, a + 1, b), 1, n) = SubSeq(s, a + 1, a + n)
<1> DEFINE whole == SubSeq(s, a + 1, b)
           x     == SubSeq(whole, 1, n)
           y     == SubSeq(s, a + 1, a + n)
<1>1. /\ a + 1 \in Nat \ {0} /\ a + 1 <= b + 1 /\ b - (a + 1) + 1 = b - a
      /\ a + n \in Nat /\ a + 1 <= (a + n) + 1 /\ (a + n) - (a + 1) + 1 = n
      /\ 1 \in Nat \ {0} /\ 1 <= n + 1 /\ n - 1 + 1 = n /\ n <= b - a
  OBVIOUS
<1>2. a + n <= Len(s)
  BY LenProperties
<1>3. /\ whole \in Seq(S) /\ Len(whole) = b - (a + 1) + 1
      /\ \A i \in 1 .. b - (a + 1) + 1 : whole[i] = s[(a + 1) + i - 1]
  BY <1>1, Slice
<1>4. /\ y \in Seq(S) /\ Len(y) = (a + n) - (a + 1) + 1
      /\ \A i \in 1 .. (a + n) - (a + 1) + 1 : y[i] = s[(a + 1) + i - 1]
  BY <1>1, <1>2, Slice
<1> HIDE DEF whole, y
<1>5. n <= Len(whole)
  BY <1>1, <1>3
<1>6. /\ x \in Seq(S) /\ Len(x) = n - 1 + 1
      /\ \A i \in 1 .. n - 1 + 1 : x[i] = whole[1 + i - 1]
  BY <1>1, <1>3, <1>5, Slice
<1> HIDE DEF x
<1>7. ASSUME NEW i \in 1 .. n PROVE x[i] = y[i]
  <2>1. /\ i \in 1 .. n - 1 + 1 /\ i \in 1 .. b - (a + 1) + 1
        /\ i \in 1 .. (a + n) - (a + 1) + 1 /\ 1 + i - 1 = i
    BY <1>1
  <2>2. x[i] = whole[i]
    BY <1>6, <2>1
  <2>3. QED
    BY <1>3, <1>4, <2>1, <2>2
<1>8. Len(x) = n /\ Len(y) = n /\ IsSequence(x) /\ IsSequence(y)
  BY <1>1, <1>4, <1>6, SequenceIs
<1>9. x = y
  BY <1>7, <1>8, SameCells
<1>10. QED
  BY <1>9 DEF x, y, whole

\* What is left of a text and of a size after the same number of cells.
LEMMA Clamping ==
  ASSUME NEW size \in Nat, NEW length \in Nat, NEW a \in Nat, a <= size, a <= length
  PROVE  /\ Smaller(length - a, size - a) \in Nat
         /\ Smaller(length - a, size - a) <= length - a
         /\ a + Smaller(length - a, size - a) = Smaller(size, length)
BY DEF Smaller

\* Decrypting a link in its place gives its block of the text.
LEMMA NextLink ==
  ASSUME NEW S, NEW padded \in Seq(S), NEW key, NEW start, NEW j \in Nat,
         BlockSize * (j + 1) <= Len(padded)
  PROVE  CbcDecryptBlock(key, Link(padded, key, start, j), Link(padded, key, start, j + 1))
           = SubSeq(padded, BlockSize * j + 1, BlockSize * (j + 1))
<1> DEFINE a     == BlockSize * j
           b     == BlockSize * (j + 1)
           plain == SubSeq(padded, a + 1, b)
<1>1. BlockSize \in Nat \ {0} /\ Len(padded) \in Nat
  BY Widths, LenProperties
<1>2. a \in Nat /\ b \in Nat /\ b = a + BlockSize /\ b <= Len(padded)
  BY <1>1
<1>3. /\ Link(padded, key, start, j) = ChainOver(key, start, SubSeq(padded, 1, a))
      /\ Link(padded, key, start, j + 1) = ChainOver(key, start, SubSeq(padded, 1, b))
  BY DEF Link
<1> HIDE DEF a, b
<1>4. Len(SubSeq(padded, 1, b)) = b
  <2>1. Len(SubSeq(padded, 1, b)) = b - 1 + 1
    BY <1>2, Slice
  <2>2. QED
    BY <1>2, <2>1
<1>5. SubSeq(SubSeq(padded, 1, b), a + 1, b) = plain
  BY <1>2, SliceOfFirst
<1>6. SubSeq(padded, 1, a) \o plain = SubSeq(padded, 1, b)
  BY <1>1, <1>2, Joined
<1>7. b - BlockSize + 1 = a + 1 /\ b >= BlockSize
  BY <1>1, <1>2
<1> HIDE DEF plain
<1> DEFINE x    == SubSeq(padded, 1, a)
           y    == SubSeq(padded, 1, b)
           last == Link(padded, key, start, j + 1)
<1>a. /\ Link(padded, key, start, j) = ChainOver(key, start, x)
      /\ last = ChainOver(key, start, y)
      /\ x \o plain = y /\ Len(y) = b /\ SubSeq(y, a + 1, b) = plain
  BY <1>3, <1>4, <1>5, <1>6
<1> HIDE DEF x, y, last
<1>8. CbcEncryptBlock(Link(padded, key, start, j), plain) = last
  <2>1. CbcEncryptBlock(ChainOver(key, start, x), plain)
          = ChainOver(key, start, x \o plain)
    BY ExtendedLink
  <2>2. QED
    BY <1>a, <2>1
<1>b. last.key = key /\ last.plain = y
  BY <1>a DEF ChainOver
<1>9. last.key = key /\ Len(last.plain) = b /\ SubSeq(last.plain, a + 1, b) = plain
  BY <1>a, <1>b, Zenon
<1>10. SubSeq(last.plain, Len(last.plain) - BlockSize + 1, Len(last.plain)) = plain
  BY <1>7, <1>9
<1>11. last = CbcEncryptBlock(Link(padded, key, start, j), plain)
  BY <1>8
<1>12. CbcDecryptBlock(key, Link(padded, key, start, j), last) = plain
  <2>1. Len(last.plain) >= BlockSize
    BY <1>7, <1>9
  <2>2. QED
    BY <1>9, <1>10, <1>11, <2>1, Zenon DEF CbcDecryptBlock
<1>13. QED
  BY <1>12 DEF a, b, plain, last

\* The cells of a block, and reading the block back from them.
LEMMA CellsOfBlock ==
  ASSUME NEW block
  PROVE  /\ IsSequence(BlockCells(block)) /\ Len(BlockCells(block)) = BlockSize
         /\ \A i \in 1 .. BlockSize : BlockCells(block)[i] = <<"cipher", block, i>>
         /\ IsBlock(BlockCells(block))
         /\ BlockCells(block)[1][2] = block
<1> DEFINE f == BlockCells(block)
<1>1. BlockSize \in Nat \ {0} /\ 1 \in 1 .. BlockSize
  BY Widths
<1>2. f = [i \in 1 .. BlockSize |-> f[i]] /\ \A i \in 1 .. BlockSize : f[i] = <<"cipher", block, i>>
  BY DEF BlockCells, Cells
<1> HIDE DEF f
<1>3. IsSequence(f) /\ Len(f) = BlockSize
  BY <1>1, <1>2, CellsOfFunction
<1>4. f[1][1] = "cipher" /\ f[1][2] = block
  BY <1>1, <1>2
<1>5. f = BlockCells(f[1][2])
  BY <1>4 DEF f
<1>6. IsBlock(f)
  BY <1>3, <1>4, <1>5 DEF IsBlock
<1>7. QED
  BY <1>2, <1>3, <1>4, <1>6 DEF f

-----------------------------------------------------------------------------
(* A file that verifies *)

PaddedText == Padded(SealedText)

\* Whole blocks of the text: the last block of the file, which holds the padding,
\* comes after them.
FullBlocks == Len(SealedText) \div BlockSize

\* The chain after k blocks.
ChainOf(k) == Link(PaddedText, EncKey, iv, k)

\* What the file is, once its MAC has verified.
Layout ==
  /\ SealedText \in Seq(Byte) /\ PaddedText \in Seq(Byte)
  /\ FullBlocks \in Nat
  /\ Len(SealedText) \in Nat
  /\ Len(SealedText) >= BlockSize * FullBlocks
  /\ Len(SealedText) < BlockSize * (FullBlocks + 1)
  /\ Len(PaddedText) = BlockSize * (FullBlocks + 1)
  /\ EncryptedSize = BlockSize * (FullBlocks + 1)
  /\ Len(file) = (HeaderWidth + EncryptedSize) + MacWidth
  /\ OriginalSize \in Nat
  /\ \A j \in 1 .. EncryptedSize :
       file[HeaderWidth + j]
         = <<"cipher", ChainOf(((j - 1) \div BlockSize) + 1), ((j - 1) % BlockSize) + 1>>

\* A file whose MAC, if it verifies, was made by the encryption.
Legitimate(f) ==
  IsFile(f) /\ \A p \in Passwords : Verifies(f, p) => IsSealed(f, p)

\* The header has been read and the MAC of the file verified.
Opened ==
  /\ Legitimate(file) /\ password \in Passwords /\ Verifies(file, password)
  /\ HeaderWidth <= Len(file)
  /\ sizeBytes = SubSeq(file, 1, SizeWidth)
  /\ salt = SubSeq(file, SizeWidth + 1, SizeWidth + SaltWidth)
  /\ iv = SubSeq(file, SizeWidth + SaltWidth + 1, HeaderWidth)

LEMMA OpenedLayout == ASSUME Opened PROVE Layout
<1> DEFINE text == SealedText
           size == SizeOf(SubSeq(file, 1, SizeWidth))
<1>1. /\ IsFile(file) /\ IsSealed(file, password)
      /\ file \in Seq(FileCells) /\ Len(file) \in Nat
  <2>1. IsFile(file) /\ IsSealed(file, password)
    BY DEF Opened, Legitimate
  <2>2. QED
    BY <2>1, FileType
<1>2. /\ text \in Seq(Byte)
      /\ file = Sealed(text, size, password, salt, iv)
      /\ OriginalSize = size
  BY <1>1 DEF IsSealed, Opened, SealedText, OriginalSize
<1>3. size \in Nat
  BY <1>1, Widths DEF IsFile, Opened
<1> HIDE DEF size
<1>4. IsSequence(salt) /\ Len(salt) = SaltWidth
  <2>1. /\ SizeWidth + 1 \in Nat \ {0} /\ SizeWidth + SaltWidth \in Nat
        /\ SizeWidth + SaltWidth <= Len(file) /\ SizeWidth + 1 <= SizeWidth + SaltWidth + 1
    BY Widths, <1>1 DEF Opened
  <2>2. salt \in Seq(FileCells) /\ Len(salt) = (SizeWidth + SaltWidth) - (SizeWidth + 1) + 1
    BY <1>1, <2>1, Slice DEF Opened
  <2>3. QED
    BY <2>2, SequenceIs, Widths
<1>5. IsSequence(iv) /\ Len(iv) = BlockSize
  <2>1. /\ SizeWidth + SaltWidth + 1 \in Nat \ {0} /\ HeaderWidth \in Nat
        /\ HeaderWidth <= Len(file) /\ SizeWidth + SaltWidth + 1 <= HeaderWidth + 1
    BY Widths, <1>1 DEF Opened
  <2>2. iv \in Seq(FileCells) /\ Len(iv) = HeaderWidth - (SizeWidth + SaltWidth + 1) + 1
    BY <1>1, <2>1, Slice DEF Opened
  <2>3. QED
    BY <2>2, SequenceIs, Widths
<1> DEFINE blocks == Chain(text, EncKey, iv)
           total  == BlockSize * ((Len(text) \div BlockSize) + 1)
<1>6. CiphertextLies(file, blocks, total)
  BY <1>2, <1>4, <1>5, SealedLayout DEF EncKey
<1>7. \A i \in 1 .. (Len(text) \div BlockSize) + 1 :
        blocks[i] = [key |-> EncKey, iv |-> iv, plain |-> SubSeq(Padded(text), 1, i * BlockSize)]
  BY <1>2, ChainShape
<1>8. /\ Len(text) \div BlockSize \in Nat /\ Len(text) % BlockSize \in Nat
      /\ Len(text) % BlockSize < BlockSize
      /\ Len(text) = BlockSize * (Len(text) \div BlockSize) + (Len(text) % BlockSize)
      /\ Padded(text) \in Seq(Byte)
      /\ Len(Padded(text)) = BlockSize * ((Len(text) \div BlockSize) + 1)
  BY <1>2, PaddedShape
<1> HIDE DEF blocks
<1>9. /\ FullBlocks = Len(text) \div BlockSize /\ PaddedText = Padded(text)
      /\ total = BlockSize * (FullBlocks + 1)
  BY DEF FullBlocks, PaddedText
<1> HIDE DEF text, total
<1>a. /\ Len(file) = HeaderWidth + total + MacWidth
      /\ \A j \in 1 .. total :
           file[HeaderWidth + j]
             = <<"cipher", blocks[((j - 1) \div BlockSize) + 1], ((j - 1) % BlockSize) + 1>>
  BY <1>6 DEF CiphertextLies
<1>10. total \in Nat /\ total = BlockSize * FullBlocks + BlockSize
  BY <1>8, <1>9, Widths
<1>11. EncryptedSize = total
  <2>1. HeaderWidth \in Nat /\ MacWidth \in Nat
    BY Widths
  <2>2. total \in Nat
    BY <1>10
  <2>3. Len(file) = HeaderWidth + total + MacWidth
    BY <1>a
  <2>4. QED
    BY <2>1, <2>2, <2>3 DEF EncryptedSize
<1>12. ASSUME NEW j \in 1 .. total
       PROVE  file[HeaderWidth + j]
                = <<"cipher", ChainOf(((j - 1) \div BlockSize) + 1), ((j - 1) % BlockSize) + 1>>
  <2>1. (j - 1) \div BlockSize \in 0 .. (FullBlocks + 1) - 1
    <3>1. FullBlocks + 1 \in Nat /\ j \in 1 .. BlockSize * (FullBlocks + 1)
      BY <1>8, <1>9
    <3>2. QED
      BY <3>1, Widths, CellPlace
  <2>2. ((j - 1) \div BlockSize) + 1 \in 1 .. FullBlocks + 1
    BY <1>8, <1>9, <2>1
  <2>3. ASSUME NEW i \in 1 .. FullBlocks + 1 PROVE blocks[i] = ChainOf(i)
    <3>1. i * BlockSize = BlockSize * i
      BY Widths
    <3>2. blocks[i] = [key |-> EncKey, iv |-> iv, plain |-> SubSeq(PaddedText, 1, i * BlockSize)]
      BY <1>7, <1>9
    <3>3. QED
      BY <3>1, <3>2 DEF ChainOf, Link, ChainOver
  <2>4. blocks[((j - 1) \div BlockSize) + 1] = ChainOf(((j - 1) \div BlockSize) + 1)
    BY <2>2, <2>3
  <2>5. QED
    BY <1>a, <2>4
<1>13. Len(text) \in Nat /\ Len(text) >= BlockSize * FullBlocks
       /\ Len(text) < BlockSize * (FullBlocks + 1)
  BY <1>8, <1>9, <1>10, Widths
<1>14. Len(file) = (HeaderWidth + EncryptedSize) + MacWidth
  BY <1>a, <1>11
<1>15. QED
  BY <1>2, <1>3, <1>8, <1>9, <1>11, <1>12, <1>13, <1>14 DEF Layout, text

-----------------------------------------------------------------------------
(* Whole blocks read in their place *)

\* Places of a run of whole blocks.
LEMMA BlockPlaces ==
  ASSUME NEW B \in Nat \ {0}, NEW k \in Nat, NEW m \in Nat
  PROVE  /\ B * k \in Nat /\ B * m \in Nat /\ B * (k + m) = B * k + B * m
         /\ \A n \in Nat : k <= n => B * k <= B * n
<1>1. B * k \in Nat /\ B * m \in Nat /\ B * (k + m) = B * k + B * m
  OBVIOUS
<1>2. ASSUME NEW n \in Nat, k <= n PROVE B * k <= B * n
  <2>1. n - k \in Nat /\ B * (n - k) \in Nat
    BY <1>2
  <2>2. B * n = B * k + B * (n - k)
    BY <1>2
  <2>3. QED
    BY <1>1, <2>1, <2>2
<1>3. QED
  BY <1>1, <1>2

\* The cells of the i-th block after the first k, and where its r-th cell is.
LEMMA CellOfBlock ==
  ASSUME Layout, NEW k \in Nat, k <= FullBlocks, NEW r \in 1 .. BlockSize
  PROVE  file[HeaderWidth + (BlockSize * k + r)] = <<"cipher", ChainOf(k + 1), r>>
<1> DEFINE j == BlockSize * k + r
<1>1. BlockSize \in Nat \ {0} /\ FullBlocks \in Nat /\ r \in Nat /\ r - 1 \in Nat /\ r - 1 < BlockSize
  BY Widths DEF Layout
<1>2. BlockSize * k \in Nat /\ BlockSize * k <= BlockSize * FullBlocks
  BY <1>1, BlockPlaces
<1>3. EncryptedSize = BlockSize * FullBlocks + BlockSize /\ BlockSize * FullBlocks \in Nat
  <2>1. BlockSize * (FullBlocks + 1) = BlockSize * FullBlocks + BlockSize * 1
        /\ BlockSize * FullBlocks \in Nat
    BY <1>1, BlockPlaces
  <2>2. QED
    BY <1>1, <2>1 DEF Layout
<1>4. j \in 1 .. EncryptedSize
  BY <1>1, <1>2, <1>3
<1>5. (j - 1) \div BlockSize = k /\ (j - 1) % BlockSize = r - 1
  <2>1. j - 1 = BlockSize * k + (r - 1)
    BY <1>1, <1>2
  <2>2. /\ (BlockSize * k + (r - 1)) \div BlockSize = k
        /\ (BlockSize * k + (r - 1)) % BlockSize = r - 1
    BY <1>1, DivMod
  <2> HIDE DEF j
  <2>3. QED
    BY <2>1, <2>2
<1> HIDE DEF j
<1>6. file[HeaderWidth + j]
        = <<"cipher", ChainOf(((j - 1) \div BlockSize) + 1), ((j - 1) % BlockSize) + 1>>
  BY <1>4 DEF Layout
<1>7. (r - 1) + 1 = r
  BY <1>1
<1>8. file[HeaderWidth + j] = <<"cipher", ChainOf(k + 1), r>>
  BY <1>5, <1>6, <1>7
<1>9. QED
  BY <1>8 DEF j

\* What a read of m whole blocks gives after k blocks.
GotBlocks(got, k, m) == got = SubSeq(file, pos + 1, pos + BlockSize * m)

AtBlock(k, m) ==
  /\ k \in Nat /\ m \in Nat /\ k + m <= FullBlocks + 1
  /\ pos = HeaderWidth + BlockSize * k
  /\ prev = ChainOf(k)

\* The read gives that many cells, those of the file.
LEMMA GotCells ==
  ASSUME Layout, IsFile(file), NEW k, NEW m, AtBlock(k, m), NEW got, GotBlocks(got, k, m)
  PROVE  /\ got \in Seq(FileCells) /\ Len(got) = BlockSize * m /\ BlockSize * m \in Nat
         /\ Len(got) \div BlockSize = m
         /\ \A c \in 1 .. BlockSize * m : got[c] = file[HeaderWidth + (BlockSize * k + c)]
<1>1. /\ BlockSize \in Nat \ {0} /\ FullBlocks \in Nat /\ HeaderWidth \in Nat /\ MacWidth \in Nat
      /\ k \in Nat /\ m \in Nat /\ k + m <= FullBlocks + 1
      /\ pos = HeaderWidth + BlockSize * k
      /\ Len(file) = (HeaderWidth + EncryptedSize) + MacWidth
      /\ EncryptedSize = BlockSize * (FullBlocks + 1)
  BY Widths DEF Layout, AtBlock
<1>2. /\ BlockSize * k \in Nat /\ BlockSize * m \in Nat
      /\ BlockSize * k + BlockSize * m <= EncryptedSize
  <2>1. /\ BlockSize * k \in Nat /\ BlockSize * m \in Nat
        /\ BlockSize * (k + m) = BlockSize * k + BlockSize * m
    BY <1>1, BlockPlaces
  <2>2. BlockSize * (k + m) <= BlockSize * (FullBlocks + 1)
    BY <1>1, BlockPlaces
  <2>3. QED
    BY <1>1, <2>1, <2>2
<1>3. file \in Seq(FileCells) /\ Len(file) \in Nat
  BY FileType
<1> DEFINE N == BlockSize * m
           P == BlockSize * k
<1> HIDE DEF N, P
<1>4. N \in Nat /\ P \in Nat /\ P + N <= EncryptedSize /\ pos = HeaderWidth + P
  BY <1>1, <1>2 DEF N, P
<1>5. pos \in Nat /\ pos + N \in Nat /\ pos + N <= Len(file) /\ pos + 1 <= (pos + N) + 1
      /\ (pos + N) - (pos + 1) + 1 = N
  <2>1. EncryptedSize \in Nat
    <3>1. FullBlocks + 1 \in Nat
      BY <1>1
    <3>2. BlockSize * (FullBlocks + 1) \in Nat
      BY <1>1, <3>1
    <3>3. QED
      BY <1>1, <3>2
  <2>2. QED
    BY <1>1, <1>4, <2>1
<1>6. got = SubSeq(file, pos + 1, pos + N)
  BY DEF GotBlocks, N
<1>7. /\ got \in Seq(FileCells) /\ Len(got) = (pos + N) - (pos + 1) + 1
      /\ \A i \in 1 .. (pos + N) - (pos + 1) + 1 : got[i] = file[(pos + 1) + i - 1]
  <2>1. pos + 1 \in Nat \ {0}
    BY <1>5
  <2>2. QED
    BY <1>3, <1>5, <1>6, <2>1, Slice
<1>8. got \in Seq(FileCells) /\ Len(got) = N
  BY <1>5, <1>7
<1>9. ASSUME NEW c \in 1 .. N PROVE got[c] = file[HeaderWidth + (P + c)]
  <2>1. (pos + 1) + c - 1 = HeaderWidth + (P + c)
    BY <1>1, <1>4
  <2>2. got[c] = file[(pos + 1) + c - 1]
    BY <1>5, <1>7
  <2>3. QED
    BY <2>1, <2>2
<1>10. Len(got) \div BlockSize = m
  <2>1. (BlockSize * m + 0) \div BlockSize = m
    BY <1>1, DivMod
  <2>2. BlockSize * m + 0 = N
    BY <1>4 DEF N
  <2>3. QED
    BY <1>8, <2>1, <2>2
<1>11. QED
  BY <1>4, <1>8, <1>9, <1>10 DEF N, P

\* Each group of cells is the block in its place.
LEMMA GotBlock ==
  ASSUME Layout, IsFile(file), NEW k, NEW m, AtBlock(k, m), NEW got, GotBlocks(got, k, m),
         NEW i \in 1 .. m
  PROVE  BlockAt(got, i) = BlockCells(ChainOf(k + i))
<1>1. /\ got \in Seq(FileCells) /\ Len(got) = BlockSize * m
      /\ \A c \in 1 .. BlockSize * m : got[c] = file[HeaderWidth + (BlockSize * k + c)]
  BY GotCells
<1>2. /\ BlockSize \in Nat \ {0} /\ FullBlocks \in Nat /\ k \in Nat /\ m \in Nat
      /\ k + m <= FullBlocks + 1 /\ i \in Nat \ {0} /\ i <= m
  BY Widths DEF Layout, AtBlock
<1> DEFINE first == (i - 1) * BlockSize
           last  == i * BlockSize
           a     == BlockAt(got, i)
           b     == BlockCells(ChainOf(k + i))
<1>3. /\ first \in Nat /\ last = first + BlockSize /\ last <= BlockSize * m
      /\ first = BlockSize * (i - 1)
  <2>1. i - 1 \in Nat
    BY <1>2
  <2>2. BlockSize * i <= BlockSize * m /\ BlockSize * ((i - 1) + 1) = BlockSize * (i - 1) + BlockSize * 1
        /\ BlockSize * (i - 1) \in Nat
    BY <1>2, <2>1, BlockPlaces
  <2>3. QED
    BY <1>2, <2>1, <2>2
<1>4. a = SubSeq(got, first + 1, last)
  BY DEF BlockAt
<1>5. /\ IsSequence(b) /\ Len(b) = BlockSize
      /\ \A r \in 1 .. BlockSize : b[r] = <<"cipher", ChainOf(k + i), r>>
  BY CellsOfBlock
<1> HIDE DEF a, b
<1>6. /\ a \in Seq(FileCells) /\ Len(a) = BlockSize
      /\ \A r \in 1 .. BlockSize : a[r] = got[first + r]
  <2> HIDE DEF first, last
  <2>a. /\ BlockSize \in Nat \ {0} /\ first \in Nat /\ last = first + BlockSize
        /\ last <= Len(got) /\ Len(got) \in Nat
    BY <1>1, <1>2, <1>3
  <2>1. first + 1 \in Nat \ {0} /\ last \in Nat /\ last <= Len(got) /\ first + 1 <= last + 1
        /\ last - (first + 1) + 1 = BlockSize
    BY <2>a
  <2>2. /\ a \in Seq(FileCells) /\ Len(a) = last - (first + 1) + 1
        /\ \A r \in 1 .. last - (first + 1) + 1 : a[r] = got[(first + 1) + r - 1]
    <3>1. got \in Seq(FileCells)
      BY <1>1
    <3>2. QED
      BY <1>4, <2>1, <3>1, Slice
  <2>3. ASSUME NEW r \in 1 .. BlockSize PROVE a[r] = got[first + r]
    <3>1. (first + 1) + r - 1 = first + r
      BY <1>3
    <3>2. QED
      BY <2>1, <2>2, <3>1
  <2>4. QED
    BY <2>1, <2>2, <2>3
<1>7. ASSUME NEW r \in 1 .. BlockSize PROVE a[r] = b[r]
  <2>1. (k + i) - 1 \in Nat /\ (k + i) - 1 <= FullBlocks /\ ((k + i) - 1) + 1 = k + i
        /\ (k + i) - 1 = k + (i - 1) /\ i - 1 \in Nat
    BY <1>2
  <2>2. file[HeaderWidth + (BlockSize * ((k + i) - 1) + r)] = <<"cipher", ChainOf(k + i), r>>
    BY <2>1, CellOfBlock
  <2>3. BlockSize * ((k + i) - 1) = BlockSize * k + BlockSize * (i - 1) /\ BlockSize * k \in Nat
    BY <1>2, <2>1, BlockPlaces
  <2>4. BlockSize * ((k + i) - 1) + r = BlockSize * k + (first + r)
    <3> HIDE DEF first
    <3>1. QED
      BY <1>3, <2>3
  <2>5. got[first + r] = file[HeaderWidth + (BlockSize * k + (first + r))]
    <3>1. first + r \in 1 .. BlockSize * m
      <4> HIDE DEF first, last
      <4>1. QED
        BY <1>2, <1>3
    <3>2. QED
      BY <1>1, <3>1
  <2>6. QED
    BY <1>5, <1>6, <2>2, <2>4, <2>5
<1>8. a = b
  <2>1. IsSequence(a)
    BY <1>6, SequenceIs
  <2>2. QED
    BY <1>5, <1>6, <1>7, <2>1, SameCells
<1>9. QED
  BY <1>8 DEF a, b

\* After i groups the chain has advanced by i blocks.
LEMMA GotChain ==
  ASSUME Layout, IsFile(file), NEW k, NEW m, AtBlock(k, m), NEW got, GotBlocks(got, k, m),
         NEW i \in 0 .. m
  PROVE  ChainAfter(got, i) = ChainOf(k + i)
<1>1. k \in Nat /\ m \in Nat /\ prev = ChainOf(k)
  BY DEF AtBlock
<1>2. CASE i = 0
  <2>1. k + i = k
    BY <1>1, <1>2
  <2>2. ChainAfter(got, i) = prev
    BY <1>2 DEF ChainAfter
  <2>3. QED
    BY <1>1, <2>1, <2>2
<1>3. CASE i # 0
  <2>1. i \in 1 .. m
    BY <1>1, <1>3
  <2>2. BlockAt(got, i) = BlockCells(ChainOf(k + i))
    BY <2>1, GotBlock
  <2>3. IsBlock(BlockAt(got, i)) /\ BlockAt(got, i)[1][2] = ChainOf(k + i)
    BY <2>2, CellsOfBlock
  <2>4. QED
    BY <1>3, <2>3 DEF ChainAfter
<1>4. QED
  BY <1>2, <1>3

\* Each group decrypts to its block of the text.
LEMMA GotPlain ==
  ASSUME Layout, IsFile(file), NEW k, NEW m, AtBlock(k, m), NEW got, GotBlocks(got, k, m),
         NEW q \in Nat, q < m
  PROVE  PlainAt(got, q + 1)
           = SubSeq(PaddedText, BlockSize * (k + q) + 1, BlockSize * ((k + q) + 1))
<1>1. /\ BlockSize \in Nat \ {0} /\ FullBlocks \in Nat /\ k \in Nat /\ m \in Nat
      /\ k + m <= FullBlocks + 1
      /\ PaddedText \in Seq(Byte) /\ Len(PaddedText) = BlockSize * (FullBlocks + 1)
  BY Widths DEF Layout, AtBlock
<1>2. /\ q \in 0 .. m /\ q + 1 \in 0 .. m /\ (q + 1) - 1 = q /\ k + (q + 1) = (k + q) + 1
      /\ k + q \in Nat /\ (k + q) + 1 \in Nat /\ (k + q) + 1 <= FullBlocks + 1
  BY <1>1
<1>3. BlockSize * ((k + q) + 1) <= Len(PaddedText)
  <2>1. FullBlocks + 1 \in Nat
    BY <1>1
  <2>2. BlockSize * ((k + q) + 1) <= BlockSize * (FullBlocks + 1)
    BY <1>1, <1>2, <2>1, BlockPlaces
  <2>3. QED
    BY <1>1, <2>2
<1>4. ChainAfter(got, q) = ChainOf(k + q) /\ ChainAfter(got, q + 1) = ChainOf((k + q) + 1)
  <2>1. ChainAfter(got, q + 1) = ChainOf(k + (q + 1))
    BY <1>2, GotChain
  <2>2. QED
    BY <1>2, <2>1, GotChain
<1>5. PlainAt(got, q + 1) = CbcDecryptBlock(EncKey, ChainOf(k + q), ChainOf((k + q) + 1))
  BY <1>2, <1>4 DEF PlainAt
<1>6. CbcDecryptBlock(EncKey, Link(PaddedText, EncKey, iv, k + q),
                      Link(PaddedText, EncKey, iv, (k + q) + 1))
        = SubSeq(PaddedText, BlockSize * (k + q) + 1, BlockSize * ((k + q) + 1))
  BY <1>1, <1>2, <1>3, NextLink
<1>7. QED
  BY <1>5, <1>6 DEF ChainOf

\* The whole read decrypts to its part of the text.
LEMMA GotText ==
  ASSUME Layout, IsFile(file), NEW k, NEW m, AtBlock(k, m), NEW got, GotBlocks(got, k, m)
  PROVE  PlainOf(got) = SubSeq(PaddedText, BlockSize * k + 1, BlockSize * (k + m))
<1> DEFINE N == BlockSize * m
           P == BlockSize * k
           a == PlainOf(got)
           b == SubSeq(PaddedText, P + 1, BlockSize * (k + m))
<1>1. /\ BlockSize \in Nat \ {0} /\ FullBlocks \in Nat /\ k \in Nat /\ m \in Nat
      /\ k + m <= FullBlocks + 1 /\ k + m \in Nat /\ FullBlocks + 1 \in Nat
      /\ PaddedText \in Seq(Byte) /\ Len(PaddedText) = BlockSize * (FullBlocks + 1)
  BY Widths DEF Layout, AtBlock
<1>2. N \in Nat /\ P \in Nat /\ BlockSize * (k + m) = P + N /\ P + N <= Len(PaddedText)
  <2>1. N \in Nat /\ P \in Nat /\ BlockSize * (k + m) = P + N
    BY <1>1, BlockPlaces
  <2>2. BlockSize * (k + m) <= BlockSize * (FullBlocks + 1)
    BY <1>1, BlockPlaces
  <2>3. QED
    BY <1>1, <2>1, <2>2
<1>3. /\ b \in Seq(Byte) /\ Len(b) = N
      /\ \A c \in 1 .. N : b[c] = PaddedText[P + c]
  <2> DEFINE last == BlockSize * (k + m)
  <2>1. last = P + N
    BY <1>2
  <2> HIDE DEF N, P, last
  <2>2. P + 1 \in Nat \ {0} /\ last \in Nat /\ last <= Len(PaddedText) /\ P + 1 <= last + 1
        /\ last - (P + 1) + 1 = N
    BY <1>2, <2>1
  <2>3. /\ b \in Seq(Byte) /\ Len(b) = last - (P + 1) + 1
        /\ \A c \in 1 .. last - (P + 1) + 1 : b[c] = PaddedText[(P + 1) + c - 1]
    <3>1. b = SubSeq(PaddedText, P + 1, last)
      BY DEF last
    <3>2. PaddedText \in Seq(Byte)
      BY <1>1
    <3> HIDE DEF b
    <3>3. QED
      BY <2>2, <3>1, <3>2, Slice
  <2>4. ASSUME NEW c \in 1 .. N PROVE (P + 1) + c - 1 = P + c
    BY <1>2
  <2>5. QED
    BY <2>2, <2>3, <2>4
<1>4. Len(got) \div BlockSize = m
  BY GotCells
<1> DEFINE cell(c) == PlainAt(got, ((c - 1) \div BlockSize) + 1)[((c - 1) % BlockSize) + 1]
<1>5. a = [c \in 1 .. N |-> cell(c)]
  BY <1>4 DEF PlainOf
<1>6. ASSUME NEW c \in 1 .. N PROVE cell(c) = PaddedText[P + c]
  <2> DEFINE q == (c - 1) \div BlockSize
             r == (c - 1) % BlockSize
  <2>1. q \in 0 .. m - 1
    BY <1>1, CellPlace
  <2>2. /\ c - 1 \in Nat /\ c \in Nat
        /\ q \in Nat /\ r \in Nat /\ r < BlockSize /\ c - 1 = BlockSize * q + r
    <3>1. c - 1 \in Nat /\ c \in Nat
      BY <1>2
    <3>2. QED
      BY <1>1, <3>1, Euclid
  <2>3. cell(c) = PlainAt(got, q + 1)[r + 1]
    OBVIOUS
  <2> HIDE DEF q, r, cell
  <2>4. q < m
    BY <1>1, <2>1, <2>2
  <2>5. PlainAt(got, q + 1)
          = SubSeq(PaddedText, BlockSize * (k + q) + 1, BlockSize * ((k + q) + 1))
    BY <2>2, <2>4, GotPlain
  <2> DEFINE f == BlockSize * (k + q)
             l == BlockSize * ((k + q) + 1)
  <2>6. /\ f \in Nat /\ l = f + BlockSize /\ l <= Len(PaddedText)
        /\ f = P + BlockSize * q /\ BlockSize * q \in Nat
    <3>1. k + q \in Nat /\ (k + q) + 1 \in Nat /\ (k + q) + 1 <= FullBlocks + 1
      BY <1>1, <2>2, <2>4
    <3>a. BlockSize \in Nat \ {0} /\ k + q \in Nat /\ 1 \in Nat
      BY <1>1, <3>1
    <3>2. f \in Nat /\ l = f + BlockSize * 1
      BY <3>a, BlockPlaces
    <3>3. l <= BlockSize * (FullBlocks + 1)
      BY <1>1, <3>1, BlockPlaces
    <3>4. f = P + BlockSize * q /\ BlockSize * q \in Nat
      BY <1>1, <2>2, BlockPlaces
    <3>5. QED
      BY <1>1, <3>2, <3>3, <3>4
  <2> HIDE DEF f, l, P, N
  <2>7. /\ f + 1 \in Nat \ {0} /\ l \in Nat /\ f + 1 <= l + 1 /\ l - (f + 1) + 1 = BlockSize
        /\ r + 1 \in 1 .. BlockSize /\ (f + 1) + (r + 1) - 1 = P + c
    BY <1>1, <1>2, <2>2, <2>6
  <2>8. \A i \in 1 .. l - (f + 1) + 1 :
          SubSeq(PaddedText, f + 1, l)[i] = PaddedText[(f + 1) + i - 1]
    <3>1. /\ PaddedText \in Seq(Byte) /\ f + 1 \in Nat \ {0} /\ l \in Nat
          /\ l <= Len(PaddedText) /\ f + 1 <= l + 1
      BY <1>1, <2>6, <2>7
    <3>2. QED
      BY <3>1, Slice
  <2>9. SubSeq(PaddedText, f + 1, l)[r + 1] = PaddedText[(f + 1) + (r + 1) - 1]
    BY <2>7, <2>8
  <2>10. QED
    BY <2>3, <2>5, <2>7, <2>9 DEF f, l
<1> HIDE DEF a, b, cell, N, P
<1>7. a = [c \in 1 .. N |-> a[c]] /\ \A c \in 1 .. N : a[c] = cell(c)
  BY <1>5
<1>8. IsSequence(a) /\ Len(a) = N
  BY <1>2, <1>7, CellsOfFunction
<1>9. IsSequence(b)
  BY <1>3, SequenceIs
<1>10. \A c \in 1 .. N : a[c] = b[c]
  BY <1>3, <1>6, <1>7
<1>11. a = b
  BY <1>3, <1>8, <1>9, <1>10, SameCells
<1>12. QED
  BY <1>11 DEF a, b, P

-----------------------------------------------------------------------------
(* The end of the text *)

\* The first cells of a prefix are a prefix.
LEMMA PrefixOfPrefix ==
  ASSUME NEW S, NEW s \in Seq(S), NEW l \in Nat, l <= Len(s),
         NEW x \in Prefixes(SubSeq(s, 1, l))
  PROVE  x \in Prefixes(s)
<1>1. Len(s) \in Nat
  BY LenProperties
<1>2. Len(SubSeq(s, 1, l)) = l
  <2>1. 1 \in Nat \ {0} /\ 1 <= l + 1 /\ l - 1 + 1 = l
    OBVIOUS
  <2>2. Len(SubSeq(s, 1, l)) = l - 1 + 1
    BY <2>1, Slice
  <2>3. QED
    BY <2>1, <2>2
<1>3. PICK n \in 0 .. l : x = SubSeq(SubSeq(s, 1, l), 1, n)
  BY <1>2 DEF Prefixes
<1>4. n \in Nat /\ n <= l /\ 1 \in Nat \ {0} /\ 1 <= n + 1 /\ n \in 0 .. Len(s)
  BY <1>1, <1>3
<1>5. SubSeq(SubSeq(s, 1, l), 1, n) = SubSeq(s, 1, n)
  BY <1>4, SliceOfFirst
<1>6. QED
  BY <1>3, <1>4, <1>5 DEF Prefixes

\* All but the last cell of the first n cells.
LEMMA AllButLastOf ==
  ASSUME NEW S, NEW s \in Seq(S), NEW n \in Nat \ {0}, n <= Len(s)
  PROVE  AllButLast(SubSeq(s, 1, n)) = SubSeq(s, 1, n - 1)
<1>1. /\ n - 1 \in Nat /\ n - 1 <= n /\ 1 <= (n - 1) + 1 /\ 1 <= n + 1 /\ n - 1 + 1 = n
      /\ 1 \in Nat \ {0} /\ n \in Nat
  OBVIOUS
<1>2. Len(SubSeq(s, 1, n)) = n
  <2>1. Len(SubSeq(s, 1, n)) = n - 1 + 1
    BY <1>1, Slice
  <2>2. QED
    BY <1>1, <2>1
<1>3. SubSeq(SubSeq(s, 1, n), 1, n - 1) = SubSeq(s, 1, n - 1)
  BY <1>1, SliceOfFirst
<1>4. QED
  BY <1>2, <1>3 DEF AllButLast

\* Padding starts where the text ends.
LEMMA TextFirst ==
  ASSUME Layout, NEW n \in Nat, n <= Len(SealedText)
  PROVE  SubSeq(PaddedText, 1, n) = SubSeq(SealedText, 1, n)
<1>1. SealedText \in Seq(Byte) /\ Len(SealedText) \in Nat
  BY DEF Layout
<1>2. Len(SealedText) % BlockSize \in 0 .. BlockSize
  BY <1>1, Widths, Euclid
<1>3. IsSequence(SealedText) /\ IsSequence(Padding(Len(SealedText) % BlockSize))
  BY <1>1, <1>2, PaddingType, SequenceIs
<1>4. n \in 0 .. Len(SealedText)
  BY <1>1
<1>5. SubSeq(SealedText \o Padding(Len(SealedText) % BlockSize), 1, n) = SubSeq(SealedText, 1, n)
  BY <1>3, <1>4, FirstOfJoined
<1>6. QED
  BY <1>5 DEF PaddedText, Padded

\* The last block: what is left of the text, then its padding.
LastOfPadded == SubSeq(PaddedText, BlockSize * FullBlocks + 1, BlockSize * (FullBlocks + 1))

LeftOver == Len(SealedText) - BlockSize * FullBlocks

LEMMA LastPadding ==
  ASSUME Layout
  PROVE  /\ LeftOver \in Nat /\ LeftOver < BlockSize
         /\ BlockSize * FullBlocks \in Nat
         /\ LastOfPadded # Junk
         /\ PaddingIsValid(LastOfPadded)
         /\ RemovePadding(LastOfPadded) = SubSeq(LastOfPadded, 1, LeftOver)
         /\ LastOfPadded \in Seq(Byte) /\ Len(LastOfPadded) = BlockSize
<1> DEFINE text  == SealedText
           r     == Len(text) % BlockSize
           a     == BlockSize * FullBlocks
           b     == BlockSize * (FullBlocks + 1)
           plain == LastOfPadded
<1>1. /\ text \in Seq(Byte) /\ BlockSize \in Nat \ {0} /\ FullBlocks \in Nat
      /\ FullBlocks = Len(text) \div BlockSize
      /\ PaddedText = Padded(text)
  BY Widths DEF Layout, FullBlocks, PaddedText
<1>2. /\ r \in Nat /\ r < BlockSize /\ Len(text) = a + r
      /\ PaddedText \in Seq(Byte) /\ Len(PaddedText) = b
      /\ \A i \in Len(text) + 1 .. b : PaddedText[i] = BlockSize - r
  BY <1>1, PaddedShape
<1>3. a \in Nat /\ b = a + BlockSize
  <2>1. a \in Nat /\ b = a + BlockSize * 1
    BY <1>1, BlockPlaces
  <2>2. QED
    BY <1>1, <2>1
<1>4. plain = SubSeq(PaddedText, a + 1, b)
  BY DEF LastOfPadded
<1> HIDE DEF plain, a, b, r
<1>5. LeftOver = r
  <2>1. LeftOver = Len(text) - a
    BY DEF LeftOver, a
  <2>2. Len(text) - a = r
    BY <1>2, <1>3
  <2>3. QED
    BY <2>1, <2>2
<1>6. /\ plain \in Seq(Byte) /\ Len(plain) = BlockSize
      /\ \A i \in 1 .. BlockSize : plain[i] = PaddedText[a + i]
  <2>1. /\ a + 1 \in Nat \ {0} /\ b \in Nat /\ b <= Len(PaddedText) /\ a + 1 <= b + 1
        /\ b - (a + 1) + 1 = BlockSize
    BY <1>1, <1>2, <1>3
  <2>2. /\ plain \in Seq(Byte) /\ Len(plain) = b - (a + 1) + 1
        /\ \A i \in 1 .. b - (a + 1) + 1 : plain[i] = PaddedText[(a + 1) + i - 1]
    BY <1>2, <1>4, <2>1, Slice
  <2>3. ASSUME NEW i \in 1 .. BlockSize PROVE (a + 1) + i - 1 = a + i
    BY <1>3
  <2>4. QED
    BY <2>1, <2>2, <2>3
<1>7. ASSUME NEW i \in r + 1 .. BlockSize PROVE plain[i] = BlockSize - r
  <2>1. i \in 1 .. BlockSize /\ a + i \in Len(text) + 1 .. b
    BY <1>1, <1>2, <1>3
  <2>2. QED
    BY <1>2, <1>6, <2>1
<1>8. plain[BlockSize] = BlockSize - r /\ BlockSize - r \in 1 .. BlockSize
      /\ BlockSize - (BlockSize - r) = r
  <2>1. BlockSize \in r + 1 .. BlockSize
    BY <1>1, <1>2
  <2>2. plain[BlockSize] = BlockSize - r
    BY <1>7, <2>1
  <2>3. QED
    BY <1>1, <1>2, <2>2
<1>9. plain # Junk
  <2>1. Junk[BlockSize] = -1
    BY <1>1 DEF Junk
  <2>2. plain[BlockSize] # -1
    BY <1>1, <1>8
  <2>3. QED
    BY <2>1, <2>2
<1>10. PaddingIsValid(plain)
  BY <1>7, <1>8 DEF PaddingIsValid
<1>11. RemovePadding(plain) = SubSeq(plain, 1, r)
  BY <1>8 DEF RemovePadding
<1>12. QED
  BY <1>2, <1>3, <1>5, <1>6, <1>9, <1>10, <1>11 DEF plain, a

\* What the function leaves behind: the declared size bounds it unless the whole blocks
\* exceed it.
DeliveredLength ==
  IF OriginalSize < BlockSize * FullBlocks
  THEN Len(SealedText)
  ELSE Smaller(OriginalSize, Len(SealedText))

Delivered == SubSeq(SealedText, 1, DeliveredLength)

\* What the clamp leaves of the last block.
LastLength ==
  IF OriginalSize < BlockSize * FullBlocks
  THEN LeftOver
  ELSE Smaller(LeftOver, OriginalSize - BlockSize * FullBlocks)

\* The whole blocks and the clamped last one make it.
LEMMA LastWritten ==
  ASSUME Layout, NEW n, n = LastLength
  PROVE  /\ n \in Nat /\ BlockSize * FullBlocks + n <= Len(SealedText)
         /\ SubSeq(SubSeq(LastOfPadded, 1, LeftOver), 1, n) = SubSeq(LastOfPadded, 1, n)
         /\ Len(SubSeq(LastOfPadded, 1, n)) = n
         /\ SubSeq(PaddedText, 1, BlockSize * FullBlocks) \o SubSeq(LastOfPadded, 1, n)
              = SubSeq(SealedText, 1, BlockSize * FullBlocks + n)
         /\ SubSeq(SealedText, 1, BlockSize * FullBlocks + n) = Delivered
<1> DEFINE a == BlockSize * FullBlocks
           b == BlockSize * (FullBlocks + 1)
<1>1. /\ BlockSize \in Nat \ {0} /\ FullBlocks \in Nat /\ OriginalSize \in Nat
      /\ SealedText \in Seq(Byte) /\ Len(SealedText) \in Nat
      /\ PaddedText \in Seq(Byte) /\ Len(PaddedText) = b
  BY Widths DEF Layout
<1>2. /\ LeftOver \in Nat /\ LeftOver < BlockSize /\ a \in Nat
      /\ LastOfPadded \in Seq(Byte) /\ Len(LastOfPadded) = BlockSize
  BY LastPadding
<1>3. LeftOver = Len(SealedText) - a
  BY DEF LeftOver
<1>4. b = a + BlockSize
  <2>1. b = a + BlockSize * 1
    BY <1>1, BlockPlaces
  <2>2. QED
    BY <1>1, <2>1
<1>5. LastOfPadded = SubSeq(PaddedText, a + 1, b)
  BY DEF LastOfPadded
<1> HIDE DEF a, b
<1>6. n \in Nat /\ n <= LeftOver /\ a + n <= Len(SealedText) /\ a + n \in Nat
      /\ a + n = DeliveredLength
  <2>1. a <= Len(SealedText)
    BY <1>1, <1>2, <1>3
  <2>2. CASE OriginalSize < a
    <3>1. n = LeftOver /\ DeliveredLength = Len(SealedText)
      BY <2>2 DEF LastLength, DeliveredLength, a
    <3>2. QED
      BY <1>1, <1>2, <1>3, <3>1
  <2>3. CASE ~(OriginalSize < a)
    <3>1. n = Smaller(Len(SealedText) - a, OriginalSize - a)
      BY <1>3, <2>3 DEF LastLength, a
    <3>2. a <= OriginalSize /\ DeliveredLength = Smaller(OriginalSize, Len(SealedText))
      BY <1>1, <1>2, <2>3 DEF DeliveredLength, a
    <3>3. n \in Nat /\ n <= LeftOver /\ a + n = Smaller(OriginalSize, Len(SealedText))
      BY <1>1, <1>2, <1>3, <2>1, <3>1, <3>2, Clamping
    <3>4. QED
      BY <1>1, <1>2, <1>3, <3>2, <3>3
  <2>4. QED
    BY <2>2, <2>3
<1>7. SubSeq(SubSeq(LastOfPadded, 1, LeftOver), 1, n) = SubSeq(LastOfPadded, 1, n)
  <2>1. 1 \in Nat \ {0} /\ 1 <= n + 1 /\ LeftOver <= Len(LastOfPadded)
    BY <1>2, <1>6
  <2>2. QED
    BY <1>2, <1>6, <2>1, SliceOfFirst
<1>8. Len(SubSeq(LastOfPadded, 1, n)) = n
  <2>a. n \in Nat /\ LastOfPadded \in Seq(Byte) /\ n <= BlockSize
    <3>1. BlockSize \in Nat /\ LeftOver \in Nat /\ LeftOver < BlockSize /\ n <= LeftOver /\ n \in Nat
      BY <1>1, <1>2, <1>6
    <3>2. QED
      BY <1>2, <3>1
  <2>1. 1 \in Nat \ {0} /\ 1 <= n + 1 /\ n <= Len(LastOfPadded) /\ n - 1 + 1 = n
    BY <1>2, <2>a
  <2>2. Len(SubSeq(LastOfPadded, 1, n)) = n - 1 + 1
    BY <2>a, <2>1, Slice
  <2>3. QED
    BY <2>1, <2>2
<1>9. SubSeq(LastOfPadded, 1, n) = SubSeq(PaddedText, a + 1, a + n)
  <2>a. /\ a \in Nat /\ n \in Nat /\ BlockSize \in Nat /\ LeftOver \in Nat
        /\ LeftOver < BlockSize /\ n <= LeftOver
    BY <1>1, <1>2, <1>6
  <2>b. b \in Nat /\ a + n <= b
    BY <1>4, <2>a
  <2>1. b <= Len(PaddedText) /\ PaddedText \in Seq(Byte)
    BY <1>1, <2>b
  <2>2. SubSeq(SubSeq(PaddedText, a + 1, b), 1, n) = SubSeq(PaddedText, a + 1, a + n)
    BY <2>a, <2>b, <2>1, SliceOfSlice
  <2>3. QED
    BY <1>5, <2>2
<1>10. SubSeq(PaddedText, 1, a) \o SubSeq(PaddedText, a + 1, a + n) = SubSeq(PaddedText, 1, a + n)
  <2>1. a <= a + n /\ a + n <= Len(PaddedText)
    <3>1. /\ a \in Nat /\ n \in Nat /\ BlockSize \in Nat /\ LeftOver \in Nat
          /\ LeftOver < BlockSize /\ n <= LeftOver
      BY <1>1, <1>2, <1>6
    <3>2. a + n <= a + BlockSize
      BY <3>1
    <3>3. QED
      BY <1>1, <1>4, <3>1, <3>2
  <2>2. a \in Nat /\ a + n \in Nat /\ PaddedText \in Seq(Byte)
    BY <1>1, <1>2, <1>6
  <2>3. QED
    BY <2>1, <2>2, Joined
<1>11. SubSeq(PaddedText, 1, a + n) = SubSeq(SealedText, 1, a + n)
  BY <1>6, TextFirst
<1>12. SubSeq(SealedText, 1, a + n) = Delivered
  BY <1>6 DEF Delivered
<1>13. SubSeq(PaddedText, 1, a) \o SubSeq(LastOfPadded, 1, n) = SubSeq(SealedText, 1, a + n)
  BY <1>9, <1>10, <1>11
<1>14. QED
  BY <1>6, <1>7, <1>8, <1>12, <1>13 DEF a

-----------------------------------------------------------------------------
(* The invariant: how far the decryption has come *)

Decrypting == {"decrypt", "last_block", "close"}

\* What has been written leaves room for the last block, short reads included.
ClampInv ==
  /\ pc = "decrypt" => Len(out) + remaining <= EncryptedSize - BlockSize
  /\ pc = "last_block" => Len(out) <= EncryptedSize - BlockSize

\* After k whole blocks the stream, the chain and the output are in step.
InStep(k) ==
  /\ pos = HeaderWidth + BlockSize * k
  /\ prev = ChainOf(k)
  /\ out = SubSeq(PaddedText, 1, BlockSize * k)

StepInv ==
  /\ pc = "decrypt" /\ ~unnoticed =>
       \E k \in 0 .. FullBlocks : InStep(k) /\ remaining = BlockSize * (FullBlocks - k)
  /\ pc = "last_block" /\ ~unnoticed => InStep(FullBlocks)
  /\ pc = "close" /\ ~unnoticed => out = Delivered

\* What the output file holds while the function runs and after it.
EndInv ==
  /\ pc \notin Over => result = "none"
  /\ pc \notin Over \cup Decrypting => disk = NoFile /\ out = <<>>
  /\ pc \in Decrypting => disk = <<>>
  /\ pc \in Over /\ disk # NoFile /\ ~unnoticed => disk \in Prefixes(SealedText)
  /\ result = "0" =>
       /\ pc = "done" /\ Verifies(file, password)
       /\ ~unnoticed => disk = Delivered

PlainInv == Legitimate(file) /\ DecryptInv /\ ClampInv /\ StepInv /\ EndInv

\* A step keeps the invariant, and what it does to the output file, if anything,
\* leaves the start of the text there.
PlainStep ==
  /\ PlainInv'
  /\ ~unnoticed' => UNCHANGED disk \/ disk' \in Prefixes(SealedText)

\* No byte of the text.
LEMMA NoText == ASSUME Layout PROVE SubSeq(SealedText, 1, 0) = <<>>
<1>1. SealedText \in Seq(Byte) /\ Len(SealedText) \in Nat
  BY DEF Layout
<1>2. 0 \in 0 .. Len(SealedText) /\ IsSequence(SealedText)
  BY <1>1, SequenceIs
<1>3. IsSequence(SubSeq(SealedText, 1, 0)) /\ Len(SubSeq(SealedText, 1, 0)) = 0
  BY <1>2, FirstCells
<1>4. QED
  BY <1>3, EmptySeq DEF IsSequence

LEMMA PlainOpened ==
  ASSUME PlainInv, pc \in Decrypting \cup {"open_output"}
  PROVE  Opened /\ Layout /\ IsFile(file)
<1>1. Opened
  BY DEF PlainInv, Decrypting, Opened, DecryptInv, DataTypes, OutputInv, SizeInv, SaltInv,
         IvInv, Over
<1>2. Layout
  BY <1>1, OpenedLayout
<1>3. QED
  BY <1>1, <1>2 DEF PlainInv, DecryptInv

\* What depends on the file, the key and the header stays as long as they do.
LEMMA TextStays ==
  ASSUME UNCHANGED <<inputVars, headerVars>>
  PROVE  /\ SealedText' = SealedText /\ PaddedText' = PaddedText
         /\ FullBlocks' = FullBlocks /\ OriginalSize' = OriginalSize
         /\ Delivered' = Delivered /\ Prefixes(SealedText)' = Prefixes(SealedText)
         /\ \A k : ChainOf(k)' = ChainOf(k)
<1>1. file' = file /\ password' = password /\ sizeBytes' = sizeBytes /\ salt' = salt /\ iv' = iv
  BY DEF inputVars, headerVars
<1>2. /\ SealedText' = SealedText /\ PaddedText' = PaddedText /\ FullBlocks' = FullBlocks
      /\ OriginalSize' = OriginalSize
  BY <1>1 DEF SealedText, PaddedText, FullBlocks, OriginalSize
<1>3. EncKey' = EncKey
  BY <1>1 DEF EncKey
<1>4. QED
  BY <1>1, <1>2, <1>3 DEF Delivered, DeliveredLength, ChainOf

\* A step before the output is opened, or one that fails there.
LEMMA EarlyStep ==
  ASSUME PlainInv, DecryptInv', UNCHANGED inputVars, UNCHANGED disk, UNCHANGED out,
         pc \notin Over \cup Decrypting,
         \/ pc' \notin Over \cup Decrypting /\ UNCHANGED result
         \/ pc' \in Over /\ result' \in {"none", "-1"}
  PROVE  PlainStep
<1>1. file' = file /\ Legitimate(file) /\ result = "none" /\ disk = NoFile /\ disk' = NoFile
      /\ out' = <<>>
  BY FileStays DEF PlainInv, EndInv
<1>2. ClampInv' /\ StepInv'
  BY DEF ClampInv, StepInv, Over, Decrypting
<1>3. EndInv'
  BY <1>1 DEF EndInv, Over, Decrypting
<1>4. QED
  BY <1>1, <1>2, <1>3 DEF PlainInv, PlainStep

LEMMA EarlyFail ==
  ASSUME PlainInv, DecryptInv', UNCHANGED <<inputVars, out>>, NEW given, NEW released,
         Fail(given, released), pc \notin Over \cup Decrypting
  PROVE  PlainStep
<1>1. "output" \notin held
  BY DEF PlainInv, DecryptInv, ControlTypes, Places, HeldByPlace, Over, Decrypting
<1>2. UNCHANGED disk /\ pc' = "done" /\ result' = "-1"
  BY <1>1 DEF Fail, Return
<1>3. QED
  BY <1>2, EarlyStep DEF Over

\* Everything before the output is opened.
LEMMA HeaderPlain ==
  ASSUME PlainInv, DecryptInv', OpenInput \/ ReadSize \/ ReadSalt \/ ReadIv \/ Measure
  PROVE  PlainStep
<1>1. CASE OpenInput
  BY <1>1, EarlyStep, EarlyFail DEF OpenInput, Over, Decrypting
<1>2. CASE ReadSize
  BY <1>2, EarlyStep, EarlyFail DEF ReadSize, Over, Decrypting, Continue, exitVars
<1>3. CASE ReadSalt
  BY <1>3, EarlyStep, EarlyFail DEF ReadSalt, Over, Decrypting
<1>4. CASE ReadIv
  BY <1>4, EarlyStep, EarlyFail DEF ReadIv, Over, Decrypting, Continue, exitVars
<1>5. CASE Measure
  BY <1>5, EarlyStep, EarlyFail DEF Measure, Over, Decrypting, Continue, exitVars
<1>6. QED
  BY <1>1, <1>2, <1>3, <1>4, <1>5

LEMMA VerifyPlain ==
  ASSUME PlainInv, DecryptInv',
         ReadMac \/ AllocChunk \/ AllocHmacData \/ VerifyRead \/ CheckMac
  PROVE  PlainStep
<1>1. CASE ReadMac
  BY <1>1, EarlyStep, EarlyFail DEF ReadMac, Over, Decrypting, Continue, exitVars
<1>2. CASE AllocChunk
  BY <1>2, EarlyStep, EarlyFail DEF AllocChunk, Over, Decrypting
<1>3. CASE AllocHmacData
  BY <1>3, EarlyStep, EarlyFail DEF AllocHmacData, Over, Decrypting
<1>4. CASE VerifyRead
  <2>1. pc' \in {"check_mac", "verify_read"} /\ UNCHANGED exitVars /\ pc = "verify_read"
        /\ UNCHANGED inputVars /\ UNCHANGED out
    BY <1>4 DEF VerifyRead
  <2>2. QED
    BY <2>1, EarlyStep DEF Over, Decrypting, exitVars
<1>5. CASE CheckMac
  BY <1>5, EarlyStep, EarlyFail DEF CheckMac, Over, Decrypting
<1>6. QED
  BY <1>1, <1>2, <1>3, <1>4, <1>5

\* Opening the output puts the stream, the chain and the counter at the first block.
LEMMA OpenOutputPlain ==
  ASSUME PlainInv, DecryptInv', OpenOutput PROVE PlainStep
<1>1. /\ pc = "open_output" /\ Legitimate(file) /\ result = "none" /\ disk = NoFile /\ out = <<>>
  BY DEF PlainInv, EndInv, OpenOutput, Over, Decrypting
<1>2. UNCHANGED <<inputVars, headerVars, unnoticed, out>>
  BY DEF OpenOutput
<1>3. CASE Fail(out, {"ctx", "chunk_buf", "input"})
  BY <1>1, <1>2, <1>3, EarlyFail DEF Over, Decrypting
<1>4. CASE /\ pc' = "decrypt"
           /\ disk' = <<>>
           /\ prev' = ChainStart(EncKey, iv)
           /\ pos' = HeaderWidth
           /\ remaining' = EncryptedSize - BlockSize
           /\ UNCHANGED result
  <2>1. Layout
    BY <1>1, PlainOpened
  <2>2. /\ EncryptedSize = BlockSize * FullBlocks + BlockSize /\ BlockSize * FullBlocks \in Nat
        /\ BlockSize \in Nat \ {0} /\ HeaderWidth \in Nat /\ FullBlocks \in Nat
    <3>1. BlockSize \in Nat \ {0} /\ HeaderWidth \in Nat /\ FullBlocks \in Nat
      BY <2>1, Widths DEF Layout
    <3>2. /\ BlockSize * (FullBlocks + 1) = BlockSize * FullBlocks + BlockSize * 1
          /\ BlockSize * FullBlocks \in Nat
      BY <3>1, BlockPlaces
    <3>3. QED
      BY <2>1, <3>1, <3>2 DEF Layout
  <2>3. file' = file /\ Legitimate(file)' /\ EncryptedSize' = EncryptedSize /\ out' = <<>>
        /\ result' = "none"
    BY <1>1, <1>2, <1>4, FileStays
  <2>4. /\ PaddedText' = PaddedText /\ FullBlocks' = FullBlocks
        /\ \A k : ChainOf(k)' = ChainOf(k)
    BY <1>2, TextStays
  <2>5. ClampInv'
    <3>1. Len(out') + remaining' <= EncryptedSize' - BlockSize
      <4>1. Len(out') = 0
        BY <2>3
      <4>2. QED
        BY <1>4, <2>2, <2>3, <4>1
    <3>2. QED
      BY <1>4, <3>1 DEF ClampInv
  <2>6. SubSeq(PaddedText, 1, 0) = <<>>
    <3>1. PaddedText \in Seq(Byte) /\ Len(PaddedText) \in Nat
      BY <2>1, LenProperties DEF Layout
    <3>2. 0 \in Nat /\ 0 <= Len(PaddedText) /\ 1 \in Nat \ {0} /\ 1 <= 0 + 1 /\ 0 - 1 + 1 = 0
      BY <3>1
    <3>3. SubSeq(PaddedText, 1, 0) \in Seq(Byte) /\ Len(SubSeq(PaddedText, 1, 0)) = 0 - 1 + 1
      BY <3>1, <3>2, Slice
    <3>4. QED
      BY <3>2, <3>3, EmptySeq
  <2>7. BlockSize * 0 = 0
    BY <2>2
  <2>8. ChainOf(0) = ChainStart(EncKey, iv)
    BY <2>6, <2>7 DEF ChainOf, Link, ChainOver, ChainStart
  <2>9. InStep(0)'
    <3>1. pos' = HeaderWidth + BlockSize * 0
      BY <1>4, <2>2, <2>7
    <3>2. prev' = ChainOf(0)'
      BY <1>4, <2>4, <2>8
    <3>3. out' = SubSeq(PaddedText', 1, BlockSize * 0)
      BY <2>3, <2>4, <2>6, <2>7
    <3>4. QED
      BY <3>1, <3>2, <3>3 DEF InStep
  <2>10. remaining' = BlockSize * (FullBlocks' - 0)
    BY <1>4, <2>2, <2>4
  <2>11. 0 \in 0 .. FullBlocks'
    BY <2>2, <2>4
  <2>12. StepInv'
    <3>1. \E k \in 0 .. FullBlocks' : InStep(k)' /\ remaining' = BlockSize * (FullBlocks' - k)
      BY <2>9, <2>10, <2>11
    <3>2. QED
      BY <1>4, <3>1 DEF StepInv
  <2>13. EndInv'
    BY <1>4, <2>3 DEF EndInv, Over, Decrypting
  <2>14. disk' \in Prefixes(SealedText)
    <3>1. 0 \in 0 .. Len(SealedText)
      BY <2>1 DEF Layout
    <3>2. SubSeq(SealedText, 1, 0) = <<>>
      BY <2>1, NoText
    <3>3. QED
      BY <1>4, <3>1, <3>2 DEF Prefixes
  <2>15. QED
    BY <2>3, <2>5, <2>12, <2>13, <2>14 DEF PlainInv, PlainStep
<1>5. QED
  BY <1>3, <1>4 DEF OpenOutput

-----------------------------------------------------------------------------
(* The steps of the decryption *)

\* A step that stays in the decryption leaves the open, empty output alone.
LEMMA GoingOn ==
  ASSUME PlainInv, DecryptInv', UNCHANGED inputVars, pc \in Decrypting, pc' \in Decrypting,
         UNCHANGED exitVars, ClampInv', StepInv'
  PROVE  PlainStep
<1>1. disk' = <<>> /\ result' = "none" /\ file' = file /\ Legitimate(file)
  BY FileStays DEF PlainInv, EndInv, exitVars, Over, Decrypting
<1>2. EndInv'
  BY <1>1 DEF EndInv, Over, Decrypting
<1>3. QED
  BY <1>1, <1>2 DEF PlainInv, PlainStep, exitVars

\* A write that fails leaves a part of what was given to it.
LEMMA Failing ==
  ASSUME PlainInv, DecryptInv', UNCHANGED <<inputVars, headerVars>>, pc \in Decrypting,
         NEW given, NEW released, Fail(given, released),
         ~unnoticed' => given \in Prefixes(SealedText)
  PROVE  PlainStep
<1>1. "output" \in held /\ file' = file /\ Legitimate(file)
  BY FileStays DEF PlainInv, DecryptInv, HeldByPlace, Decrypting
<1>2. pc' = "done" /\ result' = "-1" /\ disk' \in Prefixes(given)
  BY <1>1 DEF Fail, Return
<1>3. ClampInv' /\ StepInv'
  BY <1>2 DEF ClampInv, StepInv
<1>4. ~unnoticed' => disk' \in Prefixes(SealedText)
  <2>1. SUFFICES ASSUME ~unnoticed' PROVE disk' \in Prefixes(SealedText)
    OBVIOUS
  <2>2. Layout
    BY PlainOpened
  <2>3. SealedText \in Seq(Byte) /\ Len(SealedText) \in Nat
    BY <2>2 DEF Layout
  <2>4. PICK n \in 0 .. Len(SealedText) : given = SubSeq(SealedText, 1, n)
    BY <2>1 DEF Prefixes
  <2>5. n \in Nat /\ n <= Len(SealedText)
    BY <2>3, <2>4
  <2>6. disk' \in Prefixes(SubSeq(SealedText, 1, n))
    BY <1>2, <2>4
  <2>7. QED
    BY <2>3, <2>5, <2>6, PrefixOfPrefix
<1>5. Prefixes(SealedText)' = Prefixes(SealedText)
  BY TextStays
<1>6. EndInv'
  BY <1>2, <1>4, <1>5 DEF EndInv, Over, Decrypting
<1>7. QED
  BY <1>1, <1>3, <1>4, <1>6 DEF PlainInv, PlainStep

\* What a chunk decrypts to is as long as its whole blocks.
LEMMA PlainLength ==
  ASSUME NEW got, Len(got) \in Nat
  PROVE  /\ IsSequence(PlainOf(got)) /\ Len(PlainOf(got)) \in Nat
         /\ Len(PlainOf(got)) <= Len(got)
<1> DEFINE n       == BlockSize * (Len(got) \div BlockSize)
           f       == PlainOf(got)
           cell(j) == PlainAt(got, ((j - 1) \div BlockSize) + 1)[((j - 1) % BlockSize) + 1]
<1>1. n \in Nat /\ n <= Len(got)
  <2>1. /\ Len(got) \div BlockSize \in Nat /\ Len(got) % BlockSize \in Nat
        /\ Len(got) = BlockSize * (Len(got) \div BlockSize) + (Len(got) % BlockSize)
    BY Widths, Euclid
  <2>2. n \in Nat
    BY <2>1, Widths
  <2>3. QED
    BY <2>1, <2>2
<1>2. f = [j \in 1 .. n |-> cell(j)]
  BY DEF PlainOf
<1> HIDE DEF n, f, cell
<1>3. f = [j \in 1 .. n |-> f[j]]
  BY <1>2
<1>4. IsSequence(f) /\ Len(f) = n
  BY <1>1, <1>3, CellsOfFunction
<1>5. QED
  BY <1>1, <1>4 DEF f

\* A read of the decryption pass asks for whole blocks.
LEMMA AsksForBlocks ==
  ASSUME NEW l \in Nat, l > 0
  PROVE  \E m \in Nat \ {0} :
           m <= l /\ Smaller(BlockSize * l, StreamChunk) = BlockSize * m
<1>1. /\ BlockSize \in Nat \ {0} /\ StreamChunk \in Nat \ {0}
      /\ StreamChunk % BlockSize = 0
  BY Widths, ChunkAssumption
<1> DEFINE c == StreamChunk \div BlockSize
<1>2. c \in Nat /\ StreamChunk = BlockSize * c
  <2>1. /\ c \in Nat
        /\ StreamChunk = BlockSize * c + (StreamChunk % BlockSize)
    BY <1>1, Euclid
  <2>2. BlockSize * c \in Nat
    BY <1>1, <2>1
  <2>3. QED
    BY <1>1, <2>1, <2>2
<1> HIDE DEF c
<1>3. c # 0
  <2>1. SUFFICES ASSUME c = 0 PROVE FALSE
    OBVIOUS
  <2>2. BlockSize * 0 = 0
    BY <1>1
  <2>3. QED
    BY <1>1, <1>2, <2>1, <2>2
<1>4. CASE l <= c
  <2>1. BlockSize * l <= BlockSize * c /\ BlockSize * l \in Nat /\ BlockSize * c \in Nat
    BY <1>1, <1>2, <1>4, BlockPlaces
  <2>2. Smaller(BlockSize * l, StreamChunk) = BlockSize * l
    <3> DEFINE x == BlockSize * l
               y == BlockSize * c
    <3>1. x <= y /\ x \in Nat /\ y \in Nat /\ StreamChunk = y
      BY <1>2, <2>1
    <3> HIDE DEF x, y
    <3>2. Smaller(x, StreamChunk) = x
      BY <3>1 DEF Smaller
    <3>3. QED
      BY <3>2 DEF x
  <2>3. l \in Nat \ {0} /\ l <= l
    OBVIOUS
  <2>4. QED
    BY <2>2, <2>3
<1>5. CASE c <= l
  <2>1. BlockSize * c <= BlockSize * l /\ BlockSize * l \in Nat /\ BlockSize * c \in Nat
    BY <1>1, <1>2, <1>5, BlockPlaces
  <2>2. Smaller(BlockSize * l, StreamChunk) = BlockSize * c
    <3> DEFINE x == BlockSize * l
               y == BlockSize * c
    <3>1. y <= x /\ x \in Nat /\ y \in Nat /\ StreamChunk = y
      BY <1>2, <2>1
    <3> HIDE DEF x, y
    <3>2. Smaller(x, StreamChunk) = y
      BY <3>1 DEF Smaller
    <3>3. QED
      BY <3>2 DEF x, y
  <2>3. c \in Nat \ {0}
    BY <1>2, <1>3
  <2>4. QED
    BY <1>5, <2>2, <2>3
<1>6. QED
  BY <1>2, <1>4, <1>5

\* One chunk, read whole: the output grows by its text.
LEMMA WholeChunk ==
  ASSUME Layout, IsFile(file), pos \in 0 .. Len(file),
         NEW k \in 0 .. FullBlocks, InStep(k), remaining = BlockSize * (FullBlocks - k),
         remaining > 0,
         NEW got \in Fread(Smaller(remaining, StreamChunk), "reread"),
         ~(Len(got) < Smaller(remaining, StreamChunk))
  PROVE  \E m \in Nat \ {0} :
           /\ k + m <= FullBlocks
           /\ got # <<>>
           /\ pos + Len(got) = HeaderWidth + BlockSize * (k + m)
           /\ remaining - Len(got) = BlockSize * (FullBlocks - (k + m))
           /\ ChainAfter(got, Len(got) \div BlockSize) = ChainOf(k + m)
           /\ out \o PlainOf(got) = SubSeq(PaddedText, 1, BlockSize * (k + m))
           /\ SubSeq(PaddedText, 1, BlockSize * (k + m)) = SubSeq(SealedText, 1, BlockSize * (k + m))
           /\ BlockSize * (k + m) \in Nat \ {0} /\ BlockSize * (k + m) <= Len(SealedText)
<1>1. /\ BlockSize \in Nat \ {0} /\ FullBlocks \in Nat /\ k \in Nat /\ k <= FullBlocks
      /\ HeaderWidth \in Nat /\ StreamChunk \in Nat \ {0}
      /\ pos = HeaderWidth + BlockSize * k /\ prev = ChainOf(k)
      /\ out = SubSeq(PaddedText, 1, BlockSize * k)
      /\ PaddedText \in Seq(Byte) /\ Len(PaddedText) = BlockSize * (FullBlocks + 1)
      /\ Len(SealedText) \in Nat /\ Len(SealedText) >= BlockSize * FullBlocks
  BY Widths DEF Layout, InStep
<1>2. FullBlocks - k \in Nat /\ FullBlocks - k > 0
  <2>1. FullBlocks - k \in Nat
    BY <1>1
  <2>2. FullBlocks - k # 0
    <3>1. SUFFICES ASSUME FullBlocks - k = 0 PROVE FALSE
      OBVIOUS
    <3>2. BlockSize * 0 = 0
      BY <1>1
    <3>3. QED
      BY <3>1, <3>2
  <2>3. QED
    BY <2>1, <2>2
<1>3. PICK m \in Nat \ {0} :
        m <= FullBlocks - k /\ Smaller(remaining, StreamChunk) = BlockSize * m
  BY <1>2, AsksForBlocks
<1>4. /\ m \in Nat /\ k + m \in Nat /\ k + m <= FullBlocks /\ k + m <= FullBlocks + 1
      /\ FullBlocks - (k + m) \in Nat /\ m + (FullBlocks - (k + m)) = FullBlocks - k
      /\ k <= k + m
  BY <1>1, <1>3
<1>5. /\ BlockSize * m \in Nat /\ BlockSize * k \in Nat
      /\ BlockSize * (k + m) = BlockSize * k + BlockSize * m
  BY <1>1, <1>4, BlockPlaces
<1>6. /\ BlockSize * (FullBlocks - (k + m)) \in Nat
      /\ BlockSize * (FullBlocks - k) = BlockSize * m + BlockSize * (FullBlocks - (k + m))
  BY <1>1, <1>4, BlockPlaces
<1>7. BlockSize * (k + m) <= BlockSize * FullBlocks
  BY <1>1, <1>4, BlockPlaces
<1>8. Len(got) = BlockSize * m /\ got = SubSeq(file, pos + 1, pos + Len(got))
  <2> DEFINE w == BlockSize * m
  <2>1. w \in Nat /\ got \in Fread(w, "reread") /\ ~(Len(got) < w)
    BY <1>3, <1>5
  <2> HIDE DEF w
  <2>2. Len(got) \in Nat /\ Len(got) <= w /\ got = SubSeq(file, pos + 1, pos + Len(got))
    BY <2>1, FreadCells
  <2>3. Len(got) = w
    BY <2>1, <2>2
  <2>4. QED
    BY <2>2, <2>3 DEF w
<1>9. AtBlock(k, m) /\ GotBlocks(got, k, m)
  BY <1>1, <1>4, <1>8 DEF AtBlock, GotBlocks
<1>10. Len(got) \div BlockSize = m
  BY <1>9, GotCells
<1>11. ChainAfter(got, Len(got) \div BlockSize) = ChainOf(k + m)
  <2>1. m \in 0 .. m
    BY <1>4
  <2>2. ChainAfter(got, m) = ChainOf(k + m)
    BY <1>9, <2>1, GotChain
  <2>3. QED
    BY <1>10, <2>2
<1>12. PlainOf(got) = SubSeq(PaddedText, BlockSize * k + 1, BlockSize * (k + m))
  BY <1>9, GotText
<1> DEFINE a == BlockSize * k
           n == BlockSize * m
           b == BlockSize * (k + m)
           f == BlockSize * FullBlocks
           rest == BlockSize * (FullBlocks - (k + m))
<1>13. /\ a \in Nat /\ n \in Nat /\ b = a + n /\ b <= f /\ f <= Len(SealedText)
       /\ Len(got) = n /\ pos = HeaderWidth + a /\ remaining = n + rest /\ rest \in Nat
       /\ out = SubSeq(PaddedText, 1, a) /\ PlainOf(got) = SubSeq(PaddedText, a + 1, b)
  BY <1>1, <1>5, <1>6, <1>7, <1>8, <1>12
<1>14. n >= 1
  <2>1. n >= BlockSize
    BY <1>1, <1>3, AtLeastOnce
  <2>2. QED
    BY <1>1, <1>13, <2>1
<1>15. b <= Len(PaddedText)
  <2>1. k + m <= FullBlocks + 1 /\ FullBlocks + 1 \in Nat
    BY <1>1, <1>4
  <2>2. b <= BlockSize * (FullBlocks + 1)
    BY <1>1, <1>4, <2>1, BlockPlaces
  <2>3. QED
    BY <1>1, <2>2
<1> HIDE DEF a, n, b, f, rest
<1>16. b \in Nat \ {0} /\ b <= Len(SealedText) /\ pos + Len(got) = HeaderWidth + b
       /\ remaining - Len(got) = rest
  <2>1. f \in Nat
    BY <1>1 DEF f
  <2>2. QED
    BY <1>1, <1>13, <1>14, <2>1
<1>17. out \o PlainOf(got) = SubSeq(PaddedText, 1, b)
  <2>1. a <= b /\ b \in Nat
    BY <1>13
  <2>2. SubSeq(PaddedText, 1, a) \o SubSeq(PaddedText, a + 1, b) = SubSeq(PaddedText, 1, b)
    <3>1. PaddedText \in Seq(Byte) /\ a \in Nat
      BY <1>1, <1>13
    <3>2. QED
      BY <1>15, <2>1, <3>1, Joined
  <2>3. QED
    BY <1>13, <2>2
<1>18. SubSeq(PaddedText, 1, b) = SubSeq(SealedText, 1, b)
  BY <1>16, TextFirst
<1>19. got # <<>>
  <2>1. Len(<<>>) = 0
    OBVIOUS
  <2>2. QED
    BY <1>13, <1>14, <2>1
<1>20. QED
  BY <1>4, <1>11, <1>16, <1>17, <1>18, <1>19 DEF b, rest

LEMMA DecryptChunkPlain ==
  ASSUME PlainInv, DecryptInv', DecryptChunk PROVE PlainStep
<1>1. /\ pc = "decrypt" /\ remaining > 0 /\ Layout /\ IsFile(file)
      /\ pos \in 0 .. Len(file) /\ remaining \in Nat /\ Len(out) \in Nat /\ OutIsSequence
      /\ Len(out) + remaining <= EncryptedSize - BlockSize
      /\ BlockSize \in Nat \ {0} /\ StreamChunk \in Nat \ {0} /\ EncryptedSize \in Int
  <2>1. pc = "decrypt" /\ remaining > 0
    BY DEF DecryptChunk
  <2>2. Layout /\ IsFile(file)
    BY <2>1, PlainOpened DEF Decrypting
  <2>3. /\ pos \in 0 .. Len(file) /\ remaining \in Nat /\ Len(out) \in Nat /\ OutIsSequence
        /\ Len(out) + remaining <= EncryptedSize - BlockSize
    BY <2>1 DEF PlainInv, DecryptInv, DataTypes, ClampInv
  <2>4. EncryptedSize \in Int
    <3>1. FullBlocks + 1 \in Nat /\ BlockSize \in Nat
      BY <2>2, Widths DEF Layout
    <3>2. QED
      BY <2>2, <3>1 DEF Layout
  <2>5. QED
    BY <2>1, <2>2, <2>3, <2>4, Widths
<1>2. UNCHANGED <<inputVars, headerVars>> /\ UNCHANGED inputVars
  BY DEF DecryptChunk
<1>3. PICK got \in Fread(Smaller(remaining, StreamChunk), "reread") :
        /\ pos' = pos + Len(got)
        /\ unnoticed' = (unnoticed \/ Len(got) < Smaller(remaining, StreamChunk))
        /\ \/ /\ got = <<>>
              /\ Continue("last_block")
              /\ UNCHANGED <<remaining, prev, out>>
           \/ /\ got # <<>>
              /\ prev' = ChainAfter(got, Len(got) \div BlockSize)
              /\ out' = out \o PlainOf(got)
              /\ remaining' = remaining - Len(got)
              /\ Continue("decrypt")
           \/ /\ got # <<>>
              /\ Fail(AllButLast(out \o PlainOf(got)), {"ctx", "chunk_buf", "input", "output"})
  BY DEF DecryptChunk
<1>4. Len(got) \in Nat
  <2>1. Smaller(remaining, StreamChunk) \in Nat
    BY <1>1 DEF Smaller
  <2>2. QED
    BY <1>1, <2>1, FreadCells
<1>5. EncryptedSize' = EncryptedSize
  BY <1>2, FileStays
<1>6. /\ PaddedText' = PaddedText /\ FullBlocks' = FullBlocks /\ \A k : ChainOf(k)' = ChainOf(k)
  BY <1>2, TextStays
<1>7. ASSUME ~unnoticed'
      PROVE  /\ ~unnoticed
             /\ \E k \in 0 .. FullBlocks, m \in Nat \ {0} :
                  /\ k + m <= FullBlocks
                  /\ got # <<>>
                  /\ pos + Len(got) = HeaderWidth + BlockSize * (k + m)
                  /\ remaining - Len(got) = BlockSize * (FullBlocks - (k + m))
                  /\ ChainAfter(got, Len(got) \div BlockSize) = ChainOf(k + m)
                  /\ out \o PlainOf(got) = SubSeq(PaddedText, 1, BlockSize * (k + m))
                  /\ SubSeq(PaddedText, 1, BlockSize * (k + m))
                       = SubSeq(SealedText, 1, BlockSize * (k + m))
                  /\ BlockSize * (k + m) \in Nat \ {0} /\ BlockSize * (k + m) <= Len(SealedText)
  <2>1. ~unnoticed /\ ~(Len(got) < Smaller(remaining, StreamChunk))
    BY <1>3, <1>7
  <2>2. PICK k \in 0 .. FullBlocks : InStep(k) /\ remaining = BlockSize * (FullBlocks - k)
    BY <1>1, <2>1 DEF PlainInv, StepInv
  <2>3. \E m \in Nat \ {0} :
           /\ k + m <= FullBlocks
           /\ got # <<>>
           /\ pos + Len(got) = HeaderWidth + BlockSize * (k + m)
           /\ remaining - Len(got) = BlockSize * (FullBlocks - (k + m))
           /\ ChainAfter(got, Len(got) \div BlockSize) = ChainOf(k + m)
           /\ out \o PlainOf(got) = SubSeq(PaddedText, 1, BlockSize * (k + m))
           /\ SubSeq(PaddedText, 1, BlockSize * (k + m)) = SubSeq(SealedText, 1, BlockSize * (k + m))
           /\ BlockSize * (k + m) \in Nat \ {0} /\ BlockSize * (k + m) <= Len(SealedText)
    BY <1>1, <2>1, <2>2, WholeChunk
  <2>4. QED
    BY <2>1, <2>3
<1>8. CASE got = <<>> /\ Continue("last_block") /\ UNCHANGED <<remaining, prev, out>>
  <2>1. pc' = "last_block" /\ UNCHANGED exitVars /\ out' = out
    BY <1>8 DEF Continue
  <2>2. Len(out') <= EncryptedSize' - BlockSize
    BY <1>1, <1>5, <2>1
  <2>3. ClampInv' /\ StepInv'
    BY <1>7, <1>8, <2>1, <2>2 DEF ClampInv, StepInv
  <2>4. QED
    BY <1>1, <1>2, <2>1, <2>3, GoingOn DEF Decrypting
<1>9. CASE /\ prev' = ChainAfter(got, Len(got) \div BlockSize)
           /\ out' = out \o PlainOf(got)
           /\ remaining' = remaining - Len(got)
           /\ Continue("decrypt")
  <2>1. pc' = "decrypt" /\ UNCHANGED exitVars
    BY <1>9 DEF Continue
  <2>2. Len(out') + remaining' <= EncryptedSize' - BlockSize
    <3>1. IsSequence(out)
      BY <1>1, SequenceIs DEF OutIsSequence
    <3>2. /\ IsSequence(PlainOf(got)) /\ Len(PlainOf(got)) \in Nat
          /\ Len(PlainOf(got)) <= Len(got)
      BY <1>4, PlainLength
    <3>3. Len(out \o PlainOf(got)) = Len(out) + Len(PlainOf(got))
      BY <3>1, <3>2, JoinedCells
    <3>4. Len(out') = Len(out) + Len(PlainOf(got)) /\ remaining' = remaining - Len(got)
          /\ Len(out) \in Nat /\ remaining \in Nat /\ EncryptedSize - BlockSize \in Int
          /\ Len(out) + remaining <= EncryptedSize - BlockSize
      BY <1>1, <1>9, <3>3
    <3>5. (Len(out) + Len(PlainOf(got))) + (remaining - Len(got)) <= EncryptedSize - BlockSize
      BY <1>4, <3>2, <3>4
    <3>6. QED
      BY <1>5, <3>4, <3>5
  <2>3. ClampInv'
    BY <2>1, <2>2 DEF ClampInv
  <2>4. StepInv'
    <3>1. SUFFICES ASSUME ~unnoticed'
                   PROVE  \E k \in 0 .. FullBlocks' :
                            InStep(k)' /\ remaining' = BlockSize * (FullBlocks' - k)
      BY <2>1 DEF StepInv
    <3>2. PICK k \in 0 .. FullBlocks, m \in Nat \ {0} :
             /\ k + m <= FullBlocks
             /\ pos + Len(got) = HeaderWidth + BlockSize * (k + m)
             /\ remaining - Len(got) = BlockSize * (FullBlocks - (k + m))
             /\ ChainAfter(got, Len(got) \div BlockSize) = ChainOf(k + m)
             /\ out \o PlainOf(got) = SubSeq(PaddedText, 1, BlockSize * (k + m))
      BY <1>7, <3>1
    <3>3. k + m \in 0 .. FullBlocks
      BY <3>2
    <3>4. /\ pos' = HeaderWidth + BlockSize * (k + m)
          /\ remaining' = BlockSize * (FullBlocks - (k + m))
          /\ prev' = ChainOf(k + m)
          /\ out' = SubSeq(PaddedText, 1, BlockSize * (k + m))
      BY <1>3, <1>9, <3>2
    <3>5. InStep(k + m)'
      BY <1>6, <3>4 DEF InStep
    <3>6. QED
      BY <1>6, <3>3, <3>4, <3>5
  <2>5. QED
    BY <1>1, <1>2, <2>1, <2>3, <2>4, GoingOn DEF Decrypting
<1>10. CASE Fail(AllButLast(out \o PlainOf(got)), {"ctx", "chunk_buf", "input", "output"})
  <2>1. ASSUME ~unnoticed' PROVE AllButLast(out \o PlainOf(got)) \in Prefixes(SealedText)
    <3>1. PICK k \in 0 .. FullBlocks, m \in Nat \ {0} :
             /\ out \o PlainOf(got) = SubSeq(SealedText, 1, BlockSize * (k + m))
             /\ BlockSize * (k + m) \in Nat \ {0} /\ BlockSize * (k + m) <= Len(SealedText)
      BY <1>7, <2>1
    <3> DEFINE n == BlockSize * (k + m)
    <3>2. out \o PlainOf(got) = SubSeq(SealedText, 1, n) /\ n \in Nat \ {0} /\ n <= Len(SealedText)
      BY <3>1
    <3> HIDE DEF n
    <3>3. SealedText \in Seq(Byte) /\ Len(SealedText) \in Nat
      BY <1>1 DEF Layout
    <3>4. AllButLast(SubSeq(SealedText, 1, n)) = SubSeq(SealedText, 1, n - 1)
      BY <3>2, <3>3, AllButLastOf
    <3>5. n - 1 \in 0 .. Len(SealedText)
      BY <3>2, <3>3
    <3>6. QED
      BY <3>2, <3>4, <3>5 DEF Prefixes
  <2>2. QED
    BY <1>1, <1>2, <1>10, <2>1, Failing DEF Decrypting
<1>11. QED
  BY <1>3, <1>8, <1>9, <1>10

LEMMA DecryptEndPlain ==
  ASSUME PlainInv, DecryptInv', DecryptEnd PROVE PlainStep
<1>1. pc = "decrypt" /\ remaining = 0 /\ pc' = "last_block" /\ UNCHANGED exitVars
  BY DEF DecryptEnd, Continue
<1>2. UNCHANGED <<inputVars, headerVars>> /\ UNCHANGED <<inputVars, pos, prev, out, unnoticed>>
  BY DEF DecryptEnd
<1>3. Layout /\ Len(out) \in Nat
  <2>1. Layout
    BY <1>1, PlainOpened DEF Decrypting
  <2>2. QED
    BY <2>1 DEF PlainInv, DecryptInv, DataTypes
<1>4. ClampInv'
  <2>1. Len(out) + 0 <= EncryptedSize - BlockSize
    BY <1>1 DEF PlainInv, ClampInv
  <2>2. Len(out') <= EncryptedSize' - BlockSize
    BY <1>2, <1>3, <2>1, FileStays
  <2>3. QED
    BY <1>1, <2>2 DEF ClampInv
<1>5. StepInv'
  <2>1. SUFFICES ASSUME ~unnoticed' PROVE InStep(FullBlocks)'
    BY <1>1 DEF StepInv
  <2>2. PICK k \in 0 .. FullBlocks : InStep(k) /\ 0 = BlockSize * (FullBlocks - k)
    BY <1>1, <1>2, <2>1 DEF PlainInv, StepInv
  <2>3. k = FullBlocks
    <3>1. FullBlocks \in Nat /\ k \in Nat /\ k <= FullBlocks /\ BlockSize \in Nat \ {0}
      BY <1>3, <2>2, Widths DEF Layout
    <3>2. ~(FullBlocks - k >= 1)
      <4>1. SUFFICES ASSUME FullBlocks - k >= 1 PROVE FALSE
        OBVIOUS
      <4>2. BlockSize * (FullBlocks - k) >= BlockSize
        BY <3>1, <4>1, AtLeastOnce
      <4>3. QED
        BY <2>2, <3>1, <4>2
    <3>3. QED
      BY <3>1, <3>2
  <2>4. InStep(FullBlocks)
    BY <2>2, <2>3
  <2>5. /\ PaddedText' = PaddedText /\ FullBlocks' = FullBlocks /\ \A i : ChainOf(i)' = ChainOf(i)
    BY <1>2, TextStays
  <2>6. QED
    BY <1>2, <2>4, <2>5 DEF InStep
<1>6. QED
  BY <1>1, <1>2, <1>4, <1>5, GoingOn DEF Decrypting

\* The last block, read whole, decrypts to the end of the padded text.
LEMMA LastGot ==
  ASSUME Layout, IsFile(file), pos \in 0 .. Len(file), InStep(FullBlocks),
         NEW got \in Fread(BlockSize, "reread"), ~(Len(got) < BlockSize)
  PROVE  PlainOf(got) = LastOfPadded
<1>1. BlockSize \in Nat \ {0} /\ BlockSize \in Nat /\ FullBlocks \in Nat
  BY Widths DEF Layout
<1>2. Len(got) \in Nat /\ Len(got) <= BlockSize /\ got = SubSeq(file, pos + 1, pos + Len(got))
  BY <1>1, FreadCells
<1>3. Len(got) = BlockSize /\ BlockSize * 1 = BlockSize
  BY <1>1, <1>2
<1>4. GotBlocks(got, FullBlocks, 1)
  BY <1>2, <1>3 DEF GotBlocks
<1>5. AtBlock(FullBlocks, 1)
  BY <1>1 DEF AtBlock, InStep
<1>6. QED
  BY <1>4, <1>5, GotText DEF LastOfPadded

\* In step after all whole blocks, that many bytes have been written.
LEMMA OutputLength ==
  ASSUME Layout, InStep(FullBlocks)
  PROVE  Len(out) = BlockSize * FullBlocks
<1> DEFINE f == BlockSize * FullBlocks
<1>1. /\ out = SubSeq(PaddedText, 1, f) /\ f \in Nat /\ PaddedText \in Seq(Byte)
  BY LastPadding DEF Layout, InStep
<1>2. f <= Len(PaddedText)
  <2>1. Len(PaddedText) = BlockSize * (FullBlocks + 1) /\ FullBlocks \in Nat
        /\ BlockSize \in Nat \ {0} /\ FullBlocks + 1 \in Nat /\ FullBlocks <= FullBlocks + 1
    BY Widths DEF Layout
  <2>2. QED
    BY <2>1, BlockPlaces
<1> HIDE DEF f
<1>3. 1 \in Nat \ {0} /\ 1 <= f + 1 /\ f - 1 + 1 = f
  BY <1>1
<1>4. Len(SubSeq(PaddedText, 1, f)) = f - 1 + 1
  BY <1>1, <1>2, <1>3, Slice
<1>5. QED
  BY <1>1, <1>3, <1>4 DEF f

\* Writing it, clamped, completes what should be delivered or fails on a part of it.
LEMMA LastWrite ==
  ASSUME Layout, InStep(FullBlocks), WriteLast(SubSeq(LastOfPadded, 1, LeftOver))
  PROVE  \/ out' = Delivered /\ Continue("close")
         \/ \E given \in Prefixes(SealedText) :
              Fail(given, {"ctx", "chunk_buf", "input", "output"})
<1> DEFINE f       == BlockSize * FullBlocks
           w       == SubSeq(LastOfPadded, 1, LeftOver)
           n       == LastLength
           written == SubSeq(w, 1, Clamp(Len(w)))
<1>1. /\ out = SubSeq(PaddedText, 1, f) /\ f \in Nat /\ OriginalSize \in Nat
      /\ PaddedText \in Seq(Byte) /\ SealedText \in Seq(Byte) /\ Len(SealedText) \in Nat
      /\ Len(SealedText) >= f
  BY LastPadding DEF Layout, InStep
<1>2. Len(out) = f
  BY OutputLength
<1>3. Len(w) = LeftOver
  <2>1. LeftOver \in Nat /\ LeftOver < BlockSize /\ LastOfPadded \in Seq(Byte)
        /\ Len(LastOfPadded) = BlockSize
    BY LastPadding
  <2>2. 1 \in Nat \ {0} /\ 1 <= LeftOver + 1 /\ LeftOver - 1 + 1 = LeftOver
        /\ LeftOver <= Len(LastOfPadded)
    BY <2>1, Widths
  <2>3. Len(w) = LeftOver - 1 + 1
    BY <2>1, <2>2, Slice
  <2>4. QED
    BY <2>2, <2>3
<1>4. Clamp(Len(w)) = n
  <2>1. n = IF OriginalSize < f THEN LeftOver ELSE Smaller(LeftOver, OriginalSize - f)
    BY DEF LastLength
  <2> HIDE DEF w, f, n
  <2>2. OriginalSize >= Len(out) <=> ~(OriginalSize < f)
    BY <1>1, <1>2
  <2>3. QED
    BY <1>2, <1>3, <2>1, <2>2 DEF Clamp
<1>5. /\ n \in Nat /\ f + n <= Len(SealedText)
      /\ SubSeq(w, 1, n) = SubSeq(LastOfPadded, 1, n)
      /\ Len(SubSeq(LastOfPadded, 1, n)) = n
      /\ SubSeq(PaddedText, 1, f) \o SubSeq(LastOfPadded, 1, n) = SubSeq(SealedText, 1, f + n)
      /\ SubSeq(SealedText, 1, f + n) = Delivered
  BY LastWritten
<1>6. written = SubSeq(LastOfPadded, 1, n)
  BY <1>4, <1>5
<1>7. \/ out' = out \o written /\ Continue("close")
      \/ /\ written # <<>>
         /\ Fail(AllButLast(out \o written), {"ctx", "chunk_buf", "input", "output"})
  BY DEF WriteLast
<1> HIDE DEF written, n, f, w
<1>8. out \o written = SubSeq(SealedText, 1, f + n) /\ Len(written) = n
  BY <1>1, <1>5, <1>6
<1>9. ASSUME written # <<>> PROVE AllButLast(out \o written) \in Prefixes(SealedText)
  <2>1. n # 0
    <3>1. SUFFICES ASSUME n = 0 PROVE FALSE
      OBVIOUS
    <3>2. LastOfPadded \in Seq(Byte) /\ Len(LastOfPadded) = BlockSize
      BY LastPadding
    <3>3. 0 \in Nat /\ 0 <= Len(LastOfPadded) /\ 1 \in Nat \ {0} /\ 1 <= 0 + 1 /\ 0 - 1 + 1 = 0
      BY <3>2, Widths
    <3>4. SubSeq(LastOfPadded, 1, 0) \in Seq(Byte) /\ Len(SubSeq(LastOfPadded, 1, 0)) = 0 - 1 + 1
      BY <3>2, <3>3, Slice
    <3>5. SubSeq(LastOfPadded, 1, 0) = <<>>
      BY <3>3, <3>4, EmptySeq
    <3>6. QED
      BY <1>6, <1>9, <3>1, <3>5
  <2>2. f + n \in Nat \ {0} /\ (f + n) - 1 \in 0 .. Len(SealedText)
    BY <1>1, <1>5, <2>1
  <2>3. AllButLast(SubSeq(SealedText, 1, f + n)) = SubSeq(SealedText, 1, (f + n) - 1)
    BY <1>1, <1>5, <2>2, AllButLastOf
  <2>4. QED
    BY <1>8, <2>2, <2>3 DEF Prefixes
<1>10. CASE out' = out \o written /\ Continue("close")
  BY <1>5, <1>8, <1>10
<1>11. QED
  BY <1>7, <1>9, <1>10

LEMMA LastBlockPlain ==
  ASSUME PlainInv, DecryptInv', LastBlock PROVE PlainStep
<1>1. /\ pc = "last_block" /\ Layout /\ IsFile(file) /\ pos \in 0 .. Len(file)
  <2>1. pc = "last_block"
    BY DEF LastBlock
  <2>2. Layout /\ IsFile(file)
    BY <2>1, PlainOpened DEF Decrypting
  <2>3. QED
    BY <2>1, <2>2 DEF PlainInv, DecryptInv, DataTypes
<1>2. UNCHANGED <<inputVars, headerVars>> /\ UNCHANGED inputVars
  BY DEF LastBlock
<1> DEFINE Failed == \E given : Fail(given, {"ctx", "chunk_buf", "input", "output"})
<1>3. PICK got \in Fread(BlockSize, "reread") :
        /\ unnoticed' = (unnoticed \/ Len(got) < BlockSize)
        /\ \/ /\ Len(got) < BlockSize
              /\ NoLastBlock
           \/ /\ PlainOf(got) # Junk
              /\ PaddingIsValid(PlainOf(got))
              /\ WriteLast(RemovePadding(PlainOf(got)))
           \/ /\ PlainOf(got) = Junk
              /\ \E n \in 0 .. BlockSize - 1 : WriteLast(SubSeq(Junk, 1, n))
           \/ /\ PlainOf(got) = Junk \/ ~PaddingIsValid(PlainOf(got))
              /\ Fail(out, {"ctx", "chunk_buf", "input", "output"})
  BY DEF LastBlock
<1>4. ASSUME ~unnoticed'
      PROVE  \/ out' = Delivered /\ Continue("close")
             \/ \E given \in Prefixes(SealedText) :
                  Fail(given, {"ctx", "chunk_buf", "input", "output"})
  <2>1. ~unnoticed /\ ~(Len(got) < BlockSize)
    BY <1>3, <1>4
  <2>2. InStep(FullBlocks)
    BY <1>1, <2>1 DEF PlainInv, StepInv
  <2>3. PlainOf(got) = LastOfPadded
    BY <1>1, <2>1, <2>2, LastGot
  <2>4. /\ LastOfPadded # Junk /\ PaddingIsValid(LastOfPadded)
        /\ RemovePadding(LastOfPadded) = SubSeq(LastOfPadded, 1, LeftOver)
    BY <1>1, LastPadding
  <2>5. WriteLast(SubSeq(LastOfPadded, 1, LeftOver))
    BY <1>3, <2>1, <2>3, <2>4
  <2>6. QED
    BY <1>1, <2>2, <2>5, LastWrite
<1>5. Continue("close") \/ Failed
  <2>1. ASSUME NEW plain, WriteLast(plain) PROVE Continue("close") \/ Failed
    BY <2>1 DEF WriteLast
  <2>2. CASE NoLastBlock
    BY <2>2 DEF NoLastBlock
  <2> HIDE DEF Failed
  <2>3. CASE WriteLast(RemovePadding(PlainOf(got)))
    BY <2>1, <2>3
  <2>4. CASE \E n \in 0 .. BlockSize - 1 : WriteLast(SubSeq(Junk, 1, n))
    BY <2>1, <2>4
  <2>5. CASE Fail(out, {"ctx", "chunk_buf", "input", "output"})
    BY <2>5 DEF Failed
  <2>6. QED
    BY <1>3, <2>2, <2>3, <2>4, <2>5
<1>6. CASE Continue("close")
  <2>1. pc' = "close" /\ UNCHANGED exitVars
    BY <1>6 DEF Continue
  <2>2. ~unnoticed' => out' = Delivered
    BY <1>4, <2>1 DEF Fail, Return
  <2>3. Delivered' = Delivered
    BY <1>2, TextStays
  <2>4. ClampInv' /\ StepInv'
    BY <2>1, <2>2, <2>3 DEF ClampInv, StepInv
  <2>5. QED
    BY <1>1, <1>2, <2>1, <2>4, GoingOn DEF Decrypting
<1>7. CASE Failed
  <2>1. CASE unnoticed'
    <3>1. PICK given : Fail(given, {"ctx", "chunk_buf", "input", "output"})
      BY <1>7
    <3>2. QED
      BY <1>1, <1>2, <2>1, <3>1, Failing DEF Decrypting
  <2>2. CASE ~unnoticed'
    <3>1. pc' = "done"
      BY <1>7 DEF Fail, Return
    <3>2. PICK given \in Prefixes(SealedText) : Fail(given, {"ctx", "chunk_buf", "input", "output"})
      BY <1>4, <2>2, <3>1 DEF Continue
    <3>3. QED
      BY <1>1, <1>2, <3>2, Failing DEF Decrypting
  <2>3. QED
    BY <2>1, <2>2
<1>8. QED
  BY <1>5, <1>6, <1>7

-----------------------------------------------------------------------------
(* The end of the process *)

LEMMA DeliveredIsPrefix ==
  ASSUME Layout PROVE Delivered \in Prefixes(SealedText)
<1>1. OriginalSize \in Nat /\ Len(SealedText) \in Nat
  BY DEF Layout
<1>2. DeliveredLength \in 0 .. Len(SealedText)
  BY <1>1 DEF DeliveredLength, Smaller
<1>3. QED
  BY <1>2 DEF Delivered, Prefixes

\* What has been written is the start of the text.
LEMMA WrittenIsPrefix ==
  ASSUME PlainInv, pc \in Decrypting, ~unnoticed
  PROVE  out \in Prefixes(SealedText)
<1>1. Layout
  BY PlainOpened
<1>2. CASE pc = "close"
  BY <1>1, <1>2, DeliveredIsPrefix DEF PlainInv, StepInv
<1>3. CASE pc \in {"decrypt", "last_block"}
  <2>1. PICK k \in 0 .. FullBlocks : InStep(k)
    <3>1. FullBlocks \in 0 .. FullBlocks
      BY <1>1 DEF Layout
    <3>2. QED
      BY <1>3, <3>1 DEF PlainInv, StepInv
  <2>2. /\ BlockSize \in Nat \ {0} /\ FullBlocks \in Nat /\ k \in Nat /\ k <= FullBlocks
        /\ Len(SealedText) \in Nat /\ Len(SealedText) >= BlockSize * FullBlocks
    BY <1>1, <2>1, Widths DEF Layout
  <2> DEFINE n == BlockSize * k
             f == BlockSize * FullBlocks
  <2>3. n \in Nat /\ n <= f /\ f \in Nat
    BY <2>2, BlockPlaces
  <2>4. out = SubSeq(PaddedText, 1, n)
    BY <2>1 DEF InStep
  <2>5. f <= Len(SealedText)
    BY <2>2, <2>3
  <2> HIDE DEF n, f
  <2>6. n <= Len(SealedText) /\ n \in 0 .. Len(SealedText)
    BY <2>2, <2>3, <2>5
  <2>7. SubSeq(PaddedText, 1, n) = SubSeq(SealedText, 1, n)
    BY <1>1, <2>3, <2>6, TextFirst
  <2>8. QED
    BY <2>4, <2>6, <2>7 DEF Prefixes
<1>4. QED
  BY <1>2, <1>3 DEF Decrypting

LEMMA ClosePlain ==
  ASSUME PlainInv, DecryptInv', CloseAndReturn PROVE PlainStep
<1>1. pc = "close" /\ pc' = "done" /\ result' = "0" /\ Verifies(file, password)
  <2>1. pc = "close" /\ pc' = "done" /\ result' = "0"
    BY DEF CloseAndReturn, Return
  <2>2. QED
    BY <2>1 DEF PlainInv, DecryptInv, OutputInv
<1>2. UNCHANGED <<inputVars, headerVars>> /\ UNCHANGED inputVars
  BY DEF CloseAndReturn
<1>3. file' = file /\ Legitimate(file) /\ Verifies(file, password)' = Verifies(file, password)
  BY <1>2, FileStays DEF PlainInv
<1>4. Layout
  BY <1>1, PlainOpened DEF Decrypting
<1>5. ~unnoticed' => disk' = Delivered
  <2>1. unnoticed' = (unnoticed \/ disk' # out)
    BY DEF CloseAndReturn
  <2>2. SUFFICES ASSUME ~unnoticed' PROVE disk' = Delivered
    OBVIOUS
  <2>3. ~unnoticed /\ disk' = out
    BY <2>1, <2>2
  <2>4. QED
    BY <1>1, <2>3 DEF PlainInv, StepInv
<1>6. Delivered' = Delivered /\ Prefixes(SealedText)' = Prefixes(SealedText)
  BY <1>2, TextStays
<1>7. ~unnoticed' => disk' \in Prefixes(SealedText)
  BY <1>4, <1>5, DeliveredIsPrefix
<1>8. ClampInv' /\ StepInv'
  BY <1>1 DEF ClampInv, StepInv
<1>9. EndInv'
  BY <1>1, <1>3, <1>5, <1>6, <1>7 DEF EndInv, Over, Decrypting
<1>10. QED
  BY <1>3, <1>7, <1>8, <1>9 DEF PlainInv, PlainStep

LEMMA CrashPlain ==
  ASSUME PlainInv, DecryptInv', Crash PROVE PlainStep
<1>1. /\ pc \notin Over /\ pc' = "crashed" /\ result' = result /\ unnoticed' = unnoticed
      /\ out' = out /\ result = "none"
  BY DEF Crash, Running, Over, PlainInv, EndInv
<1>2. UNCHANGED <<inputVars, headerVars>> /\ UNCHANGED inputVars
  BY DEF Crash
<1>3. file' = file /\ Legitimate(file)
  BY <1>2, FileStays DEF PlainInv
<1>4. CASE pc \notin Decrypting
  <2>1. "output" \notin held
    BY <1>1, <1>4
       DEF PlainInv, DecryptInv, ControlTypes, Places, HeldByPlace, Over, Decrypting
  <2>2. UNCHANGED disk
    BY <2>1 DEF Crash
  <2>3. QED
    BY <1>1, <1>2, <1>4, <2>2, EarlyStep DEF Over
<1>5. CASE pc \in Decrypting
  <2>1. "output" \in held
    BY <1>5 DEF PlainInv, DecryptInv, HeldByPlace, Decrypting
  <2>2. disk' \in Prefixes(out)
    BY <2>1 DEF Crash
  <2>3. ASSUME ~unnoticed' PROVE disk' \in Prefixes(SealedText)
    <3>1. out \in Prefixes(SealedText)
      BY <1>1, <1>5, <2>3, WrittenIsPrefix
    <3>2. SealedText \in Seq(Byte) /\ Len(SealedText) \in Nat
      BY <1>5, PlainOpened DEF Layout
    <3>3. PICK n \in 0 .. Len(SealedText) : out = SubSeq(SealedText, 1, n)
      BY <3>1 DEF Prefixes
    <3>4. n \in Nat /\ n <= Len(SealedText)
      BY <3>2, <3>3
    <3>5. disk' \in Prefixes(SubSeq(SealedText, 1, n))
      BY <2>2, <3>3
    <3>6. QED
      BY <3>2, <3>4, <3>5, PrefixOfPrefix
  <2>4. Prefixes(SealedText)' = Prefixes(SealedText)
    BY <1>2, TextStays
  <2>5. ClampInv' /\ StepInv'
    BY <1>1 DEF ClampInv, StepInv
  <2>6. EndInv'
    BY <1>1, <2>3, <2>4 DEF EndInv, Over, Decrypting
  <2>7. QED
    BY <1>3, <2>3, <2>5, <2>6 DEF PlainInv, PlainStep
<1>6. QED
  BY <1>4, <1>5

LEMMA StutterPlain ==
  ASSUME PlainInv, DecryptInv', UNCHANGED vars PROVE PlainStep
<1>1. /\ pc' = pc /\ result' = result /\ disk' = disk /\ unnoticed' = unnoticed
      /\ out' = out /\ prev' = prev /\ pos' = pos /\ remaining' = remaining
      /\ UNCHANGED <<inputVars, headerVars>> /\ UNCHANGED inputVars
  BY DEF vars, exitVars
<1>2. /\ file' = file /\ EncryptedSize' = EncryptedSize
      /\ Verifies(file, password)' = Verifies(file, password)
  BY <1>1, FileStays
<1>3. /\ PaddedText' = PaddedText /\ FullBlocks' = FullBlocks /\ Delivered' = Delivered
      /\ Prefixes(SealedText)' = Prefixes(SealedText) /\ \A k : ChainOf(k)' = ChainOf(k)
  BY <1>1, TextStays
<1>4. ClampInv'
  BY <1>1, <1>2 DEF PlainInv, ClampInv
<1>5. \A k : InStep(k)' = InStep(k)
  BY <1>1, <1>3 DEF InStep
<1>6. StepInv'
  BY <1>1, <1>3, <1>5 DEF PlainInv, StepInv
<1>7. EndInv'
  BY <1>1, <1>2, <1>3 DEF PlainInv, EndInv
<1>8. QED
  BY <1>1, <1>2, <1>4, <1>6, <1>7 DEF PlainInv, PlainStep

LEMMA ReadyPlain == Ready /\ password \in Passwords /\ Legitimate(file) => PlainInv
<1>1. SUFFICES ASSUME Ready, password \in Passwords, Legitimate(file) PROVE PlainInv
  OBVIOUS
<1>2. DecryptInv
  BY <1>1, ReadyInv DEF Legitimate
<1>3. pc = "open_input" /\ result = "none" /\ disk = NoFile /\ out = <<>>
  BY <1>1 DEF Ready
<1>4. ClampInv /\ StepInv
  BY <1>3 DEF ClampInv, StepInv
<1>5. EndInv
  BY <1>3 DEF EndInv, Over, Decrypting
<1>6. QED
  BY <1>1, <1>2, <1>4, <1>5 DEF PlainInv

LEMMA InitPlain == Init => PlainInv
<1>1. SUFFICES ASSUME Init PROVE PlainInv
  OBVIOUS
<1>2. Ready /\ password \in Passwords /\ Legitimate(file)
  BY <1>1, FilesAssumption, SealedAssumption DEF Init, Legitimate
<1>3. QED
  BY <1>2, ReadyPlain

\* Every step of the function, a crash and a stutter.
LEMMA StepPlain == ASSUME PlainInv, [Next]_vars PROVE PlainStep
<1>1. DecryptInv'
  BY NextInv DEF PlainInv
<1>2. CASE OpenInput \/ ReadSize \/ ReadSalt \/ ReadIv \/ Measure
  BY <1>1, <1>2, HeaderPlain
<1>3. CASE ReadMac \/ AllocChunk \/ AllocHmacData \/ VerifyRead \/ CheckMac
  BY <1>1, <1>3, VerifyPlain
<1>4. CASE OpenOutput \/ DecryptChunk \/ DecryptEnd \/ LastBlock
  BY <1>1, <1>4, OpenOutputPlain, DecryptChunkPlain, DecryptEndPlain, LastBlockPlain
<1>5. CASE CloseAndReturn \/ Crash
  BY <1>1, <1>5, ClosePlain, CrashPlain
<1>6. CASE Ended \/ UNCHANGED vars
  BY <1>1, <1>6, StutterPlain DEF Ended
<1>7. QED
  BY <1>2, <1>3, <1>4, <1>5, <1>6 DEF Next, Step

LEMMA NextPlain == PlainInv /\ [Next]_vars => PlainInv'
BY StepPlain DEF PlainStep

-----------------------------------------------------------------------------
(* The theorems *)

LEMMA PlainInvariance == Spec => []PlainInv
BY InitPlain, NextPlain, PTL DEF Spec

\* Returning 0 means the output is the sealed text up to the declared size, or all of it
\* where its whole blocks exceed that size, unless
\* a read or a flush nobody looks at fell short: the second reading of the
\* ciphertext, chunk by chunk, gives back every block in its place of the chain
\* (cipher.c:389-454).
THEOREM SuccessDecrypts == Spec => []SuccessIsPlaintext
<1>1. PlainInv => SuccessIsPlaintext
  BY DEF PlainInv, EndInv, SuccessIsPlaintext, Delivered, DeliveredLength, FullBlocks, WholeBlocks
<1>2. QED
  BY <1>1, PlainInvariance, PTL

\* Wherever the function fails or dies, the output file holds a prefix of the
\* sealed text and nothing else, under the same condition (cipher.c:397-453).
THEOREM OutputStaysPrefix == Spec => []OutputIsPrefix
<1>1. PlainInv => OutputIsPrefix
  <2>1. SUFFICES ASSUME PlainInv, disk # NoFile, ~unnoticed
                 PROVE  disk \in Prefixes(SealedText)
    BY DEF OutputIsPrefix
  <2>2. CASE pc \in Over
    BY <2>1, <2>2 DEF PlainInv, EndInv
  <2>3. CASE pc \in Decrypting
    <3>1. disk = <<>> /\ Layout
      BY <2>1, <2>3, PlainOpened DEF PlainInv, EndInv
    <3>2. 0 \in 0 .. Len(SealedText) /\ SubSeq(SealedText, 1, 0) = <<>>
      BY <3>1, NoText DEF Layout
    <3>3. QED
      BY <3>1, <3>2 DEF Prefixes
  <2>4. CASE pc \notin Over \cup Decrypting
    BY <2>1, <2>4 DEF PlainInv, EndInv
  <2>5. QED
    BY <2>2, <2>3, <2>4
<1>2. QED
  BY <1>1, PlainInvariance, PTL

\* The size_t subtraction of the clamp wraps only under a declared size below the whole
\* blocks of the text, short reads included, and does so under every such size when no
\* read has fallen short (cipher.c:441-443).
THEOREM ClampWrapsIfUnderdeclared == Spec => []WrapsIfUnderdeclared
<1>1. PlainInv => WrapsIfUnderdeclared
  <2>1. SUFFICES ASSUME PlainInv, pc = "last_block"
                 PROVE  /\ Len(out) > OriginalSize => OriginalSize < WholeBlocks
                        /\ (OriginalSize < WholeBlocks /\ ~unnoticed) => Len(out) > OriginalSize
    BY DEF WrapsIfUnderdeclared
  <2>2. Layout /\ Len(out) \in Nat /\ Len(out) <= EncryptedSize - BlockSize
    <3>1. Layout
      BY <2>1, PlainOpened DEF Decrypting
    <3>2. QED
      BY <2>1, <3>1 DEF PlainInv, ClampInv, DecryptInv, DataTypes
  <2>3. /\ BlockSize \in Nat \ {0} /\ FullBlocks \in Nat
        /\ EncryptedSize = BlockSize * (FullBlocks + 1)
        /\ OriginalSize \in Nat /\ WholeBlocks = BlockSize * FullBlocks
    BY <2>2, Widths DEF Layout, WholeBlocks, FullBlocks
  <2>4. /\ BlockSize * (FullBlocks + 1) = BlockSize * FullBlocks + BlockSize * 1
        /\ BlockSize * FullBlocks \in Nat
    BY <2>3, BlockPlaces
  <2>5. ~unnoticed => Len(out) = BlockSize * FullBlocks
    BY <2>1, <2>2, OutputLength DEF PlainInv, StepInv
  <2>6. QED
    BY <2>2, <2>3, <2>4, <2>5
<1>2. QED
  BY <1>1, PlainInvariance, PTL

-----------------------------------------------------------------------------
(* What a step hands over, for whoever composes the decoding with the encoding *)

\* A step of a decoding hands over nothing unless the file verifies, and then the
\* start of the text; all of it when the function returns 0.
LEMMA DecodingStep ==
  ASSUME PlainInv, Step \/ Crash, ~unnoticed', NEW text,
         Verifies(file, password) => SealsText(file, password, text)
  PROVE  /\ result = "none" /\ pc \notin Over /\ result' \in {"none", "0", "-1"}
         /\ UNCHANGED <<file, password>>
         /\ disk' # disk => Verifies(file, password) /\ disk' \in Prefixes(text)
         /\ result' = "0" => Verifies(file, password) /\ disk' = text
<1>1. PlainStep
  BY StepPlain DEF Next
<1>2. pc \notin Over
  BY DEF Step, OpenInput, ReadSize, ReadSalt, ReadIv, Measure, ReadMac, AllocChunk,
         AllocHmacData, VerifyRead, CheckMac, OpenOutput, DecryptChunk, DecryptEnd, LastBlock,
         CloseAndReturn, Crash, Running, Over
<1>3. result = "none"
  BY <1>2 DEF PlainInv, EndInv
<1>4. result' \in {"none", "0", "-1"}
  BY <1>1 DEF PlainStep, PlainInv, DecryptInv, ControlTypes
<1>5. UNCHANGED inputVars
  BY DEF Step, OpenInput, ReadSize, ReadSalt, ReadIv, Measure, ReadMac, AllocChunk,
         AllocHmacData, VerifyRead, CheckMac, OpenOutput, DecryptChunk, DecryptEnd, LastBlock,
         CloseAndReturn, Crash
<1>6. UNCHANGED <<file, password>> /\ Verifies(file, password)' = Verifies(file, password)
  BY <1>5, FileStays DEF inputVars
<1>7. ASSUME disk' # disk PROVE Verifies(file, password) /\ disk' \in Prefixes(text)
  <2>1. disk # NoFile \/ disk' # NoFile
    BY <1>7
  <2>2. Verifies(file, password)
    BY <1>1, <1>6, <2>1 DEF PlainStep, PlainInv, DecryptInv, OutputInv
  <2>3. disk' \in Prefixes(SealedText)
    BY <1>1, <1>7 DEF PlainStep
  <2>4. SealedText = text
    BY <2>2 DEF SealsText, SealedText
  <2>5. QED
    BY <2>2, <2>3, <2>4
<1>8. ASSUME result' = "0" PROVE Verifies(file, password) /\ disk' = text
  <2>1. CloseAndReturn
    BY <1>3, <1>8
       DEF Step, OpenInput, ReadSize, ReadSalt, ReadIv, Measure, ReadMac, AllocChunk,
           AllocHmacData, VerifyRead, CheckMac, OpenOutput, DecryptChunk, DecryptEnd, LastBlock,
           WriteLast, NoLastBlock, Crash, Continue, Fail, Return, exitVars
  <2>2. pc = "close" /\ UNCHANGED <<inputVars, headerVars>>
    BY <2>1 DEF CloseAndReturn
  <2>3. Opened /\ Layout
    BY <2>2, PlainOpened DEF Decrypting
  <2>4. SealsText(file, password, text)
    BY <2>3 DEF Opened
  <2>5. SealedText = text /\ OriginalSize = Len(text)
    BY <2>3, <2>4 DEF SealsText, SealedText, OriginalSize, Opened
  <2>6. text \in Seq(Byte) /\ Len(text) \in Nat
    BY <2>3, <2>5 DEF Layout
  <2>7. Delivered = text
    <3>1. DeliveredLength = Len(text)
      BY <2>5, <2>6 DEF DeliveredLength, Smaller
    <3>2. SubSeq(text, 1, Len(text)) = text
      BY <2>6, SubSeqFull
    <3>3. QED
      BY <2>5, <3>1, <3>2 DEF Delivered
  <2>8. Delivered' = Delivered
    BY <2>2, TextStays
  <2>9. disk' = Delivered'
    BY <1>1, <1>8 DEF PlainStep, PlainInv, EndInv
  <2>10. QED
    BY <2>3, <2>7, <2>8, <2>9 DEF Opened
<1>9. QED
  BY <1>2, <1>3, <1>4, <1>6, <1>7, <1>8

\* Without the fault a read of bytes that are there is not short.
LEMMA FreadWhole ==
  ASSUME IsFile(file), pos \in 0 .. Len(file), NEW wanted \in Nat, pos + wanted <= Len(file),
         NEW error, error \notin Faults, NEW got \in Fread(wanted, error)
  PROVE  Len(got) = wanted
<1>1. file \in Seq(FileCells) /\ Len(file) \in Nat /\ pos \in Nat
  BY FileType
<1>2. Smaller(wanted, Len(file) - pos) = wanted
  BY <1>1 DEF Smaller
<1>3. got = SubSeq(file, pos + 1, pos + wanted)
  BY <1>2 DEF Fread
<1>4. /\ pos + 1 \in Nat \ {0} /\ pos + wanted \in Nat /\ pos + wanted <= Len(file)
      /\ pos + 1 <= (pos + wanted) + 1 /\ ((pos + wanted) - (pos + 1)) + 1 = wanted
  BY <1>1
<1>5. Len(SubSeq(file, pos + 1, pos + wanted)) = ((pos + wanted) - (pos + 1)) + 1
  BY <1>1, <1>4, Slice
<1>6. QED
  BY <1>3, <1>4, <1>5

\* When short second reads and short flushes are no faults, nothing goes unnoticed.
LEMMA AllIsNoticed ==
  ASSUME PlainInv, Step \/ Crash, ~unnoticed, "reread" \notin Faults, "close" \notin Faults
  PROVE  ~unnoticed'
<1>1. IsFile(file) /\ pos \in 0 .. Len(file) /\ remaining \in Nat
  BY DEF PlainInv, DecryptInv, DataTypes
<1>2. CASE DecryptChunk
  <2>1. pc = "decrypt" /\ remaining > 0
    BY <1>2 DEF DecryptChunk
  <2>2. PICK got \in Fread(Smaller(remaining, StreamChunk), "reread") :
          unnoticed' = (unnoticed \/ Len(got) < Smaller(remaining, StreamChunk))
    BY <1>2 DEF DecryptChunk
  <2>3. PICK k \in 0 .. FullBlocks : InStep(k) /\ remaining = BlockSize * (FullBlocks - k)
    BY <2>1 DEF PlainInv, StepInv
  <2>4. Layout
    BY <2>1, PlainOpened DEF Decrypting
  <2>5. /\ FullBlocks \in Nat /\ k \in Nat /\ FullBlocks - k \in Nat
        /\ k + (FullBlocks - k) = FullBlocks
    BY <2>3, <2>4 DEF Layout
  <2>6. BlockSize * FullBlocks = BlockSize * k + remaining /\ BlockSize * k \in Nat
    BY <2>3, <2>5, Widths, BlockPlaces
  <2>7. pos + remaining <= Len(file)
    <3>1. Len(file) = (HeaderWidth + BlockSize * (FullBlocks + 1)) + MacWidth
      BY <2>4 DEF Layout
    <3>2. BlockSize * (FullBlocks + 1) = BlockSize * FullBlocks + BlockSize * 1
      BY <2>5, Widths, BlockPlaces
    <3>3. pos = HeaderWidth + BlockSize * k
      BY <2>3 DEF InStep
    <3> DEFINE a == BlockSize * k
               f == BlockSize * FullBlocks
    <3>4. /\ a \in Nat /\ f = a + remaining /\ pos = HeaderWidth + a
          /\ Len(file) = (HeaderWidth + (f + BlockSize)) + MacWidth
      BY <2>6, <3>1, <3>2, <3>3, Widths
    <3> HIDE DEF a, f
    <3>5. QED
      BY <1>1, <3>4, Widths
  <2> DEFINE wanted == Smaller(remaining, StreamChunk)
  <2>8. wanted \in Nat /\ wanted <= remaining
    BY <1>1, Widths DEF Smaller
  <2>9. pos \in Nat
    BY <1>1, FileType
  <2> HIDE DEF wanted
  <2>10. pos + wanted <= Len(file)
    <3>1. Len(file) \in Nat
      BY <1>1, FileType
    <3>2. QED
      BY <1>1, <2>7, <2>8, <2>9, <3>1
  <2>11. Len(got) = wanted
    BY <1>1, <2>2, <2>8, <2>10, FreadWhole DEF wanted
  <2>12. ~(Len(got) < wanted)
    BY <2>8, <2>11
  <2>13. QED
    BY <2>2, <2>12 DEF wanted
<1>3. CASE LastBlock
  <2>1. pc = "last_block"
    BY <1>3 DEF LastBlock
  <2>2. PICK got \in Fread(BlockSize, "reread") :
          unnoticed' = (unnoticed \/ Len(got) < BlockSize)
    BY <1>3 DEF LastBlock
  <2>3. Layout /\ InStep(FullBlocks)
    BY <2>1, PlainOpened DEF Decrypting, PlainInv, StepInv
  <2>4. pos + BlockSize <= Len(file)
    <3>1. FullBlocks \in Nat
      BY <2>3 DEF Layout
    <3>2. /\ BlockSize * (FullBlocks + 1) = BlockSize * FullBlocks + BlockSize * 1
          /\ BlockSize * FullBlocks \in Nat
      BY <3>1, Widths, BlockPlaces
    <3>3. /\ Len(file) = (HeaderWidth + BlockSize * (FullBlocks + 1)) + MacWidth
          /\ pos = HeaderWidth + BlockSize * FullBlocks
      BY <2>3 DEF Layout, InStep
    <3>4. QED
      BY <3>2, <3>3, Widths
  <2>5. Len(got) = BlockSize
    <3>1. BlockSize \in Nat
      BY Widths
    <3>2. QED
      BY <1>1, <2>2, <2>4, <3>1, FreadWhole
  <2>6. ~(Len(got) < BlockSize)
    BY <2>5, Widths
  <2>7. QED
    BY <2>2, <2>6
<1>4. CASE CloseAndReturn
  BY <1>4 DEF CloseAndReturn
<1>5. QED
  BY <1>2, <1>3, <1>4
     DEF Step, OpenInput, ReadSize, ReadSalt, ReadIv, Measure, ReadMac, AllocChunk,
         AllocHmacData, VerifyRead, CheckMac, OpenOutput, DecryptEnd, Crash

-----------------------------------------------------------------------------
(* A decoding none of whose calls fails *)

\* A file that verifies is not refused: the verification pass gathers all of it, and
\* the function ends with 0.
CalmInv ==
  Verifies(file, password) =>
    /\ pc = "check_mac" => remaining = 0
    /\ pc \in Over => result = "0"

\* A step that goes on, to any place but the comparison.
LEMMA CalmGoesOn ==
  ASSUME pc' \notin Over \cup {"check_mac"} PROVE CalmInv'
BY DEF CalmInv, Over

\* The file is long enough for its header, a block at least and its MAC.
LEMMA VerifiedLength ==
  ASSUME IsFile(file), Verifies(file, password)
  PROVE  /\ EncryptedSize > 0 /\ EncryptedSize % BlockSize = 0 /\ EncryptedSize \in Nat
         /\ Len(file) = (HeaderWidth + EncryptedSize) + MacWidth
<1>1. EncryptedSize > 0 /\ EncryptedSize % BlockSize = 0
  BY DEF Verifies, EncryptedSize
<1>2. Len(file) \in Nat /\ HeaderWidth \in Nat /\ MacWidth \in Nat
  BY FileType, Widths
<1>3. QED
  BY <1>1, <1>2 DEF EncryptedSize

\* The header is read whole and its length is accepted.
LEMMA HeaderCalm ==
  ASSUME DecryptInv, Faults = {}, Verifies(file, password),
         OpenInput \/ ReadSize \/ ReadSalt \/ ReadIv \/ Measure
  PROVE  CalmInv'
<1>1. /\ IsFile(file) /\ pos \in 0 .. Len(file) /\ PosInv
      /\ Len(file) \in Nat
      /\ SizeWidth \in Nat /\ SaltWidth \in Nat /\ BlockSize \in Nat
      /\ SizeWidth + SaltWidth + BlockSize <= Len(file)
      /\ EncryptedSize > 0 /\ EncryptedSize % BlockSize = 0
  <2>1. IsFile(file) /\ pos \in 0 .. Len(file) /\ PosInv
    BY DEF DecryptInv, DataTypes
  <2>2. /\ EncryptedSize > 0 /\ EncryptedSize % BlockSize = 0 /\ EncryptedSize \in Nat
        /\ Len(file) = (HeaderWidth + EncryptedSize) + MacWidth
    BY <2>1, VerifiedLength
  <2>3. QED
    BY <2>1, <2>2, Widths, FileType
<1>2. CASE OpenInput
  <2>1. pc' = "read_size"
    BY <1>2 DEF OpenInput
  <2>2. QED
    BY <2>1, CalmGoesOn DEF Over
<1>3. CASE ReadSize
  <2>1. PICK got \in Fread(SizeWidth, "read") :
          IF Len(got) = SizeWidth THEN Continue("read_salt") ELSE Fail(out, {"input"})
    BY <1>3 DEF ReadSize
  <2>2. pos + SizeWidth <= Len(file)
    BY <1>1, <1>3 DEF ReadSize, PosInv
  <2>3. Len(got) = SizeWidth
    BY <1>1, <2>2, FreadWhole
  <2>4. pc' = "read_salt"
    BY <2>1, <2>3 DEF Continue
  <2>5. QED
    BY <2>4, CalmGoesOn DEF Over
<1>4. CASE ReadSalt
  <2>1. PICK got \in Fread(SaltWidth, "read") : Len(got) = SaltWidth => pc' = "read_iv"
    BY <1>4 DEF ReadSalt
  <2>2. pos + SaltWidth <= Len(file)
    BY <1>1, <1>4 DEF ReadSalt, PosInv
  <2>3. Len(got) = SaltWidth
    BY <1>1, <2>2, FreadWhole
  <2>4. QED
    BY <2>1, <2>3, CalmGoesOn DEF Over
<1>5. CASE ReadIv
  <2>1. PICK got \in Fread(BlockSize, "read") :
          IF Len(got) = BlockSize THEN Continue("measure") ELSE Fail(out, {"ctx", "input"})
    BY <1>5 DEF ReadIv
  <2>2. pos + BlockSize <= Len(file)
    BY <1>1, <1>5 DEF ReadIv, PosInv
  <2>3. Len(got) = BlockSize
    BY <1>1, <2>2, FreadWhole
  <2>4. pc' = "measure"
    BY <2>1, <2>3 DEF Continue
  <2>5. QED
    BY <2>4, CalmGoesOn DEF Over
<1>6. CASE Measure
  <2>1. pc' = "read_mac"
    BY <1>1, <1>6 DEF Measure, Continue
  <2>2. QED
    BY <2>1, CalmGoesOn DEF Over
<1>7. QED
  BY <1>2, <1>3, <1>4, <1>5, <1>6

\* The verification pass ends with nothing left to read.
LEMMA VerifyReadCalm ==
  ASSUME DecryptInv, Faults = {}, Verifies(file, password), VerifyRead
  PROVE  CalmInv'
<1>1. pc = "verify_read"
  BY DEF VerifyRead
<1>2. /\ IsFile(file) /\ pos \in 0 .. Len(file) /\ remaining \in Nat
      /\ pos + remaining = HeaderWidth + EncryptedSize
  BY <1>1 DEF DecryptInv, DataTypes, VerifyInv
<1>3. pos \in Nat /\ Len(file) \in Nat /\ pos + remaining <= Len(file)
  BY <1>2, FileType, Widths, VerifiedLength
<1>4. CASE remaining = 0 /\ pc' = "check_mac" /\ UNCHANGED remaining
  BY <1>4 DEF CalmInv, Over
<1>5. ASSUME remaining > 0,
             NEW got \in Fread(Smaller(remaining, StreamChunk), "read"),
             pc' = IF got = <<>> THEN "check_mac" ELSE "verify_read"
      PROVE  CalmInv'
  <2> DEFINE wanted == Smaller(remaining, StreamChunk)
  <2>1. wanted \in Nat \ {0} /\ wanted <= remaining
    BY <1>2, <1>5, Widths DEF Smaller
  <2> HIDE DEF wanted
  <2>2. pos + wanted <= Len(file)
    BY <1>2, <1>3, <2>1
  <2>3. got \in Fread(wanted, "read")
    BY <1>5 DEF wanted
  <2>4. Len(got) = wanted
    BY <1>2, <2>1, <2>2, <2>3, FreadWhole
  <2>5. got # <<>>
    <3>1. Len(<<>>) = 0
      OBVIOUS
    <3>2. QED
      BY <2>1, <2>4, <3>1
  <2>6. QED
    BY <1>5, <2>5, CalmGoesOn DEF Over
<1>6. QED
  BY <1>4, <1>5 DEF VerifyRead

\* What has been gathered is what the MAC is over.
LEMMA CheckMacCalm ==
  ASSUME DecryptInv, CalmInv, Verifies(file, password), CheckMac
  PROVE  CalmInv'
<1>1. pc = "check_mac"
  BY DEF CheckMac
<1>2. /\ IsFile(file) /\ pos \in Nat /\ pos <= Len(file) /\ remaining = 0
      /\ salt = SubSeq(file, SizeWidth + 1, SizeWidth + SaltWidth)
      /\ storedMac = SubSeq(file, Len(file) - MacWidth + 1, Len(file))
      /\ hmacData = SubSeq(file, 1, pos)
      /\ pos + remaining = HeaderWidth + EncryptedSize
  <2>1. Len(file) \in Nat
    BY FileType DEF DecryptInv
  <2>2. QED
    BY <1>1, <2>1 DEF DecryptInv, CalmInv, DataTypes, SaltInv, MacInv, VerifyInv, Measured, Running, Over
<1>3. file \in Seq(FileCells) /\ Len(file) \in Nat
  BY <1>2, FileType
<1>4. pos = Len(file) - MacWidth /\ pos = HeaderWidth + EncryptedSize
  BY <1>2, <1>3, Widths DEF EncryptedSize
<1>5. SubSeq(file, 1, pos) \in Seq(FileCells) /\ Len(SubSeq(file, 1, pos)) = pos
  <2>1. 1 <= pos + 1 /\ pos - 1 + 1 = pos
    BY <1>2
  <2>2. QED
    BY <1>2, <1>3, <2>1, Slice
<1>6. HashedData = SubSeq(file, 1, pos)
  <2>1. HeaderWidth + EncryptedSize - Len(hmacData) = 0
    <3>1. Len(hmacData) = HeaderWidth + EncryptedSize
      BY <1>2, <1>4, <1>5
    <3>2. HeaderWidth \in Nat /\ EncryptedSize \in Int
      BY <1>3, Widths DEF EncryptedSize
    <3>3. QED
      BY <3>1, <3>2
  <2>2. Cells("uninitialized", 0, 0) = <<>>
    BY DEF Cells
  <2>3. QED
    BY <1>2, <1>5, <2>1, <2>2, ConcatEmptySeq DEF HashedData
<1>7. MacCells(MacKey, HashedData) = storedMac
  BY <1>2, <1>4, <1>6 DEF Verifies, MacKey
<1>8. pc' = "open_output"
  BY <1>7 DEF CheckMac
<1>9. QED
  BY <1>8, CalmGoesOn DEF Over

\* The last block is there, and its padding is valid.
LEMMA LastBlockCalm ==
  ASSUME PlainInv, Faults = {}, ~unnoticed, LastBlock
  PROVE  CalmInv'
<1>1. pc = "last_block"
  BY DEF LastBlock
<1>2. Layout /\ IsFile(file) /\ InStep(FullBlocks)
  BY <1>1, PlainOpened DEF Decrypting, PlainInv, StepInv
<1>3. pos \in 0 .. Len(file)
  BY DEF PlainInv, DecryptInv, DataTypes
<1>4. PICK got \in Fread(BlockSize, "reread") :
        /\ unnoticed' = (unnoticed \/ Len(got) < BlockSize)
        /\ \/ Len(got) < BlockSize
           \/ WriteLast(RemovePadding(PlainOf(got)))
           \/ PlainOf(got) = Junk
           \/ ~PaddingIsValid(PlainOf(got))
  BY DEF LastBlock
<1>5. ~unnoticed'
  BY AllIsNoticed DEF Step
<1>6. ~(Len(got) < BlockSize)
  BY <1>4, <1>5
<1>7. PlainOf(got) = LastOfPadded
  BY <1>2, <1>3, <1>6, LastGot
<1>8. WriteLast(RemovePadding(PlainOf(got)))
  BY <1>2, <1>4, <1>6, <1>7, LastPadding
<1>9. pc' = "close"
  BY <1>8 DEF WriteLast, Continue
<1>10. QED
  BY <1>9, CalmGoesOn DEF Over

\* Each step of a decoding none of whose calls fails.
LEMMA CalmStep ==
  ASSUME PlainInv, CalmInv, ~unnoticed, Faults = {}, Step
  PROVE  CalmInv'
<1>1. DecryptInv /\ Verifies(file, password)' = Verifies(file, password)
  <2>1. UNCHANGED inputVars
    BY DEF Step, OpenInput, ReadSize, ReadSalt, ReadIv, Measure, ReadMac, AllocChunk,
           AllocHmacData, VerifyRead, CheckMac, OpenOutput, DecryptChunk, DecryptEnd, LastBlock,
           CloseAndReturn
  <2>2. QED
    BY <2>1, FileStays DEF PlainInv
<1>2. SUFFICES ASSUME Verifies(file, password) PROVE CalmInv'
  BY <1>1 DEF CalmInv
<1>3. CASE OpenInput \/ ReadSize \/ ReadSalt \/ ReadIv \/ Measure
  BY <1>1, <1>2, <1>3, HeaderCalm
<1>4. CASE VerifyRead
  BY <1>1, <1>2, <1>4, VerifyReadCalm
<1>5. CASE CheckMac
  BY <1>1, <1>2, <1>5, CheckMacCalm
<1>6. CASE LastBlock
  BY <1>6, LastBlockCalm
<1>7. CASE ReadMac \/ AllocChunk \/ AllocHmacData \/ OpenOutput \/ DecryptEnd
  <2>1. pc' \notin Over \cup {"check_mac"}
    BY <1>7 DEF ReadMac, AllocChunk, AllocHmacData, OpenOutput, DecryptEnd, Continue, Over
  <2>2. QED
    BY <2>1, CalmGoesOn
<1>8. CASE DecryptChunk
  <2>1. pc' \in {"decrypt", "last_block"}
    BY <1>8 DEF DecryptChunk, Continue
  <2>2. QED
    BY <2>1, CalmGoesOn DEF Over
<1>9. CASE CloseAndReturn
  BY <1>9 DEF CloseAndReturn, Return, CalmInv
<1>10. QED
  BY <1>3, <1>4, <1>5, <1>6, <1>7, <1>8, <1>9 DEF Step

LEMMA CalmStutter == ASSUME CalmInv, UNCHANGED vars PROVE CalmInv'
BY DEF CalmInv, vars, inputVars, exitVars

LEMMA CalmReady == Ready => CalmInv
BY DEF Ready, CalmInv, Over
-----------------------------------------------------------------------------
(* The way to the end *)

Ahead ==
  [open_input |-> 15, read_size |-> 14, read_salt |-> 13, read_iv |-> 12, measure |-> 11,
   read_mac |-> 10, alloc_chunk |-> 9, alloc_hmac |-> 8, verify_read |-> 7, check_mac |-> 6,
   open_output |-> 5, decrypt |-> 4, last_block |-> 2, close |-> 1]

BeforeVerify ==
  {"open_input", "read_size", "read_salt", "read_iv", "measure", "read_mac", "alloc_chunk",
   "alloc_hmac"}

\* At most a step for each cell of the file, in each of the two passes.
Unread ==
  IF pc \in BeforeVerify THEN Len(file) + Len(file)
  ELSE IF pc = "verify_read" THEN Len(file) + remaining
  ELSE IF pc \in {"check_mac", "open_output"} THEN Len(file)
  ELSE IF pc = "decrypt" THEN remaining ELSE 0

\* A bound on the steps the function has before it.
StepsLeft == IF Running THEN Unread + Ahead[pc] ELSE 0

Descends == [][Step \/ Crash => StepsLeft' < StepsLeft]_vars

LEMMA StepsLeftParts ==
  ASSUME DecryptInv
  PROVE  /\ Len(file) \in Nat /\ remaining \in Nat
         /\ Unread \in Nat
         /\ Running => Ahead[pc] \in 1 .. 15
         /\ StepsLeft \in Nat /\ (Running => StepsLeft > 0)
<1>1. Len(file) \in Nat /\ remaining \in Nat /\ pc \in Places
  BY FileType DEF DecryptInv, DataTypes, ControlTypes
<1>2. Unread \in Nat
  BY <1>1 DEF Unread
<1>3. Running => Ahead[pc] \in 1 .. 15
  BY <1>1 DEF Places, Running, Ahead
<1>4. CASE Running
  <2>1. StepsLeft = Unread + Ahead[pc]
    BY <1>4 DEF StepsLeft
  <2>2. PICK ahead \in 1 .. 15 : ahead = Ahead[pc]
    BY <1>3, <1>4
  <2>3. StepsLeft \in Nat /\ StepsLeft > 0
    BY <1>2, <2>1, <2>2
  <2>4. QED
    BY <1>1, <1>2, <1>3, <2>3
<1>5. CASE ~Running
  BY <1>1, <1>2, <1>5 DEF StepsLeft
<1>6. QED
  BY <1>4, <1>5

\* A return or a crash leaves nothing to do.
LEMMA EndDescends == ASSUME DecryptInv, Running, ~Running' PROVE StepsLeft' < StepsLeft
BY StepsLeftParts DEF StepsLeft

LEMMA PlaceDescends ==
  ASSUME DecryptInv, Running, Running', Unread' \in Nat, Ahead[pc'] \in Nat,
         Unread' + Ahead[pc'] < Unread + Ahead[pc]
  PROVE  StepsLeft' < StepsLeft
BY StepsLeftParts DEF StepsLeft

\* The steps outside the two loops go to a later place without more to read.
LEMMA StraightDescends ==
  ASSUME DecryptInv,
         \/ OpenInput \/ ReadSize \/ ReadSalt \/ ReadIv \/ Measure \/ ReadMac
         \/ AllocChunk \/ CheckMac \/ DecryptEnd \/ LastBlock \/ CloseAndReturn
  PROVE  StepsLeft' < StepsLeft
<1>1. Running /\ file' = file
  BY DEF OpenInput, ReadSize, ReadSalt, ReadIv, Measure, ReadMac, AllocChunk, CheckMac,
         DecryptEnd, LastBlock, CloseAndReturn, inputVars, Running
<1>2. CASE ~Running'
  BY <1>1, <1>2, EndDescends
<1>3. CASE Running'
  <2>1. \/ pc \in BeforeVerify /\ pc' \in BeforeVerify
        \/ pc = "check_mac" /\ pc' = "open_output"
        \/ pc = "decrypt" /\ pc' = "last_block"
        \/ pc = "last_block" /\ pc' = "close"
    BY <1>3 DEF OpenInput, ReadSize, ReadSalt, ReadIv, Measure, ReadMac, AllocChunk, CheckMac,
                DecryptEnd, LastBlock, NoLastBlock, WriteLast, CloseAndReturn, Fail, Return,
                Continue, Running, BeforeVerify
  <2>2. Ahead[pc'] \in Nat /\ Ahead[pc] \in Nat /\ Ahead[pc'] < Ahead[pc]
    <3>1. CASE pc \in BeforeVerify /\ pc' \in BeforeVerify
      BY <1>3, <3>1 DEF OpenInput, ReadSize, ReadSalt, ReadIv, Measure, ReadMac, AllocChunk,
                CheckMac, DecryptEnd, LastBlock, NoLastBlock, WriteLast, CloseAndReturn, Fail,
                Return, Continue, Running, BeforeVerify, Ahead
    <3>2. QED
      BY <2>1, <3>1 DEF Ahead
  <2>3. Unread' \in Nat /\ Unread' <= Unread
    BY <1>1, <2>1, StepsLeftParts DEF Unread, BeforeVerify
  <2>4. QED
    BY <1>1, <1>3, <2>2, <2>3, StepsLeftParts, PlaceDescends
<1>4. QED
  BY <1>2, <1>3

\* Each pass starts with at most the cells of the file before it.
LEMMA PassDescends ==
  ASSUME DecryptInv, AllocHmacData \/ OpenOutput
  PROVE  StepsLeft' < StepsLeft
<1>1. /\ Running /\ file' = file
      /\ HeaderWidth \in Nat /\ MacWidth \in Nat /\ BlockSize \in Nat
  BY SizesAssumption DEF AllocHmacData, OpenOutput, inputVars, Running, HeaderWidth
<1>2. CASE ~Running'
  BY <1>1, <1>2, EndDescends
<1>3. EncryptedSize \in Nat /\ EncryptedSize <= Len(file) /\ BlockSize <= EncryptedSize
  <2>1. Len(file) \in Nat
    BY StepsLeftParts
  <2>2. EncryptedSize \in Int /\ EncryptedSize <= Len(file)
    BY <1>1, <2>1 DEF EncryptedSize
  <2>3. pc \in {"alloc_hmac", "open_output"}
    BY DEF AllocHmacData, OpenOutput
  <2>4. EncryptedSize > 0 /\ EncryptedSize % BlockSize = 0
    BY <1>1, <2>3 DEF DecryptInv, MeasureInv, Measured
  <2>5. BlockSize <= EncryptedSize
    BY <2>2, <2>4, WholeBlock, SizesAssumption
  <2>6. QED
    BY <2>2, <2>4, <2>5
<1>4. CASE AllocHmacData /\ Running'
  <2>1. pc = "alloc_hmac" /\ pc' = "verify_read" /\ remaining' = EncryptedSize
    BY <1>4 DEF AllocHmacData, Fail, Return, Running
  <2>2. Unread = Len(file) + Len(file) /\ Unread' = Len(file) + EncryptedSize
    BY <1>1, <2>1 DEF Unread, BeforeVerify
  <2>3. Ahead[pc] = 8 /\ Ahead[pc'] = 7
    BY <2>1 DEF Ahead
  <2>4. QED
    BY <1>1, <1>3, <1>4, <2>2, <2>3, StepsLeftParts, PlaceDescends
<1>5. CASE OpenOutput /\ Running'
  <2>1. pc = "open_output" /\ pc' = "decrypt" /\ remaining' = EncryptedSize - BlockSize
    BY <1>5 DEF OpenOutput, Fail, Return, Running
  <2>2. EncryptedSize - BlockSize \in Nat /\ EncryptedSize - BlockSize <= Len(file)
    BY <1>1, <1>3
  <2>3. Unread = Len(file) /\ Unread' = EncryptedSize - BlockSize
    BY <1>1, <2>1 DEF Unread, BeforeVerify
  <2>4. Ahead[pc] = 5 /\ Ahead[pc'] = 4
    BY <2>1 DEF Ahead
  <2>5. QED
    BY <1>1, <1>5, <2>2, <2>3, <2>4, StepsLeftParts, PlaceDescends
<1>6. QED
  BY <1>2, <1>4, <1>5

\* A turn of either loop consumes something or is the last.
LEMMA LoopDescends ==
  ASSUME DecryptInv, VerifyRead \/ DecryptChunk
  PROVE  StepsLeft' < StepsLeft
<1>1. /\ Running /\ file' = file /\ StreamChunk \in Nat
      /\ Smaller(remaining, StreamChunk) \in Nat /\ Smaller(remaining, StreamChunk) <= remaining
      /\ IsFile(file) /\ pos \in 0 .. Len(file)
  BY StepsLeftParts, SizesAssumption
     DEF VerifyRead, DecryptChunk, inputVars, Running, Smaller, DecryptInv, DataTypes
<1>2. CASE ~Running'
  BY <1>1, <1>2, EndDescends
<1>3. CASE VerifyRead /\ Running'
  <2>1. pc = "verify_read" /\ Unread = Len(file) + remaining /\ Ahead[pc] = 7
    BY <1>3 DEF VerifyRead, Unread, BeforeVerify, Ahead
  <2>2. CASE pc' = "check_mac"
    <3>1. Unread' = Len(file) /\ Ahead[pc'] = 6
      BY <1>1, <2>2 DEF Unread, BeforeVerify, Ahead
    <3>2. QED
      BY <1>1, <1>3, <2>1, <3>1, StepsLeftParts, PlaceDescends
  <2>3. CASE pc' # "check_mac"
    <3>1. PICK got \in Fread(Smaller(remaining, StreamChunk), "read") :
            remaining' = remaining - Len(got) /\ pc' = "verify_read" /\ got # <<>>
      BY <1>3, <2>3 DEF VerifyRead
    <3>2. Len(got) \in Nat \ {0} /\ Len(got) <= remaining
      <4>1. /\ got \in Seq(FileCells) /\ Len(got) \in Nat
            /\ Len(got) <= Smaller(remaining, StreamChunk)
        BY <1>1, FreadCells
      <4>2. Len(got) # 0
        BY <3>1, <4>1, EmptySeq
      <4>3. QED
        BY <1>1, <4>1, <4>2, StepsLeftParts
    <3>3. Unread' = Len(file) + (remaining - Len(got)) /\ Ahead[pc'] = 7
      BY <1>1, <3>1 DEF Unread, BeforeVerify, Ahead
    <3>4. QED
      BY <1>1, <1>3, <2>1, <3>2, <3>3, StepsLeftParts, PlaceDescends
  <2>4. QED
    BY <2>2, <2>3
<1>4. CASE DecryptChunk /\ Running'
  <2>1. pc = "decrypt" /\ Unread = remaining /\ Ahead[pc] = 4
    BY <1>4 DEF DecryptChunk, Unread, BeforeVerify, Ahead
  <2>2. CASE pc' = "last_block"
    <3>1. Unread' = 0 /\ Ahead[pc'] = 2
      BY <2>2 DEF Unread, BeforeVerify, Ahead
    <3>2. QED
      BY <1>1, <1>4, <2>1, <3>1, StepsLeftParts, PlaceDescends
  <2>3. CASE pc' # "last_block"
    <3>1. PICK got \in Fread(Smaller(remaining, StreamChunk), "reread") :
            remaining' = remaining - Len(got) /\ pc' = "decrypt" /\ got # <<>>
      BY <1>4, <2>3 DEF DecryptChunk, Continue, Fail, Return, Running
    <3>2. Len(got) \in Nat \ {0} /\ Len(got) <= remaining
      <4>1. /\ got \in Seq(FileCells) /\ Len(got) \in Nat
            /\ Len(got) <= Smaller(remaining, StreamChunk)
        BY <1>1, FreadCells
      <4>2. Len(got) # 0
        BY <3>1, <4>1, EmptySeq
      <4>3. QED
        BY <1>1, <4>1, <4>2, StepsLeftParts
    <3>3. Unread' = remaining - Len(got) /\ Ahead[pc'] = 4
      BY <1>1, <3>1 DEF Unread, BeforeVerify, Ahead
    <3>4. QED
      BY <1>1, <1>4, <2>1, <3>2, <3>3, StepsLeftParts, PlaceDescends
  <2>4. QED
    BY <2>2, <2>3
<1>5. QED
  BY <1>2, <1>3, <1>4

LEMMA StepDescends == ASSUME DecryptInv, Step \/ Crash PROVE StepsLeft' < StepsLeft
<1>1. CASE Crash
  BY <1>1, EndDescends DEF Crash, Running
<1>2. QED
  BY <1>1, StraightDescends, PassDescends, LoopDescends DEF Step

\* The decryption cannot go on for ever: each of its steps, each turn of the two read
\* loops included, lowers a number that starts at the length of the file twice, and a
\* constant, and never goes below zero (cipher.c:347-354, 397-420).
THEOREM DecryptionDescends == Spec => [](StepsLeft \in Nat) /\ Descends
<1>1. DecryptInv => StepsLeft \in Nat
  BY StepsLeftParts
<1>2. DecryptInv /\ [Next]_vars => [Step \/ Crash => StepsLeft' < StepsLeft]_vars
  BY StepDescends
<1>3. QED
  BY <1>1, <1>2, Invariance, PTL DEF Spec, Descends
=============================================================================
