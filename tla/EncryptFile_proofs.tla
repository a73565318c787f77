------------------------- MODULE EncryptFile_proofs -------------------------
(***************************************************************************)
(* For every text, block size, chunk size and set of faults: the types of  *)
(* EncryptFile, that every exit releases what was acquired, and what the   *)
(* streaming loop does with the bytes it reads, also while another process *)
(* appends to the input: nothing is lost, doubled or reordered between the *)
(* chunk, the partial block carried to the next chunk and the blocks       *)
(* already encrypted (StreamInv).  That the ciphertext of an input that    *)
(* did not grow fits its allocation follows.                               *)
(*                                                                         *)
(* SealInv adds what has been written, from "What the function leaves in   *)
(* its output" on: a return of 0 leaves the sealed form of the input, and  *)
(* whatever is left otherwise verifies only if it is whole.  The last      *)
(* section says this as RoundTrip_proofs needs it (LeftInv).               *)
(*                                                                         *)
(* First come lemmas about the format, for every width and block size:     *)
(* sequences of cells and their parts, the ciphertext block by block, and  *)
(* why no decoder accepts cells that end before the last byte of a MAC.    *)
(***************************************************************************)
EXTENDS EncryptFile, SequenceTheorems, TLAPS

IsSequence(s) == s \in Seq({s[i] : i \in DOMAIN s})

\* Cells without the last byte of a MAC: no decoder accepts them.
Unsealed(cells) ==
  /\ IsSequence(cells)
  /\ \A k \in DOMAIN cells : ~(cells[k][1] = "mac" /\ cells[k][3] = MacWidth)

-----------------------------------------------------------------------------
(* Division *)

LEMMA Euclid ==
  ASSUME NEW B \in Nat \ {0}, NEW x \in Nat
  PROVE  x \div B \in Nat /\ x % B \in Nat /\ x % B < B /\ x = B * (x \div B) + (x % B)
<1>1. x % B \in 0 .. B - 1
  OBVIOUS
<1>2. x = B * (x \div B) + (x % B)
  OBVIOUS
<1>3. x \div B \in Int
  OBVIOUS
<1>4. x \div B >= 0
  OBVIOUS
<1>5. QED
  BY <1>1, <1>2, <1>3, <1>4

LEMMA AtLeastOnce ==
  ASSUME NEW B \in Nat \ {0}, NEW k \in Int, k >= 1 PROVE B * k >= B
OBVIOUS

LEMMA QuotientUnique ==
  ASSUME NEW B \in Nat \ {0}, NEW q \in Nat, NEW r \in Nat, r < B,
         NEW d \in Nat, NEW m \in Nat, m < B, B * q + r = B * d + m
  PROVE  q = d /\ r = m
<1>1. B * (q - d) = m - r /\ B * (d - q) = r - m
  <2>1. \A a, b \in Int : B * (a - b) = B * a - B * b
    OBVIOUS
  <2>2. QED
    BY <2>1
<1>2. ~(q - d >= 1)
  BY <1>1, AtLeastOnce
<1>3. ~(d - q >= 1)
  BY <1>1, AtLeastOnce
<1>4. q = d
  BY <1>2, <1>3
<1>5. QED
  BY <1>1, <1>4

\* Dividing a number given by its quotient and remainder.
LEMMA DivMod ==
  ASSUME NEW B \in Nat \ {0}, NEW q \in Nat, NEW r \in Nat, r < B
  PROVE  (B * q + r) \div B = q /\ (B * q + r) % B = r
<1> DEFINE x == B * q + r
<1>1. x \in Nat
  OBVIOUS
<1>2. x \div B \in Nat /\ x % B \in Nat /\ x % B < B /\ x = B * (x \div B) + (x % B)
  BY <1>1, Euclid
<1>3. QED
  BY <1>2, QuotientUnique

-----------------------------------------------------------------------------
(* Sequences of cells *)

LEMMA SequenceIs == ASSUME NEW S, NEW s \in Seq(S) PROVE IsSequence(s)
BY LenProperties, ElementOfSeq DEF IsSequence

\* Two sequences one after the other.
LEMMA JoinedCells ==
  ASSUME NEW a, NEW b, IsSequence(a), IsSequence(b)
  PROVE  /\ IsSequence(a \o b)
         /\ Len(a) \in Nat /\ Len(b) \in Nat /\ Len(a \o b) = Len(a) + Len(b)
         /\ DOMAIN a = 1 .. Len(a) /\ DOMAIN b = 1 .. Len(b)
         /\ DOMAIN (a \o b) = 1 .. Len(a) + Len(b)
         /\ \A i \in 1 .. Len(a) : (a \o b)[i] = a[i]
         /\ \A i \in Len(a) + 1 .. Len(a) + Len(b) : (a \o b)[i] = b[i - Len(a)]
<1> DEFINE S == {a[i] : i \in DOMAIN a} \cup {b[i] : i \in DOMAIN b}
<1>1. a \in Seq(S) /\ b \in Seq(S)
  BY DEF IsSequence
<1>a. Len(a) \in Nat /\ Len(b) \in Nat /\ DOMAIN a = 1 .. Len(a) /\ DOMAIN b = 1 .. Len(b)
  BY <1>1, LenProperties
<1> HIDE DEF S
<1>2. /\ (a \o b) \in Seq(S) /\ Len(a \o b) = Len(a) + Len(b)
      /\ \A i \in 1 .. Len(a) + Len(b) :
           (a \o b)[i] = IF i <= Len(a) THEN a[i] ELSE b[i - Len(a)]
  BY <1>1, ConcatProperties
<1>3. IsSequence(a \o b) /\ DOMAIN (a \o b) = 1 .. Len(a) + Len(b)
  BY <1>2, SequenceIs, LenProperties
<1>4. \A i \in 1 .. Len(a) : (a \o b)[i] = a[i]
  BY <1>a, <1>2
<1>5. \A i \in Len(a) + 1 .. Len(a) + Len(b) : (a \o b)[i] = b[i - Len(a)]
  BY <1>a, <1>2
<1>6. QED
  BY <1>a, <1>2, <1>3, <1>4, <1>5

\* Joining sequences is associative.
LEMMA CellsAssociate ==
  ASSUME NEW a, NEW b, NEW c, IsSequence(a), IsSequence(b), IsSequence(c)
  PROVE  (a \o b) \o c = a \o (b \o c)
<1> DEFINE S == {a[i] : i \in DOMAIN a} \cup {b[i] : i \in DOMAIN b} \cup {c[i] : i \in DOMAIN c}
<1>1. a \in Seq(S) /\ b \in Seq(S) /\ c \in Seq(S)
  BY DEF IsSequence
<1> HIDE DEF S
<1>2. QED
  BY <1>1

\* Two sequences with the same cells are the same.
LEMMA SameCells ==
  ASSUME NEW a, NEW b, IsSequence(a), IsSequence(b), Len(a) = Len(b),
         \A i \in 1 .. Len(a) : a[i] = b[i]
  PROVE  a = b
<1> DEFINE S == {a[i] : i \in DOMAIN a} \cup {b[i] : i \in DOMAIN b}
<1>1. a \in Seq(S) /\ b \in Seq(S)
  BY DEF IsSequence
<1> HIDE DEF S
<1>2. QED
  BY <1>1, SeqEqual

\* The first cells of a sequence.
LEMMA FirstCells ==
  ASSUME NEW a, IsSequence(a), NEW n \in 0 .. Len(a)
  PROVE  /\ IsSequence(SubSeq(a, 1, n)) /\ Len(SubSeq(a, 1, n)) = n
         /\ DOMAIN SubSeq(a, 1, n) = 1 .. n
         /\ \A i \in 1 .. n : SubSeq(a, 1, n)[i] = a[i] /\ i \in DOMAIN a
<1> DEFINE S == {a[i] : i \in DOMAIN a}
<1>1. a \in Seq(S)
  BY DEF IsSequence
<1>2. Len(a) \in Nat /\ n \in Nat /\ n <= Len(a) /\ DOMAIN a = 1 .. Len(a)
  BY <1>1, LenProperties
<1> HIDE DEF S
<1>3. \A i \in 1 .. n : a[i] \in S
  BY <1>1, <1>2, ElementOfSeq
<1>4. /\ SubSeq(a, 1, n) \in Seq(S)
      /\ Len(SubSeq(a, 1, n)) = IF 1 <= n THEN n - 1 + 1 ELSE 0
      /\ \A i \in 1 .. n - 1 + 1 : SubSeq(a, 1, n)[i] = a[1 + i - 1]
  BY <1>2, <1>3, SubSeqProperties
<1>5. Len(SubSeq(a, 1, n)) = n
  BY <1>2, <1>4
<1>6. \A i \in 1 .. n : SubSeq(a, 1, n)[i] = a[i] /\ i \in DOMAIN a
  <2>1. \A i \in 1 .. n : i \in 1 .. n - 1 + 1 /\ 1 + i - 1 = i
    BY <1>2
  <2>2. QED
    BY <1>2, <1>4, <2>1
<1>7. QED
  BY <1>4, <1>5, <1>6, SequenceIs, LenProperties

\* A function on an initial segment is a sequence.
LEMMA CellsOfFunction ==
  ASSUME NEW n \in Nat, NEW f, f = [i \in 1 .. n |-> f[i]]
  PROVE  IsSequence(f) /\ Len(f) = n /\ DOMAIN f = 1 .. n
BY DEF IsSequence

\* Appending does not change the cells before.
LEMMA FirstOfJoined ==
  ASSUME NEW a, NEW b, IsSequence(a), IsSequence(b), NEW n \in 0 .. Len(a)
  PROVE  SubSeq(a \o b, 1, n) = SubSeq(a, 1, n)
<1>1. /\ IsSequence(a \o b) /\ Len(a) \in Nat /\ Len(b) \in Nat
      /\ Len(a \o b) = Len(a) + Len(b)
      /\ \A i \in 1 .. Len(a) : (a \o b)[i] = a[i]
  BY JoinedCells
<1>2. n \in 0 .. Len(a \o b) /\ 1 .. n \subseteq 1 .. Len(a)
  BY <1>1
<1>3. /\ IsSequence(SubSeq(a, 1, n)) /\ Len(SubSeq(a, 1, n)) = n
      /\ \A i \in 1 .. n : SubSeq(a, 1, n)[i] = a[i]
  BY FirstCells
<1>4. /\ IsSequence(SubSeq(a \o b, 1, n)) /\ Len(SubSeq(a \o b, 1, n)) = n
      /\ \A i \in 1 .. n : SubSeq(a \o b, 1, n)[i] = (a \o b)[i]
  BY <1>1, <1>2, FirstCells
<1>5. \A i \in 1 .. n : SubSeq(a \o b, 1, n)[i] = SubSeq(a, 1, n)[i]
  BY <1>1, <1>2, <1>3, <1>4
<1>6. QED
  BY <1>3, <1>4, <1>5, SameCells

LEMMA EmptyFirst == ASSUME NEW a, IsSequence(a) PROVE <<>> \o a = a /\ a \o <<>> = a
<1> DEFINE S == {a[i] : i \in DOMAIN a}
<1>1. a \in Seq(S)
  BY DEF IsSequence
<1> HIDE DEF S
<1>2. QED
  BY <1>1, ConcatEmptySeq

-----------------------------------------------------------------------------
(* Cells without the end of a MAC *)

LEMMA UnsealedJoined ==
  ASSUME NEW a, NEW b, Unsealed(a), Unsealed(b)
  PROVE  Unsealed(a \o b)
<1>1. /\ IsSequence(a \o b) /\ DOMAIN (a \o b) = 1 .. Len(a) + Len(b)
      /\ Len(a) \in Nat /\ Len(b) \in Nat
      /\ DOMAIN a = 1 .. Len(a) /\ DOMAIN b = 1 .. Len(b)
      /\ \A i \in 1 .. Len(a) : (a \o b)[i] = a[i]
      /\ \A i \in Len(a) + 1 .. Len(a) + Len(b) : (a \o b)[i] = b[i - Len(a)]
  BY JoinedCells DEF Unsealed
<1>2. ASSUME NEW k \in 1 .. Len(a) + Len(b)
      PROVE  ~((a \o b)[k][1] = "mac" /\ (a \o b)[k][3] = MacWidth)
  <2>1. CASE k \in 1 .. Len(a)
    BY <1>1, <2>1 DEF Unsealed
  <2>2. CASE k \in Len(a) + 1 .. Len(a) + Len(b)
    <3>1. k - Len(a) \in 1 .. Len(b)
      BY <1>1, <2>2
    <3>2. QED
      BY <1>1, <2>2, <3>1 DEF Unsealed
  <2>3. QED
    BY <1>1, <1>2, <2>1, <2>2
<1>3. QED
  BY <1>1, <1>2 DEF Unsealed

LEMMA UnsealedPrefix ==
  ASSUME NEW a, Unsealed(a), NEW n \in 0 .. Len(a)
  PROVE  Unsealed(SubSeq(a, 1, n))
BY FirstCells DEF Unsealed

LEMMA UnsealedCells ==
  ASSUME NEW kind, kind # "mac", NEW value, NEW width \in Nat
  PROVE  Unsealed(Cells(kind, value, width)) /\ Len(Cells(kind, value, width)) = width
<1> DEFINE f == Cells(kind, value, width)
<1>1. f = [i \in 1 .. width |-> f[i]]
  BY DEF Cells
<1>2. IsSequence(f) /\ Len(f) = width /\ DOMAIN f = 1 .. width
  <2> HIDE DEF f
  <2>1. QED
    BY <1>1, CellsOfFunction
<1>3. \A i \in 1 .. width : f[i][1] = kind
  BY DEF Cells
<1>4. QED
  BY <1>2, <1>3 DEF Unsealed

LEMMA UnsealedSize ==
  ASSUME NEW n
  PROVE  Unsealed(SizeCells(n)) /\ Len(SizeCells(n)) = SizeWidth
<1> DEFINE f == SizeCells(n)
<1>1. f = [i \in 1 .. SizeWidth |-> f[i]]
  BY DEF SizeCells
<1>2. IsSequence(f) /\ Len(f) = SizeWidth /\ DOMAIN f = 1 .. SizeWidth
  <2> HIDE DEF f
  <2>1. QED
    BY <1>1, CellsOfFunction, SizesAssumption
<1>3. \A i \in 1 .. SizeWidth : f[i][1] = "size"
  BY DEF SizeCells
<1>4. QED
  BY <1>2, <1>3 DEF Unsealed

LEMMA UnsealedCiphertext ==
  ASSUME NEW blocks, Len(blocks) \in Nat
  PROVE  /\ Unsealed(CiphertextCells(blocks))
         /\ Len(CiphertextCells(blocks)) = BlockSize * Len(blocks)
<1> DEFINE f == CiphertextCells(blocks)
           n == BlockSize * Len(blocks)
<1>1. n \in Nat
  BY SizesAssumption
<1>a. f = [j \in 1 .. n |-> f[j]]
  <2> HIDE DEF n
  <2>1. QED
    BY DEF CiphertextCells, n
<1>2. IsSequence(f) /\ Len(f) = n /\ DOMAIN f = 1 .. n
  <2> HIDE DEF f, n
  <2>1. QED
    BY <1>1, <1>a, CellsOfFunction
<1>3. \A j \in 1 .. n : f[j][1] = "cipher"
  BY DEF CiphertextCells
<1>4. QED
  BY <1>2, <1>3 DEF Unsealed

-----------------------------------------------------------------------------
(* The ciphertext, block by block *)

\* The block a cell is in, and its place in that block.
LEMMA CellPlace ==
  ASSUME NEW B \in Nat \ {0}, NEW n \in Nat, NEW j \in 1 .. B * n
  PROVE  (j - 1) \div B \in 0 .. n - 1 /\ (j - 1) % B \in 0 .. B - 1
<1>1. j \in Nat /\ 1 <= j /\ j <= B * n
  <2>1. B * n \in Nat
    OBVIOUS
  <2>2. QED
    BY <2>1
<1>2. PICK d \in Nat, m \in Nat :
        d = (j - 1) \div B /\ m = (j - 1) % B /\ m < B /\ j - 1 = B * d + m
  <2>1. j - 1 \in Nat
    BY <1>1
  <2>2. QED
    BY <2>1, Euclid
<1>3. ~(d >= n)
  <2>1. SUFFICES ASSUME d >= n PROVE FALSE
    OBVIOUS
  <2>2. PICK k \in Nat : d = n + k
    <3>1. d - n \in Nat /\ d = n + (d - n)
      BY <1>2, <2>1
    <3>2. QED
      BY <3>1
  <2>3. B * (n + k) = B * n + B * k /\ B * k \in Nat /\ B * n \in Nat
    BY <2>2
  <2>4. j - 1 >= B * n
    BY <1>1, <1>2, <2>2, <2>3
  <2>5. QED
    BY <1>1, <2>3, <2>4
<1>4. QED
  BY <1>2, <1>3

\* One more block at the end of the blocks is one more block of cells at the end.
LEMMA CiphertextGrows ==
  ASSUME NEW S, NEW blocks \in Seq(S), NEW b \in S
  PROVE  CiphertextCells(Append(blocks, b)) = CiphertextCells(blocks) \o BlockCells(b)
<1> DEFINE n     == Len(blocks)
           N     == BlockSize * n
           more  == Append(blocks, b)
           left  == CiphertextCells(more)
           front == CiphertextCells(blocks)
           last  == BlockCells(b)
<1>1. n \in Nat /\ BlockSize \in Nat \ {0} /\ N \in Nat
  BY SizesAssumption, LenProperties
<1>2. /\ Len(more) = n + 1 /\ more[n + 1] = b
      /\ \A i \in 1 .. n : more[i] = blocks[i]
  BY AppendProperties
<1>3. BlockSize * (n + 1) = N + BlockSize
  BY <1>1
<1>4. /\ IsSequence(left) /\ Len(left) = N + BlockSize
      /\ IsSequence(front) /\ Len(front) = N
  <2>1. Len(more) \in Nat /\ Len(blocks) \in Nat /\ BlockSize * Len(more) = N + BlockSize
    BY <1>1, <1>2, <1>3
  <2> HIDE DEF more, N, n
  <2>2. Unsealed(left) /\ Len(left) = BlockSize * Len(more)
    BY <2>1, UnsealedCiphertext
  <2>3. Unsealed(front) /\ Len(front) = BlockSize * Len(blocks)
    BY <2>1, UnsealedCiphertext
  <2>4. BlockSize * Len(blocks) = N
    BY DEF N, n
  <2>5. QED
    BY <2>1, <2>2, <2>3, <2>4 DEF Unsealed
<1>5. IsSequence(last) /\ Len(last) = BlockSize
  BY <1>1, UnsealedCells DEF BlockCells, Unsealed
<1>6. \A j \in 1 .. N + BlockSize :
        left[j] = <<"cipher", more[((j - 1) \div BlockSize) + 1], ((j - 1) % BlockSize) + 1>>
  BY <1>2, <1>3 DEF CiphertextCells
<1>7. \A j \in 1 .. N :
        front[j] = <<"cipher", blocks[((j - 1) \div BlockSize) + 1], ((j - 1) % BlockSize) + 1>>
  BY DEF CiphertextCells
<1>8. \A i \in 1 .. BlockSize : last[i] = <<"cipher", b, i>>
  BY DEF BlockCells, Cells
<1>a. N = BlockSize * n
  OBVIOUS
<1>b. n = Len(blocks)
  OBVIOUS
<1> HIDE DEF n, N, more, left, front, last
<1>9. /\ IsSequence(front \o last) /\ Len(front \o last) = N + BlockSize
      /\ \A j \in 1 .. N : (front \o last)[j] = front[j]
      /\ \A j \in N + 1 .. N + BlockSize : (front \o last)[j] = last[j - N]
  BY <1>4, <1>5, JoinedCells
<1>10. ASSUME NEW j \in 1 .. N + BlockSize PROVE left[j] = (front \o last)[j]
  <2>1. CASE j \in 1 .. N
    <3>1. (j - 1) \div BlockSize \in 0 .. n - 1
      BY <1>1, <1>a, <2>1, CellPlace
    <3>2. ((j - 1) \div BlockSize) + 1 \in 1 .. n
      BY <1>1, <3>1
    <3>3. more[((j - 1) \div BlockSize) + 1] = blocks[((j - 1) \div BlockSize) + 1]
      BY <1>2, <3>2
    <3>4. QED
      BY <1>6, <1>7, <1>9, <2>1, <3>3
  <2>2. CASE j \in N + 1 .. N + BlockSize
    <3>1. PICK r \in Nat : r < BlockSize /\ j = N + r + 1
      <4>1. j - N - 1 \in Nat /\ j - N - 1 < BlockSize /\ j = N + (j - N - 1) + 1
        BY <1>1, <2>2
      <4>2. QED
        BY <4>1
    <3>2. j - 1 = BlockSize * n + r /\ j - N = r + 1 /\ r + 1 \in 1 .. BlockSize
      BY <1>1, <1>a, <3>1
    <3>3. (j - 1) \div BlockSize = n /\ (j - 1) % BlockSize = r
      <4>1. (BlockSize * n + r) \div BlockSize = n /\ (BlockSize * n + r) % BlockSize = r
        BY <1>1, <3>1, DivMod
      <4>2. QED
        BY <3>2, <4>1
    <3>4. left[j] = <<"cipher", b, r + 1>>
      BY <1>2, <1>6, <3>3
    <3>5. (front \o last)[j] = <<"cipher", b, r + 1>>
      BY <1>8, <1>9, <2>2, <3>2
    <3>6. QED
      BY <3>4, <3>5
  <2>3. j \in 1 .. N \/ j \in N + 1 .. N + BlockSize
    BY <1>1, <1>10
  <2>4. QED
    BY <2>1, <2>2, <2>3
<1>11. left = front \o last
  <2>1. Len(left) = Len(front \o last) /\ \A i \in 1 .. Len(left) : left[i] = (front \o last)[i]
    BY <1>4, <1>9, <1>10
  <2>2. QED
    BY <1>4, <1>9, <2>1, SameCells
<1>12. QED
  BY <1>11 DEF left, more, front, last

-----------------------------------------------------------------------------
(* The MAC *)

\* A file the decoder accepts ends in the last byte of a MAC under its password.
LEMMA VerifiedEnd ==
  ASSUME NEW f, IsSequence(f), NEW p, Verifies(f, p)
  PROVE  /\ Len(f) \in Nat \ {0} /\ Len(f) \in DOMAIN f
         /\ \E s, data : f[Len(f)] = <<"mac", [key |-> DerivedKey(p, s, "MAC"), data |-> data], MacWidth>>
<1> DEFINE k    == Len(f) - MacWidth
           s    == SubSeq(f, SizeWidth + 1, SizeWidth + SaltWidth)
           body == SubSeq(f, 1, k)
           S    == {f[i] : i \in DOMAIN f}
<1>1. f \in Seq(S) /\ Len(f) \in Nat /\ DOMAIN f = 1 .. Len(f) /\ MacWidth \in Nat \ {0}
  BY SizesAssumption, LenProperties DEF IsSequence
<1>2. k \in Nat /\ k + MacWidth = Len(f)
  <2>1. Len(f) - HeaderWidth - MacWidth > 0 /\ HeaderWidth \in Nat
    BY SizesAssumption DEF Verifies, HeaderWidth
  <2>2. QED
    BY <1>1, <2>1
<1>3. SubSeq(f, k + 1, Len(f)) = MacCells(DerivedKey(p, s, "MAC"), body)
  BY DEF Verifies
<1> HIDE DEF k, s, body, S
<1>4. SubSeq(f, k + 1, Len(f))[MacWidth] = f[Len(f)]
  <2>1. \A i \in k + 1 .. Len(f) : f[i] \in S
    BY <1>1, <1>2, ElementOfSeq
  <2>2. \A i \in 1 .. Len(f) - (k + 1) + 1 : SubSeq(f, k + 1, Len(f))[i] = f[k + 1 + i - 1]
    BY <1>1, <1>2, <2>1, SubSeqProperties
  <2>3. MacWidth \in 1 .. Len(f) - (k + 1) + 1 /\ k + 1 + MacWidth - 1 = Len(f)
    BY <1>1, <1>2
  <2>4. QED
    BY <2>2, <2>3
<1>5. MacCells(DerivedKey(p, s, "MAC"), body)[MacWidth]
        = <<"mac", [key |-> DerivedKey(p, s, "MAC"), data |-> body], MacWidth>>
  BY <1>1 DEF MacCells, Cells
<1>6. f[Len(f)] = <<"mac", [key |-> DerivedKey(p, s, "MAC"), data |-> body], MacWidth>>
  BY <1>3, <1>4, <1>5
<1>7. Len(f) \in Nat \ {0} /\ Len(f) \in DOMAIN f
  BY <1>1, <1>2
<1>8. QED
  BY <1>6, <1>7, Zenon

\* So cells without the end of a MAC are never accepted.
LEMMA UnsealedRefused ==
  ASSUME NEW f, Unsealed(f), NEW p
  PROVE  ~Verifies(f, p)
<1>1. SUFFICES ASSUME Verifies(f, p) PROVE FALSE
  OBVIOUS
<1>2. IsSequence(f)
  BY DEF Unsealed
<1>3. PICK s, data :
        f[Len(f)] = <<"mac", [key |-> DerivedKey(p, s, "MAC"), data |-> data], MacWidth>>
  BY <1>1, <1>2, VerifiedEnd
<1>4. f[Len(f)][1] = "mac" /\ f[Len(f)][3] = MacWidth
  BY <1>3
<1>5. Len(f) \in DOMAIN f
  BY <1>1, <1>2, VerifiedEnd
<1>6. QED
  BY <1>4, <1>5 DEF Unsealed

\* The cells of a MAC, and the cells before its last one.
LEMMA MacShape ==
  ASSUME NEW key, NEW data
  PROVE  /\ IsSequence(MacCells(key, data)) /\ Len(MacCells(key, data)) = MacWidth
         /\ MacWidth \in Nat \ {0}
         /\ \A i \in 1 .. MacWidth :
              MacCells(key, data)[i] = <<"mac", [key |-> key, data |-> data], i>>
<1> DEFINE f == MacCells(key, data)
<1>1. MacWidth \in Nat \ {0}
  BY SizesAssumption
<1>2. f = [i \in 1 .. MacWidth |-> f[i]]
  BY DEF MacCells, Cells
<1>3. IsSequence(f) /\ Len(f) = MacWidth
  <2> HIDE DEF f
  <2>1. QED
    BY <1>1, <1>2, CellsOfFunction
<1>4. \A i \in 1 .. MacWidth : f[i] = <<"mac", [key |-> key, data |-> data], i>>
  BY DEF MacCells, Cells
<1>5. QED
  BY <1>1, <1>3, <1>4

\* A body followed by some of its MAC has no accepted prefix but the whole.
LEMMA CutMac ==
  ASSUME NEW body, Unsealed(body), NEW key, NEW n \in 0 .. MacWidth,
         NEW k \in 0 .. Len(body \o SubSeq(MacCells(key, body), 1, n))
  PROVE  LET whole == body \o MacCells(key, body)
             given == body \o SubSeq(MacCells(key, body), 1, n)
         IN  /\ Unsealed(SubSeq(given, 1, k)) \/ SubSeq(given, 1, k) = whole
             /\ n = MacWidth => given = whole
             /\ n < MacWidth => Unsealed(given)
             /\ SubSeq(given, 1, Len(given)) = given
<1> DEFINE mac   == MacCells(key, body)
           whole == body \o mac
           first == SubSeq(mac, 1, n)
           given == body \o first
<1>1. /\ IsSequence(mac) /\ Len(mac) = MacWidth /\ MacWidth \in Nat \ {0}
      /\ \A i \in 1 .. MacWidth : mac[i] = <<"mac", [key |-> key, data |-> body], i>>
  BY MacShape
<1>2. IsSequence(body)
  BY DEF Unsealed
<1>a. given = body \o first /\ whole = body \o mac
  OBVIOUS
<1> HIDE DEF mac
<1>3. /\ IsSequence(first) /\ Len(first) = n
      /\ \A i \in 1 .. n : first[i] = mac[i] /\ i \in DOMAIN mac
  BY <1>1, FirstCells
<1>b. first = SubSeq(mac, 1, n)
  OBVIOUS
<1>c. k \in 0 .. Len(given)
  BY DEF mac
<1> HIDE DEF first, given, whole
<1>4. /\ IsSequence(given) /\ Len(given) = Len(body) + n /\ Len(body) \in Nat
      /\ DOMAIN given = 1 .. Len(body) + n
      /\ DOMAIN body = 1 .. Len(body)
      /\ \A i \in 1 .. Len(body) : given[i] = body[i]
      /\ \A i \in Len(body) + 1 .. Len(body) + n : given[i] = first[i - Len(body)]
  BY <1>2, <1>3, <1>a, JoinedCells
<1>5. SubSeq(given, 1, Len(given)) = given
  <2> DEFINE S == {given[i] : i \in DOMAIN given}
  <2>1. given \in Seq(S)
    BY <1>4 DEF IsSequence
  <2> HIDE DEF S
  <2>2. QED
    BY <2>1, SubSeqFull
<1>6. n = MacWidth => given = whole
  <2> DEFINE S == {mac[i] : i \in DOMAIN mac}
  <2>1. mac \in Seq(S)
    BY <1>1 DEF IsSequence
  <2> HIDE DEF S
  <2>2. SubSeq(mac, 1, Len(mac)) = mac
    BY <2>1, SubSeqFull
  <2>3. QED
    BY <1>1, <1>a, <1>b, <2>2
<1>7. ASSUME NEW m \in 0 .. Len(given), m < Len(body) + MacWidth
      PROVE  Unsealed(SubSeq(given, 1, m))
  <2>1. /\ IsSequence(SubSeq(given, 1, m)) /\ DOMAIN SubSeq(given, 1, m) = 1 .. m
        /\ \A i \in 1 .. m : SubSeq(given, 1, m)[i] = given[i] /\ i \in DOMAIN given
    BY <1>4, FirstCells
  <2>2. ASSUME NEW i \in 1 .. m
        PROVE  ~(given[i][1] = "mac" /\ given[i][3] = MacWidth)
    <3>1. CASE i \in 1 .. Len(body)
      BY <1>4, <3>1 DEF Unsealed
    <3>2. CASE i \notin 1 .. Len(body)
      <4>1. PICK j \in Nat : j = i - Len(body) /\ 1 <= j /\ j <= n /\ j < MacWidth
        <5>1. i \in Nat /\ i <= m /\ m <= Len(body) + n /\ i > Len(body)
          BY <1>4, <1>7, <3>2
        <5>2. i - Len(body) \in Nat
          BY <1>4, <5>1
        <5>3. i - Len(body) <= n /\ i - Len(body) < MacWidth /\ 1 <= i - Len(body)
          BY <1>1, <1>4, <1>7, <5>1
        <5>4. QED
          BY <5>2, <5>3
      <4>2. i \in Len(body) + 1 .. Len(body) + n
        BY <1>4, <1>7, <3>2
      <4>3. j \in 1 .. n /\ j \in 1 .. MacWidth /\ j # MacWidth
        BY <1>1, <4>1
      <4>4. given[i] = <<"mac", [key |-> key, data |-> body], j>>
        BY <1>1, <1>3, <1>4, <4>1, <4>2, <4>3
      <4>5. QED
        BY <4>3, <4>4
    <3>3. QED
      BY <3>1, <3>2
  <2>3. QED
    BY <2>1, <2>2 DEF Unsealed
<1>8. n < MacWidth => Unsealed(given)
  <2>1. SUFFICES ASSUME n < MacWidth PROVE Unsealed(given)
    OBVIOUS
  <2>2. Len(given) \in 0 .. Len(given) /\ Len(given) < Len(body) + MacWidth
    BY <1>1, <1>4, <2>1
  <2>3. QED
    BY <1>5, <1>7, <2>2
<1>9. Unsealed(SubSeq(given, 1, k)) \/ SubSeq(given, 1, k) = whole
  <2>1. CASE k < Len(body) + MacWidth
    BY <1>7, <1>c, <2>1
  <2>2. CASE ~(k < Len(body) + MacWidth)
    <3>1. k = Len(given) /\ n = MacWidth
      <4>1. /\ Len(body) \in Nat /\ MacWidth \in Nat /\ n \in Nat /\ n <= MacWidth
            /\ Len(given) = Len(body) + n
        BY <1>1, <1>4
      <4>2. k \in Nat /\ k <= Len(body) + n /\ k >= Len(body) + MacWidth
        <5>1. k \in Nat /\ k <= Len(given)
          BY <1>c, <4>1
        <5>2. QED
          BY <2>2, <4>1, <5>1
      <4>3. QED
        BY <4>1, <4>2
    <3>2. given = whole
      BY <1>6, <3>1
    <3>3. SubSeq(given, 1, k) = given
      BY <1>5, <3>1
    <3>4. QED
      BY <3>2, <3>3
  <2>3. QED
    BY <2>1, <2>2
<1>10. QED
  BY <1>5, <1>6, <1>8, <1>9 DEF given, whole, first, mac

-----------------------------------------------------------------------------
(* A sealed file *)

\* Padding is made of bytes and fills the block.
LEMMA PaddingType ==
  ASSUME NEW n \in 0 .. BlockSize
  PROVE  /\ Padding(n) \in Seq(Byte)
         /\ Len(Padding(n)) = BlockSize - n
<1>1. BlockSize - n \in Byte
  BY SizesAssumption, ByteAssumption
<1>2. Padding(n) \in [1 .. (BlockSize - n) -> Byte]
  BY <1>1 DEF Padding
<1>3. BlockSize - n \in Nat
  BY SizesAssumption
<1>4. QED
  BY <1>2, <1>3

\* Padding completes the last block and changes nothing before it.
LEMMA PaddedShape ==
  ASSUME NEW text \in Seq(Byte)
  PROVE  LET n == Len(text) \div BlockSize
             r == Len(text) % BlockSize
         IN  /\ n \in Nat /\ r \in Nat /\ r < BlockSize /\ Len(text) = BlockSize * n + r
             /\ Padded(text) \in Seq(Byte) /\ Len(Padded(text)) = BlockSize * (n + 1)
             /\ \A i \in 1 .. Len(text) : Padded(text)[i] = text[i]
             /\ \A i \in Len(text) + 1 .. BlockSize * (n + 1) : Padded(text)[i] = BlockSize - r
<1> DEFINE n   == Len(text) \div BlockSize
           r   == Len(text) % BlockSize
           pad == Padding(r)
<1>1. /\ Len(text) \in Nat /\ BlockSize \in Nat \ {0}
      /\ n \in Nat /\ r \in Nat /\ r < BlockSize /\ Len(text) = BlockSize * n + r
  BY SizesAssumption, LenProperties, Euclid
<1>2. Padded(text) = text \o pad
  BY DEF Padded
<1> HIDE DEF n, r
<1>a. r \in 0 .. BlockSize
  BY <1>1
<1>3. pad \in Seq(Byte) /\ Len(pad) = BlockSize - r
  BY <1>a, PaddingType
<1>4. \A i \in 1 .. BlockSize - r : pad[i] = BlockSize - r
  BY DEF Padding
<1> HIDE DEF pad
<1>5. BlockSize * (n + 1) = BlockSize * n + BlockSize
  BY <1>1
<1>6. Len(text) + Len(pad) = BlockSize * (n + 1)
  BY <1>1, <1>3, <1>5
<1>7. text \o pad \in Seq(Byte)
  BY <1>3, ConcatProperties
<1>8. /\ Len(text \o pad) = BlockSize * (n + 1)
      /\ \A i \in 1 .. Len(text) : (text \o pad)[i] = text[i]
      /\ \A i \in Len(text) + 1 .. BlockSize * (n + 1) : (text \o pad)[i] = pad[i - Len(text)]
  BY <1>3, <1>6, SequenceIs, JoinedCells
<1>9. ASSUME NEW i \in Len(text) + 1 .. BlockSize * (n + 1)
      PROVE  (text \o pad)[i] = BlockSize - r
  <2>1. i - Len(text) \in 1 .. BlockSize - r
    BY <1>1, <1>5
  <2>2. QED
    BY <1>4, <1>8, <2>1
<1>10. QED
  BY <1>1, <1>2, <1>7, <1>8, <1>9 DEF n, r

\* The blocks of a text's chain.
LEMMA ChainShape ==
  ASSUME NEW text \in Seq(Byte), NEW key, NEW v
  PROVE  /\ Len(Chain(text, key, v)) = (Len(text) \div BlockSize) + 1
         /\ \A i \in 1 .. (Len(text) \div BlockSize) + 1 :
              Chain(text, key, v)[i]
                = [key |-> key, iv |-> v, plain |-> SubSeq(Padded(text), 1, i * BlockSize)]
<1> DEFINE n    == (Len(text) \div BlockSize) + 1
           f    == Chain(text, key, v)
           g(i) == [ChainStart(key, v) EXCEPT !.plain = SubSeq(Padded(text), 1, i * BlockSize)]
<1>1. n \in Nat
  BY SizesAssumption, LenProperties, Euclid
<1>2. \A x : [ChainStart(key, v) EXCEPT !.plain = x] = [key |-> key, iv |-> v, plain |-> x]
  BY DEF ChainStart
<1>3. f = [i \in 1 .. n |-> g(i)]
  BY DEF Chain
<1>4. \A i \in 1 .. n :
        g(i) = [key |-> key, iv |-> v, plain |-> SubSeq(Padded(text), 1, i * BlockSize)]
  BY <1>2
<1> HIDE DEF n, f, g
<1>5. f = [i \in 1 .. n |-> f[i]] /\ \A i \in 1 .. n : f[i] = g(i)
  BY <1>3
<1>6. Len(f) = n
  BY <1>1, <1>5, CellsOfFunction
<1>7. /\ Len(f) = n
      /\ \A i \in 1 .. n :
           f[i] = [key |-> key, iv |-> v, plain |-> SubSeq(Padded(text), 1, i * BlockSize)]
  BY <1>4, <1>5, <1>6
<1>8. QED
  BY <1>7 DEF n, f

\* Where the ciphertext of a sealed file is.
CiphertextLies(f, blocks, total) ==
  /\ Len(f) = HeaderWidth + total + MacWidth
  /\ \A j \in 1 .. total :
       f[HeaderWidth + j]
         = <<"cipher", blocks[((j - 1) \div BlockSize) + 1], ((j - 1) % BlockSize) + 1>>

LEMMA SealedLayout ==
  ASSUME NEW text \in Seq(Byte), NEW size, NEW p, NEW s, NEW v,
         IsSequence(s), Len(s) = SaltWidth, IsSequence(v), Len(v) = BlockSize
  PROVE  CiphertextLies(Sealed(text, size, p, s, v),
                        Chain(text, DerivedKey(p, s, "ENC"), v),
                        BlockSize * ((Len(text) \div BlockSize) + 1))
<1> DEFINE blocks == Chain(text, DerivedKey(p, s, "ENC"), v)
           total  == BlockSize * ((Len(text) \div BlockSize) + 1)
           head   == SizeCells(size) \o s \o v
           cells  == CiphertextCells(blocks)
           body   == head \o cells
           mac    == MacCells(DerivedKey(p, s, "MAC"), body)
<1>1. /\ BlockSize \in Nat \ {0} /\ SizeWidth \in Nat /\ SaltWidth \in Nat /\ MacWidth \in Nat
      /\ (Len(text) \div BlockSize) + 1 \in Nat /\ total \in Nat
  BY SizesAssumption, LenProperties, Euclid
<1>2. Sealed(text, size, p, s, v) = body \o mac
  BY DEF Sealed
<1>3. Len(blocks) = (Len(text) \div BlockSize) + 1
  BY ChainShape
<1>4. \A j \in 1 .. total :
        cells[j] = <<"cipher", blocks[((j - 1) \div BlockSize) + 1], ((j - 1) % BlockSize) + 1>>
  BY <1>3 DEF CiphertextCells
<1> HIDE DEF blocks
<1>5. IsSequence(cells) /\ Len(cells) = total
  BY <1>1, <1>3, UnsealedCiphertext DEF Unsealed
<1> HIDE DEF total, cells
<1>6. IsSequence(head) /\ Len(head) = HeaderWidth
  <2>1. IsSequence(SizeCells(size)) /\ Len(SizeCells(size)) = SizeWidth
    BY UnsealedSize DEF Unsealed
  <2>2. /\ IsSequence(SizeCells(size) \o s)
        /\ Len(SizeCells(size) \o s) = SizeWidth + SaltWidth
    BY <2>1, JoinedCells
  <2>3. IsSequence(head) /\ Len(head) = (SizeWidth + SaltWidth) + BlockSize
    BY <2>2, JoinedCells
  <2>4. QED
    BY <1>1, <2>3 DEF HeaderWidth
<1> HIDE DEF head
<1>7. /\ IsSequence(body) /\ Len(body) = HeaderWidth + total /\ HeaderWidth \in Nat
      /\ \A i \in HeaderWidth + 1 .. HeaderWidth + total : body[i] = cells[i - HeaderWidth]
  BY <1>5, <1>6, JoinedCells
<1>8. IsSequence(mac) /\ Len(mac) = MacWidth
  BY MacShape
<1> HIDE DEF body, mac
<1>9. /\ Len(body \o mac) = (HeaderWidth + total) + MacWidth
      /\ \A i \in 1 .. HeaderWidth + total : (body \o mac)[i] = body[i]
  <2>1. /\ Len(body \o mac) = Len(body) + Len(mac)
        /\ \A i \in 1 .. Len(body) : (body \o mac)[i] = body[i]
    BY <1>7, <1>8, JoinedCells
  <2>2. QED
    BY <1>7, <1>8, <2>1
<1>10. ASSUME NEW j \in 1 .. total PROVE (body \o mac)[HeaderWidth + j] = cells[j]
  <2>1. /\ HeaderWidth + j \in HeaderWidth + 1 .. HeaderWidth + total
        /\ HeaderWidth + j \in 1 .. HeaderWidth + total
        /\ (HeaderWidth + j) - HeaderWidth = j
    BY <1>1, <1>7
  <2>2. QED
    BY <1>7, <1>9, <2>1
<1>11. QED
  BY <1>1, <1>2, <1>4, <1>7, <1>9, <1>10 DEF blocks, total, CiphertextLies

\* A part of a sequence.
LEMMA SliceCells ==
  ASSUME NEW a, IsSequence(a), NEW m \in Nat, NEW n \in Nat, m <= n, n <= Len(a)
  PROVE  /\ IsSequence(SubSeq(a, m + 1, n)) /\ Len(SubSeq(a, m + 1, n)) = n - m
         /\ \A i \in 1 .. n - m : SubSeq(a, m + 1, n)[i] = a[m + i]
<1> DEFINE S == {a[i] : i \in DOMAIN a}
           s == SubSeq(a, m + 1, n)
<1>1. a \in Seq(S)
  BY DEF IsSequence
<1>2. Len(a) \in Nat
  BY <1>1, LenProperties
<1> HIDE DEF S
<1>3. \A i \in m + 1 .. n : a[i] \in S
  BY <1>1, <1>2, ElementOfSeq
<1>4. m + 1 \in Int /\ n \in Int
  OBVIOUS
<1>5. /\ s \in Seq(S)
      /\ Len(s) = IF m + 1 <= n THEN n - (m + 1) + 1 ELSE 0
      /\ \A i \in 1 .. n - (m + 1) + 1 : s[i] = a[m + 1 + i - 1]
  BY <1>3, <1>4, SubSeqProperties
<1> HIDE DEF s
<1>6. Len(s) = n - m
  BY <1>5
<1>7. ASSUME NEW i \in 1 .. n - m PROVE s[i] = a[m + i]
  <2>1. i \in 1 .. n - (m + 1) + 1 /\ m + 1 + i - 1 = m + i
    OBVIOUS
  <2>2. QED
    BY <1>5, <2>1
<1>8. QED
  BY <1>5, <1>6, <1>7, SequenceIs DEF s

\* The second of three sequences is found where the first one ends.
LEMMA MiddleOfJoined ==
  ASSUME NEW a, NEW b, NEW c, IsSequence(a), IsSequence(b), IsSequence(c)
  PROVE  SubSeq((a \o b) \o c, Len(a) + 1, Len(a) + Len(b)) = b
<1> DEFINE m == Len(a)
           n == Len(b)
<1>1. /\ IsSequence(a \o b) /\ m \in Nat /\ n \in Nat /\ Len(a \o b) = m + n
      /\ \A i \in m + 1 .. m + n : (a \o b)[i] = b[i - m]
  BY JoinedCells
<1> DEFINE f == (a \o b) \o c
<1>2. /\ IsSequence(f) /\ Len(f) = (m + n) + Len(c) /\ Len(c) \in Nat
      /\ \A i \in 1 .. m + n : f[i] = (a \o b)[i]
  BY <1>1, JoinedCells
<1> HIDE DEF f, m, n
<1>3. m <= m + n /\ m + n <= Len(f) /\ m + n \in Nat /\ (m + n) - m = n
  BY <1>1, <1>2
<1>4. /\ IsSequence(SubSeq(f, m + 1, m + n)) /\ Len(SubSeq(f, m + 1, m + n)) = n
      /\ \A i \in 1 .. n : SubSeq(f, m + 1, m + n)[i] = f[m + i]
  BY <1>1, <1>2, <1>3, SliceCells
<1>5. ASSUME NEW i \in 1 .. n PROVE f[m + i] = b[i]
  <2>1. m + i \in m + 1 .. m + n /\ m + i \in 1 .. m + n /\ (m + i) - m = i
    BY <1>1
  <2>2. QED
    BY <1>1, <1>2, <2>1
<1>6. SubSeq(f, m + 1, m + n) = b
  <2>1. Len(SubSeq(f, m + 1, m + n)) = Len(b)
    BY <1>4 DEF n
  <2>2. \A i \in 1 .. Len(SubSeq(f, m + 1, m + n)) : SubSeq(f, m + 1, m + n)[i] = b[i]
    BY <1>4, <1>5
  <2>3. QED
    BY <1>4, <2>1, <2>2, SameCells
<1>7. QED
  BY <1>6 DEF f, m, n

\* Concatenation under a name, so that the provers take equations of nested
\* concatenations one level at a time.
Cat(a, b) == a \o b

LEMMA CatAssociates ==
  ASSUME NEW x, NEW y, NEW z, IsSequence(x), IsSequence(y), IsSequence(z)
  PROVE Cat(Cat(x, y), z) = Cat(x, Cat(y, z))
BY CellsAssociate, SMT DEF Cat

LEMMA CatIs ==
  ASSUME NEW x, NEW y, IsSequence(x), IsSequence(y)
  PROVE IsSequence(Cat(x, y))
BY JoinedCells, SMT DEF Cat

\* Five sequences one after the other, from the first, the second or the third on.
LEMMA FiveCat ==
  ASSUME NEW s1, NEW s2, NEW s3, NEW s4, NEW s5,
         IsSequence(s1), IsSequence(s2), IsSequence(s3), IsSequence(s4), IsSequence(s5)
  PROVE  /\ Cat(Cat(Cat(Cat(s1, s2), s3), s4), s5) = Cat(Cat(Cat(s1, s2), s3), Cat(s4, s5))
         /\ Cat(Cat(Cat(Cat(s1, s2), s3), s4), s5) = Cat(Cat(s1, s2), Cat(s3, Cat(s4, s5)))
         /\ Cat(Cat(Cat(Cat(s1, s2), s3), s4), s5) = Cat(s1, Cat(s2, Cat(s3, Cat(s4, s5))))
<1>1. IsSequence(Cat(s1, s2)) /\ IsSequence(Cat(s4, s5))
  BY CatIs
<1>2. IsSequence(Cat(Cat(s1, s2), s3)) /\ IsSequence(Cat(s3, Cat(s4, s5)))
  BY <1>1, CatIs
<1>3. Cat(Cat(Cat(Cat(s1, s2), s3), s4), s5) = Cat(Cat(Cat(s1, s2), s3), Cat(s4, s5))
  BY <1>2, CatAssociates
<1>4. Cat(Cat(Cat(s1, s2), s3), Cat(s4, s5)) = Cat(Cat(s1, s2), Cat(s3, Cat(s4, s5)))
  BY <1>1, CatAssociates
<1>5. Cat(Cat(s1, s2), Cat(s3, Cat(s4, s5))) = Cat(s1, Cat(s2, Cat(s3, Cat(s4, s5))))
  BY <1>2, CatAssociates
<1>6. QED
  BY <1>3, <1>4, <1>5

\* A file under whose password a decoder finds the text, and all of it.
SealsText(f, p, text) ==
  /\ IsSealed(f, p)
  /\ TextUnder(f) = text
  /\ SizeOf(SubSeq(f, 1, SizeWidth)) = Len(text)

\* What encryption makes of a text is the sealed form of it, as a decoder finds it
\* from the file alone.
LEMMA SealedIsSealed ==
  ASSUME NEW text \in Seq(Byte), NEW p, NEW s, NEW v,
         IsSequence(s), Len(s) = SaltWidth, IsSequence(v), Len(v) = BlockSize,
         SizeOf(SizeCells(Len(text))) = Len(text),
         NEW f, f = Sealed(text, Len(text), p, s, v)
  PROVE  SealsText(f, p, text)
<1> DEFINE size   == SizeCells(Len(text))
           blocks == Chain(text, DerivedKey(p, s, "ENC"), v)
           cells  == CiphertextCells(blocks)
           mac    == MacCells(DerivedKey(p, s, "MAC"), size \o s \o v \o cells)
           n      == Len(text) \div BlockSize
           r      == Len(text) % BlockSize
           padded == Padded(text)
<1>1. /\ n \in Nat /\ r \in Nat /\ r < BlockSize /\ Len(text) = BlockSize * n + r
      /\ padded \in Seq(Byte) /\ Len(padded) = BlockSize * (n + 1)
      /\ \A i \in 1 .. Len(text) : padded[i] = text[i]
      /\ \A i \in Len(text) + 1 .. BlockSize * (n + 1) : padded[i] = BlockSize - r
  BY PaddedShape
<1>2. /\ Len(text) \in Nat /\ BlockSize \in Nat \ {0} /\ SizeWidth \in Nat /\ SaltWidth \in Nat
      /\ MacWidth \in Nat
  BY SizesAssumption, LenProperties
<1>3. CiphertextLies(f, blocks, BlockSize * (n + 1))
  BY SealedLayout
<1>4. Len(blocks) = n + 1 /\ blocks[n + 1].plain = SubSeq(padded, 1, (n + 1) * BlockSize)
  <2>1. /\ Len(blocks) = n + 1
        /\ \A i \in 1 .. n + 1 :
             blocks[i] = [key |-> DerivedKey(p, s, "ENC"), iv |-> v,
                          plain |-> SubSeq(padded, 1, i * BlockSize)]
    BY ChainShape
  <2>2. n \in Nat
    BY <1>1
  <2> HIDE DEF n, blocks, padded
  <2>3. n + 1 \in 1 .. n + 1
    BY <2>2
  <2>4. blocks[n + 1] = [key |-> DerivedKey(p, s, "ENC"), iv |-> v,
                         plain |-> SubSeq(padded, 1, (n + 1) * BlockSize)]
    BY <2>1, <2>3
  <2> DEFINE key  == DerivedKey(p, s, "ENC")
             part == SubSeq(padded, 1, (n + 1) * BlockSize)
             last == blocks[n + 1]
  <2>5. last = [key |-> key, iv |-> v, plain |-> part]
    BY <2>4
  <2> HIDE DEF key, part, last
  <2>6. last.plain = part
    BY <2>5
  <2>7. blocks[n + 1].plain = SubSeq(padded, 1, (n + 1) * BlockSize)
    BY <2>6 DEF last, part
  <2>8. QED
    BY <2>1, <2>7
<1>5. f = (((size \o s) \o v) \o cells) \o mac
  BY DEF Sealed
<1>6. IsSequence(size) /\ Len(size) = SizeWidth /\ IsSequence(mac)
  BY UnsealedSize, MacShape DEF Unsealed
<1>7. IsSequence(cells)
  <2>1. n \in Nat /\ Len(blocks) = n + 1
    BY <1>1, <1>4
  <2> HIDE DEF n, blocks
  <2>2. Len(blocks) \in Nat
    BY <2>1
  <2>3. QED
    BY <2>2, UnsealedCiphertext DEF Unsealed, cells
<1> HIDE DEF size, blocks, cells, mac, n, r, padded
<1>8. /\ IsSequence(size \o s) /\ Len(size \o s) = SizeWidth + SaltWidth
      /\ IsSequence((size \o s) \o v) /\ IsSequence(((size \o s) \o v) \o cells)
      /\ IsSequence(cells \o mac) /\ IsSequence(v \o (cells \o mac))
      /\ IsSequence(s \o (v \o (cells \o mac)))
  BY <1>6, <1>7, JoinedCells
<1>9. /\ f = ((size \o s) \o v) \o (cells \o mac)
      /\ f = (size \o s) \o (v \o (cells \o mac))
      /\ f = size \o (s \o (v \o (cells \o mac)))
  <2>1. LET file == Cat(Cat(Cat(Cat(size, s), v), cells), mac)
        IN  /\ file = Cat(Cat(Cat(size, s), v), Cat(cells, mac))
            /\ file = Cat(Cat(size, s), Cat(v, Cat(cells, mac)))
            /\ file = Cat(size, Cat(s, Cat(v, Cat(cells, mac))))
    BY <1>6, <1>7, FiveCat
  <2>2. QED
    BY <1>5, <2>1, Zenon DEF Cat
<1>12. SubSeq(f, 1, SizeWidth) = size
  <2>1. SizeWidth \in 0 .. Len(size)
    BY <1>2, <1>6
  <2>2. SubSeq(f, 1, SizeWidth) = SubSeq(size, 1, SizeWidth)
    BY <1>6, <1>8, <1>9, <2>1, FirstOfJoined
  <2>3. SubSeq(size, 1, Len(size)) = size
    BY <1>6, SubSeqFull DEF IsSequence
  <2>4. QED
    BY <1>6, <2>2, <2>3
<1>13. SubSeq(f, SizeWidth + 1, SizeWidth + SaltWidth) = s
  <2>1. SubSeq((size \o s) \o (v \o (cells \o mac)), Len(size) + 1, Len(size) + Len(s)) = s
    BY <1>6, <1>8, MiddleOfJoined
  <2>2. QED
    BY <1>6, <1>9, <2>1, Zenon
<1>14. SubSeq(f, SizeWidth + SaltWidth + 1, HeaderWidth) = v
  <2>1. SubSeq(((size \o s) \o v) \o (cells \o mac),
               Len(size \o s) + 1, Len(size \o s) + Len(v)) = v
    BY <1>8, MiddleOfJoined
  <2>2. SubSeq(f, (SizeWidth + SaltWidth) + 1, (SizeWidth + SaltWidth) + BlockSize) = v
    BY <1>8, <1>9, <2>1, Zenon
  <2>3. QED
    BY <2>2 DEF HeaderWidth
<1>15. SizeOf(SubSeq(f, 1, SizeWidth)) = Len(text)
  BY <1>12 DEF size
<1>16. f[Len(f) - MacWidth][2].plain = padded
  <2>1. BlockSize * (n + 1) = BlockSize * n + BlockSize /\ BlockSize * n \in Nat
    BY <1>1, <1>2
  <2>2. BlockSize * (n + 1) - 1 = BlockSize * n + (BlockSize - 1)
    BY <1>2, <2>1
  <2>3. (BlockSize * n + (BlockSize - 1)) \div BlockSize = n
    <3>1. BlockSize - 1 \in Nat /\ BlockSize - 1 < BlockSize
      BY <1>2
    <3>2. QED
      BY <1>1, <1>2, <3>1, DivMod
  <2>4. BlockSize * (n + 1) \in 1 .. BlockSize * (n + 1)
    BY <1>2, <2>1
  <2>5. f[HeaderWidth + BlockSize * (n + 1)][2] = blocks[n + 1]
    BY <1>3, <2>2, <2>3, <2>4 DEF CiphertextLies
  <2>6. Len(f) - MacWidth = HeaderWidth + BlockSize * (n + 1)
    <3>1. HeaderWidth \in Nat
      BY <1>2 DEF HeaderWidth
    <3>2. Len(f) = (HeaderWidth + BlockSize * (n + 1)) + MacWidth
      BY <1>3 DEF CiphertextLies
    <3>3. QED
      BY <1>2, <2>4, <3>1, <3>2
  <2>7. n + 1 \in 1 .. n + 1
    BY <1>1
  <2>8. (n + 1) * BlockSize = Len(padded)
    <3>1. (n + 1) * BlockSize = BlockSize * (n + 1)
      BY <1>1, <1>2
    <3>2. QED
      BY <1>1, <3>1
  <2>9. SubSeq(padded, 1, Len(padded)) = padded
    BY <1>1, SubSeqFull
  <2>10. blocks[n + 1].plain = padded
    BY <1>4, <2>8, <2>9, Zenon
  <2>11. QED
    BY <2>5, <2>6, <2>10
<1>17. TextUnder(f) = text
  <2>1. BlockSize * (n + 1) = BlockSize * n + BlockSize /\ BlockSize * n \in Nat
    BY <1>1, <1>2
  <2>2. Len(padded) \in Len(text) + 1 .. BlockSize * (n + 1)
    BY <1>1, <1>2, <2>1
  <2>3. padded[Len(padded)] = BlockSize - r
    BY <1>1, <2>2
  <2>4. Len(padded) - (BlockSize - r) = Len(text)
    BY <1>1, <1>2, <2>1
  <2>5. SubSeq(padded, 1, Len(text)) = text
    <3>1. IsSequence(text) /\ IsSequence(padded) /\ Len(text) \in 0 .. Len(padded)
      BY <1>1, <1>2, <2>2, SequenceIs
    <3>2. /\ IsSequence(SubSeq(padded, 1, Len(text)))
          /\ Len(SubSeq(padded, 1, Len(text))) = Len(text)
          /\ \A i \in 1 .. Len(text) : SubSeq(padded, 1, Len(text))[i] = padded[i]
      BY <3>1, FirstCells
    <3>3. QED
      BY <1>1, <3>1, <3>2, SameCells
  <2>6. QED
    BY <1>16, <2>3, <2>4, <2>5 DEF TextUnder
<1>18. IsSealed(f, p)
  BY <1>13, <1>14, <1>15, <1>17 DEF IsSealed
<1>19. QED
  BY <1>15, <1>17, <1>18 DEF SealsText

\* A decoder accepts the sealed form of a text under its password.
LEMMA SealedVerifies ==
  ASSUME NEW f, IsSequence(f), HeaderWidth <= Len(f), NEW p, IsSealed(f, p)
  PROVE  Verifies(f, p)
<1> DEFINE text  == TextUnder(f)
           size  == SizeOf(SubSeq(f, 1, SizeWidth))
           s     == SubSeq(f, SizeWidth + 1, SizeWidth + SaltWidth)
           v     == SubSeq(f, SizeWidth + SaltWidth + 1, HeaderWidth)
           key   == DerivedKey(p, s, "MAC")
           cells == CiphertextCells(Chain(text, DerivedKey(p, s, "ENC"), v))
           body  == SizeCells(size) \o s \o v \o cells
           mac   == MacCells(key, body)
           n     == Len(text) \div BlockSize
           total == BlockSize * (n + 1)
<1>1. text \in Seq(Byte) /\ f = Sealed(text, size, p, s, v)
  BY DEF IsSealed
<1>2. /\ SizeWidth \in Nat /\ SaltWidth \in Nat /\ BlockSize \in Nat \ {0} /\ MacWidth \in Nat \ {0}
      /\ HeaderWidth = (SizeWidth + SaltWidth) + BlockSize /\ Len(f) \in Nat
      /\ Len(text) \in Nat
  BY <1>1, SizesAssumption, LenProperties DEF HeaderWidth, IsSequence
<1>3. IsSequence(s) /\ Len(s) = SaltWidth
  <2>1. SizeWidth <= SizeWidth + SaltWidth /\ SizeWidth + SaltWidth <= Len(f)
        /\ (SizeWidth + SaltWidth) - SizeWidth = SaltWidth
    BY <1>2
  <2>2. QED
    BY <1>2, <2>1, SliceCells
<1>4. IsSequence(v) /\ Len(v) = BlockSize
  <2>1. SizeWidth + SaltWidth <= HeaderWidth /\ HeaderWidth - (SizeWidth + SaltWidth) = BlockSize
        /\ SizeWidth + SaltWidth \in Nat /\ HeaderWidth \in Nat
    BY <1>2
  <2>2. QED
    BY <2>1, SliceCells
<1> HIDE DEF text, size, s, v
<1>5. f = body \o mac
  BY <1>1, Zenon DEF Sealed
<1>6. IsSequence(body)
  <2>1. IsSequence(SizeCells(size))
    BY UnsealedSize DEF Unsealed
  <2>2. IsSequence(cells)
    <3>1. n + 1 \in Nat
      BY <1>2, Euclid
    <3>2. Len(Chain(text, DerivedKey(p, s, "ENC"), v)) = n + 1
      BY <1>1, ChainShape
    <3>3. QED
      BY <3>1, <3>2, UnsealedCiphertext DEF Unsealed
  <2> HIDE DEF cells
  <2>3. IsSequence(SizeCells(size) \o s)
    BY <1>3, <2>1, JoinedCells
  <2>4. IsSequence((SizeCells(size) \o s) \o v)
    BY <1>4, <2>3, JoinedCells
  <2>5. QED
    BY <2>2, <2>4, JoinedCells
<1>7. IsSequence(mac) /\ Len(mac) = MacWidth
  BY MacShape
<1>8. Len(f) = (HeaderWidth + total) + MacWidth
  <2>1. CiphertextLies(f, Chain(text, DerivedKey(p, s, "ENC"), v), total)
    BY <1>1, <1>3, <1>4, SealedLayout
  <2>2. QED
    BY <2>1 DEF CiphertextLies
<1>9. total \in Nat \ {0} /\ total % BlockSize = 0
  <2>1. n \in Nat
    BY <1>2, Euclid
  <2>2. n + 1 \in Nat \ {0}
    BY <2>1
  <2> HIDE DEF n
  <2>3. total \in Nat \ {0}
    BY <1>2, <2>2
  <2>4. (BlockSize * (n + 1) + 0) % BlockSize = 0
    BY <1>2, <2>2, DivMod
  <2>5. QED
    BY <2>3, <2>4
<1> HIDE DEF body, mac, total
<1>10. /\ Len(body) \in Nat /\ Len(f) = Len(body) + MacWidth
       /\ \A i \in Len(body) + 1 .. Len(body) + MacWidth : f[i] = mac[i - Len(body)]
  BY <1>5, <1>6, <1>7, JoinedCells
<1>11. SubSeq(f, 1, Len(f) - MacWidth) = body
  <2>1. Len(f) - MacWidth = Len(body) /\ Len(body) \in 0 .. Len(body)
    BY <1>2, <1>10
  <2>2. SubSeq(f, 1, Len(body)) = SubSeq(body, 1, Len(body))
    BY <1>5, <1>6, <1>7, <2>1, FirstOfJoined
  <2>3. SubSeq(body, 1, Len(body)) = body
    BY <1>6, SubSeqFull DEF IsSequence
  <2>4. QED
    BY <2>1, <2>2, <2>3
<1>12. SubSeq(f, Len(f) - MacWidth + 1, Len(f)) = mac
  <2>1. Len(body) \in Nat /\ Len(f) \in Nat /\ Len(body) <= Len(f) /\ Len(f) - Len(body) = MacWidth
    BY <1>2, <1>10
  <2>2. /\ IsSequence(SubSeq(f, Len(body) + 1, Len(f)))
        /\ Len(SubSeq(f, Len(body) + 1, Len(f))) = MacWidth
        /\ \A i \in 1 .. MacWidth : SubSeq(f, Len(body) + 1, Len(f))[i] = f[Len(body) + i]
    BY <2>1, SliceCells
  <2>3. ASSUME NEW i \in 1 .. MacWidth PROVE f[Len(body) + i] = mac[i]
    <3>1. Len(body) + i \in Len(body) + 1 .. Len(body) + MacWidth /\ (Len(body) + i) - Len(body) = i
      BY <1>2, <2>1
    <3>2. QED
      BY <1>10, <3>1
  <2>4. SubSeq(f, Len(body) + 1, Len(f)) = mac
    BY <1>7, <2>2, <2>3, SameCells
  <2>5. Len(f) - MacWidth + 1 = Len(body) + 1
    BY <1>2, <1>10
  <2>6. QED
    BY <2>4, <2>5
<1>13. /\ Len(f) - HeaderWidth - MacWidth > 0
       /\ (Len(f) - HeaderWidth - MacWidth) % BlockSize = 0
  <2>1. Len(f) - HeaderWidth - MacWidth = total
    BY <1>2, <1>8, <1>9
  <2>2. QED
    BY <1>9, <2>1
<1>14. SubSeq(f, Len(f) - MacWidth + 1, Len(f))
         = MacCells(DerivedKey(p, s, "MAC"), SubSeq(f, 1, Len(f) - MacWidth))
  BY <1>11, <1>12 DEF mac
<1>15. QED
  BY <1>13, <1>14 DEF Verifies, s

-----------------------------------------------------------------------------
(* What an encryption puts in a file *)

\* Cells that are neither of a MAC nor memory nobody has written.
Ordinary(cells) ==
  /\ IsSequence(cells)
  /\ \A k \in DOMAIN cells : cells[k][1] \notin {"mac", "uninitialized"}

\* Every MAC among the cells is over memory that was written.
MacsOverWritten(cells) ==
  \A k \in DOMAIN cells :
    cells[k][1] = "mac" => \A j \in DOMAIN cells[k][2].data : cells[k][2].data[j][1] # "uninitialized"

\* The beginning of a file that declares n bytes, as far as it goes.
Written(cells, n) ==
  /\ IsSequence(cells)
  /\ \A k \in DOMAIN cells : k <= SizeWidth => cells[k] = SizeCells(n)[k]
  /\ MacsOverWritten(cells)

LEMMA OrdinaryJoined ==
  ASSUME NEW a, NEW b, Ordinary(a), Ordinary(b)
  PROVE  Ordinary(a \o b)
<1>1. /\ IsSequence(a \o b) /\ DOMAIN (a \o b) = 1 .. Len(a) + Len(b)
      /\ Len(a) \in Nat /\ Len(b) \in Nat
      /\ DOMAIN a = 1 .. Len(a) /\ DOMAIN b = 1 .. Len(b)
      /\ \A i \in 1 .. Len(a) : (a \o b)[i] = a[i]
      /\ \A i \in Len(a) + 1 .. Len(a) + Len(b) : (a \o b)[i] = b[i - Len(a)]
  BY JoinedCells DEF Ordinary
<1>2. ASSUME NEW k \in 1 .. Len(a) + Len(b)
      PROVE  (a \o b)[k][1] \notin {"mac", "uninitialized"}
  <2>1. CASE k \in 1 .. Len(a)
    BY <1>1, <2>1 DEF Ordinary
  <2>2. CASE k \in Len(a) + 1 .. Len(a) + Len(b)
    <3>1. k - Len(a) \in 1 .. Len(b)
      BY <1>1, <2>2
    <3>2. QED
      BY <1>1, <2>2, <3>1 DEF Ordinary
  <2>3. QED
    BY <1>1, <1>2, <2>1, <2>2
<1>3. QED
  BY <1>1, <1>2 DEF Ordinary

LEMMA OrdinaryCells ==
  ASSUME NEW kind, kind \notin {"mac", "uninitialized"}, NEW value, NEW width \in Nat
  PROVE  Ordinary(Cells(kind, value, width))
<1>1. IsSequence(Cells(kind, value, width)) /\ Len(Cells(kind, value, width)) = width
  BY UnsealedCells DEF Unsealed
<1>2. \A i \in DOMAIN Cells(kind, value, width) : Cells(kind, value, width)[i][1] = kind
  BY DEF Cells
<1>3. QED
  BY <1>1, <1>2 DEF Ordinary

LEMMA OrdinarySize == ASSUME NEW n PROVE Ordinary(SizeCells(n))
<1>1. IsSequence(SizeCells(n))
  BY UnsealedSize DEF Unsealed
<1>2. \A i \in DOMAIN SizeCells(n) : SizeCells(n)[i][1] = "size"
  BY DEF SizeCells
<1>3. QED
  BY <1>1, <1>2 DEF Ordinary

LEMMA OrdinaryCiphertext ==
  ASSUME NEW blocks, Len(blocks) \in Nat
  PROVE  Ordinary(CiphertextCells(blocks))
<1>1. IsSequence(CiphertextCells(blocks))
  BY UnsealedCiphertext DEF Unsealed
<1>2. \A i \in DOMAIN CiphertextCells(blocks) : CiphertextCells(blocks)[i][1] = "cipher"
  BY DEF CiphertextCells
<1>3. QED
  BY <1>1, <1>2 DEF Ordinary

LEMMA OrdinaryFirst ==
  ASSUME NEW a, Ordinary(a), NEW k \in 0 .. Len(a)
  PROVE  Ordinary(SubSeq(a, 1, k))
BY FirstCells DEF Ordinary

LEMMA OrdinaryIsUnsealed == ASSUME NEW a, Ordinary(a) PROVE Unsealed(a) /\ MacsOverWritten(a)
BY DEF Ordinary, Unsealed, MacsOverWritten

\* The beginning of a beginning.
LEMMA WrittenFirst ==
  ASSUME NEW a, NEW n, Written(a, n), NEW k \in 0 .. Len(a)
  PROVE  Written(SubSeq(a, 1, k), n)
BY FirstCells DEF Written, MacsOverWritten

LEMMA WrittenSize == ASSUME NEW n PROVE Written(SizeCells(n), n)
BY OrdinarySize, OrdinaryIsUnsealed DEF Written, Ordinary

\* Past the size field anything may follow.
LEMMA WrittenMore ==
  ASSUME NEW a, NEW n, Written(a, n), SizeWidth <= Len(a),
         NEW b, IsSequence(b), MacsOverWritten(b)
  PROVE  Written(a \o b, n)
<1>1. /\ IsSequence(a \o b) /\ DOMAIN (a \o b) = 1 .. Len(a) + Len(b)
      /\ Len(a) \in Nat /\ Len(b) \in Nat
      /\ DOMAIN a = 1 .. Len(a) /\ DOMAIN b = 1 .. Len(b)
      /\ \A i \in 1 .. Len(a) : (a \o b)[i] = a[i]
      /\ \A i \in Len(a) + 1 .. Len(a) + Len(b) : (a \o b)[i] = b[i - Len(a)]
  BY JoinedCells DEF Written
<1>2. SizeWidth \in Nat
  BY SizesAssumption
<1>3. ASSUME NEW k \in 1 .. Len(a) + Len(b)
      PROVE  (k \in 1 .. Len(a)) \/ (k \in Len(a) + 1 .. Len(a) + Len(b) /\ k - Len(a) \in 1 .. Len(b))
  BY <1>1
<1>4. \A k \in 1 .. Len(a) + Len(b) : k <= SizeWidth => (a \o b)[k] = SizeCells(n)[k]
  <2>1. \A k \in 1 .. Len(a) + Len(b) : k <= SizeWidth => k \in 1 .. Len(a)
    BY <1>1, <1>2
  <2>2. QED
    BY <1>1, <2>1 DEF Written
<1>5. ASSUME NEW k \in 1 .. Len(a) + Len(b), (a \o b)[k][1] = "mac"
      PROVE  \A j \in DOMAIN (a \o b)[k][2].data : (a \o b)[k][2].data[j][1] # "uninitialized"
  <2>1. CASE k \in 1 .. Len(a)
    <3>1. (a \o b)[k] = a[k] /\ k \in DOMAIN a
      BY <1>1, <2>1
    <3>2. QED
      BY <1>5, <3>1 DEF Written, MacsOverWritten
  <2>2. CASE k \in Len(a) + 1 .. Len(a) + Len(b) /\ k - Len(a) \in 1 .. Len(b)
    <3>1. (a \o b)[k] = b[k - Len(a)] /\ k - Len(a) \in DOMAIN b
      BY <1>1, <2>2
    <3>2. QED
      BY <1>5, <3>1 DEF MacsOverWritten
  <2>3. QED
    BY <1>3, <1>5, <2>1, <2>2
<1>6. QED
  BY <1>1, <1>4, <1>5 DEF Written, MacsOverWritten

\* A MAC over what was written, and any part of one.
LEMMA MacOverOrdinary ==
  ASSUME NEW data, Ordinary(data), NEW key, NEW n \in 0 .. MacWidth
  PROVE  /\ IsSequence(SubSeq(MacCells(key, data), 1, n))
         /\ MacsOverWritten(SubSeq(MacCells(key, data), 1, n))
<1> DEFINE mac == MacCells(key, data)
<1>1. /\ IsSequence(mac) /\ Len(mac) = MacWidth
      /\ \A i \in 1 .. MacWidth : mac[i] = <<"mac", [key |-> key, data |-> data], i>>
  BY MacShape
<1> HIDE DEF mac
<1>2. /\ IsSequence(SubSeq(mac, 1, n)) /\ DOMAIN SubSeq(mac, 1, n) = 1 .. n
      /\ \A i \in 1 .. n : SubSeq(mac, 1, n)[i] = mac[i]
  BY <1>1, FirstCells
<1>3. ASSUME NEW i \in 1 .. n PROVE SubSeq(mac, 1, n)[i][2].data = data
  <2>1. i \in 1 .. MacWidth
    BY SizesAssumption
  <2>2. QED
    BY <1>1, <1>2, <2>1
<1>4. MacsOverWritten(SubSeq(mac, 1, n))
  BY <1>2, <1>3 DEF MacsOverWritten, Ordinary
<1>5. QED
  BY <1>2, <1>4 DEF mac

\* What an encryption leaves is a file, whatever it is cut to.
LEMMA WrittenIsFile ==
  ASSUME NEW f, NEW n, Written(f, n), SizeOf(SizeCells(n)) \in Nat
  PROVE  IsFile(f)
<1>1. IsSequence(f) /\ MacsOverWritten(f)
  BY DEF Written
<1>2. ASSUME Len(f) >= SizeWidth PROVE SubSeq(f, 1, SizeWidth) = SizeCells(n)
  <2>1. SizeWidth \in 0 .. Len(f) /\ Len(f) \in Nat /\ SizeWidth \in Nat /\ DOMAIN f = 1 .. Len(f)
    BY <1>1, <1>2, SizesAssumption, LenProperties DEF IsSequence
  <2>2. /\ IsSequence(SubSeq(f, 1, SizeWidth)) /\ Len(SubSeq(f, 1, SizeWidth)) = SizeWidth
        /\ \A i \in 1 .. SizeWidth : SubSeq(f, 1, SizeWidth)[i] = f[i] /\ i \in DOMAIN f
    BY <1>1, <2>1, FirstCells
  <2>3. IsSequence(SizeCells(n)) /\ Len(SizeCells(n)) = SizeWidth
    BY UnsealedSize DEF Unsealed
  <2>4. \A i \in 1 .. SizeWidth : SubSeq(f, 1, SizeWidth)[i] = SizeCells(n)[i]
    BY <2>1, <2>2 DEF Written
  <2>5. QED
    BY <2>2, <2>3, <2>4, SameCells
<1>3. QED
  BY <1>1, <1>2 DEF IsFile, IsSequence, MacsOverWritten

-----------------------------------------------------------------------------
(* Operators *)

\* A slice of a sequence: its elements and its length.
LEMMA Slice ==
  ASSUME NEW S, NEW s \in Seq(S), NEW m \in Nat \ {0}, NEW n \in Nat,
         n <= Len(s), m <= n + 1
  PROVE  /\ SubSeq(s, m, n) \in Seq(S)
         /\ Len(SubSeq(s, m, n)) = n - m + 1
<1>1. \A i \in m .. n : s[i] \in S
  BY ElementOfSeq
<1>2. QED
  BY <1>1, SubSeqProperties

\* The chain before its first block.
LEMMA ChainStartType ==
  ASSUME TypeOK
  PROVE  ChainStart(EncKey, iv) \in Block
<1>1. EncKey \in [password : Passwords, salt : Salts, purpose : Purpose]
  BY DEF TypeOK, EncKey, DerivedKey, Purpose
<1>2. <<>> \in Seq(Byte)
  OBVIOUS
<1>3. QED
  BY <1>1, <1>2 DEF TypeOK, ChainStart, Block

\* One more block on a chain is a chain.
LEMMA CbcEncryptBlockType ==
  ASSUME NEW chain \in Block, NEW block \in Seq(Byte)
  PROVE  /\ CbcEncryptBlock(chain, block) \in Block
         /\ CbcEncryptBlock(chain, block).plain = chain.plain \o block
         /\ CbcEncryptBlock(chain, block).key = chain.key
         /\ CbcEncryptBlock(chain, block).iv = chain.iv
<1>1. chain.plain \o block \in Seq(Byte)
  BY ConcatProperties DEF Block
<1>2. QED
  BY <1>1 DEF CbcEncryptBlock, Block

\* EmitBlock appends one block to the chain and to encrypted_data.
LEMMA EmitBlockType ==
  ASSUME TypeOK, NEW block \in Seq(Byte), NEW next, EmitBlock(block, next)
  PROVE  /\ prev' \in Block
         /\ enc' \in Seq(Block)
         /\ Len(enc') = Len(enc) + 1
         /\ prev'.plain = prev.plain \o block
         /\ result' \in {result, "-1"}
         /\ held' \subseteq held
         /\ pc' \in {next, "done"}
<1>1. prev \in Block /\ enc \in Seq(Block)
  BY DEF TypeOK
<1>2. prev' \in Block /\ prev'.plain = prev.plain \o block
  BY <1>1, CbcEncryptBlockType DEF EmitBlock
<1>3. enc' = Append(enc, prev')
  BY DEF EmitBlock
<1>4. enc' \in Seq(Block) /\ Len(enc') = Len(enc) + 1
  BY <1>1, <1>2, <1>3
<1>5. result' \in {result, "-1"} /\ held' \subseteq held /\ pc' \in {next, "done"}
  BY DEF EmitBlock, WriteOrFail, FailAfterWrites, Return, exitVars
<1>6. QED
  BY <1>2, <1>4, <1>5

-----------------------------------------------------------------------------
(* Types *)

\* fread fills at most the buffer.
LEMMA ReadChunkType ==
  ASSUME TypeOK, ReadChunk
  PROVE  /\ chunk' \in Seq(Byte) /\ Len(chunk') <= StreamChunk
         /\ totalRead' \in Nat
         /\ processed' = 0
         /\ pc' \in {"top_up", "final"}
<1> DEFINE wanted == Smaller(StreamChunk, Len(src) - totalRead)
<1>1. PICK got \in 0 .. wanted :
        /\ chunk' = SubSeq(src, totalRead + 1, totalRead + got)
        /\ totalRead' = totalRead + got
  BY DEF ReadChunk
<1>2. src \in Seq(Byte) /\ Len(src) \in Nat /\ totalRead \in Nat /\ StreamChunk \in Nat
  BY SizesAssumption, LenProperties DEF TypeOK
<1>3. wanted \in Int /\ wanted <= StreamChunk /\ wanted <= Len(src) - totalRead
  BY <1>2 DEF Smaller
<1>4. got \in Nat /\ got <= StreamChunk /\ totalRead + got <= Len(src)
  BY <1>1, <1>2, <1>3
<1>5. /\ SubSeq(src, totalRead + 1, totalRead + got) \in Seq(Byte)
      /\ Len(SubSeq(src, totalRead + 1, totalRead + got))
           = (totalRead + got) - (totalRead + 1) + 1
  BY <1>2, <1>4, Slice
<1>6. QED
  BY <1>1, <1>2, <1>4, <1>5 DEF ReadChunk

\* TopUpPending copies at most what the block lacks.
LEMMA TopUpType ==
  ASSUME TypeOK
  PROVE  LET toCopy == Smaller(BlockSize - Len(pending), Len(chunk))
             filled == pending \o SubSeq(chunk, 1, toCopy)
         IN  /\ toCopy \in 0 .. Len(chunk)
             /\ filled \in Seq(Byte)
             /\ Len(filled) = Len(pending) + toCopy
             /\ Len(filled) <= BlockSize
<1> DEFINE toCopy == Smaller(BlockSize - Len(pending), Len(chunk))
           filled == pending \o SubSeq(chunk, 1, toCopy)
<1>1. /\ pending \in Seq(Byte) /\ Len(pending) \in Nat /\ Len(pending) < BlockSize
      /\ chunk \in Seq(Byte) /\ Len(chunk) \in Nat /\ BlockSize \in Nat
  BY SizesAssumption, LenProperties DEF TypeOK
<1>2. toCopy \in 0 .. Len(chunk) /\ toCopy <= BlockSize - Len(pending)
  BY <1>1 DEF Smaller
<1>3. SubSeq(chunk, 1, toCopy) \in Seq(Byte) /\ Len(SubSeq(chunk, 1, toCopy)) = toCopy
  BY <1>1, <1>2, Slice
<1>4. filled \in Seq(Byte) /\ Len(filled) = Len(pending) + toCopy
  BY <1>1, <1>3, ConcatProperties
<1>5. QED
  BY <1>1, <1>2, <1>4

\* The history of unnoticed shortfalls stays a truth value.
LEMMA UnnoticedType == ASSUME unnoticed \in BOOLEAN, [Next]_vars PROVE unnoticed' \in BOOLEAN
<1>1. CASE ReadChunk
  BY <1>1, Zenon DEF ReadChunk
<1>2. CASE WriteMac
  BY <1>2, Zenon DEF WriteMac
<1>3. CASE CloseAndReturn
  BY <1>3, Zenon DEF CloseAndReturn
<1>4. CASE AllocMac
  BY <1>4, Zenon DEF AllocMac
<1>5. CASE UNCHANGED unnoticed
  BY <1>5, Zenon
<1>6. QED
  BY <1>1, <1>2, <1>3, <1>4, <1>5, Zenon
     DEF Next, Step, Ended, vars, OpenInput, MeasureInput, OpenOutput, WriteSize, WriteSalt, InitCtx, WriteIv,
         AllocEncrypted, AllocBuffer, TopUpPending, EncryptBlock, SaveLeftover, FinalBlock,
         Crash, Grow

\* Type correctness: above all, the bytes carried between chunks never reach a
\* whole block (cipher.c:139-161, 184-189).
LEMMA TypeStep == ASSUME TypeOK, [Next]_vars PROVE TypeOK'
<1> USE DEF inputVars, headerVars, streamVars, chainVars, exitVars, Places, Resources
<1>a. /\ src \in Seq(Byte) /\ fileSize \in Nat /\ password \in Passwords
      /\ salt \in Salts /\ iv \in Ivs
      /\ chunk \in Seq(Byte) /\ Len(chunk) \in Nat /\ Len(chunk) <= StreamChunk
      /\ processed \in Nat /\ totalRead \in Nat
      /\ pending \in Seq(Byte) /\ Len(pending) \in Nat /\ Len(pending) < BlockSize
      /\ prev \in Block /\ enc \in Seq(Block)
      /\ BlockSize \in Nat \ {0}
  BY SizesAssumption, LenProperties DEF TypeOK
<1>b. unnoticed' \in BOOLEAN
  BY UnnoticedType, Zenon DEF TypeOK
<1> USE <1>b
<1>0. CASE OpenInput
  BY <1>0 DEF TypeOK, OpenInput, FailEarly, Return
<1>1. CASE MeasureInput
  <2>1. fileSize' \in Nat
    BY <1>a, <1>1, LenProperties DEF MeasureInput
  <2>2. QED
    BY <2>1, <1>1 DEF TypeOK, MeasureInput, FailEarly, Return
<1>2. CASE OpenOutput
  BY <1>2 DEF TypeOK, OpenOutput, FailEarly, Return
<1>3. CASE WriteSize
  BY <1>3 DEF TypeOK, WriteSize, WriteOrFail, FailAfterWrites, Return
<1>4. CASE WriteSalt
  <2>1. salt' \in Salts
    BY <1>4 DEF WriteSalt, Salts
  <2>2. QED
    BY <2>1, <1>4 DEF TypeOK, WriteSalt, WriteOrFail, FailAfterWrites, Return
<1>5. CASE InitCtx
  BY <1>5 DEF TypeOK, InitCtx
<1>6. CASE WriteIv
  <2>1. iv' \in Ivs
    BY <1>6 DEF WriteIv, Ivs
  <2>2. QED
    BY <2>1, <1>6 DEF TypeOK, WriteIv, WriteOrFail, FailAfterWrites, Return
<1>7. CASE AllocEncrypted
  <2>1. ChainStart(EncKey, iv) \in Block
    BY <1>a, ChainStartType
  <2>2. prev' \in Block
    BY <1>a, <1>7, <2>1 DEF AllocEncrypted
  <2>3. QED
    BY <2>2, <1>7 DEF TypeOK, AllocEncrypted, FailAfterWrites, Return
<1>8. CASE AllocBuffer
  BY <1>8 DEF TypeOK, AllocBuffer, FailAfterWrites, Return
<1>9. CASE ReadChunk
  BY <1>9, ReadChunkType DEF TypeOK, ReadChunk
<1>10. CASE TopUpPending
  <2> DEFINE toCopy == Smaller(BlockSize - Len(pending), Len(chunk))
             filled == pending \o SubSeq(chunk, 1, toCopy)
  <2>1. /\ toCopy \in Nat /\ filled \in Seq(Byte)
        /\ Len(filled) \in Nat /\ Len(filled) <= BlockSize
    BY <1>a, TopUpType, LenProperties
  <2>2. UNCHANGED <<inputVars, headerVars, totalRead, chunk>>
    BY <1>10 DEF TopUpPending
  <2>3. CASE pending = <<>>
    BY <2>2, <2>3, <1>10 DEF TypeOK, TopUpPending
  <2>4. CASE pending # <<>> /\ Len(filled) = BlockSize
    <3>1. EmitBlock(filled, "blocks") /\ pending' = <<>> /\ processed' = toCopy
      BY <2>4, <1>10 DEF TopUpPending
    <3>2. /\ prev' \in Block /\ enc' \in Seq(Block)
          /\ result' \in {result, "-1"} /\ held' \subseteq held
          /\ pc' \in {"blocks", "done"}
      BY <2>1, <3>1, EmitBlockType
    <3>3. pending' \in Seq(Byte) /\ Len(pending') < BlockSize
      BY <1>a, <3>1
    <3>4. QED
      BY <2>1, <2>2, <3>1, <3>2, <3>3 DEF TypeOK
  <2>5. CASE pending # <<>> /\ Len(filled) # BlockSize
    <3>1. /\ pending' = filled /\ processed' = toCopy /\ pc' = "blocks"
          /\ UNCHANGED <<chainVars, exitVars>>
      BY <2>5, <1>10 DEF TopUpPending
    <3>2. QED
      BY <1>a, <2>1, <2>2, <2>5, <3>1 DEF TypeOK
  <2>6. QED
    BY <2>3, <2>4, <2>5
<1>11. CASE EncryptBlock
  <2> DEFINE block == SubSeq(chunk, processed + 1, processed + BlockSize)
  <2>1. block \in Seq(Byte)
    BY <1>a, <1>11, Slice DEF EncryptBlock
  <2>2. EmitBlock(block, "blocks") /\ processed' \in Nat
    BY <1>a, <1>11 DEF EncryptBlock
  <2>3. QED
    BY <1>11, <2>1, <2>2, EmitBlockType DEF TypeOK, EncryptBlock
<1>12. CASE SaveLeftover
  <2>1. pending' \in Seq(Byte) /\ Len(pending') < BlockSize
    BY <1>a, <1>12, Slice DEF SaveLeftover
  <2>2. QED
    BY <1>12, <2>1 DEF TypeOK, SaveLeftover
<1>13. CASE FinalBlock
  <2>1. AddPadding(pending) \in Seq(Byte)
    BY <1>a, PaddingType, ConcatProperties DEF AddPadding
  <2>2. QED
    BY <1>13, <2>1, EmitBlockType DEF TypeOK, FinalBlock
<1>14. CASE AllocMac \/ WriteMac
  BY <1>14 DEF TypeOK, AllocMac, WriteMac
<1>15. CASE CloseAndReturn
  BY <1>15 DEF TypeOK, CloseAndReturn, Return
<1>16. CASE Crash
  BY <1>16 DEF TypeOK, Crash
<1>17. CASE Grow
  <2>1. src' \in Seq(Byte)
    BY <1>a, <1>17 DEF Grow
  <2>2. QED
    BY <1>17, <2>1 DEF TypeOK, Grow
<1>18. CASE UNCHANGED vars
  BY <1>18 DEF TypeOK, vars
<1>19. QED
  BY <1>0, <1>1, <1>2, <1>3, <1>4, <1>5, <1>6, <1>7, <1>8, <1>9, <1>10, <1>11, <1>12, <1>13,
     <1>14, <1>15, <1>16, <1>17, <1>18
     DEF Next, Step, Ended

\* The initial values are of their types.
LEMMA InitTypes == ASSUME Init PROVE TypeOK
<1>1. src \in Seq(Byte)
  BY TextsAssumption DEF Init
<1>2. ChainStart(EncKey, iv) \in Block
  <2>1. EncKey \in [password : Passwords, salt : Salts, purpose : Purpose]
    BY DEF Init, EncKey, DerivedKey, Purpose, Salts
  <2>2. <<>> \in Seq(Byte) /\ iv \in Ivs
    BY DEF Init, Ivs
  <2>3. QED
    BY <2>1, <2>2 DEF ChainStart, Block
<1>3. unnoticed \in BOOLEAN
  BY DEF Init
<1>4. QED
  BY <1>1, <1>2, <1>3, SizesAssumption DEF Init, TypeOK, Places, Salts, Ivs

\* Type correctness of the function under every set of faults (cipher.c:30-249).
THEOREM TypeCorrect == Spec => []TypeOK
BY InitTypes, TypeStep, PTL DEF Spec

-----------------------------------------------------------------------------
(* Resources *)

\* What the function holds at each place.
HeldByPlace ==
  /\ pc \in {"open_input", "done", "crashed"} => held = {}
  /\ pc \in {"measure_input", "open_output"} => held = {"input"}
  /\ pc \in {"write_size", "write_salt", "init_ctx"} => held = {"input", "output"}
  /\ pc \in {"write_iv", "alloc_encrypted"} => held = {"input", "output", "ctx"}
  /\ pc = "alloc_buffer" => held = {"input", "output", "ctx", "encrypted_data"}
  /\ pc \in {"read", "top_up", "blocks", "final", "mac", "close"} => held = Resources
  /\ pc = "write_mac" => held = Resources \cup {"hmac_data"}

\* Every step takes and gives back what its place says.
LEMMA HeldStep == ASSUME HeldByPlace, [Next]_vars PROVE HeldByPlace'
<1> USE DEF HeldByPlace, Resources, exitVars, Return, FailEarly, FailAfterWrites, WriteOrFail
<1>1. CASE OpenInput \/ MeasureInput \/ OpenOutput
  BY <1>1 DEF OpenInput, MeasureInput, OpenOutput
<1>2. CASE WriteSize \/ WriteSalt \/ InitCtx \/ WriteIv
  BY <1>2 DEF WriteSize, WriteSalt, InitCtx, WriteIv
<1>3. CASE AllocEncrypted \/ AllocBuffer
  BY <1>3 DEF AllocEncrypted, AllocBuffer
<1>4. CASE ReadChunk \/ SaveLeftover
  BY <1>4 DEF ReadChunk, SaveLeftover
<1>5. CASE TopUpPending \/ EncryptBlock \/ FinalBlock
  BY <1>5 DEF TopUpPending, EncryptBlock, FinalBlock, EmitBlock
<1>6. CASE AllocMac \/ WriteMac \/ CloseAndReturn
  BY <1>6 DEF AllocMac, WriteMac, CloseAndReturn
<1>7. CASE Crash \/ Grow
  BY <1>7 DEF Crash, Grow
<1>8. CASE UNCHANGED vars
  BY <1>8 DEF vars
<1>9. QED
  BY <1>1, <1>2, <1>3, <1>4, <1>5, <1>6, <1>7, <1>8 DEF Next, Step, Ended

\* Every exit, the error exits included, gives back what was acquired
\* on the way to it (cipher.c:43-248).
THEOREM EveryExitReleases == Spec => []ReleasedOnReturn
<1>1. Init => HeldByPlace
  BY DEF Init, HeldByPlace
<1>2. HeldByPlace /\ [Next]_vars => HeldByPlace'
  BY HeldStep
<1>3. HeldByPlace => ReleasedOnReturn
  BY DEF HeldByPlace, ReleasedOnReturn
<1>4. QED
  BY <1>1, <1>2, <1>3, PTL DEF Spec

-----------------------------------------------------------------------------
(* The streaming loop *)

Early == {"open_input", "measure_input", "open_output", "write_size", "write_salt", "init_ctx",
          "write_iv", "alloc_encrypted", "alloc_buffer"}
Loop    == {"read", "top_up", "blocks", "final"}
Sealing == {"mac", "write_mac", "close"}

\* The part of the chunk that is neither encrypted nor carried yet.
InFlight ==
  IF pc \in {"top_up", "blocks"} THEN SubSeq(chunk, processed + 1, Len(chunk)) ELSE <<>>

\* Nothing has been read or encrypted before the loop.
Untouched ==
  /\ pc \in Early => enc = <<>> /\ pending = <<>> /\ totalRead = 0
  /\ pc = "alloc_buffer" => prev = ChainStart(EncKey, iv)

SizeKnown ==
  pc \in (Early \ {"open_input", "measure_input"}) \cup Loop \cup Sealing => fileSize <= Len(src)

\* The rest of a chunk is saved only when no carried bytes are in the way.
RoomToCarry ==
  /\ pc = "top_up" => processed = 0 /\ chunk # <<>>
  /\ pc = "blocks" => processed <= Len(chunk)
  /\ (pc = "blocks" /\ pending # <<>>) => processed = Len(chunk)

\* What was read is what was encrypted, then what is carried, then the rest of
\* the chunk.
Accounted ==
  pc \in Loop =>
    /\ totalRead <= Len(src)
    /\ prev.plain \o pending \o InFlight = SubSeq(src, 1, totalRead)

WholeBlocks ==
  pc \in Loop \cup Sealing => Len(prev.plain) = BlockSize * Len(enc)

StreamInv ==
  TypeOK /\ Untouched /\ SizeKnown /\ RoomToCarry /\ Accounted /\ WholeBlocks /\ FitsUnlessGrown

-----------------------------------------------------------------------------
(* One step of the loop at a time *)

\* The types a step of the loop works with.
LEMMA LoopTypes ==
  ASSUME TypeOK
  PROVE  /\ src \in Seq(Byte) /\ Len(src) \in Nat
         /\ chunk \in Seq(Byte) /\ Len(chunk) \in Nat
         /\ pending \in Seq(Byte) /\ Len(pending) \in Nat /\ Len(pending) < BlockSize
         /\ prev \in Block /\ prev.plain \in Seq(Byte) /\ Len(prev.plain) \in Nat
         /\ enc \in Seq(Block) /\ Len(enc) \in Nat
         /\ fileSize \in Nat /\ totalRead \in Nat /\ processed \in Nat
         /\ BlockSize \in Nat \ {0} /\ StreamChunk \in Nat \ {0}
BY SizesAssumption, LenProperties DEF TypeOK, Block

\* A chunk read continues what was read before.
LEMMA ReadAccounted ==
  ASSUME StreamInv, ReadChunk
  PROVE  /\ totalRead' <= Len(src')
         /\ (prev.plain \o pending)' \o InFlight' = SubSeq(src', 1, totalRead')
         /\ pc' = "top_up" => chunk' # <<>>
<1> DEFINE wanted == Smaller(StreamChunk, Len(src) - totalRead)
<1>1. /\ pc = "read" /\ TypeOK
      /\ totalRead <= Len(src)
      /\ prev.plain \o pending \o InFlight = SubSeq(src, 1, totalRead)
  BY DEF ReadChunk, StreamInv, Accounted, Loop
<1>2. PICK got \in 0 .. wanted :
        /\ chunk' = SubSeq(src, totalRead + 1, totalRead + got)
        /\ totalRead' = totalRead + got
        /\ pc' = IF got > 0 THEN "top_up" ELSE "final"
  BY DEF ReadChunk
<1>3. wanted \in Int /\ wanted <= Len(src) - totalRead
  BY <1>1, LoopTypes DEF Smaller
<1>4. totalRead \in Nat /\ got \in Nat /\ totalRead + got <= Len(src)
  <2>1. totalRead \in Nat /\ Len(src) \in Nat
    BY <1>1, LoopTypes
  <2>2. got \in Nat /\ got <= wanted
    BY <1>3
  <2>3. QED
    BY <1>3, <2>1, <2>2
<1>5. /\ chunk' \in Seq(Byte)
      /\ Len(chunk') = (totalRead + got) - (totalRead + 1) + 1
  BY <1>1, <1>2, <1>4, LoopTypes, Slice
<1>6. Len(chunk') = got
  BY <1>4, <1>5
<1>7. InFlight' = chunk'
  <2>1. CASE got > 0
    <3>1. pc' = "top_up" /\ processed' = 0
      BY <1>2, <2>1 DEF ReadChunk
    <3>2. SubSeq(chunk', 1, Len(chunk')) = chunk'
      BY <1>5, SubSeqFull
    <3>3. QED
      BY <3>1, <3>2 DEF InFlight
  <2>2. CASE got = 0
    <3>1. pc' = "final"
      BY <1>2, <2>2
    <3>2. chunk' = <<>>
      BY <1>5, <1>6, <2>2, EmptySeq
    <3>3. QED
      BY <3>1, <3>2 DEF InFlight
  <2>3. QED
    BY <1>4, <2>1, <2>2
<1>8. prev.plain \o pending = SubSeq(src, 1, totalRead)
  <2>1. prev.plain \o pending \in Seq(Byte)
    BY <1>1, LoopTypes, ConcatProperties
  <2>2. InFlight = <<>>
    BY <1>1 DEF InFlight
  <2>3. QED
    BY <1>1, <2>1, <2>2, ConcatEmptySeq
<1>9. SubSeq(src, 1, totalRead) \o chunk' = SubSeq(src, 1, totalRead + got)
  <2>1. totalRead \in 1 - 1 .. Len(src) /\ totalRead + got \in totalRead .. Len(src)
    BY <1>1, <1>4, LoopTypes
  <2>2. 1 \in 1 .. Len(src) + 1 /\ src \in Seq(Byte)
    BY <1>1, LoopTypes
  <2>3. QED
    BY <1>2, <2>1, <2>2, ConcatAdjacentSubSeq
<1>10. UNCHANGED <<src, prev, pending>>
  BY DEF ReadChunk, inputVars, chainVars
<1>11. pc' = "top_up" => chunk' # <<>>
  BY <1>2, <1>4, <1>6, EmptySeq
<1>12. QED
  BY <1>1, <1>2, <1>4, <1>7, <1>8, <1>9, <1>10, <1>11

\* Concatenation as an operator the provers leave folded.
Joined(a, b) == a \o b

\* Joining keeps a sequence of bytes a sequence of bytes.
LEMMA JoinedType ==
  ASSUME NEW a \in Seq(Byte), NEW b \in Seq(Byte)
  PROVE  Joined(a, b) \in Seq(Byte)
BY DEF Joined

\* Joining is associative.
LEMMA JoinedAssociates ==
  ASSUME NEW a \in Seq(Byte), NEW b \in Seq(Byte), NEW c \in Seq(Byte)
  PROVE  Joined(Joined(a, b), c) = Joined(a, Joined(b, c))
BY DEF Joined

\* Pieces of a sequence grouped differently.
LEMMA Regroup ==
  ASSUME NEW a \in Seq(Byte), NEW b \in Seq(Byte), NEW c \in Seq(Byte), NEW d \in Seq(Byte)
  PROVE  Joined(Joined(a, Joined(b, c)), d) = Joined(Joined(a, b), Joined(c, d))
<1>1. Joined(a, b) \in Seq(Byte)
  BY JoinedType
<1>2. Joined(a, Joined(b, c)) = Joined(Joined(a, b), c)
  BY JoinedAssociates
<1>3. Joined(Joined(Joined(a, b), c), d) = Joined(Joined(a, b), Joined(c, d))
  BY <1>1, JoinedAssociates
<1>4. QED
  BY <1>2, <1>3

\* The accounting in lengths.
LEMMA AccountedLengths ==
  ASSUME StreamInv, pc \in Loop
  PROVE  /\ InFlight \in Seq(Byte)
         /\ Len(prev.plain) + Len(pending) + Len(InFlight) = totalRead
         /\ totalRead <= Len(src)
<1>1. /\ TypeOK /\ RoomToCarry
      /\ totalRead <= Len(src)
      /\ prev.plain \o pending \o InFlight = SubSeq(src, 1, totalRead)
  BY DEF StreamInv, Accounted, Loop
<1>2. InFlight \in Seq(Byte)
  <2>1. CASE pc \in {"top_up", "blocks"}
    <3>1. processed \in Nat /\ processed <= Len(chunk)
      BY <1>1, <2>1, LoopTypes DEF RoomToCarry
    <3>2. SubSeq(chunk, processed + 1, Len(chunk)) \in Seq(Byte)
      BY <1>1, <3>1, LoopTypes, Slice
    <3>3. QED
      BY <2>1, <3>2 DEF InFlight
  <2>2. CASE pc \notin {"top_up", "blocks"}
    BY <2>2, EmptySeq DEF InFlight
  <2>3. QED
    BY <2>1, <2>2
<1>3. prev.plain \o pending \in Seq(Byte) /\ Len(prev.plain \o pending) = Len(prev.plain) + Len(pending)
  BY <1>1, LoopTypes, ConcatProperties
<1>4. Len((prev.plain \o pending) \o InFlight) = Len(prev.plain) + Len(pending) + Len(InFlight)
  BY <1>2, <1>3, ConcatProperties
<1>5. Len(SubSeq(src, 1, totalRead)) = totalRead - 1 + 1
  BY <1>1, LoopTypes, Slice
<1>6. QED
  BY <1>1, <1>2, <1>4, <1>5, LoopTypes

\* Emitting a whole block keeps the chain made of whole blocks.
LEMMA EmitWhole ==
  ASSUME TypeOK, Len(prev.plain) = BlockSize * Len(enc),
         NEW block \in Seq(Byte), Len(block) = BlockSize, NEW next, EmitBlock(block, next)
  PROVE  /\ Len(prev'.plain) = BlockSize * Len(enc')
         /\ Len(prev'.plain) = Len(prev.plain) + BlockSize
         /\ prev'.plain = prev.plain \o block
<1>1. Len(enc') = Len(enc) + 1 /\ prev'.plain = prev.plain \o block
  BY EmitBlockType
<1>2. Len(prev'.plain) = Len(prev.plain) + BlockSize
  <2>1. prev.plain \in Seq(Byte)
    BY LoopTypes
  <2>2. Len(prev.plain \o block) = Len(prev.plain) + Len(block)
    BY <2>1, ConcatProperties
  <2>3. QED
    BY <1>1, <2>2
<1>3. BlockSize * (Len(enc) + 1) = BlockSize * Len(enc) + BlockSize
  BY LoopTypes
<1>4. QED
  BY <1>1, <1>2, <1>3

\* What a chunk adds to a carried partial block.
LEMMA TopUpAccounted ==
  ASSUME StreamInv, TopUpPending
  PROVE  /\ pc' = "blocks" =>
              /\ (prev.plain \o pending)' \o InFlight' = SubSeq(src', 1, totalRead')
              /\ processed' <= Len(chunk')
              /\ pending' # <<>> => processed' = Len(chunk')
         /\ Len(prev'.plain) = BlockSize * Len(enc')
         /\ BlockSize * Len(enc') <= totalRead
<1> DEFINE toCopy == Smaller(BlockSize - Len(pending), Len(chunk))
           first  == SubSeq(chunk, 1, toCopy)
           rest   == SubSeq(chunk, toCopy + 1, Len(chunk))
           filled == pending \o first
<1>1. /\ pc = "top_up" /\ pc \in Loop /\ TypeOK /\ processed = 0
      /\ prev.plain \o pending \o InFlight = SubSeq(src, 1, totalRead)
      /\ Len(prev.plain) = BlockSize * Len(enc)
  BY DEF TopUpPending, StreamInv, Accounted, Loop, RoomToCarry, WholeBlocks
<1>2. /\ toCopy \in 0 .. Len(chunk) /\ filled \in Seq(Byte)
      /\ Len(filled) = Len(pending) + toCopy /\ Len(filled) <= BlockSize
  BY <1>1, TopUpType
<1>3. InFlight = chunk
  BY <1>1, LoopTypes, SubSeqFull DEF InFlight
<1>4. /\ first \in Seq(Byte) /\ rest \in Seq(Byte)
  <2>1. /\ chunk \in Seq(Byte) /\ Len(chunk) \in Nat
        /\ toCopy \in Nat /\ toCopy + 1 \in Nat \ {0} /\ toCopy <= Len(chunk)
    <3>1. chunk \in Seq(Byte) /\ Len(chunk) \in Nat
      BY <1>1, LoopTypes
    <3>2. toCopy \in 0 .. Len(chunk)
      BY <1>2
    <3> HIDE DEF toCopy
    <3>3. QED
      BY <3>1, <3>2
  <2> HIDE DEF toCopy
  <2>2. SubSeq(chunk, 1, toCopy) \in Seq(Byte)
    BY <2>1, Slice
  <2>3. SubSeq(chunk, toCopy + 1, Len(chunk)) \in Seq(Byte)
    BY <2>1, Slice
  <2>4. QED
    BY <2>2, <2>3
<1>5. first \o rest = chunk
  <2>1. 1 \in 1 .. Len(chunk) + 1 /\ toCopy \in 1 - 1 .. Len(chunk) /\ Len(chunk) \in toCopy .. Len(chunk)
    BY <1>1, <1>2, LoopTypes
  <2>2. first \o rest = SubSeq(chunk, 1, Len(chunk))
    BY <1>1, <2>1, LoopTypes, ConcatAdjacentSubSeq
  <2>3. QED
    BY <1>1, <2>2, LoopTypes, SubSeqFull
<1>a. filled = pending \o first
  OBVIOUS
<1>b. rest = SubSeq(chunk, toCopy + 1, Len(chunk))
  OBVIOUS
<1>c. Len(prev.plain) \in Nat /\ Len(pending) \in Nat /\ Len(chunk) \in Nat /\ prev.plain \in Seq(Byte)
  BY <1>1, LoopTypes
<1> HIDE DEF toCopy, first, rest, filled
<1>6. (prev.plain \o filled) \o rest = SubSeq(src, 1, totalRead)
  <2>1. prev.plain \in Seq(Byte) /\ pending \in Seq(Byte)
    BY <1>1, LoopTypes
  <2>2. Joined(Joined(prev.plain, Joined(pending, first)), rest)
          = Joined(Joined(prev.plain, pending), Joined(first, rest))
    BY <1>4, <2>1, Regroup
  <2>3. (prev.plain \o (pending \o first)) \o rest = (prev.plain \o pending) \o (first \o rest)
    BY <2>2 DEF Joined
  <2>4. QED
    BY <1>1, <1>3, <1>5, <1>a, <2>3
<1>7. Len(prev.plain) + Len(pending) + Len(chunk) = totalRead
  BY <1>1, <1>3, AccountedLengths
<1>8. UNCHANGED <<src, totalRead, chunk>>
  BY DEF TopUpPending, inputVars
<1>9. CASE pending = <<>>
  <2>1. pc' = "blocks" /\ UNCHANGED <<processed, pending, prev, enc>>
    BY <1>9 DEF TopUpPending, chainVars
  <2>2. InFlight' = InFlight
    BY <1>1, <1>8, <2>1 DEF InFlight
  <2>3. QED
    BY <1>1, <1>7, <1>8, <1>9, <1>c, <2>1, <2>2
<1>10. CASE pending # <<>> /\ Len(filled) = BlockSize
  <2>1. EmitBlock(filled, "blocks") /\ pending' = <<>> /\ processed' = toCopy
    BY <1>10 DEF TopUpPending, toCopy, first, filled
  <2>2. /\ Len(prev'.plain) = BlockSize * Len(enc')
        /\ Len(prev'.plain) = Len(prev.plain) + BlockSize
        /\ prev'.plain = prev.plain \o filled
    BY <1>1, <1>2, <1>10, <2>1, EmitWhole
  <2>3. pc' = "blocks" => InFlight' = rest
    BY <1>8, <1>b, <2>1 DEF InFlight
  <2>4. prev'.plain \o pending' = prev.plain \o filled
    BY <1>2, <1>c, <2>1, <2>2, ConcatProperties, ConcatEmptySeq
  <2>5. Len(prev'.plain) <= totalRead
    BY <1>2, <1>7, <1>10, <1>c, <2>2
  <2>6. (prev'.plain \o pending') \o rest = SubSeq(src', 1, totalRead')
    BY <1>6, <1>8, <2>4
  <2>7. pc' = "blocks" => (prev.plain \o pending)' \o InFlight' = SubSeq(src', 1, totalRead')
    BY <2>3, <2>6
  <2>8. processed' <= Len(chunk') /\ pending' = <<>>
    BY <1>2, <1>8, <1>c, <2>1
  <2>9. BlockSize * Len(enc') <= totalRead
    BY <2>2, <2>5
  <2>10. QED
    BY <2>2, <2>7, <2>8, <2>9
<1>11. CASE pending # <<>> /\ Len(filled) # BlockSize
  <2>1. pc' = "blocks" /\ pending' = filled /\ processed' = toCopy /\ UNCHANGED <<prev, enc>>
    BY <1>11 DEF TopUpPending, chainVars, toCopy, first, filled
  <2>2. toCopy = Len(chunk)
    <3>1. toCopy = Smaller(BlockSize - Len(pending), Len(chunk))
      BY DEF toCopy
    <3>2. BlockSize \in Nat /\ Len(filled) = Len(pending) + toCopy /\ Len(filled) # BlockSize
          /\ toCopy \in 0 .. Len(chunk)
      BY <1>2, <1>11, SizesAssumption
    <3>3. toCopy # BlockSize - Len(pending)
      BY <1>c, <3>2
    <3>4. QED
      BY <3>1, <3>3 DEF Smaller
  <2>3. InFlight' = rest
    BY <1>8, <1>b, <2>1 DEF InFlight
  <2>4. BlockSize * Len(enc') <= totalRead
    BY <1>1, <1>7, <1>c, <2>1
  <2>5. (prev'.plain \o pending') \o rest = SubSeq(src', 1, totalRead')
    BY <1>6, <1>8, <1>a, <2>1
  <2>6. pc' = "blocks" => (prev.plain \o pending)' \o InFlight' = SubSeq(src', 1, totalRead')
    BY <2>3, <2>5
  <2>7. processed' = Len(chunk') /\ processed' <= Len(chunk')
    BY <1>8, <1>c, <2>1, <2>2
  <2>8. Len(prev'.plain) = BlockSize * Len(enc')
    BY <1>1, <2>1
  <2>9. QED
    BY <2>4, <2>6, <2>7, <2>8
<1>12. QED
  BY <1>9, <1>10, <1>11

\* A whole block of the chunk is encrypted only when nothing is carried.
LEMMA EncryptBlockAccounted ==
  ASSUME StreamInv, EncryptBlock
  PROVE  /\ pc' = "blocks" =>
              /\ (prev.plain \o pending)' \o InFlight' = SubSeq(src', 1, totalRead')
              /\ processed' <= Len(chunk') /\ pending' = <<>>
         /\ Len(prev'.plain) = BlockSize * Len(enc')
         /\ BlockSize * Len(enc') <= totalRead
<1> DEFINE block == SubSeq(chunk, processed + 1, processed + BlockSize)
           rest  == SubSeq(chunk, processed + BlockSize + 1, Len(chunk))
<1>1. /\ pc = "blocks" /\ pc \in Loop /\ TypeOK
      /\ processed + BlockSize <= Len(chunk)
      /\ prev.plain \o pending \o InFlight = SubSeq(src, 1, totalRead)
      /\ Len(prev.plain) = BlockSize * Len(enc)
      /\ pending # <<>> => processed = Len(chunk)
  BY DEF EncryptBlock, StreamInv, Accounted, Loop, RoomToCarry, WholeBlocks
<1>2. /\ prev.plain \in Seq(Byte) /\ Len(prev.plain) \in Nat /\ Len(enc) \in Nat
      /\ processed \in Nat /\ Len(chunk) \in Nat /\ BlockSize \in Nat \ {0}
      /\ chunk \in Seq(Byte)
  BY <1>1, LoopTypes
<1>3. pending = <<>> /\ Len(pending) = 0
  BY <1>1, <1>2, EmptySeq
<1>4. block \in Seq(Byte) /\ rest \in Seq(Byte) /\ Len(block) = BlockSize
  BY <1>1, <1>2, Slice
<1>5. block \o rest = InFlight
  <2>1. /\ processed + 1 \in 1 .. Len(chunk) + 1
        /\ processed + BlockSize \in (processed + 1) - 1 .. Len(chunk)
        /\ Len(chunk) \in processed + BlockSize .. Len(chunk)
    BY <1>1, <1>2
  <2>2. block \o rest = SubSeq(chunk, processed + 1, Len(chunk))
    BY <1>2, <2>1, ConcatAdjacentSubSeq
  <2>3. QED
    BY <1>1, <2>2 DEF InFlight
<1>6. EmitBlock(block, "blocks") /\ UNCHANGED <<src, totalRead, chunk, pending>>
      /\ processed' = processed + BlockSize
  BY DEF EncryptBlock, inputVars
<1>7. rest = SubSeq(chunk, processed + BlockSize + 1, Len(chunk))
  OBVIOUS
<1> HIDE DEF block, rest
<1>8. /\ Len(prev'.plain) = BlockSize * Len(enc')
      /\ Len(prev'.plain) = Len(prev.plain) + BlockSize
      /\ prev'.plain = prev.plain \o block
  BY <1>1, <1>4, <1>6, EmitWhole
<1>9. Len(prev.plain) + Len(InFlight) = totalRead
  <2>1. Len(prev.plain) + Len(pending) + Len(InFlight) = totalRead /\ Len(InFlight) \in Nat
    BY <1>1, AccountedLengths, LenProperties
  <2>2. QED
    BY <1>2, <1>3, <2>1
<1>a. Len(InFlight) = Len(chunk) - (processed + 1) + 1
  BY <1>1, <1>2, Slice DEF InFlight
<1>10. BlockSize * Len(enc') <= totalRead
  BY <1>1, <1>2, <1>8, <1>9, <1>a
<1>11. (prev'.plain \o pending') \o rest = SubSeq(src', 1, totalRead')
  <2>1. Joined(Joined(prev.plain, block), rest) = Joined(prev.plain, Joined(block, rest))
    BY <1>2, <1>4, JoinedAssociates
  <2>2. (prev.plain \o block) \o rest = prev.plain \o InFlight
    BY <1>5, <2>1 DEF Joined
  <2>3. prev.plain \o pending = prev.plain /\ prev'.plain \o pending' = prev'.plain
    BY <1>2, <1>3, <1>4, <1>6, <1>8, ConcatProperties, ConcatEmptySeq
  <2>4. QED
    BY <1>1, <1>6, <1>8, <2>2, <2>3
<1>12. pc' = "blocks" => InFlight' = rest
  BY <1>6, <1>7 DEF InFlight
<1>13. pc' = "blocks" => (prev.plain \o pending)' \o InFlight' = SubSeq(src', 1, totalRead')
  BY <1>11, <1>12
<1>14. processed' <= Len(chunk') /\ pending' = <<>>
  BY <1>1, <1>3, <1>6
<1>15. QED
  BY <1>8, <1>10, <1>13, <1>14

\* What is left of a chunk is carried.
LEMMA SaveLeftoverAccounted ==
  ASSUME StreamInv, SaveLeftover
  PROVE  (prev.plain \o pending)' \o InFlight' = SubSeq(src', 1, totalRead')
<1>1. /\ pc = "blocks" /\ TypeOK
      /\ prev.plain \o pending \o InFlight = SubSeq(src, 1, totalRead)
      /\ processed <= Len(chunk)
      /\ pending # <<>> => processed = Len(chunk)
  BY DEF SaveLeftover, StreamInv, Accounted, Loop, RoomToCarry
<1>2. /\ prev.plain \in Seq(Byte) /\ pending \in Seq(Byte) /\ chunk \in Seq(Byte)
      /\ processed \in Nat /\ Len(chunk) \in Nat
  BY <1>1, LoopTypes
<1>3. InFlight = SubSeq(chunk, processed + 1, Len(chunk))
  BY <1>1 DEF InFlight
<1>4. InFlight \in Seq(Byte) /\ Len(InFlight) = Len(chunk) - (processed + 1) + 1
  BY <1>1, <1>2, <1>3, Slice
<1>5. /\ pc' = "read" /\ UNCHANGED <<src, totalRead, prev>>
      /\ pending' = IF processed < Len(chunk) THEN InFlight ELSE pending
  BY <1>3 DEF SaveLeftover, inputVars, chainVars
<1>6. pending' = pending \o InFlight
  <2>1. CASE processed < Len(chunk)
    <3>1. pending = <<>> /\ pending' = InFlight
      BY <1>1, <1>2, <1>5, <2>1
    <3>2. QED
      BY <1>4, <3>1, ConcatEmptySeq
  <2>2. CASE ~(processed < Len(chunk))
    <3>1. Len(InFlight) = 0
      BY <1>1, <1>2, <1>4, <2>2
    <3>2. InFlight = <<>> /\ pending' = pending
      BY <1>4, <1>5, <2>2, <3>1, EmptySeq
    <3>3. QED
      BY <1>2, <3>2, ConcatEmptySeq
  <2>3. QED
    BY <2>1, <2>2
<1>7. pending' \in Seq(Byte) /\ InFlight' = <<>>
  BY <1>2, <1>4, <1>5 DEF InFlight
<1>8. prev.plain \o pending' = SubSeq(src, 1, totalRead)
  <2>1. Joined(Joined(prev.plain, pending), InFlight)
          = Joined(prev.plain, Joined(pending, InFlight))
    BY <1>2, <1>4, JoinedAssociates
  <2>2. (prev.plain \o pending) \o InFlight = prev.plain \o (pending \o InFlight)
    BY <2>1 DEF Joined
  <2>3. QED
    BY <1>1, <1>6, <2>2
<1>9. (prev.plain \o pending') \o <<>> = prev.plain \o pending'
  BY <1>2, <1>7, ConcatProperties, ConcatEmptySeq
<1>10. QED
  BY <1>5, <1>7, <1>8, <1>9

\* The final block is whole and uses the extra block of the allocation.
LEMMA FinalBlockAccounted ==
  ASSUME StreamInv, FinalBlock
  PROVE  /\ Len(prev'.plain) = BlockSize * Len(enc')
         /\ BlockSize * Len(enc') <= Len(src) + BlockSize
<1>1. /\ pc \in Loop /\ TypeOK
      /\ Len(prev.plain) = BlockSize * Len(enc)
  BY DEF FinalBlock, StreamInv, Loop, WholeBlocks
<1>2. /\ pending \in Seq(Byte) /\ Len(pending) \in Nat /\ Len(pending) < BlockSize
      /\ Len(prev.plain) \in Nat /\ Len(enc) \in Nat /\ BlockSize \in Nat \ {0}
      /\ fileSize \in Nat /\ totalRead \in Nat
  BY <1>1, LoopTypes
<1>3. Len(pending) \in 0 .. BlockSize
  BY <1>2
<1>4. /\ Padding(Len(pending)) \in Seq(Byte)
      /\ Len(Padding(Len(pending))) = BlockSize - Len(pending)
  BY <1>3, PaddingType
<1>5. AddPadding(pending) \in Seq(Byte) /\ Len(AddPadding(pending)) = BlockSize
  BY <1>2, <1>4, ConcatProperties DEF AddPadding
<1>6. EmitBlock(AddPadding(pending), "mac")
  BY DEF FinalBlock
<1>7. /\ Len(prev'.plain) = BlockSize * Len(enc')
      /\ Len(prev'.plain) = Len(prev.plain) + BlockSize
  BY <1>1, <1>5, <1>6, EmitWhole
<1>8. /\ Len(prev.plain) + Len(pending) + Len(InFlight) = totalRead
      /\ totalRead <= Len(src) /\ Len(InFlight) \in Nat
  BY <1>1, AccountedLengths, LenProperties
<1>9. QED
  BY <1>2, <1>7, <1>8

-----------------------------------------------------------------------------
(* The whole function *)

\* A step that leaves the function outside the loop and the ciphertext alone
\* keeps the accounting.
LEMMA QuietStep ==
  ASSUME StreamInv, TypeOK', pc' \notin Loop, UNCHANGED <<enc, prev, fileSize, src>>,
         pc' \in Sealing => pc \in Sealing,
         pc' \in Early => pc \in Early /\ UNCHANGED <<pending, totalRead>>,
         pc' \in Early => pc' # "alloc_buffer" /\ pc \notin {"open_input", "measure_input"}
  PROVE  StreamInv'
BY DEF StreamInv, Untouched, SizeKnown, RoomToCarry, Accounted, WholeBlocks, FitsUnlessGrown,
       CiphertextFits, Capacity, Early, Loop, Sealing

\* Within the loop, blocks made of bytes that were read fit the allocation.
LEMMA WithinFile ==
  ASSUME TypeOK, TypeOK', Accounted, pc \in Loop, UNCHANGED <<src, fileSize>>,
         BlockSize * Len(enc') <= totalRead
  PROVE  FitsUnlessGrown'
<1>1. totalRead <= Len(src)
  BY DEF Accounted
<1>2. totalRead \in Nat /\ fileSize \in Nat /\ BlockSize \in Nat /\ Len(src) \in Nat
  BY LoopTypes
<1>3. enc' \in Seq(Block)
  BY DEF TypeOK
<1>4. Len(enc') \in Nat
  BY <1>3, LenProperties
<1>5. BlockSize * Len(enc') \in Nat
  BY <1>2, <1>4
<1>6. QED
  BY <1>1, <1>2, <1>5 DEF FitsUnlessGrown, CiphertextFits, Capacity

\* What was read of the input stays at its beginning when the input grows.
LEMMA GrowAccounted ==
  ASSUME StreamInv, TypeOK', Grow
  PROVE  StreamInv'
<1>1. TypeOK /\ Untouched /\ SizeKnown /\ RoomToCarry /\ Accounted /\ WholeBlocks
      /\ FitsUnlessGrown
  BY DEF StreamInv
<1>2. PICK b \in Byte : src' = Append(src, b)
  BY DEF Grow
<1>3. /\ pc' = pc /\ fileSize' = fileSize /\ totalRead' = totalRead /\ chunk' = chunk
      /\ processed' = processed /\ pending' = pending /\ prev' = prev /\ enc' = enc
      /\ UNCHANGED <<password, salt, iv>>
  BY DEF Grow, headerVars, streamVars, chainVars
<1>4. /\ src \in Seq(Byte) /\ src' \in Seq(Byte) /\ Len(src) \in Nat
      /\ Len(src') = Len(src) + 1
  BY <1>1, <1>2, LoopTypes, AppendProperties
<1>5. totalRead \in Nat /\ fileSize \in Nat
  BY <1>1, LoopTypes
<1>6. Accounted'
  <2>1. SUFFICES ASSUME pc \in Loop
                 PROVE  /\ totalRead <= Len(src')
                        /\ prev.plain \o pending \o InFlight = SubSeq(src', 1, totalRead)
    BY <1>3 DEF Accounted, InFlight
  <2>2. /\ totalRead <= Len(src)
        /\ prev.plain \o pending \o InFlight = SubSeq(src, 1, totalRead)
    BY <1>1, <2>1 DEF Accounted
  <2>3. SubSeq(src', 1, totalRead) = SubSeq(src, 1, totalRead)
    BY <1>2, <1>4, <1>5, <2>2
  <2>4. QED
    BY <1>4, <1>5, <2>2, <2>3
<1>7. SizeKnown'
  BY <1>1, <1>3, <1>4, <1>5 DEF SizeKnown
<1>8. FitsUnlessGrown'
  BY <1>1, <1>3, <1>4, <1>5 DEF FitsUnlessGrown, CiphertextFits, Capacity
<1>9. Untouched' /\ RoomToCarry' /\ WholeBlocks'
  BY <1>1, <1>3 DEF Untouched, RoomToCarry, WholeBlocks, ChainStart, EncKey
<1>10. QED
  BY <1>6, <1>7, <1>8, <1>9 DEF StreamInv

\* Every step of the function, or of its environment, keeps the accounting.
LEMMA StreamStep ==
  ASSUME StreamInv, [Next]_vars
  PROVE  StreamInv'
<1>1. TypeOK /\ TypeOK'
  BY TypeStep DEF StreamInv
<1>2. /\ Untouched /\ SizeKnown /\ RoomToCarry /\ Accounted /\ WholeBlocks /\ FitsUnlessGrown
  BY DEF StreamInv
<1>a. Len(prev.plain) \in Nat /\ Len(enc) \in Nat /\ fileSize \in Nat /\ BlockSize \in Nat
  BY <1>1, LoopTypes
<1>3. CASE OpenInput \/ MeasureInput
  <2>1. /\ pc' \in {"measure_input", "open_output", "done"}
        /\ pc \in {"open_input", "measure_input"}
        /\ pc' = "open_output" => fileSize' = Len(src')
        /\ UNCHANGED <<src, enc, pending, totalRead>>
    BY <1>3 DEF OpenInput, MeasureInput, FailEarly, Return, inputVars, streamVars, chainVars
  <2>2. enc = <<>> /\ pending = <<>> /\ totalRead = 0
    BY <1>2, <2>1 DEF Untouched, Early
  <2>3. FitsUnlessGrown'
    <3>1. Len(enc') = 0
      BY <2>1, <2>2
    <3>2. fileSize' \in Nat /\ BlockSize \in Nat
      BY <1>1, SizesAssumption DEF TypeOK
    <3>3. BlockSize * Len(enc') = 0
      BY <1>a, <3>1
    <3>4. PICK size \in Nat : size = fileSize'
      BY <3>2
    <3>5. 0 <= size + BlockSize
      BY <3>2
    <3>6. QED
      BY <3>3, <3>4, <3>5 DEF FitsUnlessGrown, CiphertextFits, Capacity
  <2>4. QED
    BY <1>1, <2>1, <2>2, <2>3
       DEF StreamInv, Untouched, SizeKnown, RoomToCarry, Accounted, WholeBlocks, Early, Loop,
           Sealing
<1>4. CASE OpenOutput \/ WriteSize \/ WriteSalt \/ InitCtx \/ WriteIv
  <2>1. /\ pc' \in {"write_size", "write_salt", "init_ctx", "write_iv", "alloc_encrypted", "done"}
        /\ pc \in Early \ {"open_input", "measure_input"}
        /\ UNCHANGED <<enc, prev, fileSize, src, pending, totalRead>>
    BY <1>4 DEF OpenOutput, WriteSize, WriteSalt, InitCtx, WriteIv, WriteOrFail, FailEarly,
                FailAfterWrites, Return, Early, inputVars, streamVars, chainVars
  <2>2. QED
    BY <1>1, <2>1, QuietStep DEF Early, Loop, Sealing
<1>5. CASE AllocEncrypted
  <2>1. /\ pc = "alloc_encrypted" /\ pc' \in {"alloc_buffer", "done"}
        /\ pc' = "alloc_buffer" => prev' = ChainStart(EncKey, iv)
        /\ UNCHANGED <<src, password, fileSize, salt, iv, enc, pending, totalRead>>
    BY <1>5 DEF AllocEncrypted, FailAfterWrites, Return, inputVars, headerVars, streamVars
  <2>2. ChainStart(EncKey, iv)' = ChainStart(EncKey, iv)
    BY <2>1 DEF EncKey
  <2>3. QED
    BY <1>1, <1>2, <2>1, <2>2
       DEF StreamInv, Untouched, SizeKnown, RoomToCarry, Accounted, WholeBlocks,
           FitsUnlessGrown, CiphertextFits, Capacity, Early, Loop, Sealing
<1>6. CASE AllocBuffer
  <2>1. /\ pc = "alloc_buffer" /\ pc' \in {"read", "done"}
        /\ UNCHANGED <<src, fileSize, prev, enc, pending, totalRead>>
    BY <1>6 DEF AllocBuffer, FailAfterWrites, Return, inputVars, streamVars, chainVars
  <2>2. enc = <<>> /\ pending = <<>> /\ totalRead = 0 /\ prev.plain = <<>>
    BY <1>2, <2>1 DEF Untouched, Early, ChainStart
  <2>3. InFlight' = <<>>
    BY <2>1 DEF InFlight
  <2>4. totalRead' <= Len(src')
    BY <1>1, <2>1, <2>2, LoopTypes
  <2>5. (prev.plain \o pending)' \o InFlight' = SubSeq(src', 1, totalRead')
    <3>1. (<<>> \o <<>>) \o <<>> = <<>>
      OBVIOUS
    <3>2. SubSeq(src, 1, 0) = <<>>
      BY <1>1, LoopTypes, Slice, EmptySeq
    <3>3. QED
      BY <2>1, <2>2, <2>3, <3>1, <3>2
  <2>6. Len(prev'.plain) = BlockSize * Len(enc')
    <3>1. Len(prev'.plain) = 0 /\ Len(enc') = 0
      BY <2>1, <2>2
    <3>2. QED
      BY <1>a, <3>1
  <2>7. QED
    BY <1>1, <1>2, <2>1, <2>4, <2>5, <2>6
       DEF StreamInv, Untouched, SizeKnown, RoomToCarry, Accounted, WholeBlocks,
           FitsUnlessGrown, CiphertextFits, Capacity, Early, Loop, Sealing
<1>7. CASE ReadChunk
  <2>1. /\ pc = "read" /\ pc' \in {"top_up", "final"} /\ processed' = 0
        /\ UNCHANGED <<src, fileSize, prev, enc, pending>>
    BY <1>7 DEF ReadChunk, inputVars, chainVars
  <2>2. /\ totalRead' <= Len(src')
        /\ (prev.plain \o pending)' \o InFlight' = SubSeq(src', 1, totalRead')
        /\ pc' = "top_up" => chunk' # <<>>
    BY <1>7, ReadAccounted
  <2>3. QED
    BY <1>1, <1>2, <2>1, <2>2
       DEF StreamInv, Untouched, SizeKnown, RoomToCarry, Accounted, WholeBlocks,
           FitsUnlessGrown, CiphertextFits, Capacity, Early, Loop, Sealing
<1>8. CASE TopUpPending
  <2>1. /\ pc = "top_up" /\ pc' \in {"blocks", "done"}
        /\ UNCHANGED <<src, fileSize, totalRead>>
    BY <1>8 DEF TopUpPending, EmitBlock, WriteOrFail, FailAfterWrites, Return, inputVars
  <2>2. /\ pc' = "blocks" =>
              /\ (prev.plain \o pending)' \o InFlight' = SubSeq(src', 1, totalRead')
              /\ processed' <= Len(chunk')
              /\ pending' # <<>> => processed' = Len(chunk')
        /\ Len(prev'.plain) = BlockSize * Len(enc')
        /\ BlockSize * Len(enc') <= totalRead
    BY <1>8, TopUpAccounted
  <2>3. FitsUnlessGrown'
    BY <1>1, <1>2, <2>1, <2>2, WithinFile DEF Loop
  <2>4. QED
    BY <1>1, <1>2, <2>1, <2>2, <2>3
       DEF StreamInv, Untouched, SizeKnown, RoomToCarry, Accounted, WholeBlocks, Early, Loop,
           Sealing
<1>9. CASE EncryptBlock
  <2>1. /\ pc = "blocks" /\ pc' \in {"blocks", "done"}
        /\ UNCHANGED <<src, fileSize, totalRead>>
    BY <1>9 DEF EncryptBlock, EmitBlock, WriteOrFail, FailAfterWrites, Return, inputVars
  <2>2. /\ pc' = "blocks" =>
              /\ (prev.plain \o pending)' \o InFlight' = SubSeq(src', 1, totalRead')
              /\ processed' <= Len(chunk') /\ pending' = <<>>
        /\ Len(prev'.plain) = BlockSize * Len(enc')
        /\ BlockSize * Len(enc') <= totalRead
    BY <1>9, EncryptBlockAccounted
  <2>3. FitsUnlessGrown'
    BY <1>1, <1>2, <2>1, <2>2, WithinFile DEF Loop
  <2>4. QED
    BY <1>1, <1>2, <2>1, <2>2, <2>3
       DEF StreamInv, Untouched, SizeKnown, RoomToCarry, Accounted, WholeBlocks, Early, Loop,
           Sealing
<1>10. CASE SaveLeftover
  <2>1. /\ pc = "blocks" /\ pc' = "read"
        /\ UNCHANGED <<src, fileSize, totalRead, prev, enc>>
    BY <1>10 DEF SaveLeftover, inputVars, chainVars
  <2>2. (prev.plain \o pending)' \o InFlight' = SubSeq(src', 1, totalRead')
    BY <1>10, SaveLeftoverAccounted
  <2>3. QED
    BY <1>1, <1>2, <2>1, <2>2
       DEF StreamInv, Untouched, SizeKnown, RoomToCarry, Accounted, WholeBlocks,
           FitsUnlessGrown, CiphertextFits, Capacity, Early, Loop, Sealing
<1>11. CASE FinalBlock
  <2>1. /\ pc = "final" /\ pc' \in {"mac", "done"}
        /\ UNCHANGED <<src, fileSize>>
    BY <1>11 DEF FinalBlock, EmitBlock, WriteOrFail, FailAfterWrites, Return, inputVars
  <2>2. /\ Len(prev'.plain) = BlockSize * Len(enc')
        /\ BlockSize * Len(enc') <= Len(src) + BlockSize
    BY <1>11, FinalBlockAccounted
  <2>3. FitsUnlessGrown'
    <3>1. Len(src) \in Nat /\ Len(enc') \in Nat
      BY <1>1, LoopTypes, LenProperties DEF TypeOK
    <3>2. BlockSize * Len(enc') \in Int
      BY <1>a, <3>1
    <3>3. QED
      BY <1>a, <2>1, <2>2, <3>1, <3>2 DEF FitsUnlessGrown, CiphertextFits, Capacity
  <2>4. SizeKnown'
    BY <1>2, <2>1 DEF SizeKnown, Early, Loop, Sealing
  <2>5. Untouched' /\ RoomToCarry' /\ Accounted'
    BY <2>1 DEF Untouched, RoomToCarry, Accounted, Early, Loop
  <2>6. WholeBlocks'
    BY <2>2 DEF WholeBlocks
  <2>7. QED
    BY <1>1, <2>3, <2>4, <2>5, <2>6 DEF StreamInv
<1>12. CASE AllocMac \/ WriteMac \/ CloseAndReturn \/ Crash
  <2>1. /\ pc' \in {"write_mac", "close", "done", "crashed"}
        /\ pc' \in {"write_mac", "close"} => pc \in {"mac", "write_mac"}
        /\ UNCHANGED <<enc, prev, fileSize, src>>
    BY <1>12 DEF AllocMac, WriteMac, CloseAndReturn, Return, Crash, inputVars, chainVars
  <2>2. QED
    BY <1>1, <2>1, QuietStep DEF Early, Loop, Sealing
<1>13. CASE UNCHANGED vars
  BY <1>1, <1>2, <1>13
     DEF vars, inputVars, headerVars, streamVars, chainVars, exitVars, StreamInv, Untouched,
         SizeKnown, RoomToCarry, Accounted, WholeBlocks, FitsUnlessGrown, CiphertextFits, Capacity,
         InFlight, EncKey
<1>14. CASE Grow
  BY <1>1, <1>14, GrowAccounted
<1>15. QED
  BY <1>3, <1>4, <1>5, <1>6, <1>7, <1>8, <1>9, <1>10, <1>11, <1>12, <1>13, <1>14
     DEF Next, Step, Ended

LEMMA StreamInit == ASSUME Init PROVE StreamInv
<1>1. TypeOK
  BY InitTypes
<1>2. /\ pc = "open_input" /\ enc = <<>> /\ pending = <<>> /\ totalRead = 0 /\ fileSize = 0
  BY DEF Init
<1>3. FitsUnlessGrown
  <2>1. BlockSize \in Nat /\ Len(enc) = 0
    BY <1>2, SizesAssumption
  <2>2. BlockSize * Len(enc) = 0
    BY <2>1
  <2>3. QED
    BY <1>2, <2>1, <2>2 DEF FitsUnlessGrown, CiphertextFits, Capacity
<1>4. QED
  BY <1>1, <1>2, <1>3
     DEF StreamInv, Untouched, SizeKnown, RoomToCarry, Accounted, WholeBlocks, Early, Loop,
         Sealing

\* However the input is read and whatever fails, no copy leaves encrypted_data
\* unless another process has made the input longer than ftell reported: that size
\* and one extra block are enough (cipher.c:99-109, 149, 170, 202).
THEOREM AllocationSuffices == Spec => []FitsUnlessGrown
<1>1. Init => StreamInv
  BY StreamInit
<1>2. StreamInv /\ [Next]_vars => StreamInv'
  BY StreamStep
<1>3. StreamInv => FitsUnlessGrown
  BY DEF StreamInv
<1>4. QED
  BY <1>1, <1>2, <1>3, PTL DEF Spec

-----------------------------------------------------------------------------
(* What the function leaves in its output *)

ReadText == SubSeq(src, 1, totalRead)
Header   == SizeCells(fileSize) \o salt \o iv
Mac      == MacCells(MacKey, AuthenticatedCells)
Whole    == Sealed(ReadText, fileSize, password, salt, iv)

\* The chain of this run's key and IV with some plaintext behind it.
ChainOf(plain) == [key |-> EncKey, iv |-> iv, plain |-> plain]

\* What the output stream has accepted at each place.
WrittenInv ==
  /\ pc \in {"open_input", "measure_input", "open_output", "write_size"} => out = <<>>
  /\ pc = "write_salt" => out = SizeCells(fileSize)
  /\ pc \in {"init_ctx", "write_iv"} => out = SizeCells(fileSize) \o salt
  /\ pc \in {"alloc_encrypted", "alloc_buffer"} => out = Header
  /\ pc \in Loop \cup {"mac", "write_mac"} => out = AuthenticatedCells
  /\ pc = "close" =>
       \E n \in 0 .. MacWidth :
         out = AuthenticatedCells \o SubSeq(Mac, 1, n) /\ (n < MacWidth => unnoticed)

\* Every block stands for the plaintext of the chain up to it.
Chained ==
  /\ prev = ChainOf(prev.plain)
  /\ \A i \in 1 .. Len(enc) : enc[i] = ChainOf(SubSeq(prev.plain, 1, i * BlockSize))

ChainInv == pc \in Loop \cup Sealing => Chained

\* After the final block the chain holds the padded text.
PaddedInv ==
  pc \in Sealing =>
    /\ totalRead <= Len(src)
    /\ prev.plain = Padded(ReadText)
    /\ Len(enc) = (Len(ReadText) \div BlockSize) + 1

\* The loop ends only at the end of the input, unless a read fell short.
ReadInv ==
  ((pc \in {"final"} \cup Sealing \/ result = "0") /\ ~unnoticed /\ Len(src) = fileSize) =>
    totalRead = Len(src)

\* The output file is empty until the stream is closed, flushed by a failure or
\* lost in a crash.
DiskInv ==
  /\ pc \notin {"done", "crashed"} => result = "none" /\ (disk = NoFile \/ disk = <<>>)
  /\ pc \in {"done", "crashed"} =>
       disk = NoFile \/ Unsealed(disk) \/ (disk = Whole /\ totalRead <= Len(src))
  /\ result = "0" => pc = "done" /\ (~unnoticed => disk = Whole)

SealParts == WrittenInv /\ ChainInv /\ PaddedInv /\ ReadInv /\ DiskInv

SealInv == StreamInv /\ HeldByPlace /\ SealParts

-----------------------------------------------------------------------------
(* The whole file *)

\* What is written before the MAC holds no end of a MAC.
LEMMA UnsealedParts ==
  ASSUME TypeOK
  PROVE  /\ Unsealed(<<>>) /\ Unsealed(SizeCells(fileSize)) /\ Unsealed(salt) /\ Unsealed(iv)
         /\ Unsealed(SizeCells(fileSize) \o salt) /\ Unsealed(Header)
         /\ \A blocks : Len(blocks) \in Nat => Unsealed(Header \o CiphertextCells(blocks))
         /\ Unsealed(AuthenticatedCells) /\ IsSequence(CiphertextCells(enc))
<1>1. Unsealed(<<>>)
  BY DEF Unsealed, IsSequence
<1>2. Unsealed(SizeCells(fileSize))
  BY UnsealedSize
<1>3. SaltWidth \in Nat /\ BlockSize \in Nat
  BY SizesAssumption
<1>4. \A r : Unsealed(Cells("random", r, SaltWidth)) /\ Unsealed(Cells("random", r, BlockSize))
  BY <1>3, UnsealedCells
<1>5. Unsealed(salt)
  BY <1>1, <1>4 DEF TypeOK, Salts
<1>6. Unsealed(iv)
  BY <1>1, <1>4 DEF TypeOK, Ivs
<1>7. Unsealed(SizeCells(fileSize) \o salt)
  BY <1>2, <1>5, UnsealedJoined
<1>8. Unsealed(Header)
  BY <1>6, <1>7, UnsealedJoined DEF Header
<1>9. ASSUME NEW blocks, Len(blocks) \in Nat
      PROVE  Unsealed(CiphertextCells(blocks)) /\ Unsealed(Header \o CiphertextCells(blocks))
  BY <1>8, <1>9, UnsealedCiphertext, UnsealedJoined
<1>10. Len(enc) \in Nat
  BY LoopTypes
<1>11. AuthenticatedCells = Header \o CiphertextCells(enc)
  BY DEF AuthenticatedCells, Header
<1>12. Unsealed(AuthenticatedCells) /\ IsSequence(CiphertextCells(enc))
  BY <1>9, <1>10, <1>11 DEF Unsealed
<1>13. QED
  BY <1>1, <1>2, <1>5, <1>6, <1>7, <1>8, <1>9, <1>12

\* When the final block is out, the stream's blocks are those of the text's chain.
LEMMA SealedForm ==
  ASSUME TypeOK, ChainInv, PaddedInv, pc \in Sealing
  PROVE  Whole = AuthenticatedCells \o Mac
<1>1. /\ enc \in Seq(Block) /\ Len(enc) \in Nat
      /\ Len(enc) = (Len(ReadText) \div BlockSize) + 1
      /\ prev.plain = Padded(ReadText)
      /\ \A i \in 1 .. Len(enc) : enc[i] = ChainOf(SubSeq(prev.plain, 1, i * BlockSize))
  BY LoopTypes DEF ChainInv, Chained, PaddedInv
<1>2. \A x : [ChainStart(EncKey, iv) EXCEPT !.plain = x] = ChainOf(x)
  BY DEF ChainStart, ChainOf
<1>3. enc = Chain(ReadText, EncKey, iv)
  <2>1. enc = [i \in 1 .. Len(enc) |-> enc[i]]
    BY <1>1
  <2>2. enc = [i \in 1 .. ((Len(ReadText) \div BlockSize) + 1) |->
                 ChainOf(SubSeq(Padded(ReadText), 1, i * BlockSize))]
    BY <1>1, <2>1, Zenon
  <2>3. QED
    BY <1>2, <2>2, Zenon DEF Chain
<1>4. Whole = AuthenticatedCells \o MacCells(MacKey, AuthenticatedCells)
  BY <1>3 DEF Whole, Sealed, AuthenticatedCells, EncKey, MacKey
<1>5. QED
  BY <1>4 DEF Mac

-----------------------------------------------------------------------------
(* Ends of the function *)

\* An error exit leaves the file unopened, empty or a prefix of cells no decoder
\* accepts.
LEMMA FailedStep ==
  ASSUME SealInv, pc \notin {"done", "crashed"}, pc' = "done", result' = "-1",
         \/ UNCHANGED disk
         \/ \E given : Unsealed(given) /\ disk' \in Prefixes(given)
  PROVE  SealParts'
<1>1. disk = NoFile \/ Unsealed(disk)
  BY UnsealedParts DEF SealInv, SealParts, DiskInv, StreamInv
<1>2. disk' = NoFile \/ Unsealed(disk')
  <2>1. CASE UNCHANGED disk
    BY <1>1, <2>1
  <2>2. CASE \E given : Unsealed(given) /\ disk' \in Prefixes(given)
    <3>1. PICK given : Unsealed(given) /\ disk' \in Prefixes(given)
      BY <2>2
    <3>2. QED
      BY <3>1, UnsealedPrefix DEF Prefixes
  <2>3. QED
    BY <2>1, <2>2
<1>3. DiskInv'
  BY <1>2 DEF DiskInv, Unsealed, IsSequence
<1>4. WrittenInv' /\ ChainInv' /\ PaddedInv' /\ ReadInv'
  BY DEF WrittenInv, ChainInv, PaddedInv, ReadInv, Loop, Sealing
<1>5. QED
  BY <1>3, <1>4 DEF SealParts

\* One more block: on the chain, in encrypted_data and in the output.
LEMMA EmitChained ==
  ASSUME TypeOK, Chained, WholeBlocks, pc \in Loop, NEW block \in Seq(Byte),
         Len(block) = BlockSize, NEW next, EmitBlock(block, next),
         UNCHANGED <<password, salt, iv>>
  PROVE  Chained'
<1> DEFINE n == Len(enc)
<1>1. /\ prev \in Block /\ prev.plain \in Seq(Byte) /\ enc \in Seq(Block)
      /\ n \in Nat /\ BlockSize \in Nat \ {0} /\ Len(prev.plain) = BlockSize * n
      /\ Len(prev.plain) \in Nat
  BY LoopTypes DEF WholeBlocks
<1>2. /\ prev' \in Block /\ prev'.plain = prev.plain \o block
      /\ Len(prev'.plain) = BlockSize * n + BlockSize
  BY <1>1, EmitBlockType, EmitWhole
<1>3. prev' = ChainOf(prev'.plain)
  <2>1. prev = ChainOf(prev.plain)
    BY DEF Chained
  <2>2. \A x, y : [ChainOf(x) EXCEPT !.plain = y] = ChainOf(y)
    BY DEF ChainOf
  <2>3. prev' = [prev EXCEPT !.plain = prev.plain \o block]
    BY DEF EmitBlock, CbcEncryptBlock
  <2>4. prev' = ChainOf(prev.plain \o block)
    BY <2>1, <2>2, <2>3, Zenon
  <2>5. QED
    BY <1>2, <2>4, Zenon
<1>4. \A x : [key |-> EncKey', iv |-> iv', plain |-> x] = ChainOf(x)
  BY DEF ChainOf, EncKey
<1>5. /\ enc' = Append(enc, prev') /\ Len(enc') = n + 1 /\ enc'[n + 1] = prev'
      /\ \A i \in 1 .. n : enc'[i] = enc[i]
  BY <1>1, <1>2, AppendProperties DEF EmitBlock
<1> HIDE DEF n
<1>6. ASSUME NEW i \in 1 .. n + 1
      PROVE  enc'[i] = ChainOf(SubSeq(prev'.plain, 1, i * BlockSize))
  <2>1. CASE i \in 1 .. n
    <3>1. i * BlockSize \in 0 .. Len(prev.plain)
      <4>1. PICK k \in Nat : n = i + k
        <5>1. n - i \in Nat /\ n = i + (n - i)
          BY <1>1, <2>1
        <5>2. QED
          BY <5>1
      <4>2. i \in Nat /\ BlockSize * n = i * BlockSize + BlockSize * k
        <5>1. \A a, b, c \in Nat : a * (b + c) = b * a + a * c
          OBVIOUS
        <5>2. QED
          BY <1>1, <2>1, <4>1, <5>1
      <4>3. i * BlockSize \in Nat /\ BlockSize * k \in Nat
        BY <1>1, <4>1, <4>2
      <4>4. QED
        BY <1>1, <4>2, <4>3
    <3>2. SubSeq(prev.plain \o block, 1, i * BlockSize) = SubSeq(prev.plain, 1, i * BlockSize)
      BY <1>1, <3>1, SequenceIs, FirstOfJoined
    <3>3. enc[i] = ChainOf(SubSeq(prev.plain, 1, i * BlockSize))
      BY <2>1 DEF Chained, n
    <3>4. QED
      BY <1>2, <1>5, <2>1, <3>2, <3>3
  <2>2. CASE i = n + 1
    <3>1. i * BlockSize = Len(prev'.plain)
      BY <1>1, <1>2, <2>2
    <3>2. prev'.plain \in Seq(Byte)
      BY <1>2 DEF Block
    <3>3. SubSeq(prev'.plain, 1, Len(prev'.plain)) = prev'.plain
      BY <3>2, SubSeqFull
    <3>4. QED
      BY <1>3, <1>5, <2>2, <3>1, <3>3
  <2>3. QED
    BY <1>1, <2>1, <2>2
<1>7. QED
  BY <1>3, <1>4, <1>5, <1>6 DEF Chained, ChainOf

\* fwrite accepts the cells or the function ends with -1.
LEMMA WriteStep ==
  ASSUME Unsealed(out), NEW cells, Unsealed(cells), Len(cells) \in Nat \ {0},
         NEW next, NEW released, WriteOrFail(cells, next, released)
  PROVE  \/ pc' = next /\ out' = out \o cells /\ UNCHANGED exitVars
         \/ /\ pc' = "done" /\ result' = "-1"
            /\ \E given : Unsealed(given) /\ disk' \in Prefixes(given)
<1>1. Len(cells) - 1 \in 0 .. Len(cells)
  OBVIOUS
<1>2. Unsealed(out \o SubSeq(cells, 1, Len(cells) - 1))
  BY <1>1, UnsealedPrefix, UnsealedJoined
<1>3. QED
  BY <1>2 DEF WriteOrFail, FailAfterWrites, Return

LEMMA EmitSealed ==
  ASSUME TypeOK, out = AuthenticatedCells, NEW block \in Seq(Byte), NEW next,
         EmitBlock(block, next), UNCHANGED <<fileSize, salt, iv>>
  PROVE  \/ pc' = next /\ out' = AuthenticatedCells' /\ UNCHANGED exitVars
         \/ /\ pc' = "done" /\ result' = "-1"
            /\ \E given : Unsealed(given) /\ disk' \in Prefixes(given)
<1> DEFINE cells == BlockCells(prev')
<1>1. /\ enc \in Seq(Block) /\ Len(enc) \in Nat /\ prev' \in Block /\ enc' = Append(enc, prev')
      /\ BlockSize \in Nat \ {0}
  BY LoopTypes, EmitBlockType DEF EmitBlock
<1>2. Unsealed(cells) /\ Len(cells) = BlockSize
  BY <1>1, UnsealedCells DEF BlockCells
<1>3. /\ Unsealed(Header) /\ Unsealed(AuthenticatedCells)
      /\ IsSequence(CiphertextCells(enc))
  BY UnsealedParts
<1>4. AuthenticatedCells = Header \o CiphertextCells(enc)
  BY DEF AuthenticatedCells, Header
<1>5. AuthenticatedCells' = Header \o CiphertextCells(enc')
  BY DEF AuthenticatedCells, Header
<1>6. CiphertextCells(enc') = CiphertextCells(enc) \o cells
  BY <1>1, CiphertextGrows
<1> HIDE DEF cells
<1>7. out \o cells = AuthenticatedCells'
  BY <1>2, <1>3, <1>4, <1>5, <1>6, CellsAssociate DEF Unsealed
<1>8. WriteOrFail(cells, next, Resources)
  BY DEF EmitBlock, cells
<1>9. Len(cells) \in Nat \ {0}
  BY <1>1, <1>2
<1>10. QED
  BY <1>2, <1>3, <1>7, <1>8, <1>9, WriteStep

-----------------------------------------------------------------------------
(* Every step *)

\* What holds of the output before the loop.
LEMMA HeaderSteps ==
  ASSUME SealInv,
         \/ OpenInput \/ MeasureInput \/ OpenOutput \/ WriteSize \/ WriteSalt \/ InitCtx
         \/ WriteIv \/ AllocEncrypted
  PROVE  SealParts'
<1> USE DEF inputVars, headerVars, streamVars, chainVars, exitVars, Return, FailEarly
<1>1. /\ TypeOK /\ WrittenInv /\ DiskInv
  BY DEF SealInv, SealParts, StreamInv
<1>2. /\ Unsealed(<<>>) /\ Unsealed(SizeCells(fileSize)) /\ Unsealed(salt)
      /\ Unsealed(SizeCells(fileSize) \o salt) /\ Unsealed(Header)
  BY <1>1, UnsealedParts
<1>3. ASSUME pc \notin {"done", "crashed"}, pc' \in Early,
             WrittenInv', result' = result, disk' \in {disk, <<>>}
      PROVE  SealParts'
  BY <1>1, <1>3 DEF SealParts, DiskInv, ChainInv, PaddedInv, ReadInv, Early, Loop, Sealing
<1>4. ASSUME pc \notin {"done", "crashed"}, pc' = "done", result' = "-1",
             \/ UNCHANGED disk
             \/ \E given : Unsealed(given) /\ disk' \in Prefixes(given)
      PROVE  SealParts'
  BY <1>4, FailedStep
<1>5. CASE OpenInput \/ MeasureInput
  <2>1. CASE pc' \in {"measure_input", "open_output"} /\ UNCHANGED <<result, disk>>
    <3>1. WrittenInv'
      BY <1>1, <1>5, <2>1 DEF OpenInput, MeasureInput, WrittenInv, Loop
    <3>2. QED
      BY <1>3, <1>5, <2>1, <3>1 DEF OpenInput, MeasureInput, Early
  <2>2. CASE FailEarly({}) \/ FailEarly({"input"})
    BY <1>4, <1>5, <2>2 DEF OpenInput, MeasureInput
  <2>3. QED
    BY <1>5, <2>1, <2>2 DEF OpenInput, MeasureInput
<1>6. CASE OpenOutput
  <2>1. CASE pc' = "write_size" /\ disk' = <<>> /\ UNCHANGED result
    <3>1. WrittenInv'
      BY <1>1, <1>6, <2>1 DEF OpenOutput, WrittenInv, Loop
    <3>2. QED
      BY <1>3, <1>6, <2>1, <3>1 DEF OpenOutput, Early
  <2>2. CASE FailEarly({"input"})
    BY <1>4, <1>6, <2>2 DEF OpenOutput
  <2>3. QED
    BY <1>6, <2>1, <2>2 DEF OpenOutput
<1>7. CASE WriteSize
  <2>1. out = <<>> /\ pc = "write_size"
    BY <1>1, <1>7 DEF WriteSize, WrittenInv
  <2>2. Len(SizeCells(fileSize)) \in Nat \ {0}
    BY UnsealedSize, SizesAssumption
  <2>3. \/ pc' = "write_salt" /\ out' = out \o SizeCells(fileSize) /\ UNCHANGED exitVars
        \/ /\ pc' = "done" /\ result' = "-1"
           /\ \E given : Unsealed(given) /\ disk' \in Prefixes(given)
    BY <1>2, <1>7, <2>1, <2>2, WriteStep DEF WriteSize
  <2>4. CASE pc' = "write_salt" /\ out' = out \o SizeCells(fileSize) /\ UNCHANGED exitVars
    <3>1. out' = SizeCells(fileSize')
      BY <1>2, <1>7, <2>1, <2>4, EmptyFirst DEF WriteSize, Unsealed
    <3>2. WrittenInv'
      BY <2>4, <3>1 DEF WrittenInv, Loop
    <3>3. QED
      BY <1>3, <2>1, <2>4, <3>2 DEF Early
  <2>5. QED
    BY <1>4, <2>1, <2>3, <2>4
<1>8. CASE WriteSalt
  <2>1. out = SizeCells(fileSize) /\ pc = "write_salt"
    BY <1>1, <1>8 DEF WriteSalt, WrittenInv
  <2>2. Unsealed(salt') /\ Len(salt') \in Nat \ {0}
    <3>1. PICK r \in Randoms : salt' = Cells("random", r, SaltWidth)
      BY <1>8 DEF WriteSalt
    <3>2. QED
      BY <3>1, UnsealedCells, SizesAssumption
  <2>3. \/ pc' = "init_ctx" /\ out' = out \o salt' /\ UNCHANGED exitVars
        \/ /\ pc' = "done" /\ result' = "-1"
           /\ \E given : Unsealed(given) /\ disk' \in Prefixes(given)
    BY <1>2, <1>8, <2>1, <2>2, WriteStep DEF WriteSalt
  <2>4. CASE pc' = "init_ctx" /\ out' = out \o salt' /\ UNCHANGED exitVars
    <3>1. out' = SizeCells(fileSize') \o salt'
      BY <1>8, <2>1, <2>4 DEF WriteSalt
    <3>2. WrittenInv'
      BY <2>4, <3>1 DEF WrittenInv, Loop
    <3>3. QED
      BY <1>3, <2>1, <2>4, <3>2 DEF Early
  <2>5. QED
    BY <1>4, <2>1, <2>3, <2>4
<1>9. CASE InitCtx
  <2>1. pc = "init_ctx" /\ pc' = "write_iv" /\ UNCHANGED <<out, fileSize, salt, result, disk>>
    BY <1>9 DEF InitCtx
  <2>2. WrittenInv'
    BY <1>1, <2>1 DEF WrittenInv, Loop
  <2>3. QED
    BY <1>3, <2>1, <2>2 DEF Early
<1>10. CASE WriteIv
  <2>1. out = SizeCells(fileSize) \o salt /\ pc = "write_iv"
    BY <1>1, <1>10 DEF WriteIv, WrittenInv
  <2>2. Unsealed(iv') /\ Len(iv') \in Nat \ {0}
    <3>1. PICK r \in Randoms : iv' = Cells("random", r, BlockSize)
      BY <1>10 DEF WriteIv
    <3>2. QED
      BY <3>1, UnsealedCells, SizesAssumption
  <2>3. \/ pc' = "alloc_encrypted" /\ out' = out \o iv' /\ UNCHANGED exitVars
        \/ /\ pc' = "done" /\ result' = "-1"
           /\ \E given : Unsealed(given) /\ disk' \in Prefixes(given)
    BY <1>2, <1>10, <2>1, <2>2, WriteStep DEF WriteIv
  <2>4. CASE pc' = "alloc_encrypted" /\ out' = out \o iv' /\ UNCHANGED exitVars
    <3>1. out' = Header'
      BY <1>10, <2>1, <2>4 DEF WriteIv, Header
    <3>2. WrittenInv'
      BY <2>4, <3>1 DEF WrittenInv, Loop
    <3>3. QED
      BY <1>3, <2>1, <2>4, <3>2 DEF Early
  <2>5. QED
    BY <1>4, <2>1, <2>3, <2>4
<1>11. CASE AllocEncrypted
  <2>1. out = Header /\ pc = "alloc_encrypted"
    BY <1>1, <1>11 DEF AllocEncrypted, WrittenInv
  <2>2. CASE pc' = "alloc_buffer" /\ UNCHANGED <<result, disk>>
    <3>1. out' = Header'
      BY <1>11, <2>1 DEF AllocEncrypted, Header
    <3>2. WrittenInv'
      BY <2>2, <3>1 DEF WrittenInv, Loop
    <3>3. QED
      BY <1>3, <2>1, <2>2, <3>2 DEF Early
  <2>3. CASE FailAfterWrites(out, {"ctx", "input", "output"})
    BY <1>2, <1>4, <2>1, <2>3 DEF FailAfterWrites
  <2>4. QED
    BY <1>11, <2>2, <2>3 DEF AllocEncrypted
<1>12. QED
  BY <1>5, <1>6, <1>7, <1>8, <1>9, <1>10, <1>11

\* A step of the loop that emits no block leaves the output as it is.
LEMMA QuietLoop ==
  ASSUME SealInv, pc \in Loop, pc' \in Loop,
         UNCHANGED <<password, fileSize, salt, iv, prev, enc, out, result, disk>>,
         ReadInv'
  PROVE  SealParts'
<1>1. out = AuthenticatedCells /\ Chained /\ DiskInv
  BY DEF SealInv, SealParts, WrittenInv, ChainInv
<1>2. out' = AuthenticatedCells'
  BY <1>1 DEF AuthenticatedCells
<1>3. WrittenInv'
  BY <1>2 DEF WrittenInv, Loop
<1>4. ChainInv'
  BY <1>1 DEF ChainInv, Chained, ChainOf, EncKey
<1>5. PaddedInv' /\ DiskInv'
  BY <1>1 DEF PaddedInv, DiskInv, Loop, Sealing
<1>6. QED
  BY <1>3, <1>4, <1>5 DEF SealParts

\* A step that emits a block: into the loop again, to the MAC or out.
LEMMA EmitStep ==
  ASSUME SealInv, pc \in Loop, NEW block \in Seq(Byte), Len(block) = BlockSize,
         NEW next \in {"blocks", "mac"}, EmitBlock(block, next),
         UNCHANGED <<password, fileSize, salt, iv>>,
         pc' = next => PaddedInv' /\ ReadInv'
  PROVE  SealParts'
<1>1. out = AuthenticatedCells /\ Chained /\ DiskInv /\ TypeOK /\ WholeBlocks
  BY DEF SealInv, SealParts, StreamInv, WrittenInv, ChainInv
<1>2. Chained'
  BY <1>1, EmitChained
<1>3. \/ pc' = next /\ out' = AuthenticatedCells' /\ UNCHANGED exitVars
      \/ /\ pc' = "done" /\ result' = "-1"
         /\ \E given : Unsealed(given) /\ disk' \in Prefixes(given)
  BY <1>1, EmitSealed
<1>4. CASE pc' = next /\ out' = AuthenticatedCells' /\ UNCHANGED exitVars
  <2>1. WrittenInv'
    BY <1>4 DEF WrittenInv, Loop
  <2>2. ChainInv'
    BY <1>2 DEF ChainInv
  <2>3. DiskInv'
    BY <1>1, <1>4 DEF DiskInv, exitVars, Loop
  <2>4. QED
    BY <1>4, <2>1, <2>2, <2>3 DEF SealParts
<1>5. pc \notin {"done", "crashed"}
  BY DEF Loop
<1>6. QED
  BY <1>3, <1>4, <1>5, FailedStep

LEMMA AllocBufferSeals == ASSUME SealInv, AllocBuffer PROVE SealParts'
<1>1. /\ pc = "alloc_buffer" /\ TypeOK /\ DiskInv /\ out = Header
      /\ enc = <<>> /\ prev = ChainStart(EncKey, iv)
  BY DEF AllocBuffer, SealInv, SealParts, StreamInv, WrittenInv, Untouched, Early
<1>2. CASE pc' = "read" /\ UNCHANGED <<result, disk>>
  <2>1. UNCHANGED <<password, fileSize, salt, iv, prev, enc, out>>
    BY <1>2 DEF AllocBuffer, inputVars, headerVars, chainVars
  <2>2. CiphertextCells(enc) = <<>>
    <3>1. Len(enc) = 0
      BY <1>1
    <3>2. BlockSize * Len(enc) = 0 /\ Len(enc) \in Nat
      BY <3>1, SizesAssumption
    <3>3. IsSequence(CiphertextCells(enc)) /\ Len(CiphertextCells(enc)) = 0
      BY <3>2, UnsealedCiphertext DEF Unsealed
    <3>4. QED
      BY <3>3, EmptySeq DEF IsSequence
  <2>3. AuthenticatedCells = Header
    <3>1. AuthenticatedCells = Header \o CiphertextCells(enc)
      BY DEF AuthenticatedCells, Header
    <3>2. IsSequence(Header)
      BY <1>1, UnsealedParts DEF Unsealed
    <3>3. QED
      BY <2>2, <3>1, <3>2, EmptyFirst
  <2>4. out' = AuthenticatedCells'
    BY <1>1, <2>1, <2>3 DEF AuthenticatedCells
  <2>5. WrittenInv'
    BY <1>2, <2>4 DEF WrittenInv, Loop
  <2>6. prev = ChainOf(prev.plain) /\ 1 .. Len(enc) = {}
    BY <1>1 DEF ChainStart, ChainOf
  <2>7. ChainInv'
    BY <2>1, <2>6 DEF ChainInv, Chained, ChainOf, EncKey
  <2>8. PaddedInv' /\ ReadInv' /\ DiskInv'
    BY <1>1, <1>2 DEF PaddedInv, ReadInv, DiskInv, Sealing
  <2>9. QED
    BY <2>5, <2>7, <2>8 DEF SealParts
<1>3. CASE FailAfterWrites(out, {"ctx", "encrypted_data", "input", "output"})
  <2>1. Unsealed(out)
    BY <1>1, UnsealedParts
  <2>2. QED
    BY <1>1, <1>3, <2>1, FailedStep DEF FailAfterWrites, Return
<1>4. QED
  BY <1>2, <1>3 DEF AllocBuffer

\* The loop leaves an input it has not read to the end only when a read fell short.
LEMMA ReadChunkSeals == ASSUME SealInv, ReadChunk PROVE SealParts'
<1>1. /\ pc = "read" /\ TypeOK /\ totalRead <= Len(src) /\ DiskInv
  BY DEF ReadChunk, SealInv, SealParts, StreamInv, Accounted, Loop
<1> DEFINE wanted == Smaller(StreamChunk, Len(src) - totalRead)
<1>2. PICK got \in 0 .. wanted :
        /\ totalRead' = totalRead + got
        /\ unnoticed' = (unnoticed \/ got < wanted)
        /\ pc' = IF got > 0 THEN "top_up" ELSE "final"
  BY Zenon DEF ReadChunk
<1>3. UNCHANGED <<src, password, fileSize, salt, iv, prev, enc, out, result, disk>>
  BY DEF ReadChunk, inputVars, headerVars, chainVars, exitVars
<1>4. ~unnoticed' => ~(got < wanted)
  BY <1>2, Zenon
<1>5. Len(src) \in Nat /\ totalRead \in Nat /\ StreamChunk \in Nat \ {0}
  BY <1>1, LoopTypes
<1>6. wanted = (IF StreamChunk < Len(src) - totalRead THEN StreamChunk ELSE Len(src) - totalRead)
  BY DEF Smaller
<1>7. got \in 0 .. wanted
  OBVIOUS
<1> HIDE DEF wanted
<1>8. ASSUME pc' = "final", ~unnoticed' PROVE totalRead' = Len(src')
  <2>1. got \in Int /\ got >= 0 /\ got <= wanted /\ wanted \in Int
    BY <1>5, <1>6, <1>7
  <2>2. ~(got > 0) /\ ~(got < wanted)
    BY <1>2, <1>4, <1>8
  <2>3. wanted = 0 /\ got = 0
    BY <2>1, <2>2
  <2>4. Len(src) - totalRead = 0
    BY <1>1, <1>5, <1>6, <2>3
  <2>5. totalRead' = totalRead + 0
    BY <1>2, <2>3
  <2>6. QED
    BY <1>3, <1>5, <2>4, <2>5
<1>9. pc' \in {"top_up", "final"} /\ result' # "0"
  BY <1>1, <1>2, <1>3 DEF DiskInv
<1>10. ReadInv'
  BY <1>8, <1>9 DEF ReadInv, Sealing
<1>11. QED
  BY <1>1, <1>3, <1>9, <1>10, QuietLoop DEF Loop

LEMMA TopUpSeals == ASSUME SealInv, TopUpPending PROVE SealParts'
<1> DEFINE toCopy == Smaller(BlockSize - Len(pending), Len(chunk))
           filled == pending \o SubSeq(chunk, 1, toCopy)
<1>1. pc = "top_up" /\ pc \in Loop /\ TypeOK /\ DiskInv
  BY DEF TopUpPending, SealInv, SealParts, StreamInv, Loop
<1>2. filled \in Seq(Byte)
  BY <1>1, TopUpType
<1> HIDE DEF toCopy
<1>3. UNCHANGED <<password, fileSize, salt, iv>>
  BY DEF TopUpPending, inputVars, headerVars
<1>4. CASE pc' = "blocks" /\ UNCHANGED <<prev, enc, out, result, disk>>
  <2>1. ReadInv'
    BY <1>1, <1>4 DEF ReadInv, DiskInv, Sealing
  <2>2. QED
    BY <1>1, <1>3, <1>4, <2>1, QuietLoop DEF Loop
<1>5. CASE Len(filled) = BlockSize /\ EmitBlock(filled, "blocks")
  <2>1. pc' = "blocks" => UNCHANGED result
    BY <1>5 DEF EmitBlock, WriteOrFail, FailAfterWrites, Return, exitVars
  <2>2. pc' = "blocks" => PaddedInv' /\ ReadInv'
    BY <1>1, <2>1 DEF PaddedInv, ReadInv, DiskInv, Sealing
  <2> HIDE DEF filled
  <2>3. QED
    BY <1>1, <1>2, <1>3, <1>5, <2>2, EmitStep
<1>6. QED
  BY <1>4, <1>5 DEF TopUpPending, toCopy, chainVars, exitVars

LEMMA EncryptBlockSeals == ASSUME SealInv, EncryptBlock PROVE SealParts'
<1> DEFINE block == SubSeq(chunk, processed + 1, processed + BlockSize)
<1>1. pc = "blocks" /\ pc \in Loop /\ TypeOK /\ DiskInv
  BY DEF EncryptBlock, SealInv, SealParts, StreamInv, Loop
<1>2. block \in Seq(Byte) /\ Len(block) = BlockSize
  <2>1. /\ chunk \in Seq(Byte) /\ processed \in Nat /\ BlockSize \in Nat \ {0}
        /\ processed + BlockSize <= Len(chunk)
    BY <1>1, LoopTypes DEF EncryptBlock
  <2>2. /\ block \in Seq(Byte)
        /\ Len(block) = (processed + BlockSize) - (processed + 1) + 1
    BY <2>1, Slice
  <2>3. QED
    BY <2>1, <2>2
<1>3. UNCHANGED <<password, fileSize, salt, iv>> /\ EmitBlock(block, "blocks")
  BY DEF EncryptBlock, inputVars, headerVars
<1>4. pc' = "blocks" => UNCHANGED result
  BY <1>3 DEF EmitBlock, WriteOrFail, FailAfterWrites, Return, exitVars
<1>5. pc' = "blocks" => PaddedInv' /\ ReadInv'
  BY <1>1, <1>4 DEF PaddedInv, ReadInv, DiskInv, Sealing
<1> HIDE DEF block
<1>6. QED
  BY <1>1, <1>2, <1>3, <1>5, EmitStep

LEMMA SaveLeftoverSeals == ASSUME SealInv, SaveLeftover PROVE SealParts'
<1>1. /\ pc = "blocks" /\ pc' = "read" /\ DiskInv
      /\ UNCHANGED <<password, fileSize, salt, iv, prev, enc, out, result, disk>>
  BY DEF SaveLeftover, SealInv, SealParts, inputVars, headerVars, chainVars, exitVars
<1>2. ReadInv'
  BY <1>1 DEF ReadInv, DiskInv, Sealing
<1>3. QED
  BY <1>1, <1>2, QuietLoop DEF Loop

\* The final block makes the chain that of the padded text.
LEMMA FinalBlockSeals == ASSUME SealInv, FinalBlock PROVE SealParts'
<1> DEFINE pad == Padding(Len(pending))
<1>1. /\ pc = "final" /\ pc \in Loop /\ TypeOK /\ DiskInv /\ ReadInv /\ WholeBlocks /\ StreamInv
      /\ EmitBlock(AddPadding(pending), "mac")
      /\ UNCHANGED <<src, password, fileSize, salt, iv, totalRead, unnoticed>>
  BY DEF FinalBlock, SealInv, SealParts, StreamInv, Loop, inputVars, headerVars, streamVars
<1>2. /\ src \in Seq(Byte) /\ totalRead \in Nat /\ Len(src) \in Nat
      /\ pending \in Seq(Byte) /\ Len(pending) \in Nat /\ Len(pending) < BlockSize
      /\ prev.plain \in Seq(Byte) /\ Len(prev.plain) = BlockSize * Len(enc)
      /\ enc \in Seq(Block) /\ Len(enc) \in Nat /\ BlockSize \in Nat \ {0}
  BY <1>1, LoopTypes DEF WholeBlocks
<1>3. totalRead <= Len(src) /\ prev.plain \o pending = ReadText
  <2>1. totalRead <= Len(src) /\ prev.plain \o pending \o InFlight = ReadText
    BY <1>1 DEF StreamInv, Accounted, ReadText
  <2>2. InFlight = <<>>
    BY <1>1 DEF InFlight
  <2>3. IsSequence(prev.plain \o pending)
    BY <1>2, SequenceIs, JoinedCells
  <2>4. QED
    BY <2>1, <2>2, <2>3, EmptyFirst
<1>4. pad \in Seq(Byte) /\ Len(pad) = BlockSize - Len(pending)
  <2>1. Len(pending) \in 0 .. BlockSize
    BY <1>2
  <2>2. QED
    BY <2>1, PaddingType
<1>5. Len(ReadText) = BlockSize * Len(enc) + Len(pending)
  BY <1>2, <1>3, ConcatProperties
<1>6. /\ Len(ReadText) \div BlockSize = Len(enc)
      /\ Len(ReadText) % BlockSize = Len(pending)
  <2>1. /\ BlockSize \in Nat \ {0} /\ Len(enc) \in Nat
        /\ Len(pending) \in Nat /\ Len(pending) < BlockSize
    BY <1>2
  <2>2. /\ (BlockSize * Len(enc) + Len(pending)) \div BlockSize = Len(enc)
        /\ (BlockSize * Len(enc) + Len(pending)) % BlockSize = Len(pending)
    BY <2>1, DivMod
  <2>3. QED
    BY <1>5, <2>2
<1>a. Padded(ReadText) = ReadText \o pad
  BY <1>6 DEF Padded
<1> HIDE DEF pad
<1>7. AddPadding(pending) = pending \o pad
  BY DEF AddPadding, pad
<1>8. AddPadding(pending) \in Seq(Byte) /\ Len(AddPadding(pending)) = BlockSize
  <2>1. pending \o pad \in Seq(Byte) /\ Len(pending \o pad) = Len(pending) + Len(pad)
    BY <1>2, <1>4, ConcatProperties
  <2>2. QED
    BY <1>2, <1>4, <1>7, <2>1
<1>9. prev'.plain = Padded(ReadText) /\ Len(enc') = Len(enc) + 1
  <2>1. prev'.plain = prev.plain \o (pending \o pad) /\ Len(enc') = Len(enc) + 1
    BY <1>1, <1>7, <1>8, EmitBlockType
  <2>2. prev.plain \o (pending \o pad) = (prev.plain \o pending) \o pad
    <3>1. Joined(Joined(prev.plain, pending), pad) = Joined(prev.plain, Joined(pending, pad))
      BY <1>2, <1>4, JoinedAssociates
    <3>2. QED
      BY <3>1 DEF Joined
  <2>3. QED
    BY <1>3, <1>a, <2>1, <2>2
<1>10. ReadText' = ReadText
  BY <1>1 DEF ReadText
<1>11. PaddedInv'
  BY <1>1, <1>3, <1>6, <1>9, <1>10 DEF PaddedInv
<1>12. pc' = "mac" => ReadInv'
  BY <1>1 DEF ReadInv
<1>13. QED
  BY <1>1, <1>8, <1>11, <1>12, EmitStep

\* Without hmac_data there is no MAC, which unnoticed remembers.
LEMMA AllocMacSeals == ASSUME SealInv, AllocMac PROVE SealParts'
<1>1. /\ pc = "mac" /\ TypeOK /\ DiskInv /\ ReadInv /\ PaddedInv /\ ChainInv
      /\ out = AuthenticatedCells
      /\ UNCHANGED <<src, password, fileSize, salt, iv, totalRead, prev, enc, out, result, disk>>
  BY DEF AllocMac, SealInv, SealParts, StreamInv, WrittenInv, inputVars, headerVars,
         streamVars, chainVars, exitVars
<1>2. \/ pc' = "write_mac" /\ unnoticed' = unnoticed
      \/ pc' = "close" /\ unnoticed'
  BY DEF AllocMac
<1>3. AuthenticatedCells' = AuthenticatedCells /\ Mac' = Mac
  BY <1>1 DEF AuthenticatedCells, Mac, MacKey
<1>4. out = AuthenticatedCells \o SubSeq(Mac, 1, 0) /\ 0 \in 0 .. MacWidth
  <2>1. IsSequence(Mac) /\ Len(Mac) = MacWidth /\ MacWidth \in Nat \ {0}
    BY MacShape DEF Mac
  <2>2. 0 \in 0 .. Len(Mac) /\ 0 \in 0 .. MacWidth
    BY <2>1
  <2>3. IsSequence(SubSeq(Mac, 1, 0)) /\ Len(SubSeq(Mac, 1, 0)) = 0
    BY <2>1, <2>2, FirstCells
  <2>4. SubSeq(Mac, 1, 0) = <<>>
    BY <2>3, EmptySeq DEF IsSequence
  <2>5. IsSequence(out)
    BY <1>1, UnsealedParts DEF Unsealed
  <2>6. out \o <<>> = out
    BY <2>5, EmptyFirst
  <2>7. QED
    BY <1>1, <2>2, <2>4, <2>6
<1>5. WrittenInv'
  BY <1>1, <1>2, <1>3, <1>4 DEF WrittenInv, Loop
<1>6. ChainInv' /\ PaddedInv' /\ ReadInv' /\ DiskInv'
  BY <1>1, <1>2
     DEF ChainInv, Chained, ChainOf, EncKey, PaddedInv, ReadText, ReadInv, DiskInv, Sealing
<1>7. QED
  BY <1>5, <1>6 DEF SealParts

\* The MAC may be missing or cut, which unnoticed remembers.
LEMMA WriteMacSeals == ASSUME SealInv, WriteMac PROVE SealParts'
<1>1. /\ pc = "write_mac" /\ pc' = "close" /\ TypeOK /\ DiskInv /\ ReadInv /\ PaddedInv /\ ChainInv
      /\ out = AuthenticatedCells
      /\ UNCHANGED <<src, password, fileSize, salt, iv, totalRead, prev, enc, result, disk>>
  BY DEF WriteMac, SealInv, SealParts, StreamInv, WrittenInv, inputVars, headerVars,
         streamVars, chainVars, exitVars
<1>2. unnoticed' = (unnoticed \/ out' # out \o Mac)
  BY Zenon DEF WriteMac, Mac
<1>3. \/ out' = out \o Mac
      \/ out' = out
      \/ \E n \in 0 .. MacWidth - 1 : out' = out \o SubSeq(Mac, 1, n)
  BY Zenon DEF WriteMac, Mac
<1>4. IsSequence(Mac) /\ Len(Mac) = MacWidth /\ MacWidth \in Nat \ {0}
  BY MacShape DEF Mac
<1>5. IsSequence(out)
  BY <1>1, UnsealedParts DEF Unsealed
<1>6. AuthenticatedCells' = AuthenticatedCells /\ Mac' = Mac
  BY <1>1 DEF AuthenticatedCells, Mac, MacKey
<1>7. SubSeq(Mac, 1, MacWidth) = Mac /\ SubSeq(Mac, 1, 0) = <<>>
  <2> DEFINE S == {Mac[i] : i \in DOMAIN Mac}
  <2>1. Mac \in Seq(S)
    BY <1>4 DEF IsSequence
  <2> HIDE DEF S
  <2>2. SubSeq(Mac, 1, Len(Mac)) = Mac
    BY <2>1, SubSeqFull
  <2>3. 0 \in 0 .. Len(Mac)
    BY <1>4
  <2>4. IsSequence(SubSeq(Mac, 1, 0)) /\ Len(SubSeq(Mac, 1, 0)) = 0
    BY <1>4, <2>3, FirstCells
  <2>5. SubSeq(Mac, 1, 0) = <<>>
    BY <2>4, EmptySeq DEF IsSequence
  <2>6. QED
    BY <1>4, <2>2, <2>5
<1>8. ASSUME NEW n \in 0 .. MacWidth - 1 PROVE out \o SubSeq(Mac, 1, n) # out \o Mac
  <2>1. n \in 0 .. Len(Mac) /\ n < MacWidth
    BY <1>4
  <2>2. Len(SubSeq(Mac, 1, n)) = n /\ IsSequence(SubSeq(Mac, 1, n))
    BY <1>4, <2>1, FirstCells
  <2>3. Len(out \o SubSeq(Mac, 1, n)) = Len(out) + n /\ Len(out) \in Nat
    BY <1>5, <2>2, JoinedCells
  <2>4. Len(out \o Mac) = Len(out) + MacWidth
    BY <1>4, <1>5, JoinedCells
  <2>5. QED
    BY <1>4, <2>1, <2>3, <2>4
<1>9. \E n \in 0 .. MacWidth :
        out' = AuthenticatedCells' \o SubSeq(Mac', 1, n) /\ (n < MacWidth => unnoticed')
  <2>1. CASE out' = out \o Mac
    <3>1. MacWidth \in 0 .. MacWidth /\ ~(MacWidth < MacWidth)
      BY <1>4
    <3>2. out' = AuthenticatedCells' \o SubSeq(Mac', 1, MacWidth)
      BY <1>1, <1>6, <1>7, <2>1
    <3>3. QED
      BY <3>1, <3>2
  <2>2. CASE \E n \in 0 .. MacWidth - 1 : out' = out \o SubSeq(Mac, 1, n)
    <3>1. PICK n \in 0 .. MacWidth - 1 : out' = out \o SubSeq(Mac, 1, n)
      BY <2>2
    <3>2. out' # out \o Mac
      BY <1>8, <3>1
    <3>3. unnoticed'
      BY <1>2, <3>2, Zenon
    <3>4. n \in 0 .. MacWidth
      BY <1>4
    <3>5. QED
      BY <1>1, <1>6, <3>1, <3>3, <3>4
  <2>3. CASE out' = out
    <3>1. out' = out \o SubSeq(Mac, 1, 0)
      BY <1>5, <1>7, <2>3, EmptyFirst
    <3>2. 0 \in 0 .. MacWidth - 1
      BY <1>4
    <3>3. QED
      BY <2>2, <3>1, <3>2
  <2>4. QED
    BY <1>3, <2>1, <2>2, <2>3
<1>10. WrittenInv'
  BY <1>1, <1>9 DEF WrittenInv, Loop
<1>11. ChainInv' /\ PaddedInv'
  BY <1>1 DEF ChainInv, Chained, ChainOf, EncKey, PaddedInv, ReadText, Sealing
<1>12. ~unnoticed' => ~unnoticed
  BY <1>2, Zenon
<1>13. ReadInv' /\ DiskInv'
  BY <1>1, <1>12 DEF ReadInv, DiskInv, Sealing
<1>14. QED
  BY <1>10, <1>11, <1>13 DEF SealParts

\* Before the end, a prefix of what the stream accepted is refused by the
\* decoder unless it is the whole file.
LEMMA CutOutput ==
  ASSUME SealInv, pc \notin {"done", "crashed"}, NEW cells \in Prefixes(out)
  PROVE  Unsealed(cells) \/ (pc = "close" /\ cells = Whole)
<1>1. TypeOK /\ WrittenInv
  BY DEF SealInv, SealParts, StreamInv
<1>2. PICK k \in 0 .. Len(out) : cells = SubSeq(out, 1, k)
  BY DEF Prefixes
<1>3. CASE pc = "close"
  <2>1. PICK n \in 0 .. MacWidth : out = AuthenticatedCells \o SubSeq(Mac, 1, n)
    BY <1>1, <1>3 DEF WrittenInv
  <2>2. Unsealed(AuthenticatedCells)
    BY <1>1, UnsealedParts
  <2>3. Unsealed(cells) \/ cells = AuthenticatedCells \o Mac
    <3>1. k \in 0 .. Len(AuthenticatedCells \o SubSeq(MacCells(MacKey, AuthenticatedCells), 1, n))
      BY <2>1 DEF Mac
    <3>2. QED
      BY <1>2, <2>1, <2>2, <3>1, CutMac DEF Mac
  <2>4. Whole = AuthenticatedCells \o Mac
    BY <1>1, <1>3, SealedForm DEF SealInv, SealParts, Sealing
  <2>5. QED
    BY <1>3, <2>3, <2>4
<1>4. CASE pc # "close"
  <2>1. Unsealed(out)
    BY <1>1, <1>4, UnsealedParts DEF WrittenInv, TypeOK, Places, Loop
  <2>2. QED
    BY <1>2, <2>1, UnsealedPrefix
<1>5. QED
  BY <1>3, <1>4

LEMMA CloseSeals == ASSUME SealInv, CloseAndReturn PROVE SealParts'
<1>1. /\ pc = "close" /\ pc' = "done" /\ result' = "0" /\ TypeOK /\ ReadInv /\ PaddedInv
      /\ WrittenInv
      /\ UNCHANGED <<src, password, fileSize, salt, iv, totalRead>>
  BY DEF CloseAndReturn, Return, SealInv, SealParts, StreamInv, inputVars, headerVars,
         streamVars
<1>2. unnoticed' = (unnoticed \/ disk' # out)
  BY Zenon DEF CloseAndReturn
<1>3. disk' = out \/ disk' \in Prefixes(out)
  BY DEF CloseAndReturn
<1>4. PICK n \in 0 .. MacWidth :
        out = AuthenticatedCells \o SubSeq(Mac, 1, n) /\ (n < MacWidth => unnoticed)
  BY <1>1 DEF WrittenInv
<1>5. Unsealed(AuthenticatedCells) /\ MacWidth \in Nat
  BY <1>1, UnsealedParts, SizesAssumption
<1>6. /\ SubSeq(out, 1, Len(out)) = out /\ Len(out) \in Nat
      /\ n = MacWidth => out = AuthenticatedCells \o Mac
  <2>1. IsSequence(Mac) /\ Len(Mac) = MacWidth
    BY MacShape DEF Mac
  <2>2. IsSequence(SubSeq(Mac, 1, n))
    BY <2>1, FirstCells
  <2>3. Len(out) \in Nat
    BY <1>4, <1>5, <2>2, JoinedCells DEF Unsealed
  <2>4. 0 \in 0 .. Len(AuthenticatedCells \o SubSeq(MacCells(MacKey, AuthenticatedCells), 1, n))
    BY <1>4, <2>3 DEF Mac
  <2>5. QED
    BY <1>4, <1>5, <2>3, <2>4, CutMac DEF Mac
<1>7. disk' \in Prefixes(out)
  <2>1. Len(out) \in 0 .. Len(out)
    <3>1. Len(out) \in Nat
      BY <1>6
    <3>2. QED
      BY <3>1
  <2>2. out \in Prefixes(out)
    BY <1>6, <2>1 DEF Prefixes
  <2>3. QED
    BY <1>3, <2>2
<1>8. Unsealed(disk') \/ disk' = Whole
  BY <1>1, <1>7, CutOutput
<1>9. Whole = AuthenticatedCells \o Mac
  BY <1>1, SealedForm DEF SealInv, SealParts, Sealing
<1>10. Whole' = Whole
  BY <1>1 DEF Whole, ReadText
<1>11. ~unnoticed' => ~unnoticed /\ disk' = out
  BY <1>2, Zenon
<1>12. ~unnoticed' => disk' = Whole
  <2>1. SUFFICES ASSUME ~unnoticed' PROVE disk' = Whole
    OBVIOUS
  <2>2. n = MacWidth /\ disk' = out
    BY <1>4, <1>5, <1>11, <2>1
  <2>3. QED
    BY <1>6, <1>9, <2>2
<1>13. totalRead' <= Len(src')
  BY <1>1 DEF PaddedInv, Sealing
<1>14. DiskInv'
  BY <1>1, <1>8, <1>10, <1>12, <1>13 DEF DiskInv
<1>15. ReadInv'
  BY <1>1, <1>11 DEF ReadInv, Sealing
<1>16. WrittenInv' /\ ChainInv' /\ PaddedInv'
  BY <1>1 DEF WrittenInv, ChainInv, PaddedInv, Loop, Sealing
<1>17. QED
  BY <1>14, <1>15, <1>16 DEF SealParts

LEMMA CrashSeals == ASSUME SealInv, Crash PROVE SealParts'
<1>1. /\ pc \notin {"done", "crashed"} /\ pc' = "crashed" /\ DiskInv /\ TypeOK /\ PaddedInv
      /\ UNCHANGED <<src, password, fileSize, salt, iv, totalRead, result, unnoticed>>
      /\ disk' \in Prefixes(out) \/ disk' = disk
  BY DEF Crash, Running, SealInv, SealParts, StreamInv, inputVars, headerVars, streamVars
<1>2. Whole' = Whole
  BY <1>1 DEF Whole, ReadText
<1>3. disk' = NoFile \/ Unsealed(disk') \/ (pc = "close" /\ disk' = Whole)
  <2>1. CASE disk' = disk
    BY <1>1, <2>1, UnsealedParts DEF DiskInv
  <2>2. CASE disk' \in Prefixes(out)
    BY <1>1, <2>2, CutOutput
  <2>3. QED
    BY <1>1, <2>1, <2>2
<1>4. pc = "close" => totalRead' <= Len(src')
  BY <1>1 DEF PaddedInv, Sealing
<1>5. result' # "0"
  BY <1>1 DEF DiskInv
<1>6. DiskInv'
  BY <1>1, <1>2, <1>3, <1>4, <1>5 DEF DiskInv
<1>7. WrittenInv' /\ ChainInv' /\ PaddedInv' /\ ReadInv'
  BY <1>1, <1>5 DEF WrittenInv, ChainInv, PaddedInv, ReadInv, Loop, Sealing
<1>8. QED
  BY <1>6, <1>7 DEF SealParts

\* An input that grows is longer than it was measured; what was read stays.
LEMMA GrowSeals == ASSUME SealInv, Grow PROVE SealParts'
<1>1. /\ TypeOK /\ SizeKnown /\ HeldByPlace /\ WrittenInv /\ ChainInv /\ PaddedInv /\ DiskInv
      /\ "input" \in held
      /\ UNCHANGED <<pc, password, fileSize, salt, iv, totalRead, prev, enc, out, result, disk,
                     unnoticed>>
  BY DEF Grow, SealInv, SealParts, StreamInv, headerVars, streamVars, chainVars, exitVars
<1>2. pc \in Places \ {"open_input", "done", "crashed"}
  BY <1>1 DEF TypeOK, HeldByPlace
<1>3. PICK b \in Byte : src' = Append(src, b)
  BY DEF Grow
<1>4. src \in Seq(Byte) /\ Len(src) \in Nat /\ fileSize \in Nat /\ totalRead \in Nat
  BY <1>1, LoopTypes
<1>5. Len(src') = Len(src) + 1 /\ src' = src \o <<b>>
  BY <1>3, <1>4, AppendProperties
<1>6. pc # "measure_input" => Len(src') # fileSize'
  BY <1>1, <1>2, <1>4, <1>5 DEF SizeKnown, Places, Early, Loop, Sealing
<1>7. pc \in Sealing => totalRead' <= Len(src') /\ ReadText' = ReadText
  <2>1. SUFFICES ASSUME pc \in Sealing PROVE totalRead' <= Len(src') /\ ReadText' = ReadText
    OBVIOUS
  <2>2. totalRead <= Len(src)
    BY <1>1, <2>1 DEF PaddedInv
  <2>3. totalRead \in 0 .. Len(src) /\ IsSequence(src) /\ <<b>> \in Seq(Byte)
    BY <1>4, <2>2, SequenceIs
  <2>4. SubSeq(src \o <<b>>, 1, totalRead) = SubSeq(src, 1, totalRead)
    BY <2>3, SequenceIs, FirstOfJoined
  <2>5. QED
    BY <1>1, <1>4, <1>5, <2>2, <2>4 DEF ReadText
<1>8. PaddedInv'
  BY <1>1, <1>7 DEF PaddedInv
<1>9. DiskInv'
  BY <1>1, <1>2 DEF DiskInv
<1>10. ReadInv'
  BY <1>1, <1>6 DEF ReadInv, DiskInv, Sealing
<1>11. WrittenInv'
  <2>1. AuthenticatedCells' = AuthenticatedCells /\ Mac' = Mac /\ Header' = Header
    BY <1>1 DEF AuthenticatedCells, Mac, MacKey, Header
  <2>2. QED
    BY <1>1, <2>1 DEF WrittenInv
<1>12. ChainInv'
  BY <1>1 DEF ChainInv, Chained, ChainOf, EncKey
<1>13. QED
  BY <1>8, <1>9, <1>10, <1>11, <1>12 DEF SealParts

LEMMA SealStep == ASSUME SealInv, [Next]_vars PROVE SealInv'
<1>1. StreamInv' /\ HeldByPlace'
  BY StreamStep, HeldStep DEF SealInv
<1>2. CASE \/ OpenInput \/ MeasureInput \/ OpenOutput \/ WriteSize \/ WriteSalt \/ InitCtx
           \/ WriteIv \/ AllocEncrypted
  BY <1>1, <1>2, HeaderSteps DEF SealInv
<1>3. CASE AllocBuffer
  BY <1>1, <1>3, AllocBufferSeals DEF SealInv
<1>4. CASE ReadChunk
  BY <1>1, <1>4, ReadChunkSeals DEF SealInv
<1>5. CASE TopUpPending
  BY <1>1, <1>5, TopUpSeals DEF SealInv
<1>6. CASE EncryptBlock
  BY <1>1, <1>6, EncryptBlockSeals DEF SealInv
<1>7. CASE SaveLeftover
  BY <1>1, <1>7, SaveLeftoverSeals DEF SealInv
<1>8. CASE FinalBlock
  BY <1>1, <1>8, FinalBlockSeals DEF SealInv
<1>9. CASE AllocMac \/ WriteMac
  BY <1>1, <1>9, AllocMacSeals, WriteMacSeals DEF SealInv
<1>10. CASE CloseAndReturn
  BY <1>1, <1>10, CloseSeals DEF SealInv
<1>11. CASE Crash
  BY <1>1, <1>11, CrashSeals DEF SealInv
<1>12. CASE Grow
  BY <1>1, <1>12, GrowSeals DEF SealInv
<1>13. CASE UNCHANGED vars
  <2>1. SealParts
    BY DEF SealInv
  <2>2. UNCHANGED <<pc, src, password, fileSize, salt, iv, totalRead, prev, enc, out, result,
                    disk, unnoticed>>
    BY <1>13 DEF vars, inputVars, headerVars, streamVars, chainVars, exitVars
  <2>3. /\ AuthenticatedCells' = AuthenticatedCells /\ Mac' = Mac /\ Header' = Header
        /\ Whole' = Whole /\ ReadText' = ReadText
    BY <2>2 DEF AuthenticatedCells, Mac, MacKey, Header, Whole, ReadText
  <2>4. WrittenInv'
    BY <2>1, <2>2, <2>3 DEF SealParts, WrittenInv
  <2>5. ChainInv' /\ PaddedInv'
    BY <2>1, <2>2, <2>3 DEF SealParts, ChainInv, Chained, ChainOf, EncKey, PaddedInv
  <2>6. ReadInv' /\ DiskInv'
    BY <2>1, <2>2, <2>3 DEF SealParts, ReadInv, DiskInv
  <2>7. QED
    BY <1>1, <2>4, <2>5, <2>6 DEF SealInv, SealParts
<1>14. QED
  BY <1>2, <1>3, <1>4, <1>5, <1>6, <1>7, <1>8, <1>9, <1>10, <1>11, <1>12, <1>13
     DEF Next, Step, Ended

LEMMA SealStart == ASSUME Init PROVE SealInv
<1>1. StreamInv /\ HeldByPlace
  BY StreamInit DEF Init, HeldByPlace
<1>2. SealParts
  BY DEF Init, SealParts, WrittenInv, ChainInv, PaddedInv, ReadInv, DiskInv, Loop, Sealing
<1>3. QED
  BY <1>1, <1>2 DEF SealInv

LEMMA SealInvariant == Spec => []SealInv
BY SealStart, SealStep, PTL DEF Spec

-----------------------------------------------------------------------------
(* What the caller and the decoder may rely on *)

\* A run that returns 0 with nothing short left the sealed form of its whole input,
\* as computed without chunks, carried bytes or blocks (cipher.c:127-253).
THEOREM SuccessSeals == Spec => []SuccessIsSealed
<1>1. ASSUME SealInv PROVE SuccessIsSealed
  <2>1. SUFFICES ASSUME result = "0", ~unnoticed, Len(src) = fileSize
                 PROVE  disk = Sealed(src, fileSize, password, salt, iv)
    BY DEF SuccessIsSealed
  <2>2. disk = Whole /\ totalRead = Len(src) /\ src \in Seq(Byte)
    BY <1>1, <2>1 DEF SealInv, SealParts, StreamInv, TypeOK, ReadInv, DiskInv
  <2>3. ReadText = src
    BY <2>2, SubSeqFull DEF ReadText
  <2>4. QED
    BY <2>2, <2>3 DEF Whole
<1>2. QED
  BY <1>1, SealInvariant, PTL

\* The complete file of this run ends in the last byte of a MAC under its key.
LEMMA WholeEnd ==
  ASSUME TypeOK, totalRead <= Len(src)
  PROVE  /\ IsSequence(Whole) /\ Len(Whole) \in DOMAIN Whole
         /\ \E data : Whole[Len(Whole)] = <<"mac", [key |-> MacKey, data |-> data], MacWidth>>
<1> DEFINE blocks == Chain(ReadText, EncKey, iv)
           body   == Header \o CiphertextCells(blocks)
<1>1. Whole = body \o MacCells(MacKey, body)
  BY DEF Whole, Sealed, Header, EncKey, MacKey
<1>2. Len(ReadText) \in Nat /\ BlockSize \in Nat \ {0}
  <2>1. src \in Seq(Byte) /\ totalRead \in Nat /\ BlockSize \in Nat \ {0}
    BY LoopTypes
  <2>2. ReadText \in Seq(Byte)
    BY <2>1, Slice DEF ReadText
  <2>3. QED
    BY <2>1, <2>2, LenProperties
<1>3. Len(blocks) \in Nat
  <2>1. (Len(ReadText) \div BlockSize) + 1 \in Nat
    BY <1>2, Euclid
  <2>2. QED
    BY <2>1 DEF Chain
<1> HIDE DEF blocks
<1>4. IsSequence(body)
  BY <1>3, UnsealedParts DEF Unsealed
<1> HIDE DEF body
<1> DEFINE mac == MacCells(MacKey, body)
<1>5. /\ IsSequence(mac) /\ Len(mac) = MacWidth /\ MacWidth \in Nat \ {0}
      /\ mac[MacWidth] = <<"mac", [key |-> MacKey, data |-> body], MacWidth>>
  BY MacShape
<1>6. Whole = body \o mac
  BY <1>1
<1> HIDE DEF mac
<1>7. /\ IsSequence(Whole) /\ Len(body) \in Nat /\ Len(Whole) = Len(body) + MacWidth
      /\ \A i \in Len(body) + 1 .. Len(body) + MacWidth : Whole[i] = mac[i - Len(body)]
  BY <1>4, <1>5, <1>6, JoinedCells
<1>8. Whole[Len(Whole)] = <<"mac", [key |-> MacKey, data |-> body], MacWidth>>
  <2>1. /\ Len(body) + MacWidth \in Len(body) + 1 .. Len(body) + MacWidth
        /\ (Len(body) + MacWidth) - Len(body) = MacWidth
    BY <1>5, <1>7
  <2>2. QED
    BY <1>5, <1>7, <2>1
<1>9. Len(Whole) \in 1 .. Len(Whole)
  BY <1>5, <1>7
<1>10. QED
  BY <1>7, <1>8, <1>9, LenProperties DEF IsSequence

\* The complete file of this run is accepted under no other password.
LEMMA WholeKeepsPassword ==
  ASSUME TypeOK, totalRead <= Len(src), NEW p, Verifies(Whole, p)
  PROVE  p = password
<1>1. PICK data : Whole[Len(Whole)] = <<"mac", [key |-> MacKey, data |-> data], MacWidth>>
  BY WholeEnd
<1>2. PICK s, other :
        Whole[Len(Whole)] = <<"mac", [key |-> DerivedKey(p, s, "MAC"), data |-> other], MacWidth>>
  BY WholeEnd, VerifiedEnd
<1>3. [key |-> MacKey, data |-> data] = [key |-> DerivedKey(p, s, "MAC"), data |-> other]
  BY <1>1, <1>2
<1>4. MacKey = DerivedKey(p, s, "MAC")
  BY <1>3
<1>5. QED
  BY <1>4 DEF MacKey, DerivedKey

\* Whatever a failure, a crash or a short write leaves behind, a decoder that
\* accepts it holds the password and has the complete encryption of what was read
\* (cipher.c:216-253 against 297-371).
THEOREM OnlyWholeVerifies == Spec => []VerifiedIsWhole
<1>1. ASSUME SealInv PROVE VerifiedIsWhole
  <2>1. SUFFICES ASSUME disk # NoFile, NEW p \in Passwords, Verifies(disk, p)
                 PROVE  p = password /\ disk = Whole
    BY DEF VerifiedIsWhole, Whole, ReadText
  <2>2. TypeOK /\ DiskInv
    BY <1>1 DEF SealInv, SealParts, StreamInv
  <2>3. ~Unsealed(disk)
    BY <2>1, UnsealedRefused
  <2>4. disk = Whole /\ totalRead <= Len(src)
    BY <2>1, <2>2, <2>3, UnsealedParts DEF DiskInv
  <2>5. QED
    BY <2>1, <2>2, <2>4, WholeKeepsPassword
<1>2. QED
  BY <1>1, SealInvariant, PTL

-----------------------------------------------------------------------------
(* What is left on disk, for whoever decodes it *)

(* The input does not grow here, as Grow is no part of Step, and no read of it falls *)
(* short: either "read" is no fault, or nothing has gone unnoticed. *)

Opened == Places \ {"open_input", "measure_input", "done", "crashed"}
Salted == Opened \ {"open_output", "write_size", "write_salt"}
Ived   == Salted \ {"init_ctx", "write_iv"}

\* What the header will say, and that the loop ends at the end of the input.
FilledInv ==
  /\ pc \in {"open_input", "measure_input", "open_output"} => disk = NoFile
  /\ pc \in Opened => fileSize = Len(src)
  /\ pc \in Salted => Len(salt) = SaltWidth
  /\ pc \in Ived => Len(iv) = BlockSize
  /\ pc \in {"final"} \cup Sealing => totalRead = Len(src)

Complete ==
  /\ disk = Whole
  /\ totalRead = Len(src)
  /\ Len(salt) = SaltWidth /\ Len(iv) = BlockSize

\* The output file after the end: cut somewhere, and complete or without its MAC.
LeftFile ==
  /\ fileSize = Len(src)
  /\ Written(disk, fileSize)
  /\ Unsealed(disk) \/ Complete

LeftInv ==
  /\ FilledInv
  /\ (pc \in {"done", "crashed"} /\ disk # NoFile) => LeftFile

\* What the output stream has accepted is the beginning of a file, MAC and all.
LEMMA OutputIsWritten ==
  ASSUME TypeOK, WrittenInv,
         pc \notin {"open_input", "measure_input", "open_output", "done", "crashed"}
  PROVE  /\ Written(out, fileSize)
         /\ pc \notin {"write_size"} => SizeWidth <= Len(out)
         /\ pc # "close" => Unsealed(out)
         /\ Ordinary(salt) /\ Ordinary(iv)
<1>1. SaltWidth \in Nat /\ BlockSize \in Nat /\ SizeWidth \in Nat
  BY SizesAssumption
<1>2. Ordinary(<<>>)
  BY DEF Ordinary, IsSequence
<1>3. \A r : Ordinary(Cells("random", r, SaltWidth)) /\ Ordinary(Cells("random", r, BlockSize))
  BY <1>1, OrdinaryCells
<1>4. Ordinary(salt) /\ Ordinary(iv)
  BY <1>2, <1>3 DEF TypeOK, Salts, Ivs
<1>5. Len(enc) \in Nat
  BY LoopTypes
<1>6. Ordinary(SizeCells(fileSize)) /\ Ordinary(CiphertextCells(enc))
  BY <1>5, OrdinarySize, OrdinaryCiphertext
<1>7. Ordinary(SizeCells(fileSize) \o salt)
  BY <1>4, <1>6, OrdinaryJoined
<1>8. Ordinary(Header)
  BY <1>4, <1>7, OrdinaryJoined DEF Header
<1>9. AuthenticatedCells = Header \o CiphertextCells(enc)
  BY DEF AuthenticatedCells, Header
<1>10. Ordinary(AuthenticatedCells)
  BY <1>6, <1>8, <1>9, OrdinaryJoined
<1> DEFINE Good(cells) == Written(cells, fileSize) /\ SizeWidth <= Len(cells)
<1>11. ASSUME NEW a, NEW b, Good(a), IsSequence(b), MacsOverWritten(b) PROVE Good(a \o b)
  <2>1. Written(a \o b, fileSize)
    BY <1>11, WrittenMore
  <2>2. Len(a) \in Nat /\ Len(b) \in Nat /\ Len(a \o b) = Len(a) + Len(b)
    BY <1>11, JoinedCells DEF Written
  <2>3. QED
    BY <1>1, <1>11, <2>1, <2>2
<1>12. ASSUME NEW a, NEW b, Good(a), Ordinary(b) PROVE Good(a \o b)
  BY <1>11, <1>12, OrdinaryIsUnsealed DEF Ordinary
<1>13. Good(SizeCells(fileSize))
  BY <1>1, WrittenSize, UnsealedSize
<1> HIDE DEF Good
<1>14. Good(SizeCells(fileSize) \o salt)
  BY <1>4, <1>12, <1>13
<1>15. Good(Header)
  BY <1>4, <1>12, <1>14 DEF Header
<1>16. Good(AuthenticatedCells)
  BY <1>6, <1>9, <1>12, <1>15
<1>17. CASE pc = "write_size"
  <2>1. out = <<>>
    BY <1>17 DEF WrittenInv
  <2>2. Written(<<>>, fileSize)
    BY DEF Written, MacsOverWritten, IsSequence
  <2>3. QED
    BY <1>2, <1>4, <1>17, <2>1, <2>2, OrdinaryIsUnsealed
<1>18. CASE pc = "write_salt"
  BY <1>4, <1>6, <1>13, <1>18, OrdinaryIsUnsealed DEF WrittenInv, Good
<1>19. CASE pc \in {"init_ctx", "write_iv"}
  BY <1>4, <1>7, <1>14, <1>19, OrdinaryIsUnsealed DEF WrittenInv, Good
<1>20. CASE pc \in {"alloc_encrypted", "alloc_buffer"}
  BY <1>4, <1>8, <1>15, <1>20, OrdinaryIsUnsealed DEF WrittenInv, Good
<1>21. CASE pc \in Loop \cup {"mac", "write_mac"}
  <2>1. out = AuthenticatedCells /\ pc \notin {"write_size", "close"}
    BY <1>21 DEF WrittenInv, Loop
  <2>2. QED
    BY <1>4, <1>10, <1>16, <2>1, OrdinaryIsUnsealed DEF Good
<1>22. CASE pc = "close"
  <2>1. PICK n \in 0 .. MacWidth : out = AuthenticatedCells \o SubSeq(Mac, 1, n)
    BY <1>22 DEF WrittenInv
  <2>2. IsSequence(SubSeq(Mac, 1, n)) /\ MacsOverWritten(SubSeq(Mac, 1, n))
    BY <1>10, MacOverOrdinary DEF Mac
  <2>3. Good(out)
    BY <1>11, <1>16, <2>1, <2>2
  <2>4. QED
    BY <1>4, <1>22, <2>3 DEF Good
<1>23. QED
  BY <1>17, <1>18, <1>19, <1>20, <1>21, <1>22 DEF TypeOK, Places, Loop

\* The function goes on: nothing is left yet.
LEMMA GoingOn ==
  ASSUME pc' \notin {"done", "crashed"}, FilledInv'
  PROVE  LeftInv'
BY DEF LeftInv

\* It fails before the output exists.
LEMMA NothingLeft ==
  ASSUME LeftInv, pc \in {"open_input", "measure_input", "open_output"},
         pc' \in {"done", "crashed"}, UNCHANGED disk
  PROVE  LeftInv'
BY DEF LeftInv, FilledInv, Opened, Salted, Ived, Sealing

\* It fails or dies later: what was accepted, or the beginning of what was given,
\* is cut somewhere.
LEMMA CutLeft ==
  ASSUME LeftInv, pc \in Opened, pc' \in {"done", "crashed"},
         UNCHANGED <<src, fileSize>>,
         NEW given, Unsealed(given), Written(given, fileSize), disk' \in Prefixes(given)
  PROVE  LeftInv'
<1>1. fileSize' = Len(src')
  BY DEF LeftInv, FilledInv
<1>2. Unsealed(disk') /\ Written(disk', fileSize)
  BY UnsealedPrefix, WrittenFirst DEF Prefixes
<1>3. FilledInv'
  BY DEF FilledInv, Opened, Salted, Ived, Sealing
<1>4. QED
  BY <1>1, <1>2, <1>3 DEF LeftInv, LeftFile

\* A short fwrite of cells that are not of a MAC.
LEMMA ShortWriteLeft ==
  ASSUME SealInv, LeftInv, pc \in Opened \ {"open_output", "write_size", "close"},
         pc' = "done", UNCHANGED <<src, fileSize>>,
         NEW cells, Ordinary(cells), Len(cells) \in Nat \ {0},
         disk' \in Prefixes(out \o SubSeq(cells, 1, Len(cells) - 1))
  PROVE  LeftInv'
<1> DEFINE part == SubSeq(cells, 1, Len(cells) - 1)
<1>1. Written(out, fileSize) /\ SizeWidth <= Len(out) /\ Unsealed(out)
  BY OutputIsWritten DEF SealInv, SealParts, StreamInv, Opened
<1>2. Len(cells) - 1 \in 0 .. Len(cells)
  OBVIOUS
<1>3. Ordinary(part)
  BY <1>2, OrdinaryFirst
<1> HIDE DEF part
<1>4. Unsealed(out \o part) /\ Written(out \o part, fileSize)
  BY <1>1, <1>3, OrdinaryIsUnsealed, UnsealedJoined, WrittenMore DEF Ordinary
<1>5. QED
  BY <1>4, CutLeft DEF part

\* A failed allocation, after what was written.
LEMMA AllocationLeft ==
  ASSUME SealInv, LeftInv, pc \in Opened \ {"open_output", "close"},
         pc' = "done", UNCHANGED <<src, fileSize>>, disk' \in Prefixes(out)
  PROVE  LeftInv'
BY OutputIsWritten, CutLeft DEF SealInv, SealParts, StreamInv, Opened

\* A block is emitted or its fwrite falls short.
LEMMA EmitLeft ==
  ASSUME SealInv, LeftInv, pc \in Loop, NEW block \in Seq(Byte),
         NEW next \in {"blocks", "mac"}, EmitBlock(block, next),
         next = "mac" => totalRead = Len(src),
         UNCHANGED <<src, fileSize, salt, iv, totalRead>>
  PROVE  LeftInv'
<1>1. pc \in Ived /\ pc \in Opened \ {"open_output", "write_size", "close"}
  BY DEF Loop, Opened, Salted, Ived, Places
<1>2. CASE pc' = next
  <2>1. FilledInv'
    BY <1>1, <1>2 DEF LeftInv, FilledInv, Opened, Salted, Ived, Places, Sealing
  <2>2. QED
    BY <1>2, <2>1, GoingOn
<1>3. CASE pc' = "done" /\ disk' \in Prefixes(out \o SubSeq(BlockCells(prev'), 1,
                                                           Len(BlockCells(prev')) - 1))
  <2>1. BlockSize \in Nat \ {0}
    BY SizesAssumption
  <2>2. Ordinary(BlockCells(prev')) /\ Len(BlockCells(prev')) = BlockSize
    BY <2>1, OrdinaryCells, UnsealedCells DEF BlockCells
  <2>3. QED
    BY <1>1, <1>3, <2>1, <2>2, ShortWriteLeft
<1>4. QED
  BY <1>2, <1>3 DEF EmitBlock, WriteOrFail, FailAfterWrites, Return

LEMMA HeaderLeft ==
  ASSUME SealInv, LeftInv,
         \/ OpenInput \/ MeasureInput \/ OpenOutput \/ WriteSize \/ WriteSalt \/ InitCtx
         \/ WriteIv \/ AllocEncrypted \/ AllocBuffer
  PROVE  LeftInv'
<1> USE DEF inputVars, headerVars, streamVars, exitVars, Return, FailEarly, FailAfterWrites
<1>1. FilledInv /\ TypeOK /\ WrittenInv /\ DiskInv
  BY DEF LeftInv, SealInv, SealParts, StreamInv
<1> USE DEF FilledInv, Opened, Salted, Ived, Sealing, Places
<1>2. SizeWidth \in Nat \ {0} /\ SaltWidth \in Nat \ {0} /\ BlockSize \in Nat \ {0}
  BY SizesAssumption
<1>3. CASE OpenInput \/ MeasureInput
  <2>1. CASE /\ pc' = "measure_input" \/ (pc' = "open_output" /\ fileSize' = Len(src))
             /\ UNCHANGED <<src, disk>>
    BY <1>1, <1>3, <2>1, GoingOn DEF OpenInput, MeasureInput
  <2>2. CASE pc' = "done" /\ UNCHANGED disk
    BY <1>3, <2>2, NothingLeft DEF OpenInput, MeasureInput
  <2>3. QED
    BY <1>3, <2>1, <2>2 DEF OpenInput, MeasureInput
<1>4. CASE OpenOutput
  <2>1. CASE pc' = "write_size"
    BY <1>1, <1>4, <2>1, GoingOn DEF OpenOutput
  <2>2. CASE pc' = "done" /\ UNCHANGED disk
    BY <1>4, <2>2, NothingLeft DEF OpenOutput
  <2>3. QED
    BY <1>4, <2>1, <2>2 DEF OpenOutput
<1>5. CASE WriteSize
  <2>1. pc = "write_size" /\ UNCHANGED <<src, fileSize>> /\ out = <<>>
    BY <1>1, <1>5 DEF WriteSize, WrittenInv
  <2>2. CASE pc' = "write_salt"
    BY <1>1, <2>1, <2>2, GoingOn
  <2>3. CASE /\ pc' = "done"
             /\ disk' \in Prefixes(out \o SubSeq(SizeCells(fileSize), 1,
                                                 Len(SizeCells(fileSize)) - 1))
    <3> DEFINE part == SubSeq(SizeCells(fileSize), 1, Len(SizeCells(fileSize)) - 1)
    <3>1. Unsealed(SizeCells(fileSize)) /\ Len(SizeCells(fileSize)) = SizeWidth
      BY UnsealedSize
    <3>2. Len(SizeCells(fileSize)) - 1 \in 0 .. Len(SizeCells(fileSize))
      BY <1>2, <3>1
    <3>3. Unsealed(part) /\ Written(part, fileSize)
      BY <3>1, <3>2, UnsealedPrefix, WrittenSize, WrittenFirst
    <3> HIDE DEF part
    <3>4. out \o part = part
      BY <2>1, <3>3, EmptyFirst DEF Unsealed
    <3>5. disk' \in Prefixes(part)
      BY <2>3, <3>4 DEF part
    <3>6. pc \in Opened
      BY <2>1
    <3>7. QED
      BY <2>1, <2>3, <3>3, <3>5, <3>6, CutLeft
  <2>4. QED
    BY <1>5, <2>2, <2>3 DEF WriteSize, WriteOrFail
<1>6. CASE WriteSalt
  <2>1. pc = "write_salt" /\ UNCHANGED <<src, fileSize>>
    BY <1>6 DEF WriteSalt
  <2>2. PICK r \in Randoms : salt' = Cells("random", r, SaltWidth)
    BY <1>6 DEF WriteSalt
  <2>3. Ordinary(salt') /\ Len(salt') = SaltWidth
    BY <1>2, <2>2, OrdinaryCells, UnsealedCells
  <2>4. CASE pc' = "init_ctx"
    BY <1>1, <2>1, <2>3, <2>4, GoingOn
  <2>5. CASE pc' = "done" /\ disk' \in Prefixes(out \o SubSeq(salt', 1, Len(salt') - 1))
    BY <1>2, <2>1, <2>3, <2>5, ShortWriteLeft
  <2>6. QED
    BY <1>6, <2>4, <2>5 DEF WriteSalt, WriteOrFail
<1>7. CASE InitCtx
  BY <1>1, <1>7, GoingOn DEF InitCtx
<1>8. CASE WriteIv
  <2>1. pc = "write_iv" /\ UNCHANGED <<src, fileSize, salt>>
    BY <1>8 DEF WriteIv
  <2>2. PICK r \in Randoms : iv' = Cells("random", r, BlockSize)
    BY <1>8 DEF WriteIv
  <2>3. Ordinary(iv') /\ Len(iv') = BlockSize
    BY <1>2, <2>2, OrdinaryCells, UnsealedCells
  <2>4. CASE pc' = "alloc_encrypted"
    BY <1>1, <2>1, <2>3, <2>4, GoingOn
  <2>5. CASE pc' = "done" /\ disk' \in Prefixes(out \o SubSeq(iv', 1, Len(iv') - 1))
    BY <1>2, <2>1, <2>3, <2>5, ShortWriteLeft
  <2>6. QED
    BY <1>8, <2>4, <2>5 DEF WriteIv, WriteOrFail
<1>9. CASE AllocEncrypted
  <2>1. pc = "alloc_encrypted" /\ UNCHANGED <<src, fileSize, salt, iv>>
    BY <1>9 DEF AllocEncrypted
  <2>2. CASE pc' = "alloc_buffer"
    BY <1>1, <2>1, <2>2, GoingOn
  <2>3. CASE pc' = "done" /\ disk' \in Prefixes(out)
    BY <2>1, <2>3, AllocationLeft
  <2>4. QED
    BY <1>9, <2>2, <2>3 DEF AllocEncrypted
<1>10. CASE AllocBuffer
  <2>1. pc = "alloc_buffer" /\ UNCHANGED <<src, fileSize, salt, iv>>
    BY <1>10 DEF AllocBuffer
  <2>2. CASE pc' = "read"
    BY <1>1, <2>1, <2>2, GoingOn
  <2>3. CASE pc' = "done" /\ disk' \in Prefixes(out)
    BY <2>1, <2>3, AllocationLeft
  <2>4. QED
    BY <1>10, <2>2, <2>3 DEF AllocBuffer
<1>11. QED
  BY <1>3, <1>4, <1>5, <1>6, <1>7, <1>8, <1>9, <1>10

\* The loop ends where the input does, if no read error goes unnoticed.
LEMMA LoopLeft ==
  ASSUME SealInv, LeftInv, "read" \notin Faults \/ ~unnoticed',
         ReadChunk \/ TopUpPending \/ EncryptBlock \/ SaveLeftover \/ FinalBlock
  PROVE  LeftInv'
<1> USE DEF inputVars, headerVars, streamVars
<1>1. FilledInv /\ TypeOK /\ StreamInv
  BY DEF LeftInv, SealInv, StreamInv
<1>2. /\ chunk \in Seq(Byte) /\ Len(chunk) \in Nat /\ processed \in Nat
      /\ pending \in Seq(Byte) /\ Len(pending) \in Nat /\ Len(pending) < BlockSize
      /\ totalRead \in Nat /\ Len(src) \in Nat
      /\ BlockSize \in Nat \ {0} /\ StreamChunk \in Nat \ {0}
  BY <1>1, LoopTypes
<1>3. CASE ReadChunk
  <2>1. pc = "read" /\ UNCHANGED <<src, fileSize, salt, iv, disk>>
    BY <1>3 DEF ReadChunk, exitVars
  <2>2. PICK got \in 0 .. Smaller(StreamChunk, Len(src) - totalRead) :
          /\ "read" \notin Faults => got = Smaller(StreamChunk, Len(src) - totalRead)
          /\ totalRead' = totalRead + got
          /\ unnoticed' = (unnoticed \/ got < Smaller(StreamChunk, Len(src) - totalRead))
          /\ pc' = IF got > 0 THEN "top_up" ELSE "final"
    BY <1>3 DEF ReadChunk
  <2>3. totalRead <= Len(src)
    BY <1>1, <2>1 DEF StreamInv, Accounted, Loop
  <2>4. Smaller(StreamChunk, Len(src) - totalRead) \in Nat
    BY <1>2, <2>3 DEF Smaller
  <2>5. got = Smaller(StreamChunk, Len(src) - totalRead)
    <3>1. CASE "read" \notin Faults
      BY <2>2, <3>1
    <3>2. CASE ~unnoticed'
      <4>1. ~(got < Smaller(StreamChunk, Len(src) - totalRead))
        BY <2>2, <3>2
      <4>2. QED
        BY <2>4, <4>1
    <3>3. QED
      BY <3>1, <3>2
  <2>6. pc' = "final" => totalRead' = Len(src)
    BY <1>2, <2>2, <2>3, <2>5 DEF Smaller
  <2>7. pc' \in {"top_up", "final"}
    BY <2>2
  <2>8. QED
    BY <1>1, <2>1, <2>6, <2>7, GoingOn DEF FilledInv, Opened, Salted, Ived, Places, Sealing
<1>4. CASE TopUpPending
  <2> DEFINE toCopy == Smaller(BlockSize - Len(pending), Len(chunk))
             filled == pending \o SubSeq(chunk, 1, toCopy)
  <2>1. pc = "top_up" /\ UNCHANGED <<src, fileSize, salt, iv, totalRead>>
    BY <1>4 DEF TopUpPending
  <2>2. CASE pc' = "blocks"
    BY <1>1, <2>1, <2>2, GoingOn DEF FilledInv, Opened, Salted, Ived, Places, Sealing
  <2>3. CASE EmitBlock(filled, "blocks")
    <3>1. toCopy \in 0 .. Len(chunk)
      BY <1>2 DEF Smaller
    <3>2. SubSeq(chunk, 1, toCopy) \in Seq(Byte)
      BY <1>2, <3>1, Slice
    <3>3. filled \in Seq(Byte)
      BY <1>2, <3>2, ConcatProperties
    <3>4. QED
      BY <2>1, <2>3, <3>3, EmitLeft DEF Loop
  <2>4. QED
    BY <1>4, <2>2, <2>3 DEF TopUpPending
<1>5. CASE EncryptBlock
  <2>1. pc = "blocks" /\ UNCHANGED <<src, fileSize, salt, iv, totalRead>>
        /\ processed + BlockSize <= Len(chunk)
        /\ EmitBlock(SubSeq(chunk, processed + 1, processed + BlockSize), "blocks")
    BY <1>5 DEF EncryptBlock
  <2>2. SubSeq(chunk, processed + 1, processed + BlockSize) \in Seq(Byte)
    BY <1>2, <2>1, Slice
  <2>3. QED
    BY <2>1, <2>2, EmitLeft DEF Loop
<1>6. CASE SaveLeftover
  <2>1. pc = "blocks" /\ pc' = "read" /\ UNCHANGED <<src, fileSize, salt, iv>>
    BY <1>6 DEF SaveLeftover
  <2>2. QED
    BY <1>1, <2>1, GoingOn DEF FilledInv, Opened, Salted, Ived, Places, Sealing
<1>7. CASE FinalBlock
  <2>1. pc = "final" /\ UNCHANGED <<src, fileSize, salt, iv, totalRead>>
        /\ EmitBlock(AddPadding(pending), "mac") /\ totalRead = Len(src)
    BY <1>1, <1>7 DEF FinalBlock, FilledInv
  <2>2. AddPadding(pending) \in Seq(Byte)
    <3>1. Len(pending) \in 0 .. BlockSize
      BY <1>2
    <3>2. Padding(Len(pending)) \in Seq(Byte)
      BY <3>1, PaddingType
    <3>3. QED
      BY <1>2, <3>2, ConcatProperties DEF AddPadding
  <2>3. QED
    BY <2>1, <2>2, EmitLeft DEF Loop
<1>8. QED
  BY <1>3, <1>4, <1>5, <1>6, <1>7

\* The whole file is only ever written by a stream that is being closed.
LEMMA EndLeft ==
  ASSUME SealInv, LeftInv, pc \in Opened \ {"open_output"}, pc' \in {"done", "crashed"},
         UNCHANGED <<src, password, fileSize, salt, iv, totalRead>>, disk' \in Prefixes(out)
  PROVE  LeftInv'
<1>1. TypeOK /\ WrittenInv /\ FilledInv
  BY DEF LeftInv, SealInv, SealParts, StreamInv
<1>2. pc \notin {"open_input", "measure_input", "open_output", "done", "crashed"}
  BY DEF Opened
<1>3. Written(disk', fileSize)
  BY <1>1, <1>2, OutputIsWritten, WrittenFirst DEF Prefixes
<1>4. Unsealed(disk') \/ (pc = "close" /\ disk' = Whole)
  BY <1>2, CutOutput
<1>5. Whole' = Whole
  BY DEF Whole, ReadText
<1>6. Unsealed(disk') \/ Complete'
  BY <1>1, <1>4, <1>5 DEF Complete, FilledInv, Ived, Salted, Opened, Places, Sealing
<1>7. fileSize' = Len(src')
  BY <1>1 DEF FilledInv
<1>8. FilledInv'
  BY DEF FilledInv, Opened, Salted, Ived, Sealing
<1>9. QED
  BY <1>3, <1>6, <1>7, <1>8 DEF LeftInv, LeftFile

LEMMA SealingLeft ==
  ASSUME SealInv, LeftInv, AllocMac \/ WriteMac \/ CloseAndReturn
  PROVE  LeftInv'
<1> USE DEF inputVars, headerVars, streamVars
<1>1. FilledInv /\ HeldByPlace /\ DiskInv
  BY DEF LeftInv, SealInv, SealParts
<1>2. CASE AllocMac \/ WriteMac
  BY <1>1, <1>2, GoingOn
     DEF AllocMac, WriteMac, FilledInv, Opened, Salted, Ived, Places, Sealing
<1>3. CASE CloseAndReturn
  <2>1. pc = "close" /\ pc' = "done" /\ UNCHANGED <<src, password, fileSize, salt, iv, totalRead>>
        /\ (disk' = out \/ disk' \in Prefixes(out))
    BY <1>3 DEF CloseAndReturn, Return
  <2>2. out \in Prefixes(out)
    <3>1. IsSequence(out)
      BY <2>1, OutputIsWritten DEF SealInv, SealParts, StreamInv, Written
    <3>2. Len(out) \in Nat /\ SubSeq(out, 1, Len(out)) = out
      BY <3>1, LenProperties, SubSeqFull DEF IsSequence
    <3>3. Len(out) \in 0 .. Len(out)
      BY <3>2
    <3>4. QED
      BY <3>2, <3>3 DEF Prefixes
  <2>3. pc \in Opened \ {"open_output"}
    BY <2>1 DEF Opened, Places
  <2>4. QED
    BY <2>1, <2>2, <2>3, EndLeft
<1>4. QED
  BY <1>2, <1>3

LEMMA CrashLeft == ASSUME SealInv, LeftInv, Crash PROVE LeftInv'
<1>1. HeldByPlace /\ TypeOK
  BY DEF SealInv, StreamInv
<1>2. /\ pc \notin {"done", "crashed"} /\ pc' = "crashed"
      /\ IF "output" \in held THEN disk' \in Prefixes(out) ELSE UNCHANGED disk
      /\ UNCHANGED <<src, password, fileSize, salt, iv, totalRead>>
  BY DEF Crash, Running, inputVars, headerVars, streamVars
<1>3. CASE pc \in {"open_input", "measure_input", "open_output"}
  BY <1>1, <1>2, <1>3, NothingLeft DEF HeldByPlace
<1>4. CASE pc \notin {"open_input", "measure_input", "open_output"}
  <2>1. "output" \in held /\ pc \in Opened \ {"open_output"}
    BY <1>1, <1>2, <1>4 DEF HeldByPlace, TypeOK, Places, Opened, Resources
  <2>2. QED
    BY <1>2, <2>1, EndLeft
<1>5. QED
  BY <1>3, <1>4

\* Every step of the function and every crash keeps what is left accounted for.
LEMMA LeftStep ==
  ASSUME SealInv, LeftInv, "read" \notin Faults \/ ~unnoticed', Step \/ Crash
  PROVE  LeftInv'
BY HeaderLeft, LoopLeft, SealingLeft, CrashLeft DEF Step

\* Nor does any change the input, or forget what has gone unnoticed.
LEMMA InputStays ==
  ASSUME Step \/ Crash
  PROVE  UNCHANGED <<src, password>> /\ (unnoticed => unnoticed')
<1>1. UNCHANGED <<src, password>>
  BY DEF Step, OpenInput, MeasureInput, OpenOutput, WriteSize, WriteSalt, InitCtx, WriteIv,
         AllocEncrypted, AllocBuffer, ReadChunk, TopUpPending, EncryptBlock, SaveLeftover,
         FinalBlock, AllocMac, WriteMac, CloseAndReturn, Crash, inputVars
<1>2. unnoticed => unnoticed'
  BY DEF Step, OpenInput, MeasureInput, OpenOutput, WriteSize, WriteSalt, InitCtx, WriteIv,
         AllocEncrypted, AllocBuffer, ReadChunk, TopUpPending, EncryptBlock, SaveLeftover,
         FinalBlock, AllocMac, WriteMac, CloseAndReturn, Crash, inputVars
<1>3. QED
  BY <1>1, <1>2

\* Nothing changes while nothing moves.
LEMMA LeftStutter == ASSUME LeftInv, UNCHANGED vars PROVE LeftInv'
<1>1. UNCHANGED <<pc, src, password, fileSize, salt, iv, totalRead, disk>>
  BY DEF vars, inputVars, headerVars, streamVars, exitVars
<1>2. EncKey' = EncKey /\ MacKey' = MacKey
  BY <1>1 DEF EncKey, MacKey
<1>3. Whole' = Whole
  BY <1>1, <1>2 DEF Whole, ReadText
<1>4. QED
  BY <1>1, <1>3 DEF LeftInv, FilledInv, LeftFile, Complete

LEMMA LeftStart == ASSUME Init PROVE LeftInv
BY DEF Init, LeftInv, FilledInv, Opened, Salted, Ived, Sealing

\* A complete file is the sealed form of the whole input under the password.
LEMMA CompleteSeals ==
  ASSUME TypeOK, LeftFile, Complete, SizeOf(SizeCells(Len(src))) = Len(src)
  PROVE  SealsText(disk, password, src)
<1>1. src \in Seq(Byte) /\ Len(src) \in Nat
  BY LoopTypes
<1>2. ReadText = src
  BY <1>1, SubSeqFull DEF ReadText, Complete
<1>3. disk = Sealed(src, Len(src), password, salt, iv)
  BY <1>2 DEF Complete, Whole, LeftFile
<1>4. IsSequence(salt) /\ IsSequence(iv)
  BY UnsealedParts DEF Unsealed
<1>5. Len(salt) = SaltWidth /\ Len(iv) = BlockSize
  BY DEF Complete
<1>6. QED
  BY <1>1, <1>3, <1>4, <1>5, SealedIsSealed

\* What is on disk after the end is a file, and a decoder that accepts it has the
\* password, and finds the whole input in it.
LEMMA LeftIsLegitimate ==
  ASSUME SealInv, LeftInv, pc \in {"done", "crashed"}, disk # NoFile,
         SizeOf(SizeCells(Len(src))) = Len(src)
  PROVE  /\ IsFile(disk)
         /\ \A p : Verifies(disk, p) => p = password /\ SealsText(disk, p, src)
<1>1. LeftFile /\ TypeOK
  BY DEF LeftInv, SealInv, StreamInv
<1>2. src \in Seq(Byte) /\ Len(src) \in Nat
  BY <1>1, LoopTypes
<1>3. IsFile(disk)
  BY <1>1, <1>2, WrittenIsFile DEF LeftFile
<1>4. ASSUME NEW p, Verifies(disk, p)
      PROVE  p = password /\ SealsText(disk, p, src)
  <2>1. Complete
    BY <1>1, <1>4, UnsealedRefused DEF LeftFile
  <2>2. p = password
    BY <1>1, <1>2, <1>4, <2>1, WholeKeepsPassword DEF Complete
  <2>3. SealsText(disk, password, src)
    BY <1>1, <2>1, CompleteSeals
  <2>4. QED
    BY <2>2, <2>3
<1>5. QED
  BY <1>3, <1>4

\* Once 0 has been returned, with nothing unnoticed, a decoder that has the password
\* accepts what is on disk.
LEMMA SuccessVerifies ==
  ASSUME SealInv, LeftInv, result = "0", ~unnoticed, disk # NoFile,
         SizeOf(SizeCells(Len(src))) = Len(src)
  PROVE  Verifies(disk, password)
<1>1. TypeOK /\ ReadInv /\ DiskInv
  BY DEF SealInv, SealParts, StreamInv
<1>2. pc = "done" /\ disk = Whole
  BY <1>1 DEF DiskInv
<1>3. LeftFile
  BY <1>2 DEF LeftInv
<1>4. totalRead = Len(src) /\ totalRead <= Len(src)
  BY <1>1, <1>3, LoopTypes DEF ReadInv, LeftFile
<1>5. Complete
  <2>1. ~Unsealed(Whole)
    <3>1. PICK data : Whole[Len(Whole)] = <<"mac", [key |-> MacKey, data |-> data], MacWidth>>
      BY <1>1, <1>4, WholeEnd
    <3>2. Whole[Len(Whole)][1] = "mac" /\ Whole[Len(Whole)][3] = MacWidth
      BY <3>1
    <3>3. QED
      BY <1>1, <1>4, <3>2, WholeEnd DEF Unsealed
  <2>2. QED
    BY <1>2, <1>3, <2>1 DEF LeftFile
<1>6. IsSealed(disk, password)
  BY <1>1, <1>3, <1>5, CompleteSeals DEF SealsText
<1>7. IsSequence(disk) /\ HeaderWidth <= Len(disk)
  <2>1. IsSequence(disk)
    BY <1>1, <1>2, <1>4, WholeEnd
  <2>2. IsSequence(salt) /\ IsSequence(iv) /\ Len(salt) = SaltWidth /\ Len(iv) = BlockSize
    BY <1>1, <1>5, UnsealedParts DEF Unsealed, Complete
  <2>3. ReadText \in Seq(Byte)
    <3>1. src \in Seq(Byte)
      BY <1>1, LoopTypes
    <3>2. ReadText = src
      BY <1>4, <3>1, SubSeqFull DEF ReadText
    <3>3. QED
      BY <3>1, <3>2
  <2> DEFINE total == BlockSize * ((Len(ReadText) \div BlockSize) + 1)
  <2>4. CiphertextLies(Whole, Chain(ReadText, DerivedKey(password, salt, "ENC"), iv), total)
    BY <2>2, <2>3, SealedLayout DEF Whole
  <2>5. Len(disk) = (HeaderWidth + total) + MacWidth
    BY <1>2, <2>4 DEF CiphertextLies
  <2>6. total \in Nat
    <3>1. BlockSize \in Nat \ {0} /\ Len(ReadText) \in Nat
      BY <2>3, SizesAssumption, LenProperties
    <3>2. (Len(ReadText) \div BlockSize) + 1 \in Nat
      BY <3>1, Euclid
    <3>3. QED
      BY <3>1, <3>2
  <2> HIDE DEF total
  <2>7. HeaderWidth \in Nat /\ MacWidth \in Nat
    BY SizesAssumption DEF HeaderWidth
  <2>8. QED
    BY <2>1, <2>5, <2>6, <2>7
<1>8. QED
  BY <1>6, <1>7, SealedVerifies
-----------------------------------------------------------------------------
(* The way to the end *)

Ahead ==
  [open_input |-> 16, measure_input |-> 15, open_output |-> 14, write_size |-> 13,
   write_salt |-> 12, init_ctx |-> 11, write_iv |-> 10, alloc_encrypted |-> 9,
   alloc_buffer |-> 8, top_up |-> 7, blocks |-> 6, read |-> 5, final |-> 4, mac |-> 3,
   write_mac |-> 2, close |-> 1]

\* The input still to be read, at four steps for each byte, and what is left of the
\* chunk.
Unfinished ==
  IF pc \in Early \cup {"read"} THEN 4 * (Len(src) - totalRead)
  ELSE IF pc \in {"top_up", "blocks"}
       THEN 4 * (Len(src) - totalRead) + (Len(chunk) - processed) ELSE 0

\* A bound on the steps the function has before it, as long as nobody appends to
\* the input.
StepsLeft == IF Running THEN Unfinished + Ahead[pc] ELSE 0

Descends == [][Step \/ Crash => StepsLeft' < StepsLeft]_vars

LEMMA StepsLeftParts ==
  ASSUME StreamInv
  PROVE  /\ Unfinished \in Nat
         /\ Running => Ahead[pc] \in 1 .. 16
         /\ StepsLeft \in Nat /\ (Running => StepsLeft > 0)
<1>1. /\ Len(src) \in Nat /\ Len(chunk) \in Nat /\ totalRead \in Nat /\ processed \in Nat
      /\ pc \in Places
  BY LoopTypes DEF StreamInv, TypeOK
<1>2. pc \in Early \cup {"read", "top_up", "blocks"} => totalRead <= Len(src)
  BY <1>1 DEF StreamInv, Untouched, Accounted, Loop
<1>3. pc \in {"top_up", "blocks"} => processed <= Len(chunk)
  BY <1>1 DEF StreamInv, RoomToCarry
<1>4. Unfinished \in Nat
  BY <1>1, <1>2, <1>3 DEF Unfinished
<1>5. Running => Ahead[pc] \in 1 .. 16
  BY <1>1 DEF Places, Running, Ahead
<1>6. QED
  BY <1>4, <1>5 DEF StepsLeft

\* A return or a crash leaves nothing to do.
LEMMA EndDescends == ASSUME StreamInv, Running, ~Running' PROVE StepsLeft' < StepsLeft
BY StepsLeftParts DEF StepsLeft

LEMMA PlaceDescends ==
  ASSUME StreamInv, Running, Running', Unfinished' \in Nat, Ahead[pc'] \in Nat,
         Unfinished' + Ahead[pc'] < Unfinished + Ahead[pc]
  PROVE  StepsLeft' < StepsLeft
BY StepsLeftParts DEF StepsLeft

\* The steps before the loop read nothing.
LEMMA EarlyDescends ==
  ASSUME StreamInv, pc \in Early, Step
  PROVE  StepsLeft' < StepsLeft
<1>1. CASE ~Running'
  BY <1>1, EndDescends DEF Early, Running
<1>2. CASE Running'
  <2>1. UNCHANGED <<src, totalRead>> /\ pc' \in (Early \ {"open_input"}) \cup {"read"}
        /\ Ahead[pc'] \in Nat /\ Ahead[pc'] < Ahead[pc]
    BY <1>2
       DEF Early, Running, Ahead, Step, OpenInput, MeasureInput, OpenOutput, WriteSize,
           WriteSalt, InitCtx, WriteIv, AllocEncrypted, AllocBuffer, ReadChunk, TopUpPending,
           EncryptBlock, SaveLeftover, FinalBlock, AllocMac, WriteMac, CloseAndReturn,
           inputVars, streamVars, exitVars, FailEarly, FailAfterWrites, WriteOrFail, Return
  <2>2. Unfinished' = Unfinished
    BY <2>1 DEF Unfinished, Early
  <2>3. Running /\ Unfinished \in Nat /\ Ahead[pc] \in Nat
    BY StepsLeftParts DEF Early, Running
  <2>4. QED
    BY <1>2, <2>1, <2>2, <2>3, PlaceDescends
<1>3. QED
  BY <1>1, <1>2

LEMMA ReadDescends == ASSUME StreamInv, ReadChunk PROVE StepsLeft' < StepsLeft
<1>1. /\ Len(src) \in Nat /\ totalRead \in Nat /\ totalRead <= Len(src) /\ src \in Seq(Byte)
      /\ StreamChunk \in Nat \ {0} /\ pc = "read" /\ Running
  BY LoopTypes DEF ReadChunk, StreamInv, Accounted, Loop, Running
<1>2. PICK got \in 0 .. Smaller(StreamChunk, Len(src) - totalRead) :
        /\ chunk' = SubSeq(src, totalRead + 1, totalRead + got)
        /\ totalRead' = totalRead + got /\ processed' = 0
        /\ pc' = IF got > 0 THEN "top_up" ELSE "final"
  BY DEF ReadChunk
<1>3. got \in Nat /\ got <= Len(src) - totalRead /\ src' = src
  BY <1>1, <1>2 DEF Smaller, ReadChunk, inputVars
<1>4. Len(chunk') = got
  BY <1>1, <1>2, <1>3, Slice
<1>5. Unfinished = 4 * (Len(src) - totalRead) /\ Ahead[pc] = 5
  BY <1>1 DEF Unfinished, Ahead
<1>6. CASE got > 0
  <2>1. pc' = "top_up" /\ Running' /\ Ahead[pc'] = 7
    BY <1>2, <1>6 DEF Running, Ahead
  <2>2. Unfinished' = 4 * (Len(src) - (totalRead + got)) + (got - 0)
    BY <1>2, <1>3, <1>4, <2>1 DEF Unfinished, Early
  <2>3. QED
    BY <1>1, <1>3, <1>5, <1>6, <2>1, <2>2, PlaceDescends
<1>7. CASE ~(got > 0)
  <2>1. pc' = "final" /\ Running' /\ Ahead[pc'] = 4 /\ Unfinished' = 0
    BY <1>2, <1>7 DEF Running, Ahead, Unfinished, Early
  <2>2. QED
    BY <1>1, <1>5, <2>1, PlaceDescends
<1>8. QED
  BY <1>6, <1>7

LEMMA ChunkDescends ==
  ASSUME StreamInv, TopUpPending \/ EncryptBlock \/ SaveLeftover
  PROVE  StepsLeft' < StepsLeft
<1>1. /\ Len(src) \in Nat /\ totalRead \in Nat /\ totalRead <= Len(src)
      /\ Len(chunk) \in Nat /\ processed \in Nat /\ processed <= Len(chunk)
      /\ BlockSize \in Nat \ {0} /\ Len(pending) \in Nat /\ Len(pending) < BlockSize
      /\ UNCHANGED <<src, totalRead, chunk>> /\ Running /\ pc \in {"top_up", "blocks"}
  BY LoopTypes
     DEF TopUpPending, EncryptBlock, SaveLeftover, StreamInv, Accounted, RoomToCarry, Loop,
         Running, inputVars
<1>2. Unfinished = 4 * (Len(src) - totalRead) + (Len(chunk) - processed)
  BY <1>1 DEF Unfinished, Early
<1>3. CASE ~Running'
  BY <1>1, <1>3, EndDescends
<1>4. CASE TopUpPending /\ Running'
  <2>1. pc = "top_up" /\ pc' = "blocks" /\ processed = 0
    BY <1>4 DEF TopUpPending, EmitBlock, WriteOrFail, FailAfterWrites, Return, Running,
                StreamInv, RoomToCarry
  <2>2. processed' \in Nat /\ processed' <= Len(chunk)
    <3>1. \/ processed' = processed
          \/ processed' = Smaller(BlockSize - Len(pending), Len(chunk))
      BY <1>4 DEF TopUpPending
    <3>2. QED
      BY <1>1, <3>1 DEF Smaller
  <2>3. Unfinished' = 4 * (Len(src) - totalRead) + (Len(chunk) - processed')
    BY <1>1, <2>1 DEF Unfinished, Early
  <2>4. Ahead[pc] = 7 /\ Ahead[pc'] = 6
    BY <2>1 DEF Ahead
  <2>5. QED
    BY <1>1, <1>2, <1>4, <2>1, <2>2, <2>3, <2>4, PlaceDescends
<1>5. CASE EncryptBlock /\ Running'
  <2>1. pc = "blocks" /\ pc' = "blocks" /\ processed' = processed + BlockSize
        /\ processed + BlockSize <= Len(chunk)
    BY <1>5 DEF EncryptBlock, EmitBlock, WriteOrFail, FailAfterWrites, Return, Running
  <2>2. Unfinished' = 4 * (Len(src) - totalRead) + (Len(chunk) - (processed + BlockSize))
    BY <1>1, <2>1 DEF Unfinished, Early
  <2>3. Ahead[pc] = 6 /\ Ahead[pc'] = 6
    BY <2>1 DEF Ahead
  <2>4. QED
    BY <1>1, <1>2, <1>5, <2>1, <2>2, <2>3, PlaceDescends
<1>6. CASE SaveLeftover /\ Running'
  <2>1. pc = "blocks" /\ pc' = "read"
    BY <1>6 DEF SaveLeftover
  <2>2. Unfinished' = 4 * (Len(src) - totalRead)
    BY <1>1, <2>1 DEF Unfinished, Early
  <2>3. Ahead[pc] = 6 /\ Ahead[pc'] = 5
    BY <2>1 DEF Ahead
  <2>4. QED
    BY <1>1, <1>2, <1>6, <2>2, <2>3, PlaceDescends
<1>7. QED
  BY <1>3, <1>4, <1>5, <1>6

LEMMA SealingDescends ==
  ASSUME StreamInv, FinalBlock \/ AllocMac \/ WriteMac \/ CloseAndReturn
  PROVE  StepsLeft' < StepsLeft
<1>1. Running /\ pc \in {"final", "mac", "write_mac", "close"}
  BY DEF FinalBlock, AllocMac, WriteMac, CloseAndReturn, Running
<1>2. CASE ~Running'
  BY <1>1, <1>2, EndDescends
<1>3. CASE Running'
  <2>1. \/ pc = "final" /\ pc' = "mac"
        \/ pc = "mac" /\ pc' \in {"write_mac", "close"}
        \/ pc = "write_mac" /\ pc' = "close"
    BY <1>3 DEF FinalBlock, AllocMac, WriteMac, CloseAndReturn, EmitBlock, WriteOrFail, FailAfterWrites,
                Return, Running
  <2>2. Unfinished = 0 /\ Unfinished' = 0
    BY <2>1 DEF Unfinished, Early
  <2>3. Ahead[pc'] \in Nat /\ Ahead[pc] \in Nat /\ Ahead[pc'] < Ahead[pc]
    BY <2>1 DEF Ahead
  <2>4. QED
    BY <1>1, <1>3, <2>2, <2>3, PlaceDescends
<1>4. QED
  BY <1>2, <1>3

LEMMA StepDescends == ASSUME StreamInv, Step \/ Crash PROVE StepsLeft' < StepsLeft
<1>1. CASE OpenInput \/ MeasureInput \/ OpenOutput \/ WriteSize \/ WriteSalt \/ InitCtx
           \/ WriteIv \/ AllocEncrypted \/ AllocBuffer
  <2>1. pc \in Early /\ Step
    BY <1>1 DEF OpenInput, MeasureInput, OpenOutput, WriteSize, WriteSalt, InitCtx, WriteIv,
                AllocEncrypted, AllocBuffer, Early, Step
  <2>2. QED
    BY <2>1, EarlyDescends
<1>2. CASE Crash
  BY <1>2, EndDescends DEF Crash, Running
<1>3. QED
  BY <1>1, <1>2, ReadDescends, ChunkDescends, SealingDescends DEF Step

\* The encryption cannot go on for ever by itself: each of its steps, each turn of
\* the streaming loop included, lowers a number that never goes below zero and that
\* only another process raises, by appending to the input (cipher.c:134-192).
THEOREM EncryptionDescends == Spec => [](StepsLeft \in Nat) /\ Descends
<1>1. SealInv => StreamInv
  BY DEF SealInv
<1>2. SealInv => StepsLeft \in Nat
  BY <1>1, StepsLeftParts
<1>3. SealInv /\ [Next]_vars => [Step \/ Crash => StepsLeft' < StepsLeft]_vars
  BY <1>1, StepDescends
<1>4. QED
  BY <1>2, <1>3, SealInvariant, PTL DEF Spec, Descends
=============================================================================
