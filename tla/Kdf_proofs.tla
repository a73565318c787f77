------------------------------ MODULE Kdf_proofs ------------------------------
(***************************************************************************)
(* For every block size, length field, compression function and set of     *)
(* messages: a HASH_CTX gives the digest of its message however the        *)
(* message was cut and whatever an earlier use left in the buffer,         *)
(* hmac_compute gives the HMAC of RFC 2104 also in the place of its        *)
(* message, and both keys of a context are the ones PBKDF2 defines.        *)
(*                                                                         *)
(* KdfInv is the invariant of the context and of hmac_compute: where each  *)
(* byte of the message is, and what the stages of the HMAC have in hand.   *)
(* DeriveInv adds what the loops of kdf_derive have in block and derived.  *)
(***************************************************************************)
EXTENDS Kdf, SequenceTheorems, WellFoundedInduction, TLAPS

Bytes == 0 .. 255

BlockType == [1 .. HashBlock -> Bytes]

-----------------------------------------------------------------------------
(* Division and sequences *)

LEMMA Sizes ==
  /\ HashBlock \in Nat \ {0}
  /\ LengthWidth \in Nat \ {0} /\ LengthWidth < HashBlock
  /\ DigestSize \in Nat \ {0} /\ DigestSize <= HashBlock
  /\ \A piece \in Pieces : piece \in Seq(Bytes)
BY HmacAssumption DEF Ctx!HashAssumption, Ctx!Byte, Bytes

LEMMA TimesMonotone ==
  ASSUME NEW b \in Nat \ {0}, NEW x \in Nat, NEW y \in Nat
  PROVE  /\ b * x \in Nat /\ b * y \in Nat /\ b * (x + 1) = b * x + b
         /\ x <= y => b * x <= b * y
         /\ b * x < b * y => x < y
<1>1. b * x \in Nat /\ b * y \in Nat /\ b * (x + 1) = b * x + b
  OBVIOUS
<1>2. ASSUME NEW u \in Nat, NEW v \in Nat, u <= v PROVE b * u <= b * v
  <2>1. v - u \in Nat /\ b * (v - u) \in Nat /\ b * u \in Nat
    BY <1>2
  <2>2. b * v = b * u + b * (v - u)
    BY <1>2
  <2>3. QED
    BY <2>1, <2>2
<1>3. x <= y => b * x <= b * y
  BY <1>2
<1>4. ~(x < y) => b * y <= b * x
  BY <1>2
<1>5. QED
  BY <1>1, <1>3, <1>4

LEMMA Quotient ==
  ASSUME NEW b \in Nat \ {0}, NEW x \in Nat, NEW q \in Nat, NEW r \in Nat, r < b, x = b * q + r
  PROVE  x \div b = q /\ x % b = r
<1> DEFINE d == x \div b
           m == x % b
<1>1. d \in Int /\ m \in 0 .. b - 1 /\ x = b * d + m
  OBVIOUS
<1>2. d \in Nat
  OBVIOUS
<1> HIDE DEF d, m
<1>3. b * q \in Nat /\ b * d \in Nat /\ b * (q + 1) = b * q + b /\ b * (d + 1) = b * d + b
  BY <1>2, TimesMonotone
<1>4. b * q < b * (d + 1) /\ b * d < b * (q + 1)
  BY <1>1, <1>3
<1>5. q < d + 1 /\ d < q + 1
  <2>1. d + 1 \in Nat /\ q + 1 \in Nat
    BY <1>2
  <2>2. QED
    BY <1>2, <1>4, <2>1, TimesMonotone
<1>6. d = q
  BY <1>2, <1>5
<1>7. m = r
  BY <1>1, <1>3, <1>6
<1>8. QED
  BY <1>6, <1>7 DEF d, m

LEMMA Slices ==
  ASSUME NEW S, NEW s \in Seq(S), NEW a \in Nat, NEW b \in Nat, a <= b, b <= Len(s)
  PROVE  /\ SubSeq(s, a + 1, b) \in Seq(S) /\ Len(SubSeq(s, a + 1, b)) = b - a
         /\ \A x \in 1 .. b - a : SubSeq(s, a + 1, b)[x] = s[a + x]
<1>1. \A x \in a + 1 .. b : s[x] \in S
  BY ElementOfSeq, LenProperties
<1>2. QED
  BY <1>1, SubSeqProperties

LEMMA Tuples ==
  ASSUME NEW S, NEW n \in Nat, NEW f \in [1 .. n -> S]
  PROVE  f \in Seq(S) /\ Len(f) = n
OBVIOUS

\* u is s and then t, position by position.
IsJoin(u, s, t) ==
  /\ Len(s) \in Nat /\ Len(t) \in Nat /\ Len(u) = Len(s) + Len(t)
  /\ \A x \in 1 .. Len(s) : u[x] = s[x]
  /\ \A x \in 1 .. Len(t) : u[Len(s) + x] = t[x]

LEMMA Appended ==
  ASSUME NEW S, NEW s \in Seq(S), NEW t \in Seq(S)
  PROVE  s \o t \in Seq(S) /\ IsJoin(s \o t, s, t)
<1>1. /\ s \o t \in Seq(S) /\ Len(s \o t) = Len(s) + Len(t)
      /\ \A x \in 1 .. Len(s) + Len(t) :
           (s \o t)[x] = IF x <= Len(s) THEN s[x] ELSE t[x - Len(s)]
  BY ConcatProperties
<1>2. Len(s) \in Nat /\ Len(t) \in Nat
  BY LenProperties
<1>3. ASSUME NEW x \in 1 .. Len(t) PROVE (s \o t)[Len(s) + x] = t[x]
  <2>1. /\ Len(s) + x \in 1 .. Len(s) + Len(t) /\ ~(Len(s) + x <= Len(s))
        /\ (Len(s) + x) - Len(s) = x
    BY <1>2
  <2>2. QED
    BY <1>1, <2>1
<1>4. ASSUME NEW x \in 1 .. Len(s) PROVE (s \o t)[x] = s[x]
  <2>1. x \in 1 .. Len(s) + Len(t) /\ x <= Len(s)
    BY <1>2
  <2>2. QED
    BY <1>1, <2>1
<1>5. QED
  BY <1>1, <1>2, <1>3, <1>4 DEF IsJoin

-----------------------------------------------------------------------------
(* The padding of FIPS 180-4 *)

LEMMA ZeroBytes ==
  ASSUME NEW n \in Nat
  PROVE  /\ Ctx!Zeros(n) \in Seq(Bytes) /\ Len(Ctx!Zeros(n)) = n
         /\ \A x \in 1 .. n : Ctx!Zeros(n)[x] = 0
<1>1. Ctx!Zeros(n) \in [1 .. n -> Bytes] /\ \A x \in 1 .. n : Ctx!Zeros(n)[x] = 0
  BY DEF Ctx!Zeros, Bytes
<1>2. QED
  BY <1>1, Tuples

LEMMA LengthBytes ==
  ASSUME NEW n \in Nat
  PROVE  Ctx!LengthField(n) \in Seq(Bytes) /\ Len(Ctx!LengthField(n)) = LengthWidth
<1>1. \A x \in 1 .. LengthWidth : ((8 * n) \div 256 ^ (LengthWidth - x)) % 256 \in Bytes
  BY Sizes DEF Bytes
<1>2. Ctx!LengthField(n) \in [1 .. LengthWidth -> Bytes]
  BY <1>1, Sizes DEF Ctx!LengthField
<1>3. QED
  BY <1>2, Sizes, Tuples

\* What hash_final writes behind a text with r bytes in its last block, in one block
\* or in two, is a whole number of blocks.
ZerosBehind(r) ==
  IF r + 1 + LengthWidth <= HashBlock THEN HashBlock - (r + 1 + LengthWidth)
                                      ELSE (2 * HashBlock) - (r + 1 + LengthWidth)

BlocksBehind(r) == IF r + 1 + LengthWidth <= HashBlock THEN 1 ELSE 2

Padded(text, r) ==
  ((text \o <<128>>) \o Ctx!Zeros(ZerosBehind(r))) \o Ctx!LengthField(Len(text))

LEMMA ZerosNeeded ==
  ASSUME NEW q \in Nat, NEW r \in 0 .. HashBlock - 1, NEW n \in Nat, n = HashBlock * q + r
  PROVE  /\ (HashBlock - ((n + 1 + LengthWidth) % HashBlock)) % HashBlock = ZerosBehind(r)
         /\ ZerosBehind(r) \in Nat
         /\ n + 1 + ZerosBehind(r) + LengthWidth = HashBlock * (q + BlocksBehind(r))
<1> DEFINE s == r + 1 + LengthWidth
           over == (n + 1 + LengthWidth) % HashBlock
<1>1. /\ HashBlock \in Nat \ {0} /\ LengthWidth \in Nat /\ LengthWidth < HashBlock
      /\ r \in Nat /\ r < HashBlock
  BY Sizes
<1>2. /\ HashBlock * q \in Nat /\ HashBlock * (q + 1) = HashBlock * q + HashBlock
      /\ HashBlock * (q + 2) = HashBlock * q + 2 * HashBlock
  <2>1. q + 1 \in Nat /\ q + 2 = (q + 1) + 1
    OBVIOUS
  <2>2. HashBlock * ((q + 1) + 1) = HashBlock * (q + 1) + HashBlock
    BY <1>1, <2>1, TimesMonotone
  <2>3. HashBlock * q \in Nat /\ HashBlock * (q + 1) = HashBlock * q + HashBlock
    BY <1>1, TimesMonotone
  <2>4. QED
    BY <1>1, <2>1, <2>2, <2>3
<1>3. s \in Nat /\ s < 2 * HashBlock /\ n + 1 + LengthWidth = HashBlock * q + s
  BY <1>1, <1>2
<1> DEFINE t == n + 1 + LengthWidth
<1>8. \A u, v \in Nat : v < HashBlock /\ t = HashBlock * u + v => t % HashBlock = v
  <2>1. t \in Nat
    BY <1>1, <1>3
  <2> HIDE DEF t
  <2>2. QED
    BY <1>1, <2>1, Quotient
<1>4. CASE s < HashBlock
  <2>1. over = s
    BY <1>1, <1>3, <1>4, Quotient
  <2>2. (HashBlock - s) % HashBlock = HashBlock - s
    BY <1>1, <1>3, <1>4
  <2>3. ZerosBehind(r) = HashBlock - s /\ BlocksBehind(r) = 1
    BY <1>1, <1>4 DEF ZerosBehind, BlocksBehind
  <2>4. QED
    BY <1>1, <1>2, <1>3, <1>4, <2>1, <2>2, <2>3
<1>5. CASE s = HashBlock
  <2>1. over = 0
    <3>1. n + 1 + LengthWidth = HashBlock * (q + 1) + 0 /\ q + 1 \in Nat
      BY <1>1, <1>2, <1>3, <1>5
    <3>2. QED
      BY <1>1, <3>1, <1>8
  <2>2. (HashBlock - 0) % HashBlock = 0
    BY <1>1
  <2>3. ZerosBehind(r) = 0 /\ BlocksBehind(r) = 1
    BY <1>1, <1>5 DEF ZerosBehind, BlocksBehind
  <2>4. QED
    BY <1>1, <1>2, <1>3, <1>5, <2>1, <2>2, <2>3
<1>6. CASE s > HashBlock
  <2>1. over = s - HashBlock
    <3>1. /\ n + 1 + LengthWidth = HashBlock * (q + 1) + (s - HashBlock) /\ q + 1 \in Nat
          /\ s - HashBlock \in Nat /\ s - HashBlock < HashBlock
      BY <1>1, <1>2, <1>3, <1>6
    <3>2. QED
      BY <1>1, <3>1, <1>8
  <2>2. (HashBlock - (s - HashBlock)) % HashBlock = (2 * HashBlock) - s
    BY <1>1, <1>3, <1>6
  <2>3. ZerosBehind(r) = (2 * HashBlock) - s /\ BlocksBehind(r) = 2
    BY <1>1, <1>6 DEF ZerosBehind, BlocksBehind
  <2>4. QED
    BY <1>1, <1>2, <1>3, <1>6, <2>1, <2>2, <2>3
<1>7. QED
  BY <1>1, <1>3, <1>4, <1>5, <1>6

\* The text, the mark, the zeros and the length, in this order.
PaddedInOrder(text, r, whole) ==
  /\ \A x \in 1 .. Len(text) : whole[x] = text[x]
  /\ whole[Len(text) + 1] = 128
  /\ \A x \in 1 .. ZerosBehind(r) : whole[Len(text) + 1 + x] = 0
  /\ \A x \in 1 .. LengthWidth :
       whole[Len(text) + 1 + ZerosBehind(r) + x] = Ctx!LengthField(Len(text))[x]

LEMMA PaddedCells ==
  ASSUME NEW q \in Nat, NEW r \in 0 .. HashBlock - 1, NEW text \in Seq(Bytes),
         Len(text) = HashBlock * q + r
  PROVE  /\ Padded(text, r) \in Seq(Bytes)
         /\ Len(Padded(text, r)) = HashBlock * (q + BlocksBehind(r))
         /\ PaddedInOrder(text, r, Padded(text, r))
<1> DEFINE n == Len(text)
           z == ZerosBehind(r)
           field == Ctx!LengthField(n)
           marked == text \o <<128>>
           filled == marked \o Ctx!Zeros(z)
           whole == filled \o field
<1>1. n \in Nat /\ z \in Nat /\ n + 1 + z + LengthWidth = HashBlock * (q + BlocksBehind(r))
  BY ZerosNeeded, LenProperties
<1>2. field \in Seq(Bytes) /\ Len(field) = LengthWidth /\ LengthWidth \in Nat
  BY <1>1, LengthBytes, Sizes
<1>3. /\ marked \in Seq(Bytes) /\ Len(marked) = n + 1
      /\ \A x \in 1 .. n : marked[x] = text[x]
      /\ marked[n + 1] = 128
  <2>1. <<128>> \in Seq(Bytes) /\ Len(<<128>>) = 1 /\ <<128>>[1] = 128
    BY DEF Bytes
  <2> DEFINE mark == <<128>>
  <2>2. mark \in Seq(Bytes) /\ Len(mark) = 1 /\ mark[1] = 128
    BY <2>1
  <2>3. text \o <<128>> = text \o mark
    OBVIOUS
  <2> HIDE DEF mark
  <2>4. /\ text \o mark \in Seq(Bytes) /\ Len(text \o mark) = n + 1
        /\ \A x \in 1 .. n : (text \o mark)[x] = text[x]
        /\ \A x \in 1 .. 1 : (text \o mark)[n + x] = mark[x]
    <3>1. text \o mark \in Seq(Bytes) /\ IsJoin(text \o mark, text, mark)
      BY <2>2, Appended
    <3>2. QED
      BY <1>1, <2>2, <3>1 DEF n, IsJoin
  <2>5. (text \o mark)[n + 1] = 128
    BY <2>2, <2>4
  <2>6. QED
    BY <2>3, <2>4, <2>5
<1> HIDE DEF marked, field, z, n
<1>4. /\ filled \in Seq(Bytes) /\ Len(filled) = n + 1 + z
      /\ \A x \in 1 .. n + 1 : filled[x] = marked[x]
      /\ \A x \in 1 .. z : filled[n + 1 + x] = 0
  <2>1. /\ Ctx!Zeros(z) \in Seq(Bytes) /\ Len(Ctx!Zeros(z)) = z
        /\ \A x \in 1 .. z : Ctx!Zeros(z)[x] = 0
    BY <1>1, ZeroBytes
  <2> DEFINE zeros == Ctx!Zeros(z)
  <2> HIDE DEF zeros
  <2>2. zeros \in Seq(Bytes) /\ Len(zeros) = z /\ \A x \in 1 .. z : zeros[x] = 0
    BY <2>1 DEF zeros
  <2>3. /\ marked \o zeros \in Seq(Bytes) /\ Len(marked \o zeros) = (n + 1) + z
        /\ \A x \in 1 .. n + 1 : (marked \o zeros)[x] = marked[x]
        /\ \A x \in 1 .. z : (marked \o zeros)[(n + 1) + x] = zeros[x]
    <3>1. marked \o zeros \in Seq(Bytes) /\ IsJoin(marked \o zeros, marked, zeros)
      BY <1>3, <2>2, Appended
    <3>2. QED
      BY <1>3, <2>2, <3>1 DEF IsJoin
  <2>4. QED
    BY <1>1, <2>2, <2>3 DEF zeros
<1> HIDE DEF filled
<1>5. /\ whole \in Seq(Bytes) /\ Len(whole) = n + 1 + z + LengthWidth
      /\ \A x \in 1 .. n + 1 + z : whole[x] = filled[x]
      /\ \A x \in 1 .. LengthWidth : whole[n + 1 + z + x] = field[x]
  <2>1. filled \o field \in Seq(Bytes) /\ IsJoin(filled \o field, filled, field)
    BY <1>2, <1>4, Appended
  <2>2. QED
    BY <1>2, <1>4, <2>1 DEF IsJoin
<1>6. Padded(text, r) = whole
  BY DEF Padded, whole, filled, marked, z, n, field
<1> HIDE DEF whole
<1>7. /\ \A x \in 1 .. n : whole[x] = text[x]
      /\ whole[n + 1] = 128
      /\ \A x \in 1 .. z : whole[n + 1 + x] = 0
  <2>1. \A x \in 1 .. n : x \in 1 .. n + 1 /\ x \in 1 .. n + 1 + z
    BY <1>1
  <2>2. n + 1 \in 1 .. n + 1 /\ n + 1 \in 1 .. n + 1 + z
    BY <1>1
  <2>3. \A x \in 1 .. z : n + 1 + x \in 1 .. n + 1 + z
    BY <1>1
  <2>4. QED
    BY <1>3, <1>4, <1>5, <2>1, <2>2, <2>3
<1>8. QED
  BY <1>1, <1>5, <1>6, <1>7 DEF PaddedInOrder, n, z, field

\* A sequence of bytes, cut into m blocks.
AreBlocksOf(blocks, whole, m) ==
  /\ blocks \in Seq(BlockType) /\ Len(blocks) = m
  /\ \A b \in 1 .. m : \A x \in 1 .. HashBlock :
       blocks[b][x] = whole[HashBlock * (b - 1) + x]

LEMMA PaddedCut ==
  ASSUME NEW q \in Nat, NEW r \in 0 .. HashBlock - 1, NEW text \in Seq(Bytes),
         Len(text) = HashBlock * q + r
  PROVE  AreBlocksOf(Ctx!PaddedBlocks(text), Padded(text, r), q + BlocksBehind(r))
<1> DEFINE whole == Padded(text, r)
           m == q + BlocksBehind(r)
           cut == [j \in 1 .. Len(whole) \div HashBlock |->
                    SubSeq(whole, (j - 1) * HashBlock + 1, j * HashBlock)]
<1>1. whole \in Seq(Bytes) /\ Len(whole) = HashBlock * m /\ m \in Nat /\ HashBlock \in Nat \ {0}
  <2>1. whole \in Seq(Bytes) /\ Len(whole) = HashBlock * m
    BY PaddedCells
  <2>2. BlocksBehind(r) \in Nat
    BY DEF BlocksBehind
  <2>3. QED
    BY <2>1, <2>2, Sizes
<1>2. Ctx!PaddedBlocks(text) = cut
  <2>1. (HashBlock - ((Len(text) + 1 + LengthWidth) % HashBlock)) % HashBlock = ZerosBehind(r)
    BY ZerosNeeded, LenProperties
  <2>2. QED
    BY <2>1, Zenon DEF Ctx!PaddedBlocks, Padded
<1> HIDE DEF whole, m
<1>3. Len(whole) \div HashBlock = m
  <2>1. HashBlock * m \in Nat /\ HashBlock * m = HashBlock * m + 0 /\ 0 < HashBlock
    BY <1>1, TimesMonotone
  <2>2. QED
    BY <1>1, <2>1, Quotient
<1>4. ASSUME NEW b \in 1 .. m
      PROVE  /\ SubSeq(whole, (b - 1) * HashBlock + 1, b * HashBlock) \in BlockType
             /\ \A x \in 1 .. HashBlock :
                  SubSeq(whole, (b - 1) * HashBlock + 1, b * HashBlock)[x] =
                    whole[HashBlock * (b - 1) + x]
  <2> DEFINE from0 == HashBlock * (b - 1)
             to0 == HashBlock * b
  <2>1. b - 1 \in Nat /\ b \in Nat /\ b <= m /\ b = (b - 1) + 1
    BY <1>1
  <2>2. from0 \in Nat /\ to0 \in Nat /\ to0 = from0 + HashBlock /\ to0 <= HashBlock * m
    BY <1>1, <2>1, TimesMonotone
  <2>3. (b - 1) * HashBlock = from0 /\ b * HashBlock = to0
    BY <1>1, <2>1
  <2> HIDE DEF from0, to0
  <2>4. from0 <= to0 /\ to0 <= Len(whole) /\ to0 - from0 = HashBlock
    BY <1>1, <2>2
  <2>5. /\ SubSeq(whole, from0 + 1, to0) \in Seq(Bytes)
        /\ Len(SubSeq(whole, from0 + 1, to0)) = HashBlock
        /\ \A x \in 1 .. HashBlock : SubSeq(whole, from0 + 1, to0)[x] = whole[from0 + x]
    BY <1>1, <2>2, <2>4, Slices
  <2>6. SubSeq(whole, from0 + 1, to0) \in BlockType
    BY <2>5, LenProperties DEF BlockType
  <2>7. QED
    BY <2>3, <2>5, <2>6 DEF from0
<1>5. cut \in [1 .. m -> BlockType]
  BY <1>3, <1>4
<1>6. cut \in Seq(BlockType) /\ Len(cut) = m
  BY <1>1, <1>5, Tuples
<1>7. \A b \in 1 .. m : cut[b] = SubSeq(whole, (b - 1) * HashBlock + 1, b * HashBlock)
  BY <1>3
<1>8. \A b \in 1 .. m : \A x \in 1 .. HashBlock :
        cut[b][x] = whole[HashBlock * (b - 1) + x]
  BY <1>4, <1>7
<1> HIDE DEF cut
<1>9. AreBlocksOf(cut, whole, m)
  BY <1>6, <1>8 DEF AreBlocksOf
<1>10. QED
  BY <1>2, <1>9 DEF whole, m

-----------------------------------------------------------------------------
(* The context: what has been compressed and what waits in the buffer *)

CtxTypes ==
  /\ ctxPc \in {"idle", "ready", "update"}
  /\ buffer \in [1 .. HashBlock -> Bytes \cup {-1}]
  /\ state \in Seq(BlockType)
  /\ count \in Nat /\ uses \in Nat
  /\ ctxData \in Seq(Bytes) /\ i \in 0 .. Len(ctxData)
  /\ message \in Seq(Bytes)
  /\ ctxPc # "update" => ctxData = <<>> /\ i = 0

Compressed == HashBlock * Len(state)

\* What is left of the argument of hash_update is the end of the message.
RestIsDue ==
  /\ count + (Len(ctxData) - i) = Len(message)
  /\ \A x \in 1 .. Len(ctxData) - i : ctxData[i + x] = message[count + x]

\* What was consumed is in the compressed blocks or at the front of the buffer.
ConsumedIsKept ==
  /\ count - Compressed \in 0 .. HashBlock - 1
  /\ \A b \in 1 .. Len(state) : \A x \in 1 .. HashBlock :
       state[b][x] = message[HashBlock * (b - 1) + x]
  /\ \A x \in 1 .. count - Compressed : buffer[x] = message[Compressed + x]

CtxInv ==
  /\ CtxTypes
  /\ ctxPc # "idle" => RestIsDue /\ ConsumedIsKept
  /\ ctxPc = "idle" /\ uses > 0 => digest = Ctx!PaddedBlocks(message)

LEMMA CtxInit == ASSUME Ctx!Init PROVE CtxInv
<1>1. /\ ctxPc = "idle" /\ buffer = [k \in 1 .. HashBlock |-> -1] /\ state = <<>> /\ count = 0
      /\ ctxData = <<>> /\ i = 0 /\ message = <<>> /\ uses = 0
  BY DEF Ctx!Init, Ctx!Garbage
<1>2. buffer \in [1 .. HashBlock -> Bytes \cup {-1}]
  BY <1>1
<1>3. <<>> \in Seq(BlockType) /\ <<>> \in Seq(Bytes) /\ Len(<<>>) = 0
  OBVIOUS
<1>4. CtxTypes
  BY <1>1, <1>2, <1>3 DEF CtxTypes
<1>5. QED
  BY <1>1, <1>4 DEF CtxInv

LEMMA CtxStays == ASSUME CtxInv, UNCHANGED ctxVars PROVE CtxInv'
<1>1. UNCHANGED <<ctxPc, buffer, state, count, ctxData, i, message, digest, uses>>
  BY DEF ctxVars
<1>2. CtxTypes' = CtxTypes
  BY <1>1, Zenon DEF CtxTypes
<1>3. RestIsDue' = RestIsDue /\ ConsumedIsKept' = ConsumedIsKept
  BY <1>1, Zenon DEF RestIsDue, ConsumedIsKept, Compressed
<1>4. (digest = Ctx!PaddedBlocks(message))' = (digest = Ctx!PaddedBlocks(message))
  BY <1>1, Zenon
<1>5. QED
  BY <1>1, <1>2, <1>3, <1>4 DEF CtxInv

LEMMA HashInitInv == ASSUME CtxInv, Ctx!HashInit PROVE CtxInv'
<1>1. /\ ctxPc = "idle" /\ ctxPc' = "ready" /\ state' = <<>> /\ count' = 0
      /\ message' = <<>> /\ uses' = uses + 1 /\ UNCHANGED <<buffer, ctxData, i>>
  BY DEF Ctx!HashInit
<1>2. CtxTypes /\ ctxData = <<>> /\ i = 0
  BY <1>1 DEF CtxInv, CtxTypes
<1>3. <<>> \in Seq(BlockType) /\ <<>> \in Seq(Bytes) /\ Len(<<>>) = 0 /\ uses' \in Nat
  BY <1>1, <1>2 DEF CtxTypes
<1>4. CtxTypes'
  BY <1>1, <1>2, <1>3 DEF CtxTypes
<1>5. RestIsDue'
  BY <1>1, <1>2, <1>3 DEF RestIsDue
<1>6. ConsumedIsKept'
  <2>1. Compressed' = 0
    BY <1>1, <1>3, Sizes DEF Compressed
  <2>2. QED
    BY <1>1, <1>3, <2>1, Sizes DEF ConsumedIsKept
<1>7. QED
  BY <1>1, <1>4, <1>5, <1>6 DEF CtxInv

LEMMA HashUpdateInv ==
  ASSUME CtxInv, NEW piece \in Seq(Bytes), Ctx!HashUpdate(piece)
  PROVE  CtxInv' /\ message' = message \o piece /\ ctxPc' = "update"
<1>1. /\ ctxPc = "ready" /\ ctxPc' = "update" /\ ctxData' = piece /\ i' = 0
      /\ message' = message \o piece /\ UNCHANGED <<buffer, state, count, digest, uses>>
  BY DEF Ctx!HashUpdate
<1>2. CtxTypes /\ RestIsDue /\ ConsumedIsKept /\ ctxData = <<>> /\ i = 0
  BY <1>1 DEF CtxInv, CtxTypes
<1>3. /\ message \in Seq(Bytes) /\ count \in Nat /\ state \in Seq(BlockType)
      /\ Len(piece) \in Nat /\ Len(message) \in Nat /\ Len(state) \in Nat
  BY <1>2, LenProperties DEF CtxTypes
<1>4. message \o piece \in Seq(Bytes) /\ IsJoin(message \o piece, message, piece)
  BY <1>3, Appended
<1>5. count = Len(message)
  BY <1>2, <1>3 DEF RestIsDue
<1>6. CtxTypes'
  BY <1>1, <1>2, <1>3, <1>4 DEF CtxTypes
<1>7. RestIsDue'
  <2>1. Len(message') = Len(message) + Len(piece)
    BY <1>1, <1>4 DEF IsJoin
  <2>2. count' + (Len(ctxData') - i') = Len(message')
    BY <1>1, <1>3, <1>5, <2>1
  <2>3. \A x \in 1 .. Len(piece) : message'[count + x] = piece[x]
    BY <1>1, <1>4, <1>5 DEF IsJoin
  <2>4. \A x \in 1 .. Len(piece) : piece[0 + x] = piece[x]
    BY <1>3
  <2>5. \A x \in 1 .. Len(ctxData') - i' : ctxData'[i' + x] = message'[count' + x]
    <3>1. Len(ctxData') - i' = Len(piece) /\ i' = 0 /\ ctxData' = piece /\ count' = count
      BY <1>1, <1>3
    <3>2. \A x \in 1 .. Len(piece) : piece[0 + x] = message'[count + x]
      BY <2>3, <2>4
    <3>3. QED
      BY <3>1, <3>2, Zenon
  <2>6. QED
    BY <2>2, <2>5 DEF RestIsDue
<1>8. ConsumedIsKept'
  <2> DEFINE full == HashBlock * Len(state)
  <2>1. /\ full \in Nat /\ count - full \in 0 .. HashBlock - 1 /\ HashBlock \in Nat
        /\ \A b \in 1 .. Len(state) : \A x \in 1 .. HashBlock :
             state[b][x] = message[HashBlock * (b - 1) + x]
        /\ \A x \in 1 .. count - full : buffer[x] = message[full + x]
    BY <1>2, <1>3, Sizes, TimesMonotone DEF ConsumedIsKept, Compressed
  <2>2. \A x \in 1 .. Len(message) : message'[x] = message[x]
    BY <1>1, <1>4 DEF IsJoin
  <2>3. ASSUME NEW b \in 1 .. Len(state), NEW x \in 1 .. HashBlock
        PROVE  state[b][x] = message'[HashBlock * (b - 1) + x]
    <3>1. b - 1 \in Nat /\ Len(state) \in Nat /\ b - 1 < Len(state) /\ b = (b - 1) + 1
      BY <1>3
    <3>2. /\ HashBlock * (b - 1) \in Nat
          /\ HashBlock * b = HashBlock * (b - 1) + HashBlock
          /\ HashBlock * b <= full
      BY <3>1, Sizes, TimesMonotone
    <3> DEFINE before == HashBlock * (b - 1)
    <3>7. /\ before \in Nat /\ before + HashBlock <= full /\ full \in Nat
          /\ full <= Len(message) /\ HashBlock \in Nat
      BY <1>3, <1>5, <2>1, <3>2
    <3> HIDE DEF before, full
    <3>3. before + x \in 1 .. Len(message)
      BY <1>3, <3>7
    <3>4. state[b][x] = message[before + x]
      BY <2>1 DEF before
    <3>5. message'[before + x] = message[before + x]
      BY <2>2, <3>3
    <3>6. QED
      BY <3>4, <3>5 DEF before
  <2> HIDE DEF full
  <2>4. \A x \in 1 .. count - full : full + x \in 1 .. Len(message)
    BY <1>3, <1>5, <2>1
  <2>5. \A x \in 1 .. count - full : buffer[x] = message'[full + x]
    BY <2>1, <2>2, <2>4
  <2>6. QED
    BY <1>1, <2>1, <2>3, <2>5 DEF full, ConsumedIsKept, Compressed
<1>9. QED
  BY <1>1, <1>6, <1>7, <1>8 DEF CtxInv

LEMMA UpdateReturnInv ==
  ASSUME CtxInv, Ctx!UpdateReturn
  PROVE  CtxInv' /\ message' = message /\ ctxPc' = "ready"
<1>1. /\ ctxPc = "update" /\ ctxPc' = "ready" /\ ctxData' = <<>> /\ i' = 0 /\ i = Len(ctxData)
      /\ UNCHANGED <<buffer, state, count, message, digest, uses>>
  BY DEF Ctx!UpdateReturn
<1>2. CtxTypes /\ RestIsDue /\ ConsumedIsKept
  BY <1>1 DEF CtxInv
<1>3. <<>> \in Seq(Bytes) /\ Len(<<>>) = 0 /\ count \in Nat /\ Len(ctxData) \in Nat
  BY <1>2, LenProperties DEF CtxTypes
<1>4. CtxTypes'
  BY <1>1, <1>2, <1>3 DEF CtxTypes
<1>5. RestIsDue'
  BY <1>1, <1>2, <1>3 DEF RestIsDue
<1>6. ConsumedIsKept' = ConsumedIsKept
  BY <1>1, Zenon DEF ConsumedIsKept, Compressed
<1>7. QED
  BY <1>1, <1>2, <1>4, <1>5, <1>6 DEF CtxInv

\* The place in the buffer where the next byte goes.
LEMMA NextPlace ==
  ASSUME CtxTypes, ConsumedIsKept
  PROVE  /\ Compressed \in Nat /\ Len(state) \in Nat
         /\ count % HashBlock = count - Compressed
         /\ count - Compressed \in 0 .. HashBlock - 1
<1> DEFINE left == count - Compressed
<1>1. /\ Len(state) \in Nat /\ count \in Nat /\ HashBlock \in Nat \ {0}
      /\ left \in 0 .. HashBlock - 1
  BY Sizes, LenProperties DEF CtxTypes, ConsumedIsKept
<1>2. Compressed \in Nat
  BY <1>1, TimesMonotone DEF Compressed
<1>3. left \in Nat /\ left < HashBlock /\ count = HashBlock * Len(state) + left
  BY <1>1, <1>2 DEF Compressed
<1> HIDE DEF left
<1>4. count % HashBlock = left
  BY <1>1, <1>3, Quotient
<1>5. QED
  BY <1>1, <1>2, <1>4 DEF left

LEMMA UpdateChunkInv ==
  ASSUME CtxInv, Ctx!UpdateChunk
  PROVE  CtxInv' /\ message' = message /\ ctxPc' = "update"
<1> DEFINE r == count - Compressed
           n == Len(ctxData)
           chunk == IF n - i < Ctx!Space THEN n - i ELSE Ctx!Space
           piece == SubSeq(ctxData, i + 1, i + chunk)
<1>1. /\ ctxPc = "update" /\ ctxPc' = "update" /\ i < n
      /\ buffer' = Ctx!Filled(count % HashBlock, piece)
      /\ count' = count + chunk /\ i' = i + chunk
      /\ state' = IF count' % HashBlock = 0 THEN Append(state, buffer') ELSE state
      /\ UNCHANGED <<ctxData, message, digest, uses>>
  BY DEF Ctx!UpdateChunk, Ctx!Compress
<1>2. CtxTypes /\ RestIsDue /\ ConsumedIsKept
  BY <1>1 DEF CtxInv
<1>3. /\ Compressed \in Nat /\ Len(state) \in Nat /\ count % HashBlock = r
      /\ r \in 0 .. HashBlock - 1
  BY <1>2, NextPlace
<1>4. /\ HashBlock \in Nat \ {0} /\ count \in Nat /\ n \in Nat /\ i \in Nat /\ i < n
      /\ Len(message) \in Nat /\ count = Compressed + r
  BY <1>1, <1>2, <1>3, Sizes, LenProperties DEF CtxTypes
<1>5. Ctx!Space = HashBlock - r
  BY <1>3 DEF Ctx!Space
<1>6. /\ chunk \in Nat \ {0} /\ chunk <= n - i /\ r + chunk <= HashBlock
      /\ r + chunk < HashBlock => chunk = n - i
  BY <1>3, <1>4, <1>5
<1>7. /\ piece \in Seq(Bytes) /\ Len(piece) = chunk
      /\ \A x \in 1 .. chunk : piece[x] = message[count + x]
  <2> HIDE DEF chunk, r
  <2>1. i + chunk \in Nat /\ i <= i + chunk /\ i + chunk <= n /\ (i + chunk) - i = chunk
    BY <1>4, <1>6
  <2>2. ctxData \in Seq(Bytes) /\ n = Len(ctxData)
    BY <1>2 DEF CtxTypes
  <2> DEFINE to0 == i + chunk
  <2>3. to0 \in Nat /\ i <= to0 /\ to0 <= Len(ctxData) /\ to0 - i = chunk
    BY <2>1
  <2> HIDE DEF to0
  <2>4. /\ SubSeq(ctxData, i + 1, to0) \in Seq(Bytes)
        /\ Len(SubSeq(ctxData, i + 1, to0)) = to0 - i
        /\ \A x \in 1 .. to0 - i : SubSeq(ctxData, i + 1, to0)[x] = ctxData[i + x]
    BY <1>4, <2>2, <2>3, Slices
  <2>5. \A x \in 1 .. chunk : x \in 1 .. n - i
    BY <1>4, <1>6
  <2>6. \A x \in 1 .. chunk : ctxData[i + x] = message[count + x]
    BY <1>2, <2>5 DEF RestIsDue, n
  <2>7. QED
    BY <2>3, <2>4, <2>6 DEF to0
<1> HIDE DEF chunk, piece
<1>8. /\ buffer' \in [1 .. HashBlock -> Bytes \cup {-1}]
      /\ \A x \in 1 .. r : buffer'[x] = buffer[x]
      /\ \A x \in 1 .. chunk : buffer'[r + x] = piece[x]
  <2>1. buffer' = [k \in 1 .. HashBlock |->
                     IF k > r /\ k <= r + chunk THEN piece[k - r] ELSE buffer[k]]
    BY <1>1, <1>3, <1>7 DEF Ctx!Filled
  <2>2. \A x \in 1 .. chunk : piece[x] \in Bytes
    BY <1>7, ElementOfSeq
  <2>3. buffer \in [1 .. HashBlock -> Bytes \cup {-1}]
    BY <1>2 DEF CtxTypes
  <2> HIDE DEF r
  <2>4. \A k \in 1 .. HashBlock : k > r /\ k <= r + chunk => k - r \in 1 .. chunk
    BY <1>3, <1>4, <1>6
  <2>5. \A x \in 1 .. r : x \in 1 .. HashBlock /\ ~(x > r)
    BY <1>3, <1>4
  <2>6. \A x \in 1 .. chunk : /\ r + x \in 1 .. HashBlock /\ r + x > r /\ r + x <= r + chunk
                              /\ (r + x) - r = x
    BY <1>3, <1>4, <1>6
  <2>7. buffer' \in [1 .. HashBlock -> Bytes \cup {-1}]
    BY <2>1, <2>2, <2>3, <2>4
  <2>8. \A x \in 1 .. r : buffer'[x] = buffer[x]
    BY <2>1, <2>5
  <2>9. \A x \in 1 .. chunk : buffer'[r + x] = piece[x]
    BY <2>1, <2>6
  <2>10. QED
    BY <2>7, <2>8, <2>9
<1>9. \A x \in 1 .. r + chunk : buffer'[x] = message[Compressed + x]
  <2> SUFFICES ASSUME NEW x \in 1 .. r + chunk PROVE buffer'[x] = message[Compressed + x]
    OBVIOUS
  <2>1. CASE x \in 1 .. r
    BY <1>2, <1>8, <2>1 DEF ConsumedIsKept
  <2>2. CASE x \notin 1 .. r
    <3> DEFINE y == x - r
    <3>1. y \in 1 .. chunk /\ r + y = x /\ count + y = Compressed + x
      BY <1>3, <1>4, <1>6, <2>2
    <3>2. buffer'[r + y] = piece[y] /\ piece[y] = message[count + y]
      BY <1>7, <1>8, <3>1
    <3>3. QED
      BY <3>1, <3>2
  <2>3. QED
    BY <2>1, <2>2
<1>10. /\ count' \in Nat /\ count' = Compressed + (r + chunk)
       /\ i' \in 0 .. Len(ctxData)
  BY <1>1, <1>3, <1>4, <1>6
<1>11. RestIsDue'
  <2>1. /\ count + (n - i) = Len(message)
        /\ \A x \in 1 .. n - i : ctxData[i + x] = message[count + x]
    BY <1>2 DEF RestIsDue
  <2>2. count' + (n - i') = Len(message)
    <3>1. count' = count + chunk /\ i' = i + chunk /\ chunk \in Nat /\ count + (n - i) = Len(message)
      BY <1>1, <1>6, <2>1
    <3> HIDE DEF n
    <3>2. QED
      BY <1>4, <3>1
  <2>3. ASSUME NEW x \in 1 .. n - i' PROVE ctxData[i' + x] = message[count' + x]
    <3>1. chunk + x \in 1 .. n - i /\ i + (chunk + x) = i' + x /\ count + (chunk + x) = count' + x
      BY <1>1, <1>4, <1>6
    <3>2. ctxData[i + (chunk + x)] = message[count + (chunk + x)]
      BY <2>1, <3>1
    <3>3. QED
      BY <3>1, <3>2
  <2>4. ctxData' = ctxData /\ message' = message
    BY <1>1
  <2>5. QED
    BY <2>2, <2>3, <2>4 DEF RestIsDue
<1>12. /\ \A b \in 1 .. Len(state) : \A x \in 1 .. HashBlock :
            state[b][x] = message[HashBlock * (b - 1) + x]
       /\ state \in Seq(BlockType)
  BY <1>2 DEF ConsumedIsKept, CtxTypes
<1>13. CASE r + chunk < HashBlock
  <2>1. count' % HashBlock = r + chunk
    <3> DEFINE left == r + chunk
    <3>1. left \in Nat /\ left < HashBlock /\ count' = HashBlock * Len(state) + left
      BY <1>3, <1>6, <1>10, <1>13 DEF Compressed
    <3> HIDE DEF left
    <3>2. count' % HashBlock = left
      BY <1>3, <1>4, <1>10, <3>1, Quotient
    <3>3. QED
      BY <3>2 DEF left
  <2>2. state' = state
    BY <1>1, <1>3, <1>6, <2>1
  <2>3. Compressed' = Compressed
    BY <2>2 DEF Compressed
  <2>4. count' - Compressed' = r + chunk /\ r + chunk \in 0 .. HashBlock - 1
    BY <1>3, <1>4, <1>6, <1>10, <1>13, <2>3
  <2>5. \A x \in 1 .. count' - Compressed' : buffer'[x] = message'[Compressed' + x]
    BY <1>1, <1>9, <2>3, <2>4
  <2>6. ConsumedIsKept'
    BY <1>1, <1>12, <2>2, <2>4, <2>5 DEF ConsumedIsKept
  <2>7. CtxTypes'
    BY <1>1, <1>2, <1>8, <1>10, <2>2 DEF CtxTypes
  <2>8. QED
    BY <1>1, <1>11, <2>6, <2>7 DEF CtxInv
<1>14. CASE r + chunk = HashBlock
  <2>1. /\ count' = HashBlock * (Len(state) + 1) /\ Len(state) + 1 \in Nat
        /\ count' % HashBlock = 0
    <3>1. /\ Len(state) + 1 \in Nat
          /\ HashBlock * (Len(state) + 1) = HashBlock * Len(state) + HashBlock
      BY <1>3, <1>4, TimesMonotone
    <3>2. count' = HashBlock * (Len(state) + 1)
      BY <1>3, <1>4, <1>10, <1>14, <3>1 DEF Compressed
    <3> DEFINE m == Len(state) + 1
    <3>3. m \in Nat /\ count' = HashBlock * m + 0 /\ 0 \in Nat /\ 0 < HashBlock
      BY <1>4, <1>10, <3>1, <3>2
    <3> HIDE DEF m
    <3>4. count' % HashBlock = 0
      BY <1>4, <1>10, <3>3, Quotient
    <3>5. QED
      BY <3>1, <3>2, <3>4
  <2>2. state' = Append(state, buffer')
    BY <1>1, <2>1
  <2>3. buffer' \in BlockType /\ \A x \in 1 .. HashBlock : buffer'[x] = message[Compressed + x]
    <3>1. \A x \in 1 .. HashBlock : buffer'[x] = message[Compressed + x]
      BY <1>9, <1>14
    <3>2. \A x \in 1 .. HashBlock : Compressed + x \in 1 .. Len(message)
      <4>1. Len(message) = count + (n - i) /\ Compressed + HashBlock = count + chunk
        BY <1>2, <1>3, <1>4, <1>6, <1>14 DEF RestIsDue
      <4>2. Compressed + HashBlock <= Len(message)
        BY <1>3, <1>4, <1>6, <4>1
      <4>3. QED
        BY <1>3, <1>4, <4>2
    <3>3. message \in Seq(Bytes)
      BY <1>2 DEF CtxTypes
    <3>4. \A x \in 1 .. HashBlock : buffer'[x] \in Bytes
      BY <3>1, <3>2, <3>3, ElementOfSeq
    <3>5. QED
      BY <1>8, <3>1, <3>4 DEF BlockType
  <2>4. /\ state' \in Seq(BlockType) /\ Len(state') = Len(state) + 1
        /\ \A b \in 1 .. Len(state) : state'[b] = state[b]
        /\ state'[Len(state) + 1] = buffer'
    BY <1>12, <2>2, <2>3, AppendProperties
  <2>5. Compressed' = count' /\ Compressed' = Compressed + HashBlock
    BY <1>3, <1>4, <1>10, <1>14, <2>1, <2>4 DEF Compressed
  <2>6. ASSUME NEW b \in 1 .. Len(state'), NEW x \in 1 .. HashBlock
        PROVE  state'[b][x] = message'[HashBlock * (b - 1) + x]
    <3>1. CASE b \in 1 .. Len(state)
      BY <1>1, <1>12, <2>4, <3>1
    <3>2. CASE b \notin 1 .. Len(state)
      <4>1. b = Len(state) + 1 /\ b - 1 = Len(state)
        BY <1>3, <2>4, <3>2
      <4>2. state'[b][x] = message[Compressed + x]
        BY <2>3, <2>4, <4>1
      <4>3. QED
        BY <1>1, <4>1, <4>2 DEF Compressed
    <3>3. QED
      BY <3>1, <3>2
  <2>7. ConsumedIsKept'
    <3>1. count' - Compressed' = 0
      BY <1>10, <2>5
    <3>2. QED
      BY <1>4, <2>6, <3>1 DEF ConsumedIsKept
  <2>8. CtxTypes'
    BY <1>1, <1>2, <1>8, <1>10, <2>4 DEF CtxTypes
  <2>9. QED
    BY <1>1, <1>11, <2>7, <2>8 DEF CtxInv
<1>15. QED
  BY <1>3, <1>4, <1>6, <1>13, <1>14

-----------------------------------------------------------------------------
(* hash_final writes the padding *)

TailBlock(n) == Ctx!Zeros(Ctx!LengthStart) \o Ctx!LengthField(n)

LEMMA TailCells ==
  ASSUME NEW n \in Nat
  PROVE  /\ TailBlock(n) \in Seq(Bytes) /\ Len(TailBlock(n)) = HashBlock
         /\ TailBlock(n) \in BlockType
         /\ \A x \in 1 .. HashBlock - LengthWidth : TailBlock(n)[x] = 0
         /\ \A x \in 1 .. LengthWidth :
              TailBlock(n)[(HashBlock - LengthWidth) + x] = Ctx!LengthField(n)[x]
<1> DEFINE start == HashBlock - LengthWidth
           zeros == Ctx!Zeros(start)
           field == Ctx!LengthField(n)
<1>1. start \in Nat /\ HashBlock \in Nat /\ LengthWidth \in Nat /\ start + LengthWidth = HashBlock
  BY Sizes
<1>2. TailBlock(n) = zeros \o field
  BY DEF TailBlock, Ctx!LengthStart
<1> HIDE DEF start
<1>3. /\ zeros \in Seq(Bytes) /\ Len(zeros) = start
      /\ \A x \in 1 .. start : zeros[x] = 0
      /\ field \in Seq(Bytes) /\ Len(field) = LengthWidth
  BY <1>1, ZeroBytes, LengthBytes
<1> HIDE DEF zeros, field
<1>4. zeros \o field \in Seq(Bytes) /\ IsJoin(zeros \o field, zeros, field)
  BY <1>3, Appended
<1>5. /\ zeros \o field \in Seq(Bytes) /\ Len(zeros \o field) = HashBlock
      /\ \A x \in 1 .. start : (zeros \o field)[x] = 0
      /\ \A x \in 1 .. LengthWidth : (zeros \o field)[start + x] = field[x]
  BY <1>1, <1>3, <1>4 DEF IsJoin
<1>6. zeros \o field \in BlockType
  BY <1>5, LenProperties DEF BlockType
<1>7. QED
  BY <1>2, <1>5, <1>6 DEF start, field

\* The padded text, block by block.
PaddedAsBlocks(text, q, r, whole) ==
  /\ \A b \in 1 .. q : \A x \in 1 .. HashBlock :
       whole[HashBlock * (b - 1) + x] = text[HashBlock * (b - 1) + x]
  /\ \A x \in 1 .. r : whole[HashBlock * q + x] = text[HashBlock * q + x]
  /\ whole[HashBlock * q + (r + 1)] = 128
  /\ BlocksBehind(r) = 1 => /\ r + 1 <= HashBlock - LengthWidth
                            /\ \A x \in r + 2 .. HashBlock :
                                 whole[HashBlock * q + x] = TailBlock(Len(text))[x]
  /\ BlocksBehind(r) = 2 => /\ r + 1 > HashBlock - LengthWidth
                            /\ \A x \in r + 2 .. HashBlock : whole[HashBlock * q + x] = 0
                            /\ \A x \in 1 .. HashBlock :
                                 whole[HashBlock * (q + 1) + x] = TailBlock(Len(text))[x]

LEMMA PaddedEnd ==
  ASSUME NEW q \in Nat, NEW r \in 0 .. HashBlock - 1, NEW text \in Seq(Bytes),
         Len(text) = HashBlock * q + r
  PROVE  PaddedAsBlocks(text, q, r, Padded(text, r))
<1> DEFINE whole == Padded(text, r)
           full == HashBlock * q
           n == Len(text)
           start == HashBlock - LengthWidth
           tail == TailBlock(n)
           field == Ctx!LengthField(n)
           z == ZerosBehind(r)
<1>1. /\ full \in Nat /\ n = full + r /\ n \in Nat /\ start \in Nat /\ r \in Nat
      /\ HashBlock \in Nat /\ LengthWidth \in Nat /\ start + LengthWidth = HashBlock
      /\ r < HashBlock /\ HashBlock * (q + 1) = full + HashBlock /\ start < HashBlock
  BY Sizes, TimesMonotone
<1>2. /\ \A x \in 1 .. n : whole[x] = text[x]
      /\ whole[n + 1] = 128
      /\ \A x \in 1 .. z : whole[n + 1 + x] = 0
      /\ \A x \in 1 .. LengthWidth : whole[n + 1 + z + x] = field[x]
  <2>1. PaddedInOrder(text, r, Padded(text, r))
    BY PaddedCells
  <2>2. QED
    BY <2>1 DEF PaddedInOrder
<1>3. /\ \A x \in 1 .. start : tail[x] = 0
      /\ \A x \in 1 .. LengthWidth : tail[start + x] = field[x]
  BY <1>1, TailCells
<1>4. /\ BlocksBehind(r) = 1 => z = HashBlock - (r + 1 + LengthWidth) /\ r + 1 <= start
      /\ BlocksBehind(r) = 2 => z = (2 * HashBlock) - (r + 1 + LengthWidth) /\ r + 1 > start
  BY <1>1 DEF BlocksBehind, ZerosBehind
<1>5. ASSUME NEW b \in 1 .. q, NEW x \in 1 .. HashBlock
      PROVE  whole[HashBlock * (b - 1) + x] = text[HashBlock * (b - 1) + x]
  <2> DEFINE before == HashBlock * (b - 1)
  <2>1. b - 1 \in Nat /\ b \in Nat /\ b <= q /\ (b - 1) + 1 = b
    OBVIOUS
  <2>2. before \in Nat /\ before + HashBlock = HashBlock * b /\ HashBlock * b <= full
    BY <2>1, Sizes, TimesMonotone
  <2>3. before \in Nat /\ before + HashBlock <= full
    BY <1>1, <2>2
  <2> HIDE DEF before, full, n, whole
  <2>4. before + x \in 1 .. n
    BY <1>1, <2>3
  <2>5. QED
    BY <1>2, <2>4 DEF before
<1> HIDE DEF whole, full, n, start, tail, field, z
<1>6. \A x \in 1 .. r : whole[full + x] = text[full + x]
  <2>1. \A x \in 1 .. r : full + x \in 1 .. n
    BY <1>1
  <2>2. QED
    BY <1>2, <2>1
<1>7. whole[full + (r + 1)] = 128
  <2>1. full + (r + 1) = n + 1
    BY <1>1
  <2>2. QED
    BY <1>2, <2>1
\* the zeros of z and the field behind them, from the start of a block
<1>8. ASSUME NEW base \in Nat, n + 1 + z = base + start
      PROVE  /\ \A x \in 1 .. HashBlock : base + x > n + 1 => whole[base + x] = tail[x]
  <2> SUFFICES ASSUME NEW x \in 1 .. HashBlock, base + x > n + 1
               PROVE  whole[base + x] = tail[x]
    OBVIOUS
  <2>0. z \in Nat
    BY <1>1, <1>4 DEF BlocksBehind, ZerosBehind, z
  <2>1. CASE x <= start
    <3> DEFINE y == (base + x) - (n + 1)
    <3>1. y \in 1 .. z /\ n + 1 + y = base + x /\ x \in 1 .. start
      BY <1>1, <1>8, <2>0, <2>1
    <3> HIDE DEF y
    <3>2. whole[n + 1 + y] = 0 /\ tail[x] = 0
      BY <1>2, <1>3, <3>1
    <3>3. QED
      BY <3>1, <3>2
  <2>2. CASE x > start
    <3> DEFINE y == x - start
    <3>1. y \in 1 .. LengthWidth /\ n + 1 + z + y = base + x /\ start + y = x
      BY <1>1, <1>8, <2>0, <2>2
    <3> HIDE DEF y
    <3>2. whole[n + 1 + z + y] = field[y] /\ tail[start + y] = field[y]
      BY <1>2, <1>3, <3>1
    <3>3. QED
      BY <3>1, <3>2
  <2>3. QED
    BY <1>1, <2>1, <2>2
<1>9. ASSUME BlocksBehind(r) = 1
      PROVE  \A x \in r + 2 .. HashBlock : whole[full + x] = tail[x]
  <2>1. n + 1 + z = full + start
    BY <1>1, <1>4, <1>9
  <2>2. \A x \in 1 .. HashBlock : full + x > n + 1 => whole[full + x] = tail[x]
    BY <1>1, <1>8, <2>1
  <2>3. \A x \in r + 2 .. HashBlock : x \in 1 .. HashBlock /\ full + x > n + 1
    BY <1>1
  <2>4. QED
    BY <2>2, <2>3
<1>10. ASSUME BlocksBehind(r) = 2
       PROVE  /\ \A x \in r + 2 .. HashBlock : whole[full + x] = 0
              /\ \A x \in 1 .. HashBlock : whole[HashBlock * (q + 1) + x] = tail[x]
  <2> DEFINE base == full + HashBlock
  <2>1. n + 1 + z = base + start /\ base \in Nat
    BY <1>1, <1>4, <1>10
  <2> HIDE DEF base
  <2>2. \A x \in 1 .. HashBlock : base + x > n + 1 => whole[base + x] = tail[x]
    BY <1>8, <2>1
  <2>3. \A x \in 1 .. HashBlock : base + x > n + 1
    BY <1>1 DEF base
  <2>4. \A x \in 1 .. HashBlock : whole[HashBlock * (q + 1) + x] = tail[x]
    BY <1>1, <2>2, <2>3 DEF base
  <2>5. ASSUME NEW x \in r + 2 .. HashBlock PROVE whole[full + x] = 0
    <3> DEFINE y == x - (r + 1)
    <3>1. y \in 1 .. z /\ n + 1 + y = full + x
      BY <1>1, <1>4, <1>10
    <3> HIDE DEF y
    <3>2. whole[n + 1 + y] = 0
      BY <1>2, <3>1
    <3>3. QED
      BY <3>1, <3>2
  <2>6. QED
    BY <2>4, <2>5
<1>11. QED
  BY <1>4, <1>5, <1>6, <1>7, <1>9, <1>10
  DEF PaddedAsBlocks, whole, full, n, start, tail

LEMMA SameBlock ==
  ASSUME NEW f \in BlockType, NEW g \in BlockType, \A x \in 1 .. HashBlock : f[x] = g[x]
  PROVE  f = g
<1>1. f = [x \in 1 .. HashBlock |-> f[x]] /\ g = [x \in 1 .. HashBlock |-> g[x]]
  BY Zenon DEF BlockType
<1>2. [x \in 1 .. HashBlock |-> f[x]] = [x \in 1 .. HashBlock |-> g[x]]
  BY Zenon
<1>3. QED
  BY <1>1, <1>2, Zenon

LEMMA SameBlocks ==
  ASSUME NEW s \in Seq(BlockType), NEW t \in Seq(BlockType), Len(s) = Len(t),
         \A b \in 1 .. Len(s) : \A x \in 1 .. HashBlock : s[b][x] = t[b][x]
  PROVE  s = t
<1>1. ASSUME NEW b \in 1 .. Len(s) PROVE s[b] = t[b]
  <2>1. s[b] \in BlockType /\ t[b] \in BlockType
    BY ElementOfSeq
  <2>2. \A x \in 1 .. HashBlock : s[b][x] = t[b][x]
    OBVIOUS
  <2>3. QED
    BY <2>1, <2>2, SameBlock
<1>2. QED
  BY <1>1, SeqEqual

\* What hash_final makes of the bytes waiting in the buffer.
Marked(r) == SubSeq(buffer, 1, r) \o <<128>>

IsMarked(u, r) ==
  /\ u \in Seq(Bytes) /\ Len(u) = r + 1
  /\ \A x \in 1 .. r : u[x] = message[Compressed + x]
  /\ u[r + 1] = 128

LEMMA MarkedFront ==
  ASSUME CtxTypes, RestIsDue, ConsumedIsKept, ctxPc = "ready"
  PROVE  IsMarked(Marked(count - Compressed), count - Compressed) /\ count = Len(message)
<1> DEFINE r == count - Compressed
           front == SubSeq(buffer, 1, r)
           mark == <<128>>
<1>1. /\ Compressed \in Nat /\ r \in Nat /\ r < HashBlock /\ HashBlock \in Nat
      /\ count \in Nat /\ count = Compressed + r
  BY NextPlace, Sizes DEF CtxTypes
<1>2. /\ message \in Seq(Bytes) /\ count = Len(message)
      /\ buffer \in Seq(Bytes \cup {-1}) /\ Len(buffer) = HashBlock
  <2>1. buffer \in Seq(Bytes \cup {-1}) /\ Len(buffer) = HashBlock
    BY <1>1, Tuples DEF CtxTypes
  <2>2. Len(<<>>) = 0 /\ ctxData = <<>> /\ i = 0
    BY DEF CtxTypes
  <2>3. count = Len(message)
    BY <1>1, <2>2 DEF RestIsDue
  <2>4. QED
    BY <2>1, <2>3 DEF CtxTypes
<1> HIDE DEF r
<1>3. /\ Len(front) = r /\ \A x \in 1 .. r : front[x] = message[Compressed + x]
      /\ front \in Seq(Bytes)
  <2>1. /\ SubSeq(buffer, 0 + 1, r) \in Seq(Bytes \cup {-1})
        /\ Len(SubSeq(buffer, 0 + 1, r)) = r - 0
        /\ \A x \in 1 .. r - 0 : SubSeq(buffer, 0 + 1, r)[x] = buffer[0 + x]
    <3>1. 0 \in Nat /\ 0 <= r /\ r <= Len(buffer)
      BY <1>1, <1>2
    <3>2. QED
      BY <1>1, <1>2, <3>1, Slices
  <2>2. 0 + 1 = 1 /\ r - 0 = r /\ \A x \in 1 .. r : 0 + x = x
    BY <1>1
  <2>3. \A x \in 1 .. r : front[x] = buffer[x]
    BY <2>1, <2>2
  <2>4. \A x \in 1 .. r : buffer[x] = message[Compressed + x]
    BY DEF ConsumedIsKept, r
  <2>5. \A x \in 1 .. r : Compressed + x \in 1 .. Len(message)
    BY <1>1, <1>2
  <2>6. \A x \in 1 .. r : message[Compressed + x] \in Bytes
    BY <1>2, <2>5, ElementOfSeq
  <2>7. front \in Seq(Bytes \cup {-1}) /\ Len(front) = r
    BY <2>1, <2>2
  <2>8. \A x \in 1 .. r : front[x] \in Bytes
    BY <2>3, <2>4, <2>6
  <2> HIDE DEF front
  <2>9. front \in [1 .. r -> Bytes]
    BY <2>7, <2>8, LenProperties
  <2>10. front \in Seq(Bytes)
    BY <1>1, <2>9, Tuples
  <2>11. QED
    BY <2>3, <2>4, <2>7, <2>10
<1>4. mark \in Seq(Bytes) /\ Len(mark) = 1 /\ mark[1] = 128
  BY DEF Bytes
<1>5. Marked(r) = front \o mark
  BY DEF Marked
<1> HIDE DEF front, mark
<1>6. front \o mark \in Seq(Bytes) /\ IsJoin(front \o mark, front, mark)
  BY <1>3, <1>4, Appended
<1>7. /\ Len(front \o mark) = r + 1 /\ (front \o mark)[r + 1] = 128
      /\ \A x \in 1 .. r : (front \o mark)[x] = message[Compressed + x]
  <2>1. Len(front \o mark) = Len(front) + Len(mark)
    BY <1>6 DEF IsJoin
  <2>2. (front \o mark)[Len(front) + 1] = mark[1]
    BY <1>4, <1>6 DEF IsJoin
  <2>3. \A x \in 1 .. r : (front \o mark)[x] = front[x]
    BY <1>3, <1>6 DEF IsJoin
  <2>4. QED
    BY <1>3, <1>4, <2>1, <2>2, <2>3
<1>8. IsMarked(front \o mark, r)
  BY <1>6, <1>7 DEF IsMarked
<1>9. QED
  BY <1>2, <1>5, <1>8 DEF r

\* The marked bytes filled up with the end of another block.
LEMMA FilledUp ==
  ASSUME NEW r \in 0 .. HashBlock - 1, NEW s \in Seq(Bytes), Len(s) = r + 1,
         NEW t \in Seq(Bytes), Len(t) = HashBlock - (r + 1)
  PROVE  /\ s \o t \in BlockType
         /\ \A x \in 1 .. r + 1 : (s \o t)[x] = s[x]
         /\ \A x \in r + 2 .. HashBlock : (s \o t)[x] = t[x - (r + 1)]
<1>1. s \o t \in Seq(Bytes) /\ IsJoin(s \o t, s, t)
  BY Appended
<1>2. HashBlock \in Nat /\ r \in Nat /\ r < HashBlock
  BY Sizes
<1>3. Len(s \o t) = HashBlock
  BY <1>1, <1>2 DEF IsJoin
<1>4. s \o t \in BlockType
  BY <1>1, <1>3, LenProperties DEF BlockType
<1>5. ASSUME NEW x \in r + 2 .. HashBlock PROVE (s \o t)[x] = t[x - (r + 1)]
  <2>1. x - (r + 1) \in 1 .. Len(t) /\ Len(s) + (x - (r + 1)) = x
    BY <1>2
  <2>2. (s \o t)[Len(s) + (x - (r + 1))] = t[x - (r + 1)]
    BY <1>1, <2>1 DEF IsJoin
  <2>3. QED
    BY <2>1, <2>2
<1>6. \A x \in 1 .. r + 1 : (s \o t)[x] = s[x]
  BY <1>1 DEF IsJoin
<1>7. QED
  BY <1>4, <1>5, <1>6

LEMMA HashFinalInv ==
  ASSUME CtxInv, Ctx!HashFinal
  PROVE  /\ CtxInv' /\ message' = message /\ ctxPc' = "idle" /\ uses' = uses
         /\ digest' = Ctx!PaddedBlocks(message) /\ message \in Seq(Bytes)
<1> DEFINE r == count - Compressed
           q == Len(state)
           tail == TailBlock(count)
           closed == Marked(r) \o SubSeq(tail, r + 2, HashBlock)
           extra == Marked(r) \o Ctx!Zeros(HashBlock - (r + 1))
           blocks == Ctx!PaddedBlocks(message)
           whole == Padded(message, r)
<1>1. CtxTypes /\ RestIsDue /\ ConsumedIsKept /\ ctxPc = "ready"
  BY DEF Ctx!HashFinal, CtxInv
<1>2. /\ Compressed \in Nat /\ q \in Nat /\ count % HashBlock = r /\ r \in 0 .. HashBlock - 1
      /\ r \in Nat /\ r < HashBlock
  BY <1>1, NextPlace, Sizes
<1>3. /\ HashBlock \in Nat \ {0} /\ count \in Nat /\ count = HashBlock * q + r
      /\ Compressed = HashBlock * q /\ LengthWidth \in Nat \ {0} /\ LengthWidth < HashBlock
  BY <1>1, <1>2, Sizes DEF CtxTypes, Compressed
<1>4. /\ IsMarked(Marked(r), r) /\ count = Len(message) /\ message \in Seq(Bytes)
  BY <1>1, MarkedFront DEF CtxTypes
<1>5. IF r + 1 > HashBlock - LengthWidth
      THEN state' = Append(Append(state, extra), tail) /\ buffer' = tail
      ELSE state' = Append(state, closed) /\ buffer' = closed
  <2>1. ((count % HashBlock) + 1) - 1 = r /\ ((count % HashBlock) + 1) = r + 1
        /\ (r + 1) + 1 = r + 2
    BY <1>2
  <2>2. /\ Marked(r) = SubSeq(buffer, 1, ((count % HashBlock) + 1) - 1) \o <<128>>
        /\ tail = Ctx!Zeros(Ctx!LengthStart) \o Ctx!LengthField(count)
    BY <2>1 DEF Marked, TailBlock
  <2>3. IF Ctx!NeedsExtraBlock(r + 1)
        THEN state' = Append(Append(state, extra), tail) /\ buffer' = tail
        ELSE state' = Append(state, closed) /\ buffer' = closed
    BY <2>1, <2>2 DEF Ctx!HashFinal, Ctx!Compress
  <2>4. QED
    BY <2>3 DEF Ctx!NeedsExtraBlock, Ctx!LengthStart
<1>6. /\ digest' = state' /\ ctxPc' = "idle" /\ UNCHANGED <<count, ctxData, i, message, uses>>
  BY DEF Ctx!HashFinal
<1>7. PaddedAsBlocks(message, q, r, whole)
  BY <1>2, <1>3, <1>4, PaddedEnd
<1>8. /\ blocks \in Seq(BlockType) /\ Len(blocks) = q + BlocksBehind(r)
      /\ \A b \in 1 .. q + BlocksBehind(r) : \A x \in 1 .. HashBlock :
           blocks[b][x] = whole[HashBlock * (b - 1) + x]
  <2>1. AreBlocksOf(blocks, whole, q + BlocksBehind(r))
    BY <1>2, <1>3, <1>4, PaddedCut
  <2> HIDE DEF blocks, whole, q, r
  <2>2. QED
    BY <2>1 DEF AreBlocksOf
<1>9. state \in Seq(BlockType)
      /\ \A b \in 1 .. q : \A x \in 1 .. HashBlock :
           state[b][x] = message[HashBlock * (b - 1) + x]
  BY <1>1 DEF CtxTypes, ConsumedIsKept
<1>10. /\ tail \in Seq(Bytes) /\ Len(tail) = HashBlock /\ tail \in BlockType
  BY <1>3, TailCells
<1>11. Marked(r) \in Seq(Bytes) /\ Len(Marked(r)) = r + 1
  BY <1>4 DEF IsMarked
<1>12. ASSUME NEW x \in 1 .. r + 1 PROVE Marked(r)[x] = whole[HashBlock * q + x]
  <2>1. CASE x = r + 1
    BY <1>4, <1>7, <2>1 DEF IsMarked, PaddedAsBlocks
  <2>2. CASE x # r + 1
    <3>1. x \in 1 .. r
      BY <1>2, <2>2
    <3>2. Marked(r)[x] = message[Compressed + x]
      BY <1>4, <3>1 DEF IsMarked
    <3>3. whole[HashBlock * q + x] = message[HashBlock * q + x]
      BY <1>7, <3>1 DEF PaddedAsBlocks
    <3>4. QED
      BY <1>3, <3>2, <3>3
  <2>3. QED
    BY <2>1, <2>2
<1>13. ASSUME NEW b \in 1 .. q, NEW x \in 1 .. HashBlock
       PROVE  state[b][x] = whole[HashBlock * (b - 1) + x]
  <2>1. whole[HashBlock * (b - 1) + x] = message[HashBlock * (b - 1) + x]
    BY <1>7 DEF PaddedAsBlocks
  <2>2. QED
    BY <1>9, <2>1
<1>14. BlocksBehind(r) = IF r + 1 > HashBlock - LengthWidth THEN 2 ELSE 1
  BY <1>2, <1>3 DEF BlocksBehind
<1> HIDE DEF r, q, tail, blocks, whole
<1>15. CASE r + 1 > HashBlock - LengthWidth
  <2>1. state' = Append(Append(state, extra), tail) /\ buffer' = tail /\ BlocksBehind(r) = 2
    BY <1>5, <1>14, <1>15
  <2>2. /\ extra \in BlockType
        /\ \A x \in 1 .. r + 1 : extra[x] = Marked(r)[x]
        /\ \A x \in r + 2 .. HashBlock : extra[x] = 0
    <3> DEFINE zeros == Ctx!Zeros(HashBlock - (r + 1))
    <3>1. HashBlock - (r + 1) \in Nat
      BY <1>2, <1>3
    <3>2. /\ zeros \in Seq(Bytes) /\ Len(zeros) = HashBlock - (r + 1)
          /\ \A x \in 1 .. HashBlock - (r + 1) : zeros[x] = 0
      BY <3>1, ZeroBytes
    <3> HIDE DEF zeros
    <3>3. /\ Marked(r) \o zeros \in BlockType
          /\ \A x \in 1 .. r + 1 : (Marked(r) \o zeros)[x] = Marked(r)[x]
          /\ \A x \in r + 2 .. HashBlock : (Marked(r) \o zeros)[x] = zeros[x - (r + 1)]
      BY <1>2, <1>11, <3>2, FilledUp
    <3>4. \A x \in r + 2 .. HashBlock : x - (r + 1) \in 1 .. HashBlock - (r + 1)
      BY <1>2, <1>3
    <3>5. QED
      BY <3>2, <3>3, <3>4 DEF zeros
  <2> HIDE DEF extra
  <2> DEFINE once == Append(state, extra)
  <2>3. /\ once \in Seq(BlockType) /\ Len(once) = q + 1
        /\ \A b \in 1 .. q : once[b] = state[b]
        /\ once[q + 1] = extra
    BY <1>9, <2>2, AppendProperties DEF q
  <2> HIDE DEF once
  <2>4. /\ state' \in Seq(BlockType) /\ Len(state') = (q + 1) + 1
        /\ \A b \in 1 .. q + 1 : state'[b] = once[b]
        /\ state'[(q + 1) + 1] = tail
    <3>1. state' = Append(once, tail)
      BY <2>1 DEF once
    <3>2. QED
      BY <1>10, <2>3, <3>1, AppendProperties
  <2>5. ASSUME NEW b \in 1 .. q + 2, NEW x \in 1 .. HashBlock
        PROVE  state'[b][x] = whole[HashBlock * (b - 1) + x]
    <3>1. CASE b \in 1 .. q
      <4>1. b \in 1 .. q + 1 /\ state'[b] = state[b]
        BY <1>2, <2>3, <2>4, <3>1
      <4>2. QED
        BY <1>13, <3>1, <4>1
    <3>2. CASE b = q + 1
      <4>1. state'[b] = extra /\ b - 1 = q
        BY <1>2, <2>3, <2>4, <3>2
      <4>2. extra[x] = whole[HashBlock * q + x]
        <5>1. CASE x \in 1 .. r + 1
          BY <1>12, <2>2, <5>1
        <5>2. CASE x \in r + 2 .. HashBlock
          BY <1>7, <2>1, <2>2, <5>2 DEF PaddedAsBlocks
        <5>3. QED
          BY <1>2, <1>3, <5>1, <5>2
      <4>3. QED
        BY <4>1, <4>2
    <3>3. CASE b = q + 2
      <4>1. state'[b] = tail /\ b - 1 = q + 1
        BY <1>2, <2>4, <3>3
      <4>2. whole[HashBlock * (q + 1) + x] = tail[x]
        BY <1>4, <1>7, <2>1 DEF PaddedAsBlocks, tail
      <4>3. QED
        BY <4>1, <4>2
    <3>4. QED
      BY <1>2, <3>1, <3>2, <3>3
  <2>6. Len(state') = q + 2 /\ Len(blocks) = q + 2
    BY <1>2, <1>8, <2>1, <2>4
  <2>7. \A b \in 1 .. Len(state') : \A x \in 1 .. HashBlock : state'[b][x] = blocks[b][x]
    BY <1>8, <2>1, <2>5, <2>6
  <2>8. state' = blocks
    BY <1>8, <2>4, <2>6, <2>7, SameBlocks
  <2>9. buffer' \in BlockType
    BY <1>10, <2>1
  <2>10. QED
    BY <1>1, <1>3, <1>4, <1>6, <2>4, <2>8, <2>9
    DEF CtxInv, CtxTypes, BlockType, blocks
<1>16. CASE ~(r + 1 > HashBlock - LengthWidth)
  <2>1. state' = Append(state, closed) /\ buffer' = closed /\ BlocksBehind(r) = 1
    BY <1>5, <1>14, <1>16
  <2>2. /\ closed \in BlockType
        /\ \A x \in 1 .. r + 1 : closed[x] = Marked(r)[x]
        /\ \A x \in r + 2 .. HashBlock : closed[x] = tail[x]
    <3> DEFINE rest == SubSeq(tail, r + 2, HashBlock)
               a0 == r + 1
    <3>1. a0 \in Nat /\ a0 <= HashBlock /\ HashBlock \in Nat /\ a0 + 1 = r + 2
      BY <1>2, <1>3
    <3> HIDE DEF a0
    <3>2. /\ SubSeq(tail, a0 + 1, HashBlock) \in Seq(Bytes)
          /\ Len(SubSeq(tail, a0 + 1, HashBlock)) = HashBlock - a0
          /\ \A x \in 1 .. HashBlock - a0 : SubSeq(tail, a0 + 1, HashBlock)[x] = tail[a0 + x]
      BY <1>10, <3>1, Slices
    <3>3. /\ rest \in Seq(Bytes) /\ Len(rest) = HashBlock - (r + 1)
          /\ \A x \in 1 .. HashBlock - a0 : rest[x] = tail[a0 + x]
      BY <3>1, <3>2 DEF a0
    <3> HIDE DEF rest
    <3>4. /\ Marked(r) \o rest \in BlockType
          /\ \A x \in 1 .. r + 1 : (Marked(r) \o rest)[x] = Marked(r)[x]
          /\ \A x \in r + 2 .. HashBlock : (Marked(r) \o rest)[x] = rest[x - (r + 1)]
      BY <1>2, <1>11, <3>3, FilledUp
    <3>5. \A x \in r + 2 .. HashBlock : x - a0 \in 1 .. HashBlock - a0 /\ a0 + (x - a0) = x
      BY <1>2, <1>3 DEF a0
    <3>6. \A x \in r + 2 .. HashBlock : rest[x - a0] = tail[x]
      BY <3>3, <3>5
    <3>7. QED
      BY <3>4, <3>6 DEF rest, a0
  <2> HIDE DEF closed
  <2>4. /\ state' \in Seq(BlockType) /\ Len(state') = q + 1
        /\ \A b \in 1 .. q : state'[b] = state[b]
        /\ state'[q + 1] = closed
    BY <1>9, <2>1, <2>2, AppendProperties DEF q
  <2>5. ASSUME NEW b \in 1 .. q + 1, NEW x \in 1 .. HashBlock
        PROVE  state'[b][x] = whole[HashBlock * (b - 1) + x]
    <3>1. CASE b \in 1 .. q
      <4>1. state'[b] = state[b]
        BY <2>4, <3>1
      <4>2. QED
        BY <1>13, <3>1, <4>1
    <3>2. CASE b = q + 1
      <4>1. state'[b] = closed /\ b - 1 = q
        BY <1>2, <2>4, <3>2
      <4>2. closed[x] = whole[HashBlock * q + x]
        <5>1. CASE x \in 1 .. r + 1
          BY <1>12, <2>2, <5>1
        <5>2. CASE x \in r + 2 .. HashBlock
          <6>1. whole[HashBlock * q + x] = tail[x]
            BY <1>4, <1>7, <2>1, <5>2 DEF PaddedAsBlocks, tail
          <6>2. QED
            BY <2>2, <5>2, <6>1
        <5>3. QED
          BY <1>2, <1>3, <5>1, <5>2
      <4>3. QED
        BY <4>1, <4>2
    <3>3. QED
      BY <1>2, <3>1, <3>2
  <2>6. Len(state') = q + 1 /\ Len(blocks) = q + 1
    BY <1>8, <2>1, <2>4
  <2>7. \A b \in 1 .. Len(state') : \A x \in 1 .. HashBlock : state'[b][x] = blocks[b][x]
    BY <1>8, <2>1, <2>5, <2>6
  <2>8. state' = blocks
    BY <1>8, <2>4, <2>6, <2>7, SameBlocks
  <2>9. buffer' \in BlockType
    BY <2>1, <2>2
  <2>10. QED
    BY <1>1, <1>3, <1>4, <1>6, <2>4, <2>8, <2>9
    DEF CtxInv, CtxTypes, BlockType, blocks
<1>17. QED
  BY <1>15, <1>16

-----------------------------------------------------------------------------
(* hmac_compute: what has been fed at each of its steps *)

Keyed == {"inner_init", "inner_pad", "inner_data", "inner_digest",
          "outer_init", "outer_pad", "outer_data", "outer_digest"}

Outer == {"outer_init", "outer_pad", "outer_data", "outer_digest"}

Stages == {"idle", "key_block", "key_hash", "key_digest"} \cup Keyed

Shortened(password) == IF Len(password) > HashBlock THEN Hash(password) ELSE password

HmacTypes ==
  /\ at \in Stages
  /\ key \in Seq(Bytes) /\ argument \in Seq(Bytes)
  /\ from \in Places /\ to \in Places
  /\ memory \in [Places -> Seq(Bytes)]
  /\ keyBlock # <<>> => keyBlock \in BlockType /\ Len(keyBlock) = HashBlock
  /\ innerHash # <<>> => innerHash \in Seq(Bytes) /\ Len(innerHash) = DigestSize

KdfTypes ==
  /\ job \in Jobs
  /\ tag \in {"ENC", "MAC"}
  /\ blockNum \in Nat
  /\ job.kind = "hash" => at = "idle"

\* The key block and the inner hash are what they have to be.
KeyedRight ==
  /\ at \in Keyed => keyBlock = ZeroFilled(Shortened(key))
  /\ at \in Outer => innerHash = Hash(Ipad \o argument)

\* What hash_update has been given.
FedSoFar ==
  /\ at \in {"key_hash", "inner_pad", "outer_pad"} => message = <<>>
  /\ at = "key_digest" => message = key
  /\ at = "inner_data" => message = Ipad
  /\ at = "inner_digest" => message = Ipad \o argument
  /\ at = "outer_data" => message = Opad
  /\ at = "outer_digest" => message = Opad \o innerHash

HmacInv ==
  /\ at # "idle" => memory[from] = argument
  /\ at \in {"key_hash", "key_digest"} => Len(key) > HashBlock
  /\ KeyedRight
  /\ FedSoFar
  /\ HmacIsRfc2104

KdfInv == CtxInv /\ HmacTypes /\ KdfTypes /\ HmacInv

\* What the theorems assume of the compression function: a digest is bytes.
SqueezeGivesDigest ==
  \A blocks \in Seq(BlockType) : Squeeze(blocks) \in [1 .. DigestSize -> Bytes]

LEMMA PaddedIsBlocks ==
  ASSUME NEW text \in Seq(Bytes)
  PROVE  Ctx!PaddedBlocks(text) \in Seq(BlockType)
<1> DEFINE q == Len(text) \div HashBlock
           r == Len(text) % HashBlock
<1>1. Len(text) \in Nat /\ HashBlock \in Nat \ {0}
  BY LenProperties, Sizes
<1>2. q \in Nat /\ r \in 0 .. HashBlock - 1 /\ Len(text) = HashBlock * q + r
  <2> DEFINE n == Len(text)
  <2>1. n \in Nat
    BY <1>1
  <2> HIDE DEF n
  <2>2. n \div HashBlock \in Nat
    BY <1>1, <2>1
  <2>3. n % HashBlock \in 0 .. HashBlock - 1
    BY <1>1, <2>1
  <2>4. n = HashBlock * (n \div HashBlock) + (n % HashBlock)
    BY <1>1, <2>1
  <2>5. QED
    BY <2>2, <2>3, <2>4 DEF n
<1> HIDE DEF q, r
<1>3. QED
  BY <1>2, PaddedCut DEF AreBlocksOf

LEMMA SqueezeType ==
  ASSUME SqueezeGivesDigest, NEW text \in Seq(Bytes)
  PROVE  /\ Squeeze(Ctx!PaddedBlocks(text)) \in Seq(Bytes)
         /\ Len(Squeeze(Ctx!PaddedBlocks(text))) = DigestSize
         /\ Hash(text) = Squeeze(Ctx!PaddedBlocks(text))
<1>1. Ctx!PaddedBlocks(text) \in Seq(BlockType)
  BY PaddedIsBlocks
<1>2. Squeeze(Ctx!PaddedBlocks(text)) \in [1 .. DigestSize -> Bytes]
  BY <1>1 DEF SqueezeGivesDigest
<1>3. DigestSize \in Nat
  BY Sizes
<1>4. QED
  BY <1>2, <1>3, Tuples DEF Hash

LEMMA ZeroFilledIs ==
  ASSUME NEW s \in Seq(Bytes), Len(s) <= HashBlock
  PROVE  /\ ZeroFilled(s) \in BlockType /\ Len(ZeroFilled(s)) = HashBlock
         /\ \A x \in 1 .. HashBlock :
              ZeroFilled(s)[x] = IF x <= Len(s) THEN s[x] ELSE 0
<1> DEFINE rest == HashBlock - Len(s)
           zeros == [k \in 1 .. rest |-> 0]
<1>1. rest \in Nat /\ Len(s) \in Nat /\ HashBlock \in Nat /\ HashBlock - Len(s) = rest
  BY Sizes, LenProperties
<1>2. ZeroFilled(s) = s \o zeros
  BY DEF ZeroFilled
<1> HIDE DEF rest
<1>3. zeros \in Seq(Bytes) /\ Len(zeros) = rest /\ \A x \in 1 .. rest : zeros[x] = 0
  <2>1. zeros \in [1 .. rest -> Bytes] /\ \A x \in 1 .. rest : zeros[x] = 0
    BY DEF Bytes
  <2>2. QED
    BY <1>1, <2>1, Tuples
<1> HIDE DEF zeros
<1>4. s \o zeros \in Seq(Bytes) /\ IsJoin(s \o zeros, s, zeros)
  BY <1>3, Appended
<1>5. Len(s \o zeros) = HashBlock
  BY <1>1, <1>3, <1>4 DEF IsJoin
<1>6. s \o zeros \in BlockType
  BY <1>4, <1>5, LenProperties DEF BlockType
<1>7. ASSUME NEW x \in 1 .. HashBlock
      PROVE  (s \o zeros)[x] = IF x <= Len(s) THEN s[x] ELSE 0
  <2>1. CASE x <= Len(s)
    <3>1. x \in 1 .. Len(s)
      BY <1>1, <2>1
    <3>2. QED
      BY <1>4, <2>1, <3>1 DEF IsJoin
  <2>2. CASE ~(x <= Len(s))
    <3> DEFINE y == x - Len(s)
    <3>1. y \in 1 .. rest /\ Len(s) + y = x
      BY <1>1, <2>2
    <3> HIDE DEF y
    <3>2. (s \o zeros)[Len(s) + y] = zeros[y]
      BY <1>3, <1>4, <3>1 DEF IsJoin
    <3>3. QED
      BY <1>3, <2>2, <3>1, <3>2
  <2>3. QED
    BY <2>1, <2>2
<1>8. QED
  BY <1>2, <1>5, <1>6, <1>7

LEMMA PadType ==
  ASSUME keyBlock \in BlockType
  PROVE  Ipad \in Seq(Bytes) /\ Opad \in Seq(Bytes)
<1>1. ASSUME NEW constant \in Bytes PROVE Pad(constant) \in Seq(Bytes)
  <2>1. \A k \in 1 .. HashBlock : ByteXor(keyBlock[k], constant) \in Bytes
    BY ByteXorAssumption DEF BlockType, Bytes
  <2>2. Pad(constant) \in [1 .. HashBlock -> Bytes]
    BY <2>1 DEF Pad
  <2>3. QED
    BY <2>2, Sizes, Tuples
<1>2. 54 \in Bytes /\ 92 \in Bytes
  BY DEF Bytes
<1>3. QED
  BY <1>1, <1>2 DEF Ipad, Opad

LEMMA ShortenedType ==
  ASSUME SqueezeGivesDigest, NEW password \in Seq(Bytes)
  PROVE  Shortened(password) \in Seq(Bytes) /\ Len(Shortened(password)) <= HashBlock
<1>1. CASE Len(password) > HashBlock
  BY <1>1, SqueezeType, Sizes DEF Shortened
<1>2. CASE ~(Len(password) > HashBlock)
  BY <1>2, LenProperties, Sizes DEF Shortened
<1>3. QED
  BY <1>1, <1>2

\* With the key block in place, the pads are those of RFC 2104.
LEMMA PadsOfKey ==
  ASSUME SqueezeGivesDigest, key \in Seq(Bytes), keyBlock = ZeroFilled(Shortened(key)), NEW text
  PROVE  HmacOf(key, text) = Hash(Opad \o Hash(Ipad \o text))
<1> DEFINE short == Shortened(key)
           padded(constant) ==
             [k \in 1 .. HashBlock |->
               ByteXor(IF k <= Len(short) THEN short[k] ELSE 0, constant)]
<1>1. \A k \in 1 .. HashBlock : keyBlock[k] = IF k <= Len(short) THEN short[k] ELSE 0
  BY ShortenedType, ZeroFilledIs
<1>2. ASSUME NEW constant PROVE Pad(constant) = padded(constant)
  BY <1>1 DEF Pad
<1>3. Ipad = padded(54) /\ Opad = padded(92)
  BY <1>2 DEF Ipad, Opad
<1>4. HmacOf(key, text) = Hash(padded(92) \o Hash(padded(54) \o text))
  BY Zenon DEF HmacOf, Shortened
<1>5. QED
  BY <1>3, <1>4, Zenon

-----------------------------------------------------------------------------
(* The steps of hmac_compute *)

LEMMA PadsStay ==
  ASSUME keyBlock' = keyBlock
  PROVE  Ipad' = Ipad /\ Opad' = Opad
BY Zenon DEF Ipad, Opad, Pad

\* A step inside hmac_compute that leaves the caller's memory alone.
Inside(next) ==
  /\ at # "idle" /\ at' = next /\ next # "idle" /\ next \in Stages
  /\ UNCHANGED <<key, from, to, memory, argument, job, tag, blockNum>>

LEMMA InsideTypes ==
  ASSUME KdfInv, NEW next, Inside(next),
         keyBlock' # <<>> => keyBlock' \in BlockType /\ Len(keyBlock') = HashBlock,
         innerHash' # <<>> => innerHash' \in Seq(Bytes) /\ Len(innerHash') = DigestSize
  PROVE  HmacTypes' /\ KdfTypes' /\ memory'[from'] = argument' /\ HmacIsRfc2104'
<1>1. HmacTypes /\ KdfTypes /\ memory[from] = argument
  BY DEF KdfInv, HmacInv, Inside
<1>2. HmacTypes'
  BY <1>1 DEF HmacTypes, Inside
<1>3. KdfTypes'
  BY <1>1 DEF KdfTypes, Inside
<1>4. HmacIsRfc2104'
  BY DEF HmacIsRfc2104, Inside
<1>5. QED
  BY <1>1, <1>2, <1>3, <1>4 DEF Inside

LEMMA GotoIsInside ==
  ASSUME NEW next, at # "idle", Goto(next), next # "idle", next \in Stages, UNCHANGED kdfVars
  PROVE  Inside(next)
BY DEF Inside, Goto, kdfVars, callVars

LEMMA KeyBlockKept ==
  ASSUME HmacTypes, keyBlock' = keyBlock
  PROVE  keyBlock' # <<>> => keyBlock' \in BlockType /\ Len(keyBlock') = HashBlock
BY DEF HmacTypes

LEMMA InnerHashKept ==
  ASSUME HmacTypes, innerHash' = innerHash
  PROVE  innerHash' # <<>> => innerHash' \in Seq(Bytes) /\ Len(innerHash') = DigestSize
BY DEF HmacTypes

LEMMA ShortKeyInv ==
  ASSUME SqueezeGivesDigest, KdfInv, ShortKey, UNCHANGED kdfVars
  PROVE  KdfInv'
<1>1. /\ at = "key_block" /\ ~(Len(key) > HashBlock) /\ keyBlock' = ZeroFilled(key)
      /\ Goto("inner_init") /\ innerHash' = innerHash /\ UNCHANGED ctxVars
  <2>1. HmacTypes
    BY DEF KdfInv
  <2>2. Len(key) \in Nat /\ HashBlock \in Nat
    BY <2>1, Sizes, LenProperties DEF HmacTypes
  <2>3. QED
    BY <2>2 DEF ShortKey
<1>2. CtxInv'
  BY <1>1, CtxStays DEF KdfInv
<1>3. Inside("inner_init") /\ at' = "inner_init" /\ key' = key
  <2>1. Inside("inner_init")
    BY <1>1, GotoIsInside DEF Stages, Keyed
  <2>2. QED
    BY <2>1 DEF Inside
<1>4. Shortened(key) = key /\ key \in Seq(Bytes) /\ Len(key) <= HashBlock
  BY <1>1, Sizes, LenProperties DEF KdfInv, HmacTypes, Shortened
<1>5. keyBlock' \in BlockType /\ Len(keyBlock') = HashBlock
  BY <1>1, <1>4, ZeroFilledIs
<1>6. HmacTypes' /\ KdfTypes' /\ memory'[from'] = argument' /\ HmacIsRfc2104'
  BY <1>1, <1>3, <1>5, InsideTypes, InnerHashKept DEF KdfInv
<1>7. keyBlock' = ZeroFilled(Shortened(key'))
  BY <1>1, <1>3, <1>4
<1>8. HmacInv'
  BY <1>3, <1>6, <1>7 DEF HmacInv, KeyedRight, FedSoFar, Outer
<1>9. QED
  BY <1>2, <1>6, <1>8 DEF KdfInv

LEMMA LongKeyInv ==
  ASSUME SqueezeGivesDigest, KdfInv, LongKey, UNCHANGED kdfVars
  PROVE  KdfInv'
<1>1. /\ at = "key_block" /\ Len(key) > HashBlock /\ Ctx!HashInit /\ Goto("key_hash")
      /\ keyBlock' = keyBlock /\ innerHash' = innerHash
  BY DEF LongKey
<1>2. CtxInv' /\ message' = <<>>
  BY <1>1, HashInitInv DEF KdfInv, Ctx!HashInit
<1>3. Inside("key_hash") /\ at' = "key_hash" /\ key' = key
  <2>1. Inside("key_hash")
    BY <1>1, GotoIsInside DEF Stages, Keyed
  <2>2. QED
    BY <2>1 DEF Inside
<1>4. HmacTypes' /\ KdfTypes' /\ memory'[from'] = argument' /\ HmacIsRfc2104'
  BY <1>1, <1>3, InsideTypes, InnerHashKept, KeyBlockKept DEF KdfInv
<1>5. HmacInv'
  BY <1>1, <1>2, <1>3, <1>4 DEF HmacInv, KeyedRight, FedSoFar, Outer, Keyed
<1>6. QED
  BY <1>2, <1>4, <1>5 DEF KdfInv

LEMMA LongKeyDigestInv ==
  ASSUME SqueezeGivesDigest, KdfInv, LongKeyDigest, UNCHANGED kdfVars
  PROVE  KdfInv'
<1>1. /\ at = "key_digest" /\ Ctx!HashFinal /\ keyBlock' = ZeroFilled(Squeeze(digest'))
      /\ Goto("inner_init") /\ innerHash' = innerHash
  BY DEF LongKeyDigest
<1>2. CtxInv' /\ digest' = Ctx!PaddedBlocks(message)
  BY <1>1, HashFinalInv DEF KdfInv
<1>3. Inside("inner_init") /\ at' = "inner_init" /\ key' = key
  <2>1. Inside("inner_init")
    BY <1>1, GotoIsInside DEF Stages, Keyed
  <2>2. QED
    BY <2>1 DEF Inside
<1>4. message = key /\ Len(key) > HashBlock /\ key \in Seq(Bytes)
  BY <1>1 DEF KdfInv, HmacInv, FedSoFar, HmacTypes
<1>5. Squeeze(digest') = Shortened(key)
  BY <1>2, <1>4, SqueezeType DEF Shortened
<1>6. Shortened(key) \in Seq(Bytes) /\ Len(Shortened(key)) <= HashBlock
  BY <1>4, ShortenedType
<1>7. keyBlock' = ZeroFilled(Shortened(key'))
  BY <1>1, <1>3, <1>5
<1>8. keyBlock' \in BlockType /\ Len(keyBlock') = HashBlock
  BY <1>1, <1>5, <1>6, ZeroFilledIs
<1>9. HmacTypes' /\ KdfTypes' /\ memory'[from'] = argument' /\ HmacIsRfc2104'
  BY <1>1, <1>3, <1>8, InsideTypes, InnerHashKept DEF KdfInv
<1>10. HmacInv'
  BY <1>3, <1>7, <1>9 DEF HmacInv, KeyedRight, FedSoFar, Outer
<1>11. QED
  BY <1>2, <1>9, <1>10 DEF KdfInv

\* A call on the context that stores nothing.
LEMMA ContextCall ==
  ASSUME KdfInv, NEW next, Goto(next), next # "idle", next \in Stages, at # "idle",
         UNCHANGED <<keyBlock, innerHash>>, UNCHANGED kdfVars,
         next \in Keyed => at \in Keyed, next \in Outer => at \in Outer,
         next \in {"key_hash", "key_digest"} => Len(key) > HashBlock,
         CtxInv', FedSoFar'
  PROVE  KdfInv'
<1>1. Inside(next)
  BY GotoIsInside
<1>2. HmacTypes' /\ KdfTypes' /\ memory'[from'] = argument' /\ HmacIsRfc2104'
  BY <1>1, InsideTypes, InnerHashKept, KeyBlockKept DEF KdfInv
<1>3. /\ at' = next /\ key' = key /\ argument' = argument /\ keyBlock' = keyBlock
      /\ innerHash' = innerHash /\ Ipad' = Ipad
  BY <1>1, PadsStay DEF Inside
<1>4. KeyedRight
  BY DEF KdfInv, HmacInv
<1>5. KeyedRight'
  BY <1>3, <1>4 DEF KeyedRight
<1>6. HmacInv'
  BY <1>2, <1>3, <1>5 DEF HmacInv
<1>7. QED
  BY <1>2, <1>6 DEF KdfInv

LEMMA StartInv ==
  ASSUME KdfInv, UNCHANGED kdfVars,
         \/ Start("inner_init", "inner_pad") \/ Start("outer_init", "outer_pad")
  PROVE  KdfInv'
<1>1. ASSUME NEW stage, NEW next, Start(stage, next)
      PROVE  /\ at = stage /\ at' = next /\ Goto(next) /\ UNCHANGED <<keyBlock, innerHash>>
             /\ CtxInv' /\ message' = <<>>
  <2>1. Ctx!HashInit /\ at = stage /\ Goto(next) /\ UNCHANGED <<keyBlock, innerHash>>
    BY <1>1 DEF Start
  <2>2. CtxInv' /\ message' = <<>>
    BY <2>1, HashInitInv DEF KdfInv, Ctx!HashInit
  <2>3. QED
    BY <2>1, <2>2 DEF Goto
<1>2. CASE Start("inner_init", "inner_pad")
  <2>1. /\ at = "inner_init" /\ at' = "inner_pad" /\ Goto("inner_pad")
        /\ UNCHANGED <<keyBlock, innerHash>> /\ CtxInv' /\ message' = <<>>
    BY <1>1, <1>2
  <2>2. FedSoFar'
    BY <2>1 DEF FedSoFar
  <2>3. QED
    BY <2>1, <2>2, ContextCall DEF Stages, Keyed, Outer
<1>3. CASE Start("outer_init", "outer_pad")
  <2>1. /\ at = "outer_init" /\ at' = "outer_pad" /\ Goto("outer_pad")
        /\ UNCHANGED <<keyBlock, innerHash>> /\ CtxInv' /\ message' = <<>>
    BY <1>1, <1>3
  <2>2. FedSoFar'
    BY <2>1 DEF FedSoFar
  <2>3. QED
    BY <2>1, <2>2, ContextCall DEF Stages, Keyed, Outer
<1>4. QED
  BY <1>2, <1>3

\* hash_update has been called with piece.
Fed(stage, piece, next) ==
  /\ at = stage /\ at' = next /\ Goto(next) /\ UNCHANGED <<keyBlock, innerHash>>
  /\ CtxInv' /\ message' = message \o piece

LEMMA FeedStep ==
  ASSUME KdfInv, NEW stage, NEW piece \in Seq(Bytes), NEW next, Feed(stage, piece, next)
  PROVE  Fed(stage, piece, next)
<1>1. at = stage /\ Ctx!HashUpdate(piece) /\ Goto(next) /\ UNCHANGED <<keyBlock, innerHash>>
  BY DEF Feed
<1>2. CtxInv' /\ message' = message \o piece
  BY <1>1, HashUpdateInv DEF KdfInv
<1>3. QED
  BY <1>1, <1>2 DEF Goto, Fed

LEMMA NothingBefore == ASSUME NEW s \in Seq(Bytes) PROVE <<>> \o s = s
BY ConcatEmptySeq

\* The pieces that are fed are bytes.
LEMMA KeyedTypes ==
  ASSUME SqueezeGivesDigest, KdfInv, at \in Keyed
  PROVE  Ipad \in Seq(Bytes) /\ Opad \in Seq(Bytes) /\ keyBlock = ZeroFilled(Shortened(key))
<1>1. key \in Seq(Bytes) /\ keyBlock = ZeroFilled(Shortened(key))
  BY DEF KdfInv, HmacTypes, HmacInv, KeyedRight
<1>2. Shortened(key) \in Seq(Bytes) /\ Len(Shortened(key)) <= HashBlock
  BY <1>1, ShortenedType
<1>3. keyBlock \in BlockType
  BY <1>1, <1>2, ZeroFilledIs
<1>4. QED
  BY <1>1, <1>3, PadType

LEMMA KeyHashInv ==
  ASSUME KdfInv, Feed("key_hash", key, "key_digest"), UNCHANGED kdfVars
  PROVE  KdfInv'
<1>1. key \in Seq(Bytes)
  BY DEF KdfInv, HmacTypes
<1>2. /\ at = "key_hash" /\ at' = "key_digest" /\ Goto("key_digest")
      /\ UNCHANGED <<keyBlock, innerHash>> /\ CtxInv' /\ message' = message \o key
  <2>1. Fed("key_hash", key, "key_digest")
    BY <1>1, FeedStep
  <2>2. QED
    BY <2>1 DEF Fed
<1>3. message = <<>> /\ Len(key) > HashBlock
  BY <1>2 DEF KdfInv, HmacInv, FedSoFar
<1>4. message' = key /\ key' = key
  BY <1>1, <1>2, <1>3, NothingBefore DEF Goto, callVars
<1>5. FedSoFar'
  BY <1>2, <1>4 DEF FedSoFar
<1>6. QED
  BY <1>2, <1>3, <1>5, ContextCall DEF Stages, Keyed, Outer

LEMMA InnerPadInv ==
  ASSUME SqueezeGivesDigest, KdfInv, Feed("inner_pad", Ipad, "inner_data"), UNCHANGED kdfVars
  PROVE  KdfInv'
<1>1. at = "inner_pad" /\ Ipad \in Seq(Bytes)
  BY KeyedTypes DEF Feed, Keyed
<1>2. /\ at' = "inner_data" /\ Goto("inner_data")
      /\ UNCHANGED <<keyBlock, innerHash>> /\ CtxInv' /\ message' = message \o Ipad
  <2>1. Fed("inner_pad", Ipad, "inner_data")
    BY <1>1, FeedStep
  <2>2. QED
    BY <2>1 DEF Fed
<1>3. message = <<>>
  BY <1>1 DEF KdfInv, HmacInv, FedSoFar
<1>4. message' = Ipad /\ Ipad' = Ipad
  BY <1>1, <1>2, <1>3, NothingBefore, PadsStay
<1>5. FedSoFar'
  BY <1>2, <1>4 DEF FedSoFar
<1>6. QED
  BY <1>1, <1>2, <1>5, ContextCall DEF Stages, Keyed, Outer

LEMMA InnerDataInv ==
  ASSUME SqueezeGivesDigest, KdfInv, Feed("inner_data", memory[from], "inner_digest"),
         UNCHANGED kdfVars
  PROVE  KdfInv'
<1>1. /\ at = "inner_data" /\ memory[from] = argument /\ argument \in Seq(Bytes)
      /\ message = Ipad
  BY DEF Feed, KdfInv, HmacInv, HmacTypes, FedSoFar
<1>2. /\ at' = "inner_digest" /\ Goto("inner_digest")
      /\ UNCHANGED <<keyBlock, innerHash>> /\ CtxInv' /\ message' = message \o argument
  <2>1. /\ at' = "inner_digest" /\ Goto("inner_digest") /\ UNCHANGED <<keyBlock, innerHash>>
        /\ CtxInv' /\ message' = message \o memory[from]
    <3>1. Fed("inner_data", memory[from], "inner_digest")
      BY <1>1, FeedStep
    <3>2. QED
      BY <3>1 DEF Fed
  <2>2. QED
    BY <1>1, <2>1
<1>3. message' = Ipad' \o argument'
  BY <1>1, <1>2, PadsStay DEF kdfVars
<1>4. FedSoFar'
  BY <1>2, <1>3 DEF FedSoFar
<1>5. QED
  BY <1>1, <1>2, <1>4, ContextCall DEF Stages, Keyed, Outer

LEMMA OuterPadInv ==
  ASSUME SqueezeGivesDigest, KdfInv, Feed("outer_pad", Opad, "outer_data"), UNCHANGED kdfVars
  PROVE  KdfInv'
<1>1. at = "outer_pad" /\ Opad \in Seq(Bytes)
  BY KeyedTypes DEF Feed, Keyed
<1>2. /\ at' = "outer_data" /\ Goto("outer_data")
      /\ UNCHANGED <<keyBlock, innerHash>> /\ CtxInv' /\ message' = message \o Opad
  <2>1. Fed("outer_pad", Opad, "outer_data")
    BY <1>1, FeedStep
  <2>2. QED
    BY <2>1 DEF Fed
<1>3. message = <<>>
  BY <1>1 DEF KdfInv, HmacInv, FedSoFar
<1>4. message' = Opad /\ Opad' = Opad
  BY <1>1, <1>2, <1>3, NothingBefore, PadsStay
<1>5. FedSoFar'
  BY <1>2, <1>4 DEF FedSoFar
<1>6. QED
  BY <1>1, <1>2, <1>5, ContextCall DEF Stages, Keyed, Outer

\* The inner hash, once it is there.
LEMMA InnerHashType ==
  ASSUME SqueezeGivesDigest, KdfInv, at \in Outer
  PROVE  innerHash \in Seq(Bytes) /\ innerHash = Hash(Ipad \o argument)
<1>1. at \in Keyed /\ innerHash = Hash(Ipad \o argument) /\ argument \in Seq(Bytes)
  BY DEF KdfInv, HmacTypes, HmacInv, KeyedRight, Keyed, Outer
<1>2. Ipad \o argument \in Seq(Bytes)
  BY <1>1, KeyedTypes, Appended
<1>3. QED
  BY <1>1, <1>2, SqueezeType

LEMMA OuterDataInv ==
  ASSUME SqueezeGivesDigest, KdfInv, Feed("outer_data", innerHash, "outer_digest"),
         UNCHANGED kdfVars
  PROVE  KdfInv'
<1>1. /\ at = "outer_data" /\ innerHash \in Seq(Bytes) /\ message = Opad
  BY InnerHashType DEF Feed, KdfInv, HmacInv, FedSoFar, Outer
<1>2. /\ at' = "outer_digest" /\ Goto("outer_digest")
      /\ UNCHANGED <<keyBlock, innerHash>> /\ CtxInv' /\ message' = message \o innerHash
  <2>1. Fed("outer_data", innerHash, "outer_digest")
    BY <1>1, FeedStep
  <2>2. QED
    BY <2>1 DEF Fed
<1>3. message' = Opad' \o innerHash'
  BY <1>1, <1>2, PadsStay
<1>4. FedSoFar'
  BY <1>2, <1>3 DEF FedSoFar
<1>5. QED
  BY <1>1, <1>2, <1>4, ContextCall DEF Stages, Keyed, Outer

LEMMA InnerDigestInv ==
  ASSUME SqueezeGivesDigest, KdfInv, InnerDigest, UNCHANGED kdfVars
  PROVE  KdfInv'
<1>1. /\ at = "inner_digest" /\ Ctx!HashFinal /\ innerHash' = Squeeze(digest')
      /\ Goto("outer_init") /\ keyBlock' = keyBlock
  BY DEF InnerDigest
<1>2. CtxInv' /\ digest' = Ctx!PaddedBlocks(message) /\ message \in Seq(Bytes)
  BY <1>1, HashFinalInv DEF KdfInv
<1>3. Inside("outer_init") /\ at' = "outer_init" /\ key' = key /\ argument' = argument
  <2>1. Inside("outer_init")
    BY <1>1, GotoIsInside DEF Stages, Keyed
  <2>2. QED
    BY <2>1 DEF Inside
<1>4. message = Ipad \o argument /\ keyBlock = ZeroFilled(Shortened(key))
  BY <1>1 DEF KdfInv, HmacInv, FedSoFar, KeyedRight, Keyed
<1>5. /\ innerHash' \in Seq(Bytes) /\ Len(innerHash') = DigestSize
      /\ innerHash' = Hash(message)
  BY <1>1, <1>2, SqueezeType
<1>6. innerHash' = Hash(Ipad' \o argument')
  BY <1>1, <1>3, <1>4, <1>5, PadsStay
<1>7. HmacTypes' /\ KdfTypes' /\ memory'[from'] = argument' /\ HmacIsRfc2104'
  BY <1>1, <1>3, <1>5, InsideTypes, KeyBlockKept DEF KdfInv
<1>8. keyBlock' = ZeroFilled(Shortened(key'))
  BY <1>1, <1>3, <1>4
<1>9. HmacInv'
  BY <1>3, <1>6, <1>7, <1>8 DEF HmacInv, KeyedRight, FedSoFar
<1>10. QED
  BY <1>2, <1>7, <1>9 DEF KdfInv

LEMMA OuterDigestInv ==
  ASSUME SqueezeGivesDigest, KdfInv, OuterDigest, UNCHANGED kdfVars
  PROVE  KdfInv'
<1>1. /\ at = "outer_digest" /\ Ctx!HashFinal
      /\ memory' = [memory EXCEPT ![to] = Squeeze(digest')] /\ at' = "idle"
      /\ UNCHANGED <<key, from, to, keyBlock, innerHash>>
  BY DEF OuterDigest, callVars
<1>2. CtxInv' /\ digest' = Ctx!PaddedBlocks(message) /\ message \in Seq(Bytes)
  BY <1>1, HashFinalInv DEF KdfInv
<1>3. /\ message = Opad \o innerHash /\ keyBlock = ZeroFilled(Shortened(key))
      /\ key \in Seq(Bytes) /\ HmacTypes /\ KdfTypes
  BY <1>1 DEF KdfInv, HmacInv, HmacTypes, FedSoFar, KeyedRight, Keyed
<1>4. innerHash = Hash(Ipad \o argument)
  BY <1>1, InnerHashType DEF Outer
<1>5. /\ Squeeze(digest') \in Seq(Bytes)
      /\ Squeeze(digest') = Hash(Opad \o Hash(Ipad \o argument))
  BY <1>2, <1>3, <1>4, SqueezeType
<1>6. Squeeze(digest') = HmacOf(key, argument)
  BY <1>3, <1>5, PadsOfKey
<1>7. memory'[to'] = HmacOf(key, argument) /\ memory' \in [Places -> Seq(Bytes)]
  BY <1>1, <1>3, <1>5, <1>6 DEF HmacTypes
<1>8. /\ key' = key /\ argument' = argument /\ job' = job /\ tag' = tag
      /\ blockNum' = blockNum
  BY <1>1 DEF kdfVars
<1>9. HmacTypes'
  BY <1>1, <1>3, <1>7, <1>8 DEF HmacTypes, Stages
<1>10. KdfTypes'
  BY <1>1, <1>3, <1>8 DEF KdfTypes
<1>11. HmacIsRfc2104'
  BY <1>7, <1>8 DEF HmacIsRfc2104
<1>12. HmacInv'
  BY <1>1, <1>11 DEF HmacInv, KeyedRight, FedSoFar, Keyed, Outer
<1>13. QED
  BY <1>2, <1>9, <1>10, <1>12 DEF KdfInv

\* A step that leaves hmac_compute where it is, and what was fed.
LEMMA HmacStays ==
  ASSUME HmacInv, HmacTypes, UNCHANGED hmacVars, argument' = argument, message' = message
  PROVE  HmacInv' /\ HmacTypes'
<1>1. UNCHANGED <<at, key, from, to, keyBlock, innerHash, memory>>
  BY DEF hmacVars, callVars
<1>2. HmacTypes' = HmacTypes
  BY <1>1, Zenon DEF HmacTypes
<1>3. Ipad' = Ipad /\ Opad' = Opad
  BY <1>1, PadsStay
<1>4. KeyedRight' = KeyedRight
  BY <1>1, <1>3, Zenon DEF KeyedRight
<1>5. FedSoFar' = FedSoFar
  BY <1>1, <1>3, Zenon DEF FedSoFar
<1>6. HmacIsRfc2104' = HmacIsRfc2104
  BY <1>1, Zenon DEF HmacIsRfc2104
<1>7. QED
  BY <1>1, <1>2, <1>4, <1>5, <1>6 DEF HmacInv

LEMMA InsideUpdateInv ==
  ASSUME KdfInv, InsideUpdate, UNCHANGED kdfVars
  PROVE  KdfInv'
<1>1. CtxInv' /\ message' = message /\ UNCHANGED hmacVars
  BY UpdateChunkInv, UpdateReturnInv DEF InsideUpdate, Ctx!InUpdate, KdfInv
<1>2. /\ argument' = argument /\ job' = job /\ tag' = tag /\ blockNum' = blockNum /\ at' = at
  BY <1>1 DEF kdfVars, hmacVars
<1>3. HmacInv' /\ HmacTypes'
  BY <1>1, <1>2, HmacStays DEF KdfInv
<1>4. KdfTypes'
  BY <1>2 DEF KdfInv, KdfTypes
<1>5. QED
  BY <1>1, <1>3, <1>4 DEF KdfInv

-----------------------------------------------------------------------------
(* The steps of kdf_derive, and the other uses of a context *)

\* Between two calls of hmac_compute the message that was fed is of no account.
LEMMA IdleStays ==
  ASSUME HmacInv, HmacTypes, at = "idle", UNCHANGED hmacVars, argument' = argument
  PROVE  HmacInv' /\ HmacTypes'
<1>1. UNCHANGED <<at, key, from, to, keyBlock, innerHash, memory>>
  BY DEF hmacVars, callVars
<1>2. HmacTypes' = HmacTypes
  BY <1>1, Zenon DEF HmacTypes
<1>3. HmacIsRfc2104' = HmacIsRfc2104
  BY <1>1, Zenon DEF HmacIsRfc2104
<1>4. QED
  BY <1>1, <1>2, <1>3 DEF HmacInv, KeyedRight, FedSoFar, Keyed, Outer

LEMMA HashUseInv ==
  ASSUME KdfInv, HashUse
  PROVE  KdfInv'
<1>1. job.kind = "hash" /\ Ctx!AnyCall /\ UNCHANGED hmacVars /\ UNCHANGED kdfVars
  BY DEF HashUse
<1>2. CtxInv'
  <2>1. CASE Ctx!HashInit
    BY <2>1, HashInitInv DEF KdfInv
  <2>2. ASSUME NEW piece \in Pieces, Ctx!HashUpdate(piece) PROVE CtxInv'
    <3>1. piece \in Seq(Bytes)
      BY Sizes
    <3>2. QED
      BY <2>2, <3>1, HashUpdateInv DEF KdfInv
  <2>3. CASE Ctx!HashFinal
    BY <2>3, HashFinalInv DEF KdfInv
  <2>4. QED
    BY <1>1, <2>1, <2>2, <2>3 DEF Ctx!AnyCall
<1>3. /\ argument' = argument /\ job' = job /\ tag' = tag /\ blockNum' = blockNum
      /\ at' = at /\ at = "idle"
  BY <1>1 DEF kdfVars, hmacVars, KdfInv, KdfTypes
<1>4. HmacInv' /\ HmacTypes'
  BY <1>1, <1>3, IdleStays DEF KdfInv
<1>5. KdfTypes'
  BY <1>3 DEF KdfInv, KdfTypes
<1>6. QED
  BY <1>2, <1>4, <1>5 DEF KdfInv

\* A step of kdf_derive that does not call hmac_compute.
LEMMA QuietStep ==
  ASSUME KdfInv, CallKdf \/ Accumulate \/ CopyBlock \/ StoreKey
  PROVE  KdfInv'
<1>1. /\ at = "idle" /\ UNCHANGED ctxVars /\ UNCHANGED hmacVars
      /\ argument' = argument /\ job' = job
      /\ tag' \in {tag, "MAC"} /\ blockNum' \in {1, blockNum, blockNum + 1}
  BY DEF CallKdf, Accumulate, CopyBlock, StoreKey, Deriving
<1>2. CtxInv'
  BY <1>1, CtxStays DEF KdfInv
<1>3. HmacInv' /\ HmacTypes' /\ at' = at
  BY <1>1, IdleStays DEF KdfInv, hmacVars
<1>4. KdfTypes'
  BY <1>1, <1>3 DEF KdfInv, KdfTypes
<1>5. QED
  BY <1>2, <1>3, <1>4 DEF KdfInv

\* A call of hmac_compute, for a message that lies in memory.
LEMMA CalledHmac ==
  ASSUME KdfInv, UNCHANGED ctxVars, at = "idle", job.kind # "hash", job' = job,
         at' = "key_block", key' \in Seq(Bytes), from' \in Places, to' \in Places,
         memory' \in [Places -> Seq(Bytes)], argument' = memory'[from'],
         UNCHANGED <<keyBlock, innerHash, tag, blockNum>>
  PROVE  KdfInv'
<1>1. CtxInv'
  BY CtxStays DEF KdfInv
<1>2. HmacTypes'
  BY DEF KdfInv, HmacTypes, Stages
<1>3. KdfTypes'
  BY DEF KdfInv, KdfTypes
<1>4. HmacInv'
  BY DEF HmacInv, HmacIsRfc2104, KeyedRight, FedSoFar, Keyed, Outer
<1>5. QED
  BY <1>1, <1>2, <1>3, <1>4 DEF KdfInv

\* The arguments of a job.
LEMMA JobArguments ==
  ASSUME job \in Jobs
  PROVE  /\ job.kind = "context" => /\ job.args.password \in Seq(Bytes)
                                    /\ job.args.salt \in Seq(Bytes)
         /\ job.kind = "mac" => job.args.password \in Seq(Bytes) /\ job.args.data \in Seq(Bytes)
<1>1. CASE job \in [kind : {"context"}, args : Contexts]
  BY <1>1, ArgumentsAssumption DEF Bytes
<1>2. CASE job \in [kind : {"mac"}, args : Macs]
  BY <1>2, ArgumentsAssumption DEF Bytes
<1>3. CASE job = [kind |-> "hash"]
  BY <1>3
<1>4. QED
  BY <1>1, <1>2, <1>3 DEF Jobs

LEMMA SaltBlock ==
  ASSUME KdfTypes, job.kind = "context"
  PROVE  Salt \o Index(blockNum) \in Seq(Bytes)
<1>1. job.args.salt \in Seq(Bytes)
  BY JobArguments DEF KdfTypes
<1>2. TagBytes[tag] \in Seq(Bytes)
  <2>1. <<69, 78, 67>> \in Seq(Bytes)
    BY DEF Bytes
  <2>2. <<77, 65, 67>> \in Seq(Bytes)
    BY DEF Bytes
  <2>3. TagBytes["ENC"] = <<69, 78, 67>> /\ TagBytes["MAC"] = <<77, 65, 67>>
    BY DEF TagBytes
  <2>4. tag = "ENC" \/ tag = "MAC"
    BY DEF KdfTypes
  <2>5. TagBytes["ENC"] \in Seq(Bytes) /\ TagBytes["MAC"] \in Seq(Bytes)
    BY <2>1, <2>2, <2>3, Zenon
  <2>6. QED
    BY <2>4, <2>5, Zenon
<1>3. Salt \in Seq(Bytes)
  BY <1>1, <1>2, ConcatProperties DEF Salt
<1>4. Index(blockNum) \in Seq(Bytes)
  <2>1. IndexWidth \in Nat /\ blockNum \in Nat
    BY KdfAssumption DEF KdfTypes
  <2>2. \A k \in 1 .. IndexWidth : (blockNum \div 256 ^ (IndexWidth - k)) % 256 \in Bytes
    BY <2>1 DEF Bytes
  <2>3. Index(blockNum) \in [1 .. IndexWidth -> Bytes]
    BY <2>2 DEF Index
  <2>4. QED
    BY <2>1, <2>3, Tuples
<1>5. QED
  BY <1>3, <1>4, ConcatProperties

LEMMA FirstHmacInv == ASSUME KdfInv, FirstHmac PROVE KdfInv'
<1>1. /\ job.kind = "context" /\ at = "idle" /\ UNCHANGED ctxVars
      /\ memory' = [memory EXCEPT !["salt_block"] = Salt \o Index(blockNum)]
      /\ at' = "key_block" /\ key' = job.args.password /\ from' = "salt_block" /\ to' = "u"
      /\ argument' = memory'["salt_block"] /\ job' = job
      /\ UNCHANGED <<keyBlock, innerHash, tag, blockNum>>
  BY DEF FirstHmac, Deriving, CallHmac
<1>2. HmacTypes /\ KdfTypes
  BY DEF KdfInv
<1>3. key' \in Seq(Bytes)
  BY <1>1, <1>2, JobArguments DEF KdfTypes
<1>4. Salt \o Index(blockNum) \in Seq(Bytes)
  BY <1>1, <1>2, SaltBlock
<1>5. memory' \in [Places -> Seq(Bytes)]
  BY <1>1, <1>2, <1>4 DEF HmacTypes
<1>6. from' \in Places /\ to' \in Places
  BY <1>1 DEF Places
<1>7. QED
  BY <1>1, <1>3, <1>5, <1>6, CalledHmac

LEMMA NextHmacInv == ASSUME KdfInv, NextHmac PROVE KdfInv'
<1>1. /\ job.kind = "context" /\ at = "idle" /\ UNCHANGED ctxVars /\ memory' = memory
      /\ at' = "key_block" /\ key' = job.args.password /\ from' = "u" /\ to' = "u"
      /\ argument' = memory["u"] /\ job' = job
      /\ UNCHANGED <<keyBlock, innerHash, tag, blockNum>>
  BY DEF NextHmac, Deriving, CallHmac
<1>2. HmacTypes /\ KdfTypes
  BY DEF KdfInv
<1>3. key' \in Seq(Bytes) /\ memory' \in [Places -> Seq(Bytes)]
  BY <1>1, <1>2, JobArguments DEF KdfTypes, HmacTypes
<1>4. from' \in Places /\ to' \in Places
  BY <1>1 DEF Places
<1>5. QED
  BY <1>1, <1>3, <1>4, CalledHmac

LEMMA ComputeMacInv == ASSUME KdfInv, ComputeMac PROVE KdfInv'
<1>1. /\ job.kind = "mac" /\ at = "idle" /\ UNCHANGED ctxVars /\ memory' = memory
      /\ at' = "key_block" /\ key' = job.args.password /\ from' = "data" /\ to' = "digest"
      /\ argument' = memory["data"] /\ job' = job
      /\ UNCHANGED <<keyBlock, innerHash, tag, blockNum>>
  BY DEF ComputeMac, CallHmac
<1>2. HmacTypes /\ KdfTypes
  BY DEF KdfInv
<1>3. key' \in Seq(Bytes) /\ memory' \in [Places -> Seq(Bytes)]
  BY <1>1, <1>2, JobArguments DEF KdfTypes, HmacTypes
<1>4. from' \in Places /\ to' \in Places
  BY <1>1 DEF Places
<1>5. QED
  BY <1>1, <1>3, <1>4, CalledHmac

-----------------------------------------------------------------------------
(* The theorems *)

LEMMA KdfInit == ASSUME Init PROVE KdfInv
<1>1. /\ Ctx!Init /\ at = "idle" /\ key = <<>> /\ from = "data" /\ to = "digest"
      /\ keyBlock = <<>> /\ innerHash = <<>> /\ job \in Jobs /\ tag = "ENC" /\ blockNum = 0
      /\ argument = <<>>
      /\ memory = [place \in Places |->
                    IF place = "data" /\ job.kind = "mac" THEN job.args.data ELSE <<>>]
  BY DEF Init, HmacInit
<1>2. CtxInv
  BY <1>1, CtxInit
<1>3. <<>> \in Seq(Bytes) /\ "data" \in Places /\ "digest" \in Places
  BY DEF Places
<1>4. memory \in [Places -> Seq(Bytes)] /\ memory["digest"] = <<>>
  BY <1>1, <1>3, JobArguments
<1>5. HmacTypes
  BY <1>1, <1>3, <1>4 DEF HmacTypes, Stages
<1>6. KdfTypes
  BY <1>1 DEF KdfTypes
<1>7. HmacInv
  BY <1>1, <1>4 DEF HmacInv, HmacIsRfc2104, KeyedRight, FedSoFar, Keyed, Outer
<1>8. QED
  BY <1>2, <1>5, <1>6, <1>7 DEF KdfInv

LEMMA HmacSteps ==
  ASSUME SqueezeGivesDigest, KdfInv, HmacStep, UNCHANGED kdfVars
  PROVE  KdfInv'
<1>1. CASE ShortKey
  BY <1>1, ShortKeyInv
<1>2. CASE LongKey
  BY <1>2, LongKeyInv
<1>3. CASE Feed("key_hash", key, "key_digest")
  BY <1>3, KeyHashInv
<1>4. CASE LongKeyDigest
  BY <1>4, LongKeyDigestInv
<1>5. CASE Start("inner_init", "inner_pad") \/ Start("outer_init", "outer_pad")
  BY <1>5, StartInv
<1>6. CASE Feed("inner_pad", Ipad, "inner_data")
  BY <1>6, InnerPadInv
<1>7. CASE Feed("inner_data", memory[from], "inner_digest")
  BY <1>7, InnerDataInv
<1>8. CASE InnerDigest
  BY <1>8, InnerDigestInv
<1>9. CASE Feed("outer_pad", Opad, "outer_data")
  BY <1>9, OuterPadInv
<1>10. CASE Feed("outer_data", innerHash, "outer_digest")
  BY <1>10, OuterDataInv
<1>11. CASE OuterDigest
  BY <1>11, OuterDigestInv
<1>12. QED
  BY <1>1, <1>2, <1>3, <1>4, <1>5, <1>6, <1>7, <1>8, <1>9, <1>10, <1>11 DEF HmacStep

LEMMA KdfStays == ASSUME KdfInv, UNCHANGED vars PROVE KdfInv'
<1>1. UNCHANGED ctxVars /\ UNCHANGED hmacVars /\ UNCHANGED kdfVars
  BY DEF vars
<1>2. /\ message' = message /\ argument' = argument /\ job' = job /\ tag' = tag
      /\ blockNum' = blockNum /\ at' = at
  BY <1>1 DEF ctxVars, hmacVars, kdfVars
<1>3. CtxInv'
  BY <1>1, CtxStays DEF KdfInv
<1>4. HmacInv' /\ HmacTypes'
  BY <1>1, <1>2, HmacStays DEF KdfInv
<1>5. KdfTypes'
  BY <1>2 DEF KdfInv, KdfTypes
<1>6. QED
  BY <1>3, <1>4, <1>5 DEF KdfInv

LEMMA KdfNext ==
  ASSUME SqueezeGivesDigest, KdfInv, [Next]_vars
  PROVE  KdfInv'
<1>1. CASE KdfStep
  <2>1. CASE CallKdf \/ Accumulate \/ CopyBlock \/ StoreKey
    BY <2>1, QuietStep
  <2>2. CASE FirstHmac
    BY <2>2, FirstHmacInv
  <2>3. CASE NextHmac
    BY <2>3, NextHmacInv
  <2>4. CASE ComputeMac
    BY <2>4, ComputeMacInv
  <2>5. QED
    BY <1>1, <2>1, <2>2, <2>3, <2>4 DEF KdfStep
<1>2. CASE HmacStep /\ UNCHANGED kdfVars
  BY <1>2, HmacSteps
<1>3. CASE InsideUpdate /\ UNCHANGED kdfVars
  BY <1>3, InsideUpdateInv
<1>4. CASE HashUse
  BY <1>4, HashUseInv
<1>5. CASE UNCHANGED vars
  BY <1>5, KdfStays
<1>6. QED
  BY <1>1, <1>2, <1>3, <1>4, <1>5 DEF Next, Step

LEMMA KdfInvariant == SqueezeGivesDigest => (Spec => []KdfInv)
<1> SUFFICES ASSUME SqueezeGivesDigest PROVE Spec => []KdfInv
  OBVIOUS
<1>1. Init => KdfInv
  BY KdfInit
<1>2. KdfInv /\ [Next]_vars => KdfInv'
  BY KdfNext
<1>3. QED
  BY <1>1, <1>2, PTL DEF Spec

\* The context, the key block and the inner hash keep their types whatever was hashed
\* before, and a message is whole while it is hashed (hash.c:122-199, hmac.c:41-68).
THEOREM KdfTypesHold == SqueezeGivesDigest => (Spec => []TypeOK)
<1> SUFFICES ASSUME SqueezeGivesDigest PROVE Spec => []TypeOK
  OBVIOUS
<1>1. KdfInv => TypeOK
  <2> SUFFICES ASSUME KdfInv PROVE TypeOK
    OBVIOUS
  <2>1. Ctx!TypeOK
    BY DEF KdfInv, CtxInv, CtxTypes, Ctx!TypeOK, Ctx!Byte, Ctx!Garbage, Bytes, BlockType
  <2>2. QED
    BY <2>1 DEF TypeOK, KdfInv, HmacTypes, HmacInv, Bytes
<1>2. QED
  BY <1>1, KdfInvariant, PTL

\* Any pieces, in any number, give the digest of the message they make, also in a
\* context that was used before (hash.c:122-199).
THEOREM DigestsAreOfMessages == SqueezeGivesDigest => (Spec => []DigestIsOfMessage)
<1> SUFFICES ASSUME SqueezeGivesDigest PROVE Spec => []DigestIsOfMessage
  OBVIOUS
<1>1. KdfInv => DigestIsOfMessage
  BY DEF KdfInv, CtxInv, DigestIsOfMessage, Ctx!DigestIsOfMessage
<1>2. QED
  BY <1>1, KdfInvariant, PTL

\* hmac_compute leaves the HMAC of RFC 2104 of the message it was called with, for
\* keys of any length and when the digest overwrites the message (hmac.c:16-69).
THEOREM HmacsAreRfc2104 == SqueezeGivesDigest => (Spec => []HmacIsRfc2104)
<1> SUFFICES ASSUME SqueezeGivesDigest PROVE Spec => []HmacIsRfc2104
  OBVIOUS
<1>1. KdfInv => HmacIsRfc2104
  BY DEF KdfInv, HmacInv
<1>2. QED
  BY <1>1, KdfInvariant, PTL

-----------------------------------------------------------------------------
(* PBKDF2: the hashes of a block and their exclusive or, one after the other *)

\* A set of numbers that goes on from 0 is all of them.
LEMMA GoesOn ==
  ASSUME NEW R, 0 \in R, \A m \in Nat : m \in R => m + 1 \in R
  PROVE  \A m \in Nat : m \in R
<1> DEFINE Below == {p \in Nat \X Nat : p[1] < p[2]}
           Missing == {m \in Nat : m \notin R}
<1>1. SUFFICES ASSUME Missing # {} PROVE FALSE
  OBVIOUS
<1>3. IsWellFoundedOn(Below, Nat)
  BY NatLessThanWellFounded, Zenon DEF OpToRel
<1>4. PICK x \in Missing : \A y \in Missing : <<y, x>> \notin Below
  <2> HIDE DEF Below
  <2>1. Missing \subseteq Nat
    OBVIOUS
  <2> HIDE DEF Missing
  <2>2. QED
    BY <1>1, <1>3, <2>1, WFMin
<1>5. x \in Nat /\ x # 0
  OBVIOUS
<1>6. x - 1 \in Nat /\ <<x - 1, x>> \in Below
  BY <1>5
<1>7. x - 1 \notin Missing
  BY <1>4, <1>6
<1>8. x - 1 \in R
  BY <1>6, <1>7
<1>9. (x - 1) + 1 \in R
  BY <1>6, <1>8
<1>10. QED
  BY <1>5, <1>9

\* u holds the first m hashes of a block whose first message is first.
Hashes(password, first, m, u) ==
  u = [j \in 1 .. m |-> HmacOf(password, IF j = 1 THEN first ELSE u[j - 1])]

LEMMA HashesExist ==
  ASSUME NEW password, NEW first
  PROVE  \E u : Hashes(password, first, Iterations, u)
<1> DEFINE R == {m \in Nat : \E u : Hashes(password, first, m, u)}
<1>1. 0 \in R
  <2>1. Hashes(password, first, 0, <<>>)
    BY DEF Hashes
  <2>2. QED
    BY <2>1
<1>2. ASSUME NEW m \in Nat, m \in R PROVE m + 1 \in R
  <2>1. PICK u : Hashes(password, first, m, u)
    BY <1>2
  <2> DEFINE last == HmacOf(password, IF m = 0 THEN first ELSE u[m])
             v    == [j \in 1 .. m + 1 |-> IF j <= m THEN u[j] ELSE last]
  <2>2. ASSUME NEW j \in 1 .. m + 1
        PROVE  v[j] = HmacOf(password, IF j = 1 THEN first ELSE v[j - 1])
    <3>1. CASE j <= m
      BY <2>1, <3>1 DEF Hashes
    <3>2. CASE j = m + 1
      <4>1. v[j] = last
        BY <3>2
      <4>2. m # 0 => v[j - 1] = u[m]
        BY <3>2
      <4>3. j = 1 <=> m = 0
        BY <3>2
      <4>4. QED
        BY <4>1, <4>2, <4>3
    <3>3. QED
      BY <3>1, <3>2
  <2>3. Hashes(password, first, m + 1, v)
    BY <2>2 DEF Hashes
  <2> HIDE DEF v
  <2>4. QED
    BY <2>3
<1>3. Iterations \in R
  <2> HIDE DEF R
  <2>1. QED
    BY <1>1, <1>2, GoesOn, KdfAssumption
<1>4. QED
  BY <1>3

\* Each hash is the HMAC of the one before.
LEMMA UIs ==
  ASSUME NEW password, NEW salt, NEW n, NEW j \in 1 .. Iterations
  PROVE  U(password, salt, n)[j]
           = HmacOf(password, IF j = 1 THEN salt \o Index(n) ELSE U(password, salt, n)[j - 1])
<1>1. U(password, salt, n) = CHOOSE u : Hashes(password, salt \o Index(n), Iterations, u)
  BY DEF U, Hashes
<1>2. Hashes(password, salt \o Index(n), Iterations, U(password, salt, n))
  BY <1>1, HashesExist, Zenon
<1>3. QED
  BY <1>2 DEF Hashes

\* x holds the exclusive or of the first j of us, for each j up to m.
SumAt(us, x, j) ==
  IF j = 1 THEN us[1] ELSE [k \in 1 .. DigestSize |-> ByteXor(x[j - 1][k], us[j][k])]

Sums(us, m, x) == x = [j \in 1 .. m |-> SumAt(us, x, j)]

LEMMA SumsExist == ASSUME NEW us PROVE \E x : Sums(us, Iterations, x)
<1> DEFINE R == {m \in Nat : \E x : Sums(us, m, x)}
<1>1. 0 \in R
  <2>1. Sums(us, 0, <<>>)
    BY DEF Sums
  <2>2. QED
    BY <2>1
<1>2. ASSUME NEW m \in Nat, m \in R PROVE m + 1 \in R
  <2>1. PICK x : Sums(us, m, x)
    BY <1>2
  <2> DEFINE y == [j \in 1 .. m + 1 |-> IF j <= m THEN x[j] ELSE SumAt(us, x, j)]
  <2>2. ASSUME NEW j \in 1 .. m + 1 PROVE y[j] = SumAt(us, y, j)
    <3>1. y[j] = SumAt(us, x, j)
      BY <2>1 DEF Sums
    <3>2. j # 1 => y[j - 1] = x[j - 1]
      OBVIOUS
    <3> HIDE DEF y
    <3>3. QED
      BY <3>1, <3>2 DEF SumAt
  <2>3. Sums(us, m + 1, y)
    BY <2>2 DEF Sums
  <2> HIDE DEF y
  <2>4. QED
    BY <2>3
<1>3. Iterations \in R
  <2> HIDE DEF R
  <2>1. QED
    BY <1>1, <1>2, GoesOn, KdfAssumption
<1>4. QED
  BY <1>3

LEMMA XoredIs ==
  ASSUME NEW password, NEW salt, NEW n, NEW j \in 1 .. Iterations
  PROVE  Xored(password, salt, n)[j]
           = IF j = 1 THEN U(password, salt, n)[1]
             ELSE [k \in 1 .. DigestSize |->
                     ByteXor(Xored(password, salt, n)[j - 1][k], U(password, salt, n)[j][k])]
<1>1. Xored(password, salt, n) = CHOOSE x : Sums(U(password, salt, n), Iterations, x)
  BY DEF Xored, Sums, SumAt
<1>2. Sums(U(password, salt, n), Iterations, Xored(password, salt, n))
  BY <1>1, SumsExist, Zenon
<1>3. QED
  BY <1>2 DEF Sums, SumAt
-----------------------------------------------------------------------------
(* The keys of a context *)

\* The key PBKDF2 defines for a tag; the hashes of the block at hand and what their
\* exclusive or is after each of them.
KeyOf(t) == Pbkdf2(job.args.password, job.args.salt \o TagBytes[t], KeySize)
Us == U(job.args.password, Salt, blockNum)
Xs == Xored(job.args.password, Salt, blockNum)

DigestType == [1 .. DigestSize -> Bytes]

\* Bytes of the key that n blocks give.
Copied(n) == IF DigestSize * n <= KeySize THEN DigestSize * n ELSE KeySize

CopiedRight ==
  /\ blockNum \in 1 .. BlocksNeeded + 1
  /\ derived = [n \in 1 .. Copied(blockNum - 1) |-> KeyOf(tag)[n]]

\* turn hashes are in block, and the next one is on its way.
HashingRight ==
  /\ turn \in 0 .. Iterations - 1
  /\ key = job.args.password /\ to = "u"
  /\ argument = IF turn = 0 THEN Salt \o Index(blockNum) ELSE Us[turn]
  /\ at = "idle" => memory["u"] \in DigestType /\ memory["u"] = Us[turn + 1]
  /\ turn > 0 => block \in DigestType /\ block = Xs[turn]

\* turn hashes are in block, and the last of them is in u.
AddedRight ==
  /\ turn \in 1 .. Iterations
  /\ memory["u"] \in DigestType /\ memory["u"] = Us[turn]
  /\ block \in DigestType /\ block = Xs[turn]

DeriveInv ==
  job.kind = "context" =>
    /\ kdfPc \in {"call", "block", "accumulate", "iterate", "done"}
    /\ at # "idle" => kdfPc = "accumulate"
    /\ DOMAIN keys = {"ENC", "MAC"}
    /\ tag = "MAC" => keys["ENC"] = KeyOf("ENC")
    /\ kdfPc = "done" => tag = "MAC" /\ keys["MAC"] = KeyOf("MAC")
    /\ kdfPc \in {"block", "accumulate", "iterate"} => CopiedRight
    /\ kdfPc \in {"accumulate", "iterate"} => blockNum <= BlocksNeeded
    /\ kdfPc = "accumulate" => HashingRight
    /\ kdfPc = "iterate" => AddedRight

\* The number of blocks is the size of the key over that of a digest, rounded up.
LEMMA BlocksCover ==
  ASSUME KeySize \in Nat
  PROVE  /\ BlocksNeeded \in Nat
         /\ KeySize <= DigestSize * BlocksNeeded
         /\ DigestSize * BlocksNeeded < KeySize + DigestSize
<1> DEFINE d == DigestSize
           k == KeySize
           s == k + d - 1
           b == s \div d
           r == s % d
<1>1. d \in Nat \ {0} /\ k \in Nat
  BY Sizes
<1> HIDE DEF d, k
<1>2. s \in Nat
  BY <1>1
<1> HIDE DEF s
<1>3. b \in Nat /\ r \in 0 .. d - 1 /\ s = d * b + r
  BY <1>1, <1>2
<1> HIDE DEF b, r
<1>4. d * b \in Nat
  BY <1>1, <1>3
<1>5. b \in Nat /\ k <= d * b /\ d * b < k + d
  BY <1>1, <1>3, <1>4 DEF s
<1>6. BlocksNeeded = b
  BY Zenon DEF BlocksNeeded, b, s, k, d
<1>7. QED
  BY <1>5, <1>6 DEF k, d

\* What is copied of a block: all of it, or what the last one has to give.
LEMMA BlockCopied ==
  ASSUME KeySize \in Nat, blockNum \in 1 .. BlocksNeeded
  PROVE  /\ CopyLength \in 1 .. DigestSize
         /\ DigestSize * (blockNum - 1) \in Nat
         /\ Copied(blockNum - 1) = DigestSize * (blockNum - 1)
         /\ Copied(blockNum) = DigestSize * (blockNum - 1) + CopyLength
         /\ Copied(blockNum) <= KeySize
<1> DEFINE d == DigestSize
           k == KeySize
           n == BlocksNeeded
           p == blockNum - 1
           l == k - d * (n - 1)
<1>1. d \in Nat \ {0} /\ k \in Nat /\ n \in Nat /\ k <= d * n /\ d * n < k + d
  BY Sizes, BlocksCover
<1>2. p \in Nat /\ n - 1 \in Nat /\ p <= n - 1 /\ blockNum = p + 1 /\ n = (n - 1) + 1
  BY <1>1
<1>3. d * p \in Nat /\ d * (p + 1) = d * p + d
  BY <1>1, <1>2, TimesMonotone
<1>4. d * (n - 1) \in Nat /\ d * n = d * (n - 1) + d /\ d * p <= d * (n - 1)
  BY <1>1, <1>2, TimesMonotone
<1>5. l \in 1 .. d /\ k = d * (n - 1) + l
  BY <1>1, <1>4
<1>6. k % d = IF l = d THEN 0 ELSE l
  <2>1. CASE l = d
    <3>1. k = d * n + 0
      BY <1>1, <1>4, <1>5, <2>1
    <3>2. QED
      BY <1>1, <2>1, <3>1, Quotient
  <2>2. CASE l # d
    <3>1. l \in Nat /\ l < d
      BY <1>1, <1>5, <2>2
    <3>2. QED
      BY <1>1, <1>2, <1>5, <2>2, <3>1, Quotient
  <2>3. QED
    BY <2>1, <2>2
<1>7. CopyLength = IF blockNum = n /\ k % d # 0 THEN k % d ELSE d
  BY DEF CopyLength
<1>8. /\ Copied(p) = IF d * p <= k THEN d * p ELSE k
      /\ Copied(p + 1) = IF d * (p + 1) <= k THEN d * (p + 1) ELSE k
  BY DEF Copied
<1> HIDE DEF d, k, n, p, l
<1>9. CASE p = n - 1
  <2>1. blockNum = n
    BY <1>1, <1>2, <1>9
  <2>2. CopyLength = l
    BY <1>1, <1>5, <1>6, <1>7, <2>1
  <2>3. d * p <= k /\ Copied(p) = d * p /\ Copied(p + 1) = k
    BY <1>1, <1>2, <1>3, <1>4, <1>5, <1>8, <1>9
  <2>4. QED
    BY <1>1, <1>2, <1>3, <1>5, <1>9, <2>2, <2>3 DEF d, k, p
<1>10. CASE p # n - 1
  <2>1. blockNum # n /\ p + 1 <= n - 1 /\ p + 1 \in Nat
    BY <1>1, <1>2, <1>10
  <2>2. d * (p + 1) <= d * (n - 1)
    BY <1>1, <1>2, <2>1, TimesMonotone
  <2>3. CopyLength = d
    BY <1>7, <2>1
  <2>4. d * p <= k /\ d * (p + 1) <= k
    BY <1>1, <1>3, <1>4, <1>5, <2>2
  <2>5. Copied(p) = d * p /\ Copied(p + 1) = d * p + d
    BY <1>3, <1>8, <2>4
  <2>6. QED
    BY <1>1, <1>2, <1>3, <2>3, <2>4, <2>5 DEF d, k, p
<1>11. QED
  BY <1>9, <1>10

\* The bytes of a key that block n gives.
LEMMA BlockOfKey ==
  ASSUME NEW password, NEW salt, NEW size \in Nat, NEW n \in Nat \ {0},
         NEW x \in 1 .. DigestSize, (DigestSize * (n - 1)) + x <= size
  PROVE  Pbkdf2(password, salt, size)[(DigestSize * (n - 1)) + x]
           = Xored(password, salt, n)[Iterations][x]
<1> DEFINE d == DigestSize
           p == n - 1
           y == d * p + x
<1>1. d \in Nat \ {0} /\ p \in Nat /\ d * p \in Nat /\ x \in 1 .. d
  BY Sizes
<1>2. y \in 1 .. size /\ y - 1 \in Nat /\ y - 1 = d * p + (x - 1) /\ x - 1 \in Nat /\ x - 1 < d
  BY <1>1
<1>3. (y - 1) \div d = p /\ (y - 1) % d = x - 1
  <2> DEFINE z == y - 1
             r == x - 1
  <2>1. z \in Nat /\ r \in Nat /\ r < d /\ z = d * p + r
    BY <1>2
  <2> HIDE DEF z, r, y
  <2>2. z \div d = p /\ z % d = r
    BY <1>1, <2>1, Quotient
  <2>3. QED
    BY <2>2 DEF z, r
<1>4. Pbkdf2(password, salt, size)[y]
        = Xored(password, salt, ((y - 1) \div d) + 1)[Iterations][((y - 1) % d) + 1]
  BY <1>2 DEF Pbkdf2
<1>5. p + 1 = n /\ (x - 1) + 1 = x
  OBVIOUS
<1> HIDE DEF y, p, d
<1>6. Pbkdf2(password, salt, size)[y] = Xored(password, salt, n)[Iterations][x]
  BY <1>3, <1>4, <1>5
<1>7. QED
  BY <1>6 DEF y, p, d

LEMMA KeySizeIsNat == ASSUME KdfTypes, job.kind = "context" PROVE KeySize \in Nat
<1>1. CASE job \in [kind : {"context"}, args : Contexts]
  BY <1>1, ArgumentsAssumption DEF KeySize
<1>2. job \notin [kind : {"mac"}, args : Macs] /\ job # [kind |-> "hash"]
  OBVIOUS
<1>3. QED
  BY <1>1, <1>2 DEF KdfTypes, Jobs

\* What the keys are depends on the job alone, and what the hashes of a block are on
\* the tag and the number of the block too.
LEMMA SameKeys ==
  ASSUME job' = job
  PROVE  /\ KeySize' = KeySize /\ BlocksNeeded' = BlocksNeeded
         /\ KeyOf("ENC")' = KeyOf("ENC") /\ KeyOf("MAC")' = KeyOf("MAC")
         /\ tag' = tag => KeyOf(tag)' = KeyOf(tag) /\ Salt' = Salt
BY DEF KeySize, BlocksNeeded, KeyOf, Salt

LEMMA SameHashes ==
  ASSUME job' = job, tag' = tag, blockNum' = blockNum
  PROVE  Us' = Us /\ Xs' = Xs /\ Salt' = Salt
BY DEF Us, Xs, Salt

\* A step that leaves the keys and the bytes copied so far alone.
LEMMA CopiedStays ==
  ASSUME job' = job, tag' = tag, blockNum' = blockNum, derived' = derived, CopiedRight
  PROVE  CopiedRight'
<1>1. KeySize' = KeySize /\ BlocksNeeded' = BlocksNeeded /\ KeyOf(tag)' = KeyOf(tag)
  BY SameKeys
<1>2. Copied(blockNum - 1)' = Copied(blockNum - 1)
  BY <1>1 DEF Copied
<1>3. QED
  BY <1>1, <1>2, Zenon DEF CopiedRight

LEMMA DeriveInit == ASSUME Init PROVE DeriveInv
<1>1. kdfPc = "call" /\ at = "idle" /\ tag = "ENC" /\ DOMAIN keys = {"ENC", "MAC"}
  BY DEF Init, HmacInit, NoKeys
<1>2. QED
  BY <1>1 DEF DeriveInv

LEMMA CallKdfDerives == ASSUME KdfInv, DeriveInv, CallKdf PROVE DeriveInv'
<1>1. /\ job.kind = "context" /\ kdfPc = "call" /\ at = "idle"
      /\ kdfPc' = "block" /\ blockNum' = 1 /\ derived' = <<>>
      /\ at' = at /\ job' = job /\ tag' = tag /\ keys' = keys
  BY DEF CallKdf, Deriving, hmacVars
<1>2. KeySize \in Nat
  BY <1>1, KeySizeIsNat DEF KdfInv
<1>3. KeySize' = KeySize /\ BlocksNeeded' = BlocksNeeded
      /\ KeyOf("ENC")' = KeyOf("ENC") /\ KeyOf("MAC")' = KeyOf("MAC")
  BY <1>1, SameKeys
<1>4. Copied(0) = 0
  <2>1. DigestSize * 0 = 0
    BY Sizes
  <2>2. QED
    BY <1>2, <2>1 DEF Copied
<1>5. Copied(blockNum - 1)' = 0
  BY <1>1, <1>3, <1>4 DEF Copied
<1>6. BlocksNeeded \in Nat
  BY <1>2, BlocksCover
<1>7. CopiedRight'
  BY <1>1, <1>3, <1>5, <1>6 DEF CopiedRight
<1>8. QED
  BY <1>1, <1>3, <1>7 DEF DeriveInv

LEMMA FirstHmacDerives == ASSUME KdfInv, DeriveInv, FirstHmac PROVE DeriveInv'
<1>1. /\ job.kind = "context" /\ kdfPc = "block" /\ at = "idle" /\ blockNum <= BlocksNeeded
      /\ memory' = [memory EXCEPT !["salt_block"] = Salt \o Index(blockNum)]
      /\ at' = "key_block" /\ key' = job.args.password /\ to' = "u"
      /\ argument' = memory'["salt_block"] /\ turn' = 0 /\ kdfPc' = "accumulate"
      /\ job' = job /\ tag' = tag /\ blockNum' = blockNum /\ derived' = derived
      /\ keys' = keys
  BY DEF FirstHmac, Deriving, CallHmac
<1>2. /\ BlocksNeeded' = BlocksNeeded /\ Salt' = Salt
      /\ KeyOf("ENC")' = KeyOf("ENC") /\ KeyOf("MAC")' = KeyOf("MAC")
  BY <1>1, SameKeys
<1>3. CopiedRight'
  BY <1>1, CopiedStays DEF DeriveInv
<1>4. argument' = Salt' \o Index(blockNum')
  <2>1. "salt_block" \in DOMAIN memory
    BY DEF KdfInv, HmacTypes, Places
  <2>2. memory'["salt_block"] = Salt \o Index(blockNum)
    BY <1>1, <2>1
  <2>3. QED
    BY <1>1, <1>2, <2>2, Zenon
<1>5. HashingRight'
  BY <1>1, <1>4, KdfAssumption DEF HashingRight
<1>6. QED
  BY <1>1, <1>2, <1>3, <1>5 DEF DeriveInv

\* The exclusive or of two digests is one.
LEMMA XorOfDigests ==
  ASSUME NEW a \in DigestType, NEW b \in DigestType
  PROVE  [k \in 1 .. DigestSize |-> ByteXor(a[k], b[k])] \in DigestType
<1>1. \A k \in 1 .. DigestSize : ByteXor(a[k], b[k]) \in Bytes
  BY ByteXorAssumption DEF DigestType, Bytes
<1>2. QED
  BY <1>1 DEF DigestType

LEMMA AccumulateDerives == ASSUME KdfInv, DeriveInv, Accumulate PROVE DeriveInv'
<1>1. /\ job.kind = "context" /\ kdfPc = "accumulate" /\ at = "idle"
      /\ block' = IF turn = 0 THEN memory["u"]
                  ELSE [k \in 1 .. DigestSize |-> ByteXor(block[k], memory["u"][k])]
      /\ turn' = turn + 1 /\ kdfPc' = "iterate"
      /\ at' = at /\ memory' = memory
      /\ job' = job /\ tag' = tag /\ blockNum' = blockNum /\ derived' = derived
      /\ keys' = keys
  BY DEF Accumulate, Deriving, hmacVars
<1>2. /\ BlocksNeeded' = BlocksNeeded
      /\ KeyOf("ENC")' = KeyOf("ENC") /\ KeyOf("MAC")' = KeyOf("MAC")
  BY <1>1, SameKeys
<1>3. CopiedRight'
  BY <1>1, CopiedStays DEF DeriveInv
<1>4. Us' = Us /\ Xs' = Xs
  BY <1>1, SameHashes
<1>5. /\ turn \in 0 .. Iterations - 1 /\ Iterations \in Nat \ {0}
      /\ memory["u"] \in DigestType /\ memory["u"] = Us[turn + 1]
      /\ turn > 0 => block \in DigestType /\ block = Xs[turn]
  BY <1>1, KdfAssumption DEF DeriveInv, HashingRight
<1>6. turn + 1 \in 1 .. Iterations /\ (turn + 1) - 1 = turn /\ (turn + 1 = 1 <=> turn = 0)
  BY <1>5
<1>7. Xs[turn + 1] = IF turn + 1 = 1 THEN Us[1]
                     ELSE [k \in 1 .. DigestSize |->
                             ByteXor(Xs[(turn + 1) - 1][k], Us[turn + 1][k])]
  BY <1>6, XoredIs DEF Xs, Us
<1>8. block' \in DigestType /\ block' = Xs[turn + 1]
  <2>1. CASE turn = 0
    BY <1>1, <1>5, <1>6, <1>7, <2>1
  <2>2. CASE turn # 0
    <3>1. block \in DigestType /\ block = Xs[turn]
      BY <1>5, <2>2
    <3>2. block' = [k \in 1 .. DigestSize |-> ByteXor(block[k], memory["u"][k])]
      BY <1>1, <2>2
    <3>3. block' \in DigestType
      BY <1>5, <3>1, <3>2, XorOfDigests
    <3>4. Xs[turn + 1] = [k \in 1 .. DigestSize |-> ByteXor(block[k], memory["u"][k])]
      BY <1>5, <1>6, <1>7, <2>2, <3>1
    <3>5. QED
      BY <3>2, <3>3, <3>4
  <2>3. QED
    BY <2>1, <2>2
<1>9. AddedRight'
  BY <1>1, <1>4, <1>5, <1>6, <1>8 DEF AddedRight, DigestType
<1>10. blockNum' <= BlocksNeeded'
  BY <1>1, <1>2 DEF DeriveInv
<1>11. QED
  BY <1>1, <1>2, <1>3, <1>9, <1>10 DEF DeriveInv

LEMMA NextHmacDerives == ASSUME KdfInv, DeriveInv, NextHmac PROVE DeriveInv'
<1>1. /\ job.kind = "context" /\ kdfPc = "iterate" /\ at = "idle" /\ turn < Iterations
      /\ at' = "key_block" /\ key' = job.args.password /\ to' = "u"
      /\ argument' = memory["u"] /\ kdfPc' = "accumulate"
      /\ turn' = turn /\ block' = block
      /\ job' = job /\ tag' = tag /\ blockNum' = blockNum /\ derived' = derived
      /\ keys' = keys
  BY DEF NextHmac, Deriving, CallHmac
<1>2. /\ BlocksNeeded' = BlocksNeeded
      /\ KeyOf("ENC")' = KeyOf("ENC") /\ KeyOf("MAC")' = KeyOf("MAC")
  BY <1>1, SameKeys
<1>3. CopiedRight'
  BY <1>1, CopiedStays DEF DeriveInv
<1>4. Us' = Us /\ Xs' = Xs
  BY <1>1, SameHashes
<1>5. /\ turn \in 1 .. Iterations /\ Iterations \in Nat \ {0} /\ memory["u"] = Us[turn]
      /\ block \in DigestType /\ block = Xs[turn]
  BY <1>1, KdfAssumption DEF DeriveInv, AddedRight
<1>6. turn # 0 /\ turn \in 0 .. Iterations - 1
  BY <1>1, <1>5
<1>7. HashingRight'
  BY <1>1, <1>4, <1>5, <1>6 DEF HashingRight, DigestType
<1>8. blockNum' <= BlocksNeeded'
  BY <1>1, <1>2 DEF DeriveInv
<1>9. QED
  BY <1>1, <1>2, <1>3, <1>7, <1>8 DEF DeriveInv

\* The block is the one the key has at this place.
LEMMA CopyBlockDerives == ASSUME KdfInv, DeriveInv, CopyBlock PROVE DeriveInv'
<1>1. /\ job.kind = "context" /\ kdfPc = "iterate" /\ at = "idle" /\ turn = Iterations
      /\ derived' = derived \o SubSeq(block, 1, CopyLength) /\ blockNum' = blockNum + 1
      /\ kdfPc' = "block" /\ at' = at
      /\ job' = job /\ tag' = tag /\ keys' = keys
  BY DEF CopyBlock, Deriving, hmacVars
<1>2. /\ KeySize' = KeySize /\ BlocksNeeded' = BlocksNeeded
      /\ KeyOf("ENC")' = KeyOf("ENC") /\ KeyOf("MAC")' = KeyOf("MAC")
      /\ KeyOf(tag)' = KeyOf(tag)
  BY <1>1, SameKeys
<1>3. KeySize \in Nat /\ BlocksNeeded \in Nat
  BY <1>1, KeySizeIsNat, BlocksCover DEF KdfInv
<1>4. /\ blockNum \in 1 .. BlocksNeeded /\ block \in DigestType /\ block = Xs[Iterations]
      /\ derived = [n \in 1 .. Copied(blockNum - 1) |-> KeyOf(tag)[n]]
  BY <1>1, <1>3 DEF DeriveInv, CopiedRight, AddedRight
<1> DEFINE p == DigestSize * (blockNum - 1)
           c == CopyLength
           part == SubSeq(block, 1, c)
           Cells == {KeyOf(tag)[n] : n \in 1 .. p} \cup Bytes
<1>5. /\ c \in 1 .. DigestSize /\ p \in Nat /\ Copied(blockNum - 1) = p
      /\ Copied(blockNum) = p + c /\ p + c <= KeySize /\ DigestSize \in Nat
  BY <1>3, <1>4, BlockCopied, Sizes
<1>6. part \in Seq(Bytes) /\ Len(part) = c /\ \A x \in 1 .. c : part[x] = block[x]
  <2>1. block \in Seq(Bytes) /\ Len(block) = DigestSize
    BY <1>4, <1>5, Tuples DEF DigestType
  <2>2. SubSeq(block, 0 + 1, c) \in Seq(Bytes) /\ Len(SubSeq(block, 0 + 1, c)) = c - 0
        /\ \A x \in 1 .. c - 0 : SubSeq(block, 0 + 1, c)[x] = block[0 + x]
    <3>1. 0 \in Nat /\ c \in Nat /\ 0 <= c /\ c <= Len(block)
      BY <1>5, <2>1
    <3>2. QED
      BY <2>1, <3>1, Slices
  <2>3. c - 0 = c /\ 0 + 1 = 1 /\ \A x \in 1 .. c : 0 + x = x
    BY <1>5
  <2>4. QED
    BY <2>2, <2>3
<1> HIDE DEF part, c, p
<1>7. \A x \in 1 .. c : KeyOf(tag)[p + x] = block[x]
  <2> SUFFICES ASSUME NEW x \in 1 .. c PROVE KeyOf(tag)[p + x] = block[x]
    OBVIOUS
  <2>1. x \in 1 .. DigestSize /\ p + x <= KeySize /\ blockNum \in Nat \ {0}
    BY <1>3, <1>4, <1>5
  <2>2. KeyOf(tag)[p + x] = Xored(job.args.password, Salt, blockNum)[Iterations][x]
    BY <1>3, <2>1, BlockOfKey DEF KeyOf, Salt, p
  <2>3. QED
    BY <1>4, <2>2 DEF Xs
<1>8. derived \in Seq(Cells) /\ Len(derived) = p /\ \A x \in 1 .. p : derived[x] = KeyOf(tag)[x]
  <2>1. derived = [n \in 1 .. p |-> KeyOf(tag)[n]]
    BY <1>4, <1>5
  <2>2. derived \in [1 .. p -> Cells]
    BY <2>1
  <2>3. QED
    BY <1>5, <2>1, <2>2, Tuples
<1>9. part \in Seq(Cells)
  <2>1. \A x \in 1 .. c : part[x] \in Bytes
    BY <1>6, ElementOfSeq
  <2>2. part \in [1 .. c -> Cells]
    BY <1>6, <2>1, LenProperties
  <2>3. c \in Nat
    BY <1>5
  <2>4. QED
    BY <2>2, <2>3, Tuples
<1> HIDE DEF Cells
<1>10. derived \o part \in Seq(Cells) /\ IsJoin(derived \o part, derived, part)
  BY <1>8, <1>9, Appended
<1>11. derived' = [n \in 1 .. p + c |-> KeyOf(tag)[n]]
  <2>1. derived' = derived \o part
    BY <1>1 DEF part, c
  <2>2. /\ derived' \in Seq(Cells) /\ Len(derived') = p + c
        /\ \A x \in 1 .. p : derived'[x] = KeyOf(tag)[x]
        /\ \A x \in 1 .. c : derived'[p + x] = KeyOf(tag)[p + x]
    BY <1>6, <1>7, <1>8, <1>10, <2>1 DEF IsJoin
  <2>3. derived' \in [1 .. p + c -> Cells]
    BY <2>2, LenProperties
  <2>4. ASSUME NEW n \in 1 .. p + c PROVE derived'[n] = KeyOf(tag)[n]
    <3>1. CASE n <= p
      BY <2>2, <3>1
    <3>2. CASE n > p
      <4>1. n - p \in 1 .. c /\ p + (n - p) = n
        BY <1>5, <3>2
      <4>2. QED
        BY <2>2, <4>1
    <3>3. QED
      BY <1>5, <3>1, <3>2
  <2>5. QED
    BY <2>3, <2>4
<1>12. Copied(blockNum - 1)' = p + c
  <2>1. blockNum' - 1 = blockNum
    BY <1>1, <1>4
  <2>2. Copied(blockNum' - 1) = p + c
    BY <1>5, <2>1
  <2>3. Copied(blockNum - 1)' = Copied(blockNum' - 1)
    BY <1>2 DEF Copied
  <2>4. QED
    BY <2>2, <2>3
<1>13. blockNum' \in 1 .. BlocksNeeded' + 1
  BY <1>1, <1>2, <1>3, <1>4
<1>14. CopiedRight'
  BY <1>2, <1>11, <1>12, <1>13 DEF CopiedRight
<1>15. QED
  BY <1>1, <1>2, <1>14 DEF DeriveInv

\* All blocks are there, and with them all bytes of the key.
LEMMA StoreKeyDerives == ASSUME KdfInv, DeriveInv, StoreKey PROVE DeriveInv'
<1>1. /\ job.kind = "context" /\ kdfPc = "block" /\ at = "idle" /\ blockNum > BlocksNeeded
      /\ keys' = [keys EXCEPT ![tag] = derived]
      /\ tag = "ENC" => tag' = "MAC" /\ kdfPc' = "call"
      /\ tag # "ENC" => tag' = tag /\ kdfPc' = "done"
      /\ at' = at /\ job' = job
  BY DEF StoreKey, Deriving, hmacVars
<1>2. KeyOf("ENC")' = KeyOf("ENC") /\ KeyOf("MAC")' = KeyOf("MAC")
  BY <1>1, SameKeys
<1>3. /\ KeySize \in Nat /\ BlocksNeeded \in Nat /\ KeySize <= DigestSize * BlocksNeeded
      /\ DigestSize * BlocksNeeded < KeySize + DigestSize /\ DigestSize \in Nat
  BY <1>1, KeySizeIsNat, BlocksCover, Sizes DEF KdfInv
<1>4. /\ blockNum - 1 = BlocksNeeded
      /\ derived = [n \in 1 .. Copied(blockNum - 1) |-> KeyOf(tag)[n]]
  BY <1>1, <1>3 DEF DeriveInv, CopiedRight
<1>5. Copied(BlocksNeeded) = KeySize
  <2>1. DigestSize * BlocksNeeded \in Nat
    BY <1>3
  <2>2. QED
    BY <1>3, <2>1 DEF Copied
<1>6. derived = [n \in 1 .. KeySize |-> KeyOf(tag)[n]]
  BY <1>4, <1>5
<1>7. derived = KeyOf(tag)
  <2>1. KeyOf(tag) = [n \in 1 .. KeySize |-> KeyOf(tag)[n]]
    BY DEF KeyOf, Pbkdf2
  <2>2. QED
    BY <1>6, <2>1
<1>8. /\ DOMAIN keys = {"ENC", "MAC"} /\ tag \in {"ENC", "MAC"}
      /\ tag = "MAC" => keys["ENC"] = KeyOf("ENC")
  BY <1>1 DEF DeriveInv, KdfInv, KdfTypes
<1>9. DOMAIN keys' = {"ENC", "MAC"}
  BY <1>1, <1>8
<1>10. keys'[tag] = derived /\ (tag = "MAC" => keys'["ENC"] = keys["ENC"])
  BY <1>1, <1>8
<1>11. CASE tag = "ENC"
  <2>1. keys'["ENC"] = KeyOf("ENC")'
    BY <1>2, <1>7, <1>10, <1>11
  <2>2. QED
    BY <1>1, <1>9, <1>11, <2>1 DEF DeriveInv
<1>12. CASE tag = "MAC"
  <2>1. keys'["ENC"] = KeyOf("ENC")' /\ keys'["MAC"] = KeyOf("MAC")'
    BY <1>2, <1>7, <1>8, <1>10, <1>12
  <2>2. QED
    BY <1>1, <1>9, <1>12, <2>1 DEF DeriveInv
<1>13. QED
  BY <1>8, <1>11, <1>12

\* hmac_compute keeps its arguments, and its last step leaves a digest.
LEMMA HmacRuns ==
  ASSUME SqueezeGivesDigest, KdfInv, HmacStep
  PROVE  /\ at # "idle" /\ key' = key /\ to' = to
         /\ at' = "idle" => memory'[to] \in DigestType
<1>1. CASE OuterDigest
  <2>1. /\ at = "outer_digest" /\ Ctx!HashFinal
        /\ memory' = [memory EXCEPT ![to] = Squeeze(digest')]
        /\ UNCHANGED <<key, from, to>>
    BY <1>1 DEF OuterDigest, callVars
  <2>2. digest' = Ctx!PaddedBlocks(message) /\ message \in Seq(Bytes)
    BY <2>1, HashFinalInv DEF KdfInv
  <2>3. Squeeze(digest') \in DigestType
    BY <2>2, PaddedIsBlocks DEF SqueezeGivesDigest, DigestType
  <2>4. memory'[to] = Squeeze(digest')
    BY <2>1 DEF KdfInv, HmacTypes
  <2>5. QED
    BY <2>1, <2>3, <2>4
<1>2. CASE ShortKey \/ LongKey \/ LongKeyDigest \/ InnerDigest
  BY <1>2 DEF ShortKey, LongKey, LongKeyDigest, InnerDigest, Goto, callVars
<1>3. CASE Start("inner_init", "inner_pad") \/ Start("outer_init", "outer_pad")
  BY <1>3 DEF Start, Goto, callVars
<1>4. CASE \/ Feed("key_hash", key, "key_digest") \/ Feed("inner_pad", Ipad, "inner_data")
           \/ Feed("inner_data", memory[from], "inner_digest")
           \/ Feed("outer_pad", Opad, "outer_data")
           \/ Feed("outer_data", innerHash, "outer_digest")
  BY <1>4 DEF Feed, Goto, callVars
<1>5. QED
  BY <1>1, <1>2, <1>3, <1>4 DEF HmacStep

\* The next hash is the HMAC of the one before, although it takes its place.
LEMMA HmacStepDerives ==
  ASSUME SqueezeGivesDigest, KdfInv, DeriveInv, HmacStep, UNCHANGED kdfVars
  PROVE  DeriveInv'
<1>1. /\ job' = job /\ kdfPc' = kdfPc /\ tag' = tag /\ blockNum' = blockNum /\ turn' = turn
      /\ block' = block /\ derived' = derived /\ keys' = keys /\ argument' = argument
  BY DEF kdfVars
<1>2. SUFFICES ASSUME job.kind = "context" PROVE DeriveInv'
  BY <1>1 DEF DeriveInv
<1>3. /\ at # "idle" /\ key' = key /\ to' = to
      /\ at' = "idle" => memory'[to] \in DigestType
  BY HmacRuns
<1>4. kdfPc = "accumulate" /\ CopiedRight /\ HashingRight /\ blockNum <= BlocksNeeded
  BY <1>2, <1>3 DEF DeriveInv
<1>5. /\ BlocksNeeded' = BlocksNeeded
      /\ KeyOf("ENC")' = KeyOf("ENC") /\ KeyOf("MAC")' = KeyOf("MAC")
  BY <1>1, SameKeys
<1>6. CopiedRight'
  BY <1>1, <1>4, CopiedStays
<1>7. Us' = Us /\ Xs' = Xs /\ Salt' = Salt
  BY <1>1, SameHashes
<1>8. at' = "idle" => memory'["u"] \in DigestType /\ memory'["u"] = Us[turn + 1]
  <2> SUFFICES ASSUME at' = "idle"
               PROVE  memory'["u"] \in DigestType /\ memory'["u"] = Us[turn + 1]
    OBVIOUS
  <2>1. to' = "u" /\ memory'["u"] \in DigestType /\ key' = job.args.password
    BY <1>3, <1>4 DEF HashingRight
  <2>2. memory'["u"] # <<>>
    <3>1. 1 \in DOMAIN memory'["u"]
      BY <2>1, Sizes DEF DigestType
    <3>2. QED
      BY <3>1
  <2>3. HmacIsRfc2104'
    BY HmacSteps DEF KdfInv, HmacInv
  <2>4. memory'["u"] = HmacOf(key', argument')
    BY <2>1, <2>2, <2>3 DEF HmacIsRfc2104
  <2>5. memory'["u"] = HmacOf(job.args.password,
                              IF turn = 0 THEN Salt \o Index(blockNum) ELSE Us[turn])
    BY <1>1, <1>4, <2>1, <2>4 DEF HashingRight
  <2>6. /\ turn + 1 \in 1 .. Iterations /\ (turn + 1) - 1 = turn
        /\ (turn + 1 = 1 <=> turn = 0)
    BY <1>4, KdfAssumption DEF HashingRight
  <2>7. Us[turn + 1] = HmacOf(job.args.password,
                              IF turn + 1 = 1 THEN Salt \o Index(blockNum)
                                              ELSE Us[(turn + 1) - 1])
    BY <2>6, UIs DEF Us
  <2>8. QED
    BY <2>1, <2>5, <2>6, <2>7
<1>9. HashingRight'
  BY <1>1, <1>3, <1>4, <1>7, <1>8 DEF HashingRight, DigestType
<1>10. QED
  BY <1>1, <1>2, <1>4, <1>5, <1>6, <1>9 DEF DeriveInv

LEMMA DeriveStays ==
  ASSUME DeriveInv, UNCHANGED hmacVars, UNCHANGED kdfVars
  PROVE  DeriveInv'
<1>1. /\ job' = job /\ kdfPc' = kdfPc /\ tag' = tag /\ blockNum' = blockNum /\ turn' = turn
      /\ block' = block /\ derived' = derived /\ keys' = keys /\ argument' = argument
      /\ at' = at /\ key' = key /\ to' = to /\ memory' = memory
  BY DEF kdfVars, hmacVars, callVars
<1>2. /\ BlocksNeeded' = BlocksNeeded
      /\ KeyOf("ENC")' = KeyOf("ENC") /\ KeyOf("MAC")' = KeyOf("MAC")
  BY <1>1, SameKeys
<1>3. CopiedRight => CopiedRight'
  BY <1>1, CopiedStays
<1>4. Us' = Us /\ Xs' = Xs /\ Salt' = Salt
  BY <1>1, SameHashes
<1>5. HashingRight => HashingRight'
  BY <1>1, <1>4 DEF HashingRight, DigestType
<1>6. AddedRight => AddedRight'
  BY <1>1, <1>4 DEF AddedRight, DigestType
<1>7. QED
  BY <1>1, <1>2, <1>3, <1>5, <1>6 DEF DeriveInv

LEMMA DeriveNext ==
  ASSUME SqueezeGivesDigest, KdfInv, DeriveInv, [Next]_vars
  PROVE  DeriveInv'
<1>1. CASE KdfStep
  <2>1. ASSUME ComputeMac PROVE DeriveInv'
    <3>1. job.kind = "mac" /\ job' = job
      BY <2>1 DEF ComputeMac
    <3>2. QED
      BY <3>1 DEF DeriveInv
  <2>2. QED
    BY <1>1, <2>1, CallKdfDerives, FirstHmacDerives, AccumulateDerives, NextHmacDerives,
       CopyBlockDerives, StoreKeyDerives DEF KdfStep
<1>2. CASE HmacStep /\ UNCHANGED kdfVars
  BY <1>2, HmacStepDerives
<1>3. CASE (InsideUpdate \/ HashUse) /\ UNCHANGED kdfVars
  BY <1>3, DeriveStays DEF InsideUpdate, HashUse
<1>4. CASE UNCHANGED vars
  BY <1>4, DeriveStays DEF vars
<1>5. QED
  BY <1>1, <1>2, <1>3, <1>4 DEF Next, Step, HashUse

\* cipher_ctx_init_encrypt derives the keys PBKDF2 defines, for every password, salt,
\* number of iterations and size of the key, although each hash is written over the
\* one it is made from (cipher_ops.c:40-78, kdf.c:14-77).
THEOREM DerivedKeysArePbkdf2 == SqueezeGivesDigest => (Spec => []KeysArePbkdf2)
<1> SUFFICES ASSUME SqueezeGivesDigest PROVE Spec => []KeysArePbkdf2
  OBVIOUS
<1>1. Init => KdfInv /\ DeriveInv
  BY KdfInit, DeriveInit
<1>2. (KdfInv /\ DeriveInv) /\ [Next]_vars => (KdfInv /\ DeriveInv)'
  BY KdfNext, DeriveNext
<1>3. KdfInv /\ DeriveInv => KeysArePbkdf2
  <2> SUFFICES ASSUME DeriveInv, job.kind = "context", kdfPc = "done", NEW t \in DOMAIN TagBytes
               PROVE  keys[t] = Pbkdf2(job.args.password, job.args.salt \o TagBytes[t],
                                       job.args.keySize)
    BY DEF KeysArePbkdf2
  <2>1. t = "ENC" \/ t = "MAC"
    BY DEF TagBytes
  <2>2. keys["ENC"] = KeyOf("ENC") /\ keys["MAC"] = KeyOf("MAC")
    BY DEF DeriveInv
  <2>3. KeySize = job.args.keySize
    BY DEF KeySize
  <2>4. keys[t] = KeyOf(t)
    BY <2>1, <2>2
  <2>5. QED
    BY <2>3, <2>4, Zenon DEF KeyOf
<1>4. QED
  BY <1>1, <1>2, <1>3, PTL DEF Spec

-----------------------------------------------------------------------------
(* The way to the end: the loops inside each other, from the outermost in *)

\* The keys still to be derived, the one under way included.
KeysLeft == IF kdfPc = "done" THEN 0 ELSE IF tag = "MAC" THEN 1 ELSE 2

\* The blocks this key still needs.
BlocksLeft ==
  IF job.kind # "context" \/ kdfPc = "done" THEN 0
  ELSE IF kdfPc = "call" THEN BlocksNeeded + 1
  ELSE BlocksNeeded + 1 - blockNum

\* The hashes this block still needs.
TurnsLeft ==
  IF job.kind # "context" \/ kdfPc \in {"call", "done"} THEN 0
  ELSE IF kdfPc = "block" THEN Iterations + 1
  ELSE Iterations - turn

\* A turn ends with the next call of hmac_compute.
HalfTurn == IF kdfPc = "iterate" THEN 1 ELSE 0

\* The stages hmac_compute has still to go through.
StagesLeft ==
  [stage \in Stages |->
     CASE stage = "key_block"    -> 11
       [] stage = "key_hash"     -> 10
       [] stage = "key_digest"   -> 9
       [] stage = "inner_init"   -> 8
       [] stage = "inner_pad"    -> 7
       [] stage = "inner_data"   -> 6
       [] stage = "inner_digest" -> 5
       [] stage = "outer_init"   -> 4
       [] stage = "outer_pad"    -> 3
       [] stage = "outer_data"   -> 2
       [] stage = "outer_digest" -> 1
       [] OTHER                  -> 0]

\* The bytes hash_update has still to take, and its return.
BytesLeft == IF ctxPc = "update" THEN Len(ctxData) - i + 1 ELSE 0

StepsLeft ==
  [k \in 1 .. 6 |->
     CASE k = 1 -> KeysLeft
       [] k = 2 -> BlocksLeft
       [] k = 3 -> TurnsLeft
       [] k = 4 -> HalfTurn
       [] k = 5 -> StagesLeft[at]
       [] OTHER -> BytesLeft]

\* Less left of an outer loop outweighs whatever the loops inside it begin anew.
Fewer == LexProductOrdering(OpToRel(<, Nat), Nat, 6)

Descends == [][Step => <<StepsLeft', StepsLeft>> \in Fewer]_vars

\* Nothing gets fewer without end.
LEMMA NoEndlessDescent == IsWellFoundedOn(Fewer, [1 .. 6 -> Nat])
  BY NatLessThanWellFounded, WFLexProductOrdering DEF Fewer

LEMMA FewerAt ==
  ASSUME NEW m \in [1 .. 6 -> Nat], NEW n \in [1 .. 6 -> Nat], NEW k \in 1 .. 6,
         m[k] < n[k], \A j \in 1 .. k - 1 : m[j] = n[j]
  PROVE  <<m, n>> \in Fewer
<1>1. <<m[k], n[k]>> \in OpToRel(<, Nat)
  BY DEF OpToRel
<1>2. QED
  BY <1>1 DEF Fewer, LexProductOrdering

LEMMA StepsLeftTypes == KdfInv /\ DeriveInv => StepsLeft \in [1 .. 6 -> Nat]
<1> SUFFICES ASSUME KdfInv, DeriveInv PROVE StepsLeft \in [1 .. 6 -> Nat]
  OBVIOUS
<1>1. KeysLeft \in Nat /\ HalfTurn \in Nat
  BY DEF KeysLeft, HalfTurn
<1>2. BlocksLeft \in Nat /\ TurnsLeft \in Nat
  <2>1. CASE job.kind = "context"
    <3>1. BlocksNeeded \in Nat
      BY <2>1, KeySizeIsNat, BlocksCover DEF KdfInv
    <3>2. kdfPc \in {"block", "accumulate", "iterate"} => blockNum \in 1 .. BlocksNeeded + 1
      BY <2>1 DEF DeriveInv, CopiedRight
    <3>3. kdfPc \in {"accumulate", "iterate"} => turn \in 0 .. Iterations
      BY <2>1, KdfAssumption DEF DeriveInv, HashingRight, AddedRight
    <3>4. kdfPc \in {"call", "block", "accumulate", "iterate", "done"}
      BY <2>1 DEF DeriveInv
    <3>5. QED
      BY <3>1, <3>2, <3>3, <3>4, KdfAssumption DEF BlocksLeft, TurnsLeft
  <2>2. QED
    BY <2>1 DEF BlocksLeft, TurnsLeft
<1>3. StagesLeft[at] \in Nat
  BY DEF StagesLeft, KdfInv, HmacTypes
<1>4. BytesLeft \in Nat
  <2>1. i \in 0 .. Len(ctxData) /\ Len(ctxData) \in Nat
    BY DEF KdfInv, CtxInv, CtxTypes
  <2>2. QED
    BY <2>1 DEF BytesLeft
<1>5. QED
  BY <1>1, <1>2, <1>3, <1>4 DEF StepsLeft

\* Each step of kdf_derive lessens what one of its loops has left.
LEMMA KdfStepDescends ==
  ASSUME SqueezeGivesDigest, KdfInv, DeriveInv, KdfStep
  PROVE  <<StepsLeft', StepsLeft>> \in Fewer
<1>1. [Next]_vars
  BY DEF Next, Step
<1>2. StepsLeft \in [1 .. 6 -> Nat] /\ StepsLeft' \in [1 .. 6 -> Nat]
  <2>1. KdfInv' /\ DeriveInv'
    BY <1>1, KdfNext, DeriveNext
  <2>2. (KdfInv /\ DeriveInv => StepsLeft \in [1 .. 6 -> Nat])'
    BY StepsLeftTypes, PTL
  <2>3. QED
    BY <2>1, <2>2, StepsLeftTypes
<1>3. ASSUME NEW k \in 1 .. 6, StepsLeft'[k] < StepsLeft[k],
             \A j \in 1 .. k - 1 : StepsLeft'[j] = StepsLeft[j]
      PROVE  <<StepsLeft', StepsLeft>> \in Fewer
  BY <1>2, <1>3, FewerAt
<1>4. CASE CallKdf \/ CopyBlock
  <2>1. /\ job.kind = "context" /\ job' = job /\ tag' = tag
        /\ kdfPc \in {"call", "iterate"} /\ kdfPc' = "block"
        /\ blockNum' = IF kdfPc = "call" THEN 1 ELSE blockNum + 1
    BY <1>4 DEF CallKdf, CopyBlock, Deriving
  <2>2. BlocksNeeded' = BlocksNeeded /\ BlocksNeeded \in Nat /\ blockNum \in Nat
    BY <2>1, SameKeys, KeySizeIsNat, BlocksCover DEF KdfInv, KdfTypes
  <2>3. KeysLeft' = KeysLeft
    BY <2>1 DEF KeysLeft
  <2>4. BlocksLeft' < BlocksLeft
    BY <2>1, <2>2 DEF BlocksLeft
  <2>5. StepsLeft'[2] < StepsLeft[2] /\ StepsLeft'[1] = StepsLeft[1]
    BY <2>3, <2>4 DEF StepsLeft
  <2>6. QED
    BY <1>3, <2>5
<1>5. CASE FirstHmac \/ Accumulate
  <2>1. /\ job.kind = "context" /\ job' = job /\ tag' = tag /\ blockNum' = blockNum
        /\ \/ kdfPc = "block" /\ kdfPc' = "accumulate" /\ turn' = 0
           \/ kdfPc = "accumulate" /\ kdfPc' = "iterate" /\ turn' = turn + 1
    BY <1>5 DEF FirstHmac, Accumulate, Deriving
  <2>2. BlocksNeeded' = BlocksNeeded
    BY <2>1, SameKeys
  <2>3. kdfPc = "accumulate" => turn \in 0 .. Iterations
    BY <2>1, KdfAssumption DEF DeriveInv, HashingRight
  <2>4. KeysLeft' = KeysLeft /\ BlocksLeft' = BlocksLeft
    BY <2>1, <2>2 DEF KeysLeft, BlocksLeft
  <2>5. TurnsLeft' < TurnsLeft
    BY <2>1, <2>3, KdfAssumption DEF TurnsLeft
  <2>6. StepsLeft'[3] < StepsLeft[3] /\ \A j \in 1 .. 2 : StepsLeft'[j] = StepsLeft[j]
    BY <2>4, <2>5 DEF StepsLeft
  <2>7. QED
    BY <1>3, <2>6
<1>6. CASE NextHmac
  <2>1. /\ job.kind = "context" /\ job' = job /\ tag' = tag /\ blockNum' = blockNum
        /\ turn' = turn /\ kdfPc = "iterate" /\ kdfPc' = "accumulate"
    BY <1>6 DEF NextHmac, Deriving
  <2>2. BlocksNeeded' = BlocksNeeded
    BY <2>1, SameKeys
  <2>3. /\ KeysLeft' = KeysLeft /\ BlocksLeft' = BlocksLeft /\ TurnsLeft' = TurnsLeft
        /\ HalfTurn' < HalfTurn
    BY <2>1, <2>2 DEF KeysLeft, BlocksLeft, TurnsLeft, HalfTurn
  <2>4. StepsLeft'[4] < StepsLeft[4] /\ \A j \in 1 .. 3 : StepsLeft'[j] = StepsLeft[j]
    BY <2>3 DEF StepsLeft
  <2>5. QED
    BY <1>3, <2>4
<1>7. CASE StoreKey \/ ComputeMac
  <2>1. /\ kdfPc # "done" /\ tag \in {"ENC", "MAC"}
        /\ kdfPc' = "done" \/ (tag = "ENC" /\ tag' = "MAC")
    BY <1>7 DEF StoreKey, ComputeMac, Deriving, KdfInv, KdfTypes
  <2>2. KeysLeft' < KeysLeft
    BY <2>1 DEF KeysLeft
  <2>3. StepsLeft'[1] < StepsLeft[1]
    BY <2>2 DEF StepsLeft
  <2>4. QED
    BY <1>3, <2>3
<1>8. QED
  BY <1>4, <1>5, <1>6, <1>7 DEF KdfStep

\* Each step of hmac_compute and of hash_update lessens what it has left itself.
LEMMA InnerStepDescends ==
  ASSUME SqueezeGivesDigest, KdfInv, DeriveInv, HmacStep \/ InsideUpdate, UNCHANGED kdfVars
  PROVE  <<StepsLeft', StepsLeft>> \in Fewer
<1>1. [Next]_vars
  BY DEF Next, Step
<1>2. StepsLeft \in [1 .. 6 -> Nat] /\ StepsLeft' \in [1 .. 6 -> Nat]
  <2>1. KdfInv' /\ DeriveInv'
    BY <1>1, KdfNext, DeriveNext
  <2>2. (KdfInv /\ DeriveInv => StepsLeft \in [1 .. 6 -> Nat])'
    BY StepsLeftTypes, PTL
  <2>3. QED
    BY <2>1, <2>2, StepsLeftTypes
<1>3. job' = job /\ tag' = tag /\ blockNum' = blockNum /\ turn' = turn /\ kdfPc' = kdfPc
  BY DEF kdfVars
<1>4. BlocksNeeded' = BlocksNeeded
  BY <1>3, SameKeys
<1>5. /\ KeysLeft' = KeysLeft /\ BlocksLeft' = BlocksLeft /\ TurnsLeft' = TurnsLeft
      /\ HalfTurn' = HalfTurn
  BY <1>3, <1>4 DEF KeysLeft, BlocksLeft, TurnsLeft, HalfTurn
<1>6. \A j \in 1 .. 4 : StepsLeft'[j] = StepsLeft[j]
  BY <1>5 DEF StepsLeft
<1>7. CASE HmacStep
  <2>1. StagesLeft'[at'] < StagesLeft[at]
    <3>1. StagesLeft' = StagesLeft
      BY DEF StagesLeft
    <3>2. StagesLeft[at'] < StagesLeft[at]
      BY <1>7 DEF HmacStep, ShortKey, LongKey, LongKeyDigest, Start, Feed, InnerDigest, OuterDigest,
                  Goto, StagesLeft, Stages, Keyed
    <3>3. QED
      BY <3>1, <3>2
  <2>2. StepsLeft'[5] < StepsLeft[5] /\ \A j \in 1 .. 4 : StepsLeft'[j] = StepsLeft[j]
    BY <1>6, <2>1 DEF StepsLeft
  <2>3. QED
    BY <1>2, <2>2, FewerAt
<1>8. CASE InsideUpdate
  <2>1. at' = at /\ Ctx!InUpdate
    BY <1>8 DEF InsideUpdate, hmacVars
  <2>2. i \in 0 .. Len(ctxData) /\ Len(ctxData) \in Nat /\ count \in Nat
    BY DEF KdfInv, CtxInv, CtxTypes
  <2>3. BytesLeft' < BytesLeft
    <3>1. CASE Ctx!UpdateChunk
      <4>1. /\ ctxPc = "update" /\ ctxPc' = ctxPc /\ ctxData' = ctxData /\ i < Len(ctxData)
            /\ i' = i + (IF Len(ctxData) - i < Ctx!Space THEN Len(ctxData) - i ELSE Ctx!Space)
        BY <3>1 DEF Ctx!UpdateChunk
      <4>2. Ctx!Space \in Nat /\ Ctx!Space > 0
        BY <2>2, Sizes DEF Ctx!Space
      <4>3. PICK taken \in Nat : taken > 0 /\ i' = i + taken
        <5>1. PICK rest \in Nat : rest = Len(ctxData) - i /\ rest > 0
          BY <2>2, <4>1
        <5>2. PICK space \in Nat : space = Ctx!Space /\ space > 0
          BY <4>2
        <5>3. i' = i + (IF rest < space THEN rest ELSE space)
          BY <4>1, <5>1, <5>2
        <5>4. QED
          BY <5>1, <5>2, <5>3
      <4>4. QED
        BY <2>2, <4>1, <4>3 DEF BytesLeft
    <3>2. CASE Ctx!UpdateReturn
      BY <2>2, <3>2 DEF Ctx!UpdateReturn, BytesLeft
    <3>3. QED
      BY <2>1, <3>1, <3>2 DEF Ctx!InUpdate
  <2>4. StepsLeft'[6] < StepsLeft[6] /\ \A j \in 1 .. 5 : StepsLeft'[j] = StepsLeft[j]
    <3>1. StagesLeft'[at'] = StagesLeft[at]
      BY <2>1 DEF StagesLeft
    <3>2. QED
      BY <1>5, <2>3, <3>1 DEF StepsLeft
  <2>5. QED
    BY <1>2, <2>4, FewerAt
<1>9. QED
  BY <1>7, <1>8

\* A call runs to its end: whatever is hashed, each step of the loops of hash_update
\* and of kdf_derive, and of hmac_compute between them, leaves fewer in an order in
\* which nothing gets fewer without end (hash.c:140-158, hmac.c:16-69, kdf.c:36-74).
THEOREM CallsDescend ==
  SqueezeGivesDigest =>
    /\ IsWellFoundedOn(Fewer, [1 .. 6 -> Nat])
    /\ Spec => [](StepsLeft \in [1 .. 6 -> Nat]) /\ Descends
<1> SUFFICES ASSUME SqueezeGivesDigest
             PROVE  Spec => [](StepsLeft \in [1 .. 6 -> Nat]) /\ Descends
  BY NoEndlessDescent
<1>1. Init => KdfInv /\ DeriveInv
  BY KdfInit, DeriveInit
<1>2. (KdfInv /\ DeriveInv) /\ [Next]_vars => (KdfInv /\ DeriveInv)'
  BY KdfNext, DeriveNext
<1>3. KdfInv /\ DeriveInv => StepsLeft \in [1 .. 6 -> Nat]
  BY StepsLeftTypes
<1>4. (KdfInv /\ DeriveInv) /\ [Next]_vars
        => [Step => <<StepsLeft', StepsLeft>> \in Fewer]_vars
  BY KdfStepDescends, InnerStepDescends DEF Step
<1>5. QED
  BY <1>1, <1>2, <1>3, <1>4, PTL DEF Spec, Descends
=============================================================================
