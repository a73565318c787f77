-------------------------- MODULE BlockCipher_proofs ---------------------------
(***************************************************************************)
(* Proofs about BlockCipher: the operations of a round are undone, for     *)
(* every S-box that takes no value twice.                                  *)
(***************************************************************************)
EXTENDS BlockCipher, TLAPS

-----------------------------------------------------------------------------
(* Bytes *)

\* The symmetric difference of two bytes is a byte, and takes itself back.
LEMMA XorBytes ==
  ASSUME NEW a \in Byte, NEW b \in Byte
  PROVE  a (+) b \in Byte /\ (a (+) b) (+) b = a
BY DEF Byte, (+)

\* A shifted byte is a byte.
LEMMA ShiftedByte == \A a \in Byte : Shifted(a) \in Byte
<1> SUFFICES ASSUME NEW a \in Byte PROVE Shifted(a) \in Byte
  OBVIOUS
<1>1. {k + 1 : k \in a \ {7}} \in Byte
  <2> SUFFICES ASSUME NEW k \in a \ {7} PROVE k + 1 \in Bits
    BY DEF Byte
  <2> QED BY DEF Byte, Bits
<1>2. {0, 1, 3, 4} \in Byte /\ {} \in Byte
  BY DEF Byte, Bits
<1> QED BY <1>1, <1>2, XorBytes DEF Shifted

\* Shifting is additive, the reduction included.
LEMMA ShiftedAdds ==
  ASSUME NEW a \in Byte, NEW b \in Byte
  PROVE  Shifted(a (+) b) = Shifted(a) (+) Shifted(b)
<1> DEFINE Up(c) == {k + 1 : k \in c \ {7}}
           Low(c) == IF 7 \in c THEN {0, 1, 3, 4} ELSE {}
<1>1. Up(a (+) b) = Up(a) (+) Up(b)
  <2>0. ASSUME NEW c \in Byte, NEW x \in Int
        PROVE  x \in Up(c) <=> (x - 1 \in c /\ x /= 8)
    <3>1. ASSUME x \in Up(c) PROVE x - 1 \in c /\ x /= 8
      <4>1. PICK k \in c \ {7} : x = k + 1
        BY <3>1
      <4> QED BY <4>1 DEF Byte, Bits
    <3>2. ASSUME x - 1 \in c, x /= 8 PROVE x \in Up(c)
      <4>1. x - 1 \in c \ {7} /\ x = (x - 1) + 1
        BY <3>2
      <4> QED BY <4>1
    <3> QED BY <3>1, <3>2
  <2>1. a (+) b \in Byte
    BY XorBytes
  <2>2. ASSUME NEW c \in Byte PROVE Up(c) \subseteq Int
    BY DEF Byte, Bits
  <2>3. ASSUME NEW x \in Int
        PROVE  x \in Up(a (+) b) <=> x \in Up(a) (+) Up(b)
    <3>1. x \in Up(a (+) b) <=> (x - 1 \in a (+) b /\ x /= 8)
      BY <2>0, <2>1
    <3>2. x \in Up(a) <=> (x - 1 \in a /\ x /= 8)
      BY <2>0
    <3>3. x \in Up(b) <=> (x - 1 \in b /\ x /= 8)
      BY <2>0
    <3> HIDE DEF Up
    <3> QED BY <3>1, <3>2, <3>3 DEF (+)
  <2>4. Up(a (+) b) \subseteq Int /\ Up(a) (+) Up(b) \subseteq Int
    <3>1. Up(a (+) b) \subseteq Int /\ Up(a) \subseteq Int /\ Up(b) \subseteq Int
      BY <2>1, <2>2
    <3> HIDE DEF Up
    <3> QED BY <3>1 DEF (+)
  <2> HIDE DEF Up
  <2> QED BY <2>3, <2>4
<1>2. Low(a (+) b) = Low(a) (+) Low(b)
  BY DEF (+)
<1>3. Shifted(a (+) b) = Up(a (+) b) (+) Low(a (+) b)
      /\ Shifted(a) = Up(a) (+) Low(a) /\ Shifted(b) = Up(b) (+) Low(b)
  BY DEF Shifted
<1> HIDE DEF Up, Low
<1>4. (Up(a) (+) Up(b)) (+) (Low(a) (+) Low(b)) = (Up(a) (+) Low(a)) (+) (Up(b) (+) Low(b))
  BY DEF (+)
<1> QED BY <1>1, <1>2, <1>3, <1>4

-----------------------------------------------------------------------------
(* Columns *)

\* A row of the product is a byte, and shifting it shifts the column.
LEMMA MixRowShifts ==
  ASSUME NEW a \in Byte, NEW b \in Byte, NEW c \in Byte, NEW d \in Byte
  PROVE  /\ MixRow(a, b, c, d) \in Byte
         /\ Shifted(MixRow(a, b, c, d)) = MixRow(Shifted(a), Shifted(b), Shifted(c), Shifted(d))
<1>1. Shifted(a) \in Byte /\ Shifted(b) \in Byte
  BY ShiftedByte
<1>2. b (+) Shifted(b) \in Byte /\ c (+) d \in Byte
  BY <1>1, XorBytes
<1>3. Shifted(a) (+) (b (+) Shifted(b)) \in Byte
  BY <1>1, <1>2, XorBytes
<1>4. MixRow(a, b, c, d) = (Shifted(a) (+) (b (+) Shifted(b))) (+) (c (+) d)
  BY DEF MixRow, Mul2, Mul3
<1>5. MixRow(a, b, c, d) \in Byte
  BY <1>2, <1>3, <1>4, XorBytes
<1>6. Shifted(MixRow(a, b, c, d)) = Shifted(Shifted(a) (+) (b (+) Shifted(b))) (+) Shifted(c (+) d)
  BY <1>2, <1>3, <1>4, ShiftedAdds
<1>7. Shifted(Shifted(a) (+) (b (+) Shifted(b))) = Shifted(Shifted(a)) (+) Shifted(b (+) Shifted(b))
  BY <1>1, <1>2, ShiftedAdds
<1>8. Shifted(b (+) Shifted(b)) = Shifted(b) (+) Shifted(Shifted(b))
  BY <1>1, ShiftedAdds
<1>9. Shifted(c (+) d) = Shifted(c) (+) Shifted(d)
  BY ShiftedAdds
<1>10. MixRow(Shifted(a), Shifted(b), Shifted(c), Shifted(d))
         = (Shifted(Shifted(a)) (+) (Shifted(b) (+) Shifted(Shifted(b)))) (+) (Shifted(c) (+) Shifted(d))
  BY DEF MixRow, Mul2, Mul3
<1> QED BY <1>5, <1>6, <1>7, <1>8, <1>9, <1>10

\* A row of the inverse matrix takes the first byte out of a mixed column.
LEMMA ColumnInverts ==
  ASSUME NEW a \in Byte, NEW b \in Byte, NEW c \in Byte, NEW d \in Byte
  PROVE  InvMixRow(MixRow(a, b, c, d), MixRow(b, c, d, a), MixRow(c, d, a, b), MixRow(d, a, b, c)) = a
<1> DEFINE S1(x) == Shifted(x)
           S2(x) == Shifted(S1(x))
           S3(x) == Shifted(S2(x))
           S4(x) == Shifted(S3(x))
           Odd(p, q) == (p /\ ~q) \/ (~p /\ q)
           Row(u, w, w1, x, x1, y, z) ==
             Odd(Odd(Odd(u \in w1, u \in x), u \in x1), Odd(u \in y, u \in z))
<1>1. ASSUME NEW w \in Byte, NEW x \in Byte, NEW y \in Byte, NEW z \in Byte, NEW u
      PROVE  /\ u \in MixRow(w, x, y, z) <=> Row(u, w, S1(w), x, S1(x), y, z)
             /\ u \in S1(MixRow(w, x, y, z))
                  <=> Row(u, S1(w), S2(w), S1(x), S2(x), S1(y), S1(z))
             /\ u \in S2(MixRow(w, x, y, z))
                  <=> Row(u, S2(w), S3(w), S2(x), S3(x), S2(y), S2(z))
             /\ u \in S3(MixRow(w, x, y, z))
                  <=> Row(u, S3(w), S4(w), S3(x), S4(x), S3(y), S3(z))
  <2>1. S1(w) \in Byte /\ S1(x) \in Byte /\ S1(y) \in Byte /\ S1(z) \in Byte
    BY ShiftedByte
  <2>2. S2(w) \in Byte /\ S2(x) \in Byte /\ S2(y) \in Byte /\ S2(z) \in Byte
    BY <2>1, ShiftedByte
  <2>3. /\ S1(MixRow(w, x, y, z)) = MixRow(S1(w), S1(x), S1(y), S1(z))
        /\ S2(MixRow(w, x, y, z)) = MixRow(S2(w), S2(x), S2(y), S2(z))
        /\ S3(MixRow(w, x, y, z)) = MixRow(S3(w), S3(x), S3(y), S3(z))
    BY <2>1, <2>2, MixRowShifts
  <2>4. ASSUME NEW v1, NEW v2, NEW v3, NEW v4
        PROVE  u \in MixRow(v1, v2, v3, v4) <=> Row(u, v1, Shifted(v1), v2, Shifted(v2), v3, v4)
    BY DEF MixRow, Mul2, Mul3, (+)
  <2> HIDE DEF Row
  <2> QED BY <2>3, <2>4
<1>2. ASSUME NEW w, NEW x, NEW y, NEW z, NEW u
      PROVE  u \in InvMixRow(w, x, y, z)
               <=> Odd(Odd(Odd(Odd(u \in S1(w), u \in S2(w)), u \in S3(w)),
                           Odd(Odd(u \in x, u \in S1(x)), u \in S3(x))),
                       Odd(Odd(Odd(u \in y, u \in S2(y)), u \in S3(y)),
                           Odd(u \in z, u \in S3(z))))
  BY DEF InvMixRow, Mul14, Mul13, Mul11, Mul9, Mul8, Mul4, Mul3, Mul2, (+)
<1>3. ASSUME NEW u
      PROVE  u \in InvMixRow(MixRow(a, b, c, d), MixRow(b, c, d, a),
                             MixRow(c, d, a, b), MixRow(d, a, b, c)) <=> u \in a
  <2> DEFINE m0 == MixRow(a, b, c, d)
             m1 == MixRow(b, c, d, a)
             m2 == MixRow(c, d, a, b)
             m3 == MixRow(d, a, b, c)
  <2> HIDE DEF S1, S2, S3, S4, Row, Odd, m0, m1, m2, m3
  <2>1. u \in InvMixRow(m0, m1, m2, m3)
          <=> Odd(Odd(Odd(Odd(u \in S1(m0), u \in S2(m0)), u \in S3(m0)),
                      Odd(Odd(u \in m1, u \in S1(m1)), u \in S3(m1))),
                  Odd(Odd(Odd(u \in m2, u \in S2(m2)), u \in S3(m2)),
                      Odd(u \in m3, u \in S3(m3))))
    BY <1>2
  <2>2. /\ u \in S1(m0) <=> Row(u, S1(a), S2(a), S1(b), S2(b), S1(c), S1(d))
        /\ u \in S2(m0) <=> Row(u, S2(a), S3(a), S2(b), S3(b), S2(c), S2(d))
        /\ u \in S3(m0) <=> Row(u, S3(a), S4(a), S3(b), S4(b), S3(c), S3(d))
    BY <1>1 DEF m0
  <2>3. /\ u \in m1 <=> Row(u, b, S1(b), c, S1(c), d, a)
        /\ u \in S1(m1) <=> Row(u, S1(b), S2(b), S1(c), S2(c), S1(d), S1(a))
        /\ u \in S3(m1) <=> Row(u, S3(b), S4(b), S3(c), S4(c), S3(d), S3(a))
    BY <1>1 DEF m1
  <2>4. /\ u \in m2 <=> Row(u, c, S1(c), d, S1(d), a, b)
        /\ u \in S2(m2) <=> Row(u, S2(c), S3(c), S2(d), S3(d), S2(a), S2(b))
        /\ u \in S3(m2) <=> Row(u, S3(c), S4(c), S3(d), S4(d), S3(a), S3(b))
    BY <1>1 DEF m2
  <2>5. /\ u \in m3 <=> Row(u, d, S1(d), a, S1(a), b, c)
        /\ u \in S3(m3) <=> Row(u, S3(d), S4(d), S3(a), S4(a), S3(b), S3(c))
    BY <1>1 DEF m3
  <2>6. u \in InvMixRow(m0, m1, m2, m3) <=> u \in a
    BY <2>1, <2>2, <2>3, <2>4, <2>5, SMTT(60) DEF Row, Odd
  <2> QED BY <2>6 DEF m0, m1, m2, m3
<1> QED BY <1>3

-----------------------------------------------------------------------------
(* Blocks *)

\* Every multiple of a byte is a byte.
LEMMA MultipleBytes ==
  ASSUME NEW a \in Byte
  PROVE  /\ Mul2(a) \in Byte /\ Mul3(a) \in Byte /\ Mul9(a) \in Byte
         /\ Mul11(a) \in Byte /\ Mul13(a) \in Byte /\ Mul14(a) \in Byte
<1>1. Shifted(a) \in Byte
  BY ShiftedByte
<1>2. Mul4(a) \in Byte
  BY <1>1, ShiftedByte DEF Mul4
<1>3. Mul8(a) \in Byte
  BY <1>2, ShiftedByte DEF Mul8
<1>4. Mul2(a) \in Byte /\ Mul3(a) \in Byte
  BY <1>1, XorBytes DEF Mul2, Mul3
<1>5. Mul2(a) (+) Mul4(a) \in Byte /\ a (+) Mul4(a) \in Byte
  BY <1>2, <1>4, XorBytes
<1> QED BY <1>2, <1>3, <1>4, <1>5, XorBytes DEF Mul9, Mul11, Mul13, Mul14

\* Both rows give bytes.
LEMMA RowBytes ==
  ASSUME NEW a \in Byte, NEW b \in Byte, NEW c \in Byte, NEW d \in Byte
  PROVE  MixRow(a, b, c, d) \in Byte /\ InvMixRow(a, b, c, d) \in Byte
<1>1. MixRow(a, b, c, d) \in Byte
  BY MixRowShifts
<1>2. Mul14(a) \in Byte /\ Mul11(b) \in Byte /\ Mul13(c) \in Byte /\ Mul9(d) \in Byte
  BY MultipleBytes
<1>3. Mul14(a) (+) Mul11(b) \in Byte /\ Mul13(c) (+) Mul9(d) \in Byte
  BY <1>2, XorBytes
<1> QED BY <1>1, <1>3, XorBytes DEF InvMixRow

\* The operations of a round give blocks.
LEMMA BlockOperations ==
  ASSUME NEW b \in Block, NEW c \in Block
  PROVE  /\ XorAll(b, c) \in Block
         /\ \A table \in [Byte -> Byte] : SubBytes(table, b) \in Block
         /\ ShiftRows(b) \in Block /\ InvShiftRows(b) \in Block
         /\ MixBytes(b) \in Block /\ InvMixBytes(b) \in Block
<1>1. XorAll(b, c) \in Block
  <2>1. \A p \in Place : b[p] (+) c[p] \in Byte
    BY XorBytes DEF Block
  <2> QED BY <2>1 DEF XorAll, Block
<1>2. \A table \in [Byte -> Byte] : SubBytes(table, b) \in Block
  BY DEF SubBytes, Block
<1>3. ShiftRows(b) \in Block
  <2>1. \A p \in Place : (p + 4 * (p % 4)) % 16 \in Place
    BY DEF Place
  <2> QED BY <2>1 DEF ShiftRows, Block
<1>4. InvShiftRows(b) \in Block
  <2>1. \A p \in Place : (p + 12 * (p % 4)) % 16 \in Place
    BY DEF Place
  <2> QED BY <2>1 DEF InvShiftRows, Block
<1>5. \A p \in Place, k \in 0 .. 3 : Below(b, p, k) \in Byte
  <2>1. \A p \in Place, k \in 0 .. 3 : 4 * (p \div 4) + ((p + k) % 4) \in Place
    BY DEF Place
  <2> QED BY <2>1 DEF Below, Block
<1>6. MixBytes(b) \in Block
  BY <1>5, RowBytes DEF MixBytes, Block
<1>7. InvMixBytes(b) \in Block
  BY <1>5, RowBytes DEF InvMixBytes, Block
<1> QED BY <1>1, <1>2, <1>3, <1>4, <1>6, <1>7

\* Adding a key twice gives the block back.
LEMMA XorUndone ==
  ASSUME NEW b \in Block, NEW c \in Block
  PROVE  XorAll(XorAll(b, c), c) = b
<1>1. \A p \in Place : (b[p] (+) c[p]) (+) c[p] = b[p]
  BY XorBytes DEF Block
<1> QED BY <1>1 DEF XorAll, Block

\* The rows are shifted back.
LEMMA ShiftUndone ==
  ASSUME NEW b \in Block
  PROVE  InvShiftRows(ShiftRows(b)) = b
<1>1. ASSUME NEW p \in Place
      PROVE  LET q == (p + 12 * (p % 4)) % 16
             IN  q \in Place /\ (q + 4 * (q % 4)) % 16 = p
  BY DEF Place
<1>2. ASSUME NEW p \in Place PROVE InvShiftRows(ShiftRows(b))[p] = b[p]
  BY <1>1 DEF InvShiftRows, ShiftRows
<1>3. InvShiftRows(ShiftRows(b)) \in Block
  BY BlockOperations
<1> QED BY <1>2, <1>3 DEF Block

\* The table sbox_init builds is one of bytes, and takes SBOX back.
LEMMA InverseTableInverts ==
  /\ InverseTable \in [Byte -> Byte]
  /\ \A a \in Byte : InverseTable[SBOX[a]] = a
<1>1. ASSUME NEW a \in Byte PROVE InverseTable[a] \in Byte
  <2>1. {} \in Byte
    BY DEF Byte
  <2>2. CASE \E b \in Byte : SBOX[b] = a
    BY <2>2 DEF InverseTable
  <2> QED BY <2>1, <2>2 DEF InverseTable
<1>2. ASSUME NEW a \in Byte PROVE InverseTable[SBOX[a]] = a
  <2>1. SBOX[a] \in Byte
    BY CipherAssumption
  <2>2. InverseTable[SBOX[a]] = CHOOSE b \in Byte : SBOX[b] = SBOX[a]
    BY <2>1 DEF InverseTable
  <2> QED BY <2>2, CipherAssumption
<1>3. InverseTable = [a \in Byte |-> InverseTable[a]]
  BY DEF InverseTable
<1> QED BY <1>1, <1>2, <1>3

\* The substitution is taken back.
LEMMA SubUndone ==
  ASSUME NEW b \in Block
  PROVE  SubBytes(InverseTable, SubBytes(SBOX, b)) = b
<1>1. \A p \in Place : InverseTable[SBOX[b[p]]] = b[p]
  BY InverseTableInverts DEF Block
<1> QED BY <1>1 DEF SubBytes, Block

\* The columns are unmixed.
LEMMA MixUndone ==
  ASSUME NEW b \in Block
  PROVE  InvMixBytes(MixBytes(b)) = b
<1>1. ASSUME NEW p \in Place PROVE InvMixBytes(MixBytes(b))[p] = b[p]
  <2> DEFINE q(k) == 4 * (p \div 4) + ((p + k) % 4)
  <2>1. q(0) = p /\ \A k \in 0 .. 3 : q(k) \in Place
    BY DEF Place
  <2>2. \A k, m \in 0 .. 3 : 4 * (q(k) \div 4) + ((q(k) + m) % 4) = q((k + m) % 4)
    BY DEF Place
  <2>3. \A k, m \in 0 .. 3 : Below(b, q(k), m) = b[q((k + m) % 4)]
    BY <2>2 DEF Below
  <2>4. \A k \in 0 .. 3 : b[q(k)] \in Byte
    BY <2>1 DEF Block
  <2> HIDE DEF q
  <2>5. /\ MixBytes(b)[q(0)] = MixRow(b[q(0)], b[q(1)], b[q(2)], b[q(3)])
        /\ MixBytes(b)[q(1)] = MixRow(b[q(1)], b[q(2)], b[q(3)], b[q(0)])
        /\ MixBytes(b)[q(2)] = MixRow(b[q(2)], b[q(3)], b[q(0)], b[q(1)])
        /\ MixBytes(b)[q(3)] = MixRow(b[q(3)], b[q(0)], b[q(1)], b[q(2)])
    BY <2>1, <2>3 DEF MixBytes
  <2>6. InvMixBytes(MixBytes(b))[p]
          = InvMixRow(MixBytes(b)[q(0)], MixBytes(b)[q(1)], MixBytes(b)[q(2)], MixBytes(b)[q(3)])
    BY DEF InvMixBytes, Below, q
  <2>7. InvMixBytes(MixBytes(b))[p] = b[q(0)]
    BY <2>4, <2>5, <2>6, ColumnInverts
  <2> QED BY <2>1, <2>7
<1>2. InvMixBytes(MixBytes(b)) \in Block
  BY BlockOperations
<1> QED BY <1>1, <1>2 DEF Block

-----------------------------------------------------------------------------
(* The inductive invariant *)

Ops == {"sbox", "shift", "mix", "xor"}
Working == Ops \cup {"next", "give"}

\* The operations of a block in the order of encryption, and where each is.
Valid(q, op) ==
  /\ q \in 0 .. ROUNDS /\ op \in Ops
  /\ q = 0 => op = "xor"
  /\ q = ROUNDS => op /= "mix"

Rank(op) == IF op = "sbox" THEN 0 ELSE IF op = "shift" THEN 1 ELSE IF op = "mix" THEN 2 ELSE 3

At(q, op) == 4 * q + Rank(op)

\* The block before block k in the chain.
Before(k) == IF k = 1 THEN job.iv ELSE file[k - 1]

\* Block k as operation op of round q takes it, and what the operation gives.
Entry(k, q, op) ==
  IF op = "sbox" THEN trail[k][q - 1]["xor"]
  ELSE IF op = "shift" THEN trail[k][q]["sbox"]
  ELSE IF op = "mix" THEN trail[k][q]["shift"]
  ELSE IF q = 0 THEN XorAll(job.text[k], Before(k))
  ELSE IF q = ROUNDS THEN trail[k][q]["shift"]
  ELSE trail[k][q]["mix"]

Operation(q, op, b) ==
  IF op = "sbox" THEN SubBytes(SBOX, b)
  ELSE IF op = "shift" THEN ShiftRows(b)
  ELSE IF op = "mix" THEN MixBytes(b)
  ELSE XorAll(b, RoundKeys(made)[q])

Passed(k, q, op) ==
  \/ mode = "decode"
  \/ k <= n
  \/ k = n + 1 /\ (pc = "give" \/ (pc \in Ops /\ At(q, op) < At(r, pc)))

\* The words before the m-th are those of the schedule of the key.
Scheduled(words, m) ==
  \A j \in KeyWords :
    j < m => words[j] = IF j < NK THEN KeyWord(j) ELSE NewWord(words, j)

\* decode makes again the words encode has made.
ScheduleInv ==
  /\ pc = "expand" => i >= NK
  /\ mode = "encode" /\ pc = "expand" => Scheduled(W, i)
  /\ mode = "decode" \/ pc \in Working => Scheduled(made, NB * (ROUNDS + 1))
  /\ mode = "decode" /\ pc = "expand" => \A j \in KeyWords : j < i => W[j] = made[j]
  /\ pc \in Working \/ (mode = "decode" /\ pc = "sbox_init") => round_keys = RoundKeys(made)

\* The inverse table is built before it is read.
TableInv ==
  /\ initialized = 1 => INV_SBOX = InverseTable
  /\ mode = "decode" /\ pc \in Working => initialized = 1

\* The chain of either command, and where it stands.
ChainInv ==
  /\ pc /= "done" => prev = Before(n + 1)
  /\ pc \notin Working \cup {"done"} => n = 0
  /\ mode = "encode" => Len(file) = n /\ out = <<>> /\ pc /= "done"
  /\ mode = "decode" => Len(file) = Len(job.text) /\ Len(out) = n
  /\ pc = "done" => n = Len(file)
  /\ pc \in Ops \cup {"give"} => n < Len(job.text)
  /\ \A k \in 1 .. Len(file) : file[k] = trail[k][ROUNDS]["xor"]
  /\ \A k \in 1 .. Len(out) : out[k] = job.text[k]

\* The trail is what the operations give one after the other.
TrailInv ==
  \A k \in 1 .. Len(job.text), q \in 0 .. ROUNDS, op \in Ops :
    Valid(q, op) /\ Passed(k, q, op)
      => trail[k][q][op] = Operation(q, op, Entry(k, q, op))

\* The block under work.
BlockInv ==
  /\ pc \in Ops => Valid(r, pc)
  /\ mode = "encode" =>
       /\ pc \in Ops => block = Entry(n + 1, r, pc)
       /\ pc = "give" => block = trail[n + 1][ROUNDS]["xor"]
  /\ mode = "decode" =>
       /\ pc \in Ops => block = trail[n + 1][r][pc]
       /\ pc = "give" => block = XorAll(job.text[n + 1], Before(n + 1))

IInv == TypeOK /\ ScheduleInv /\ TableInv /\ ChainInv /\ TrailInv /\ BlockInv

-----------------------------------------------------------------------------
(* Types of the schedule *)

\* The zeros every process begins with are of the right types.
LEMMA ZeroTypes ==
  /\ Zero(Byte) \in [Byte -> Byte] /\ Zero(Place) \in Block
  /\ NoWords \in [KeyWords -> Word] /\ NoKeys \in [0 .. ROUNDS -> Block]
  /\ NoTrail \in [0 .. ROUNDS -> [Ops -> Block]]
<1>1. {} \in Byte
  BY DEF Byte
<1>2. Zero(Place) \in Block /\ Zero(0 .. 3) \in Word /\ Zero(Byte) \in [Byte -> Byte]
  BY <1>1 DEF Zero, Block, Word
<1> QED BY <1>2 DEF NoWords, NoKeys, NoTrail, Ops

\* What the assumption says of the job at hand.
LEMMA JobTypes ==
  ASSUME job \in Jobs
  PROVE  /\ job.iv \in Block /\ job.text \in Seq(Block)
         /\ \A k \in 0 .. NK - 1 : KeyWord(k) \in Word
<1>1. job.iv \in Block /\ job.text \in Seq(Block) /\ job.key \in Seq(Byte)
  BY CipherAssumption
<1>2. ASSUME NEW m \in 1 .. 4 * NK PROVE Key256[m] \in Byte
  <2>1. CASE Len(job.key) >= 4 * NK
    <3>1. Key256 = job.key /\ m \in 1 .. Len(job.key)
      BY <1>1, <2>1 DEF Key256, NK
    <3> QED BY <1>1, <3>1
  <2>2. CASE ~(Len(job.key) >= 4 * NK)
    <3>1. Len(job.key) < 4 * NK
      BY <1>1, <2>2 DEF NK
    <3>2. Hmac(job.key) \in [1 .. 4 * NK -> Byte]
      BY <3>1, CipherAssumption
    <3> QED BY <2>2, <3>2 DEF Key256
  <2> QED BY <2>1, <2>2
<1>3. ASSUME NEW k \in 0 .. NK - 1 PROVE KeyWord(k) \in Word
  <2>1. \A j \in 0 .. 3 : 4 * k + j + 1 \in 1 .. 4 * NK
    BY DEF NK
  <2> QED BY <1>2, <2>1 DEF KeyWord, Word
<1> QED BY <1>1, <1>3

\* A new word is made of words, and by nothing but two of the words before it.
LEMMA NewWordTypes ==
  ASSUME NEW words \in [KeyWords -> Word], NEW k \in KeyWords, k >= NK
  PROVE  NewWord(words, k) \in Word
<1>1. k - NK \in KeyWords /\ k - 1 \in KeyWords
  BY DEF KeyWords, NK, NB, ROUNDS
<1>2. ASSUME NEW v \in Word, NEW w \in Word PROVE XorAll(v, w) \in Word
  <2>1. \A j \in 0 .. 3 : v[j] (+) w[j] \in Byte
    BY XorBytes DEF Word
  <2> QED BY <2>1 DEF XorAll, Word
<1>3. ASSUME NEW w \in Word PROVE SubWord(w) \in Word /\ RotWord(w) \in Word
  BY CipherAssumption DEF SubWord, RotWord, Word
<1>4. k \div 8 \in 0 .. 14
  BY DEF KeyWords, NB, ROUNDS
<1>5. \A m \in 0 .. 14 : Rcon[m] \in Byte
  BY DEF Rcon, Byte, Bits
<1>6. [j \in 0 .. 3 |-> IF j = 0 THEN Rcon[k \div 8] ELSE {}] \in Word
  BY <1>4, <1>5 DEF Word, Byte
<1>7. Temp(words, k) \in Word
  <2>1. words[k - 1] \in Word
    BY <1>1
  <2>2. SubWord(RotWord(words[k - 1])) \in Word /\ SubWord(words[k - 1]) \in Word
    BY <1>3, <2>1
  <2>3. XorAll(SubWord(RotWord(words[k - 1])),
               [j \in 0 .. 3 |-> IF j = 0 THEN Rcon[k \div 8] ELSE {}]) \in Word
    BY <1>2, <1>6, <2>2
  <2> QED BY <2>1, <2>2, <2>3 DEF Temp
<1> QED BY <1>1, <1>2, <1>7 DEF NewWord

\* The round keys are blocks.
LEMMA RoundKeyTypes ==
  ASSUME NEW words \in [KeyWords -> Word]
  PROVE  RoundKeys(words) \in [0 .. ROUNDS -> Block]
<1>1. \A k \in 0 .. ROUNDS, p \in Place :
        4 * k + (p \div 4) \in KeyWords /\ p % 4 \in 0 .. 3
  BY DEF KeyWords, Place, NB, ROUNDS
<1>2. \A k \in 0 .. ROUNDS, p \in Place : words[4 * k + (p \div 4)][p % 4] \in Byte
  BY <1>1 DEF Word
<1> QED BY <1>2 DEF RoundKeys, Block

-----------------------------------------------------------------------------
(* The steps *)

\* The invariant holds initially.
LEMMA InitInv == Init => IInv
<1> SUFFICES ASSUME Init PROVE IInv
  OBVIOUS
<1> USE DEF Init
<1>1. job.iv \in Block /\ job.text \in Seq(Block)
  BY JobTypes
<1>2. TypeOK
  <2>1. trail \in [1 .. Len(job.text) -> [0 .. ROUNDS -> [Ops -> Block]]]
    BY ZeroTypes, <1>1
  <2> QED BY ZeroTypes, <1>1, <2>1 DEF TypeOK, Ops, NB, ROUNDS
<1>3. ScheduleInv
  BY DEF ScheduleInv, Working, Ops
<1>4. TableInv
  BY DEF TableInv
<1>5. ChainInv
  BY DEF ChainInv, Before, Working, Ops
<1>6. TrailInv
  BY DEF TrailInv, Passed, Ops
<1>7. BlockInv
  BY DEF BlockInv, Ops
<1> QED BY <1>2, <1>3, <1>4, <1>5, <1>6, <1>7 DEF IInv

\* What has been done keeps its trail as long as nothing more counts as done.
LEMMA TrailKept ==
  ASSUME TypeOK, TrailInv, UNCHANGED <<job, made, trail, file>>,
         \A k \in 1 .. Len(job.text), q \in 0 .. ROUNDS, op \in Ops :
           Valid(q, op) /\ Passed(k, q, op)' => Passed(k, q, op)
  PROVE  TrailInv'
<1> SUFFICES ASSUME NEW k \in 1 .. Len(job.text), NEW q \in 0 .. ROUNDS, NEW op \in Ops,
                    Valid(q, op), Passed(k, q, op)'
             PROVE  trail'[k][q][op] = Operation(q, op, Entry(k, q, op))'
  BY DEF TrailInv, Valid
<1>1. trail[k][q][op] = Operation(q, op, Entry(k, q, op))
  BY DEF TrailInv
<1>2. Operation(q, op, Entry(k, q, op))' = Operation(q, op, Entry(k, q, op))
  BY DEF Operation, Entry, Before
<1> QED BY <1>1, <1>2

\* A step that leaves the schedule alone keeps what is known of it.
LEMMA ScheduleKept ==
  ASSUME ScheduleInv, UNCHANGED <<mode, job, W, i, made, round_keys>>,
         pc' = "expand" => pc = "expand",
         mode = "decode" /\ pc' = "sbox_init" => pc = "sbox_init",
         pc' \in Working => pc \in Working \/ (mode = "decode" /\ pc = "sbox_init")
  PROVE  ScheduleInv'
<1>1. \A j : KeyWord(j)' = KeyWord(j)
  BY DEF KeyWord, Key256
<1>2. Scheduled(W, i)' <=> Scheduled(W, i)
  BY <1>1 DEF Scheduled
<1>3. Scheduled(made, NB * (ROUNDS + 1))' <=> Scheduled(made, NB * (ROUNDS + 1))
  BY <1>1 DEF Scheduled
<1> QED BY <1>2, <1>3 DEF ScheduleInv

\* sbox_init, where either command makes it.
LEMMA SboxInitInv == IInv /\ SboxInit => IInv'
<1> SUFFICES ASSUME IInv, SboxInit PROVE IInv'
  OBVIOUS
<1> USE DEF IInv, SboxInit, tables, schedule, chain, history
<1>1. TypeOK'
  BY InverseTableInverts DEF TypeOK
<1>2. ScheduleInv'
  <2>1. mode = "encode" => pc' = "load"
    OBVIOUS
  <2>2. mode = "decode" => pc' = "next"
    OBVIOUS
  <2> QED BY <2>1, <2>2, ScheduleKept DEF TypeOK, Working, Ops
<1>3. TableInv'
  BY DEF TableInv, TypeOK
<1>4. ChainInv'
  BY DEF ChainInv, Before, Working, Ops, TypeOK
<1>5. TrailInv'
  BY TrailKept DEF Passed, TypeOK, Ops
<1>6. BlockInv'
  BY DEF BlockInv, Ops, TypeOK
<1> QED BY <1>1, <1>2, <1>3, <1>4, <1>5, <1>6

\* The first words of the schedule.
LEMMA LoadKeyInv == IInv /\ LoadKey => IInv'
<1> SUFFICES ASSUME IInv, LoadKey PROVE IInv'
  OBVIOUS
<1> USE DEF IInv, LoadKey, tables, chain, history
<1>0. \A j : KeyWord(j)' = KeyWord(j)
  BY DEF KeyWord, Key256
<1>1. TypeOK'
  <2>1. \A k \in KeyWords : k < NK => KeyWord(k) \in Word
    BY JobTypes, SMTT(30) DEF TypeOK, KeyWords, NK
  <2>2. W' \in [KeyWords -> Word]
    BY <2>1 DEF TypeOK
  <2> QED BY <2>2, SMTT(30) DEF TypeOK, NK, NB, ROUNDS
<1>2. ScheduleInv'
  <2>1. Scheduled(W, i)'
    BY <1>0 DEF Scheduled, NK
  <2>2. mode = "decode" => Scheduled(made, NB * (ROUNDS + 1))'
    BY <1>0 DEF ScheduleInv, Scheduled
  <2>3. mode = "decode" => \A j \in KeyWords : j < NK => W'[j] = made[j]
    BY DEF ScheduleInv, Scheduled, NK, NB, ROUNDS, KeyWords
  <2>4. i' >= NK /\ i' = NK /\ mode' = mode /\ pc' = "expand" /\ made' = made
    BY DEF NK
  <2>5. mode = "decode" => \A j \in KeyWords : j < i' => W'[j] = made'[j]
    BY <2>3, <2>4
  <2>6. pc' \notin Working
    BY <2>4 DEF Working, Ops
  <2> HIDE DEF LoadKey
  <2> QED BY <2>1, <2>2, <2>4, <2>5, <2>6 DEF ScheduleInv
<1>3. TableInv'
  BY DEF TableInv, Working, Ops
<1>4. ChainInv'
  BY DEF ChainInv, Before, Working, Ops, TypeOK
<1>5. TrailInv'
  BY TrailKept DEF Passed, TypeOK, Ops
<1>6. BlockInv'
  BY DEF BlockInv, Ops, TypeOK
<1> QED BY <1>1, <1>2, <1>3, <1>4, <1>5, <1>6

\* A new word is the one the schedule says; when decoding, the one encoding made.
LEMMA ExpandInv == IInv /\ Expand => IInv'
<1> SUFFICES ASSUME IInv, Expand PROVE IInv'
  OBVIOUS
<1> USE DEF IInv, Expand, tables, chain, history
<1>0. \A j : KeyWord(j)' = KeyWord(j)
  BY DEF KeyWord, Key256
<1>a. i >= NK /\ i \in KeyWords /\ W \in [KeyWords -> Word]
  BY DEF ScheduleInv, TypeOK
<1>b. NewWord(W, i) \in Word
  BY <1>a, NewWordTypes
<1>c. ASSUME NEW v \in [KeyWords -> Word], NEW w \in [KeyWords -> Word], NEW m \in KeyWords,
             m >= NK, \A j \in KeyWords : j < m => v[j] = w[j]
      PROVE  NewWord(v, m) = NewWord(w, m)
  <2>1. v[m - NK] = w[m - NK] /\ v[m - 1] = w[m - 1]
    BY <1>c DEF KeyWords, NK, NB, ROUNDS
  <2>2. Temp(v, m) = Temp(w, m)
    BY <2>1 DEF Temp
  <2> QED BY <2>1, <2>2 DEF NewWord
<1>d. W' \in [KeyWords -> Word] /\ \A j \in KeyWords : j < i => W'[j] = W[j]
  BY <1>a, <1>b DEF KeyWords
<1>1. TypeOK'
  <2>1. i' \in Nat /\ i' <= NB * (ROUNDS + 1)
    BY <1>a DEF KeyWords, NB, ROUNDS
  <2> QED BY <1>d, <2>1 DEF TypeOK
<1>2. ScheduleInv'
  <2>1. ASSUME mode = "encode" PROVE Scheduled(W, i)'
    <3>1. ASSUME NEW j \in KeyWords, j < i
          PROVE  W'[j] = IF j < NK THEN KeyWord(j) ELSE NewWord(W', j)
      <4>1. W'[j] = W[j] /\ W[j] = IF j < NK THEN KeyWord(j) ELSE NewWord(W, j)
        BY <2>1, <3>1, <1>d DEF ScheduleInv, Scheduled
      <4>2. ASSUME j >= NK PROVE NewWord(W, j) = NewWord(W', j)
        <5>1. \A m \in KeyWords : m < j => W[m] = W'[m]
          BY <1>a, <1>d, <3>1 DEF KeyWords
        <5> HIDE DEF IInv, Expand, tables, chain, history
        <5> QED BY <1>a, <1>c, <1>d, <4>2, <5>1, SMTT(30)
      <4> QED BY <4>1, <4>2 DEF KeyWords, NK
    <3>2. W'[i] = NewWord(W', i)
      <4>1. NewWord(W, i) = NewWord(W', i)
        BY <1>a, <1>c, <1>d
      <4> QED BY <1>a, <4>1
    <3>3. ASSUME NEW j \in KeyWords, j < i'
          PROVE  W'[j] = IF j < NK THEN KeyWord(j)' ELSE NewWord(W', j)
      <4>1. j < i \/ j = i
        BY <1>a, <3>3 DEF KeyWords
      <4>2. CASE j < i
        BY <1>0, <3>1, <4>2
      <4>3. CASE j = i
        <5>1. ~(j < NK)
          BY <1>a, <4>3 DEF KeyWords, NK
        <5> QED BY <3>2, <4>3, <5>1
      <4> QED BY <4>1, <4>2, <4>3
    <3> QED BY <3>3 DEF Scheduled
  <2>2. mode = "decode" => Scheduled(made, NB * (ROUNDS + 1))'
    BY <1>0 DEF ScheduleInv, Scheduled
  <2>3. ASSUME mode = "decode" PROVE \A j \in KeyWords : j < i' => W'[j] = made'[j]
    <3>1. \A j \in KeyWords : j < i => W[j] = made[j]
      BY <2>3 DEF ScheduleInv
    <3>2. made \in [KeyWords -> Word]
      BY DEF TypeOK
    <3>3. NewWord(W, i) = NewWord(made, i)
      BY <1>a, <1>c, <3>1, <3>2
    <3>4. made[i] = NewWord(made, i)
      BY <1>a, <2>3 DEF ScheduleInv, Scheduled, KeyWords, NK, NB, ROUNDS
    <3> QED BY <1>a, <1>d, <3>1, <3>3, <3>4 DEF KeyWords
  <2>4. i' >= NK
    BY <1>a DEF KeyWords, NK
  <2> QED BY <2>1, <2>2, <2>3, <2>4 DEF ScheduleInv, Working, Ops, TypeOK
<1>3. TableInv'
  BY DEF TableInv, Working, Ops
<1>4. ChainInv'
  BY DEF ChainInv, Before, Working, Ops, TypeOK
<1>5. TrailInv'
  BY TrailKept DEF Passed, TypeOK, Ops
<1>6. BlockInv'
  BY DEF BlockInv, Ops, TypeOK
<1> QED BY <1>1, <1>2, <1>3, <1>4, <1>5, <1>6

\* The round keys are those of the words encoding has made.
LEMMA UnpackKeysInv == IInv /\ UnpackKeys => IInv'
<1> SUFFICES ASSUME IInv, UnpackKeys PROVE IInv'
  OBVIOUS
<1> USE DEF IInv, UnpackKeys, tables, chain
<1>0. \A j : KeyWord(j)' = KeyWord(j)
  BY DEF KeyWord, Key256
<1>a. /\ W \in [KeyWords -> Word] /\ made \in [KeyWords -> Word] /\ i = NB * (ROUNDS + 1)
      /\ mode \in {"encode", "decode"} /\ mode' = mode
  BY DEF TypeOK, KeyWords, NB, ROUNDS
<1>b. made' = W
  <2>1. CASE mode = "encode"
    BY <2>1
  <2>2. CASE mode = "decode"
    <3>1. \A j \in KeyWords : W[j] = made[j]
      BY <1>a, <2>2 DEF ScheduleInv, KeyWords, NB, ROUNDS
    <3> QED BY <1>a, <2>2, <3>1
  <2> QED BY <1>a, <2>1, <2>2
<1>1. TypeOK'
  BY <1>a, <1>b, RoundKeyTypes, ZeroTypes DEF TypeOK
<1>2. ScheduleInv'
  <2>1. Scheduled(W, i)
    <3>1. CASE mode = "encode"
      BY <3>1 DEF ScheduleInv
    <3>2. CASE mode = "decode"
      <4>1. made = W
        BY <1>b, <3>2
      <4> QED BY <1>a, <3>2, <4>1 DEF ScheduleInv
    <3> QED BY <1>a, <3>1, <3>2
  <2>2. Scheduled(made, NB * (ROUNDS + 1))'
    BY <1>0, <1>a, <1>b, <2>1 DEF Scheduled
  <2>3. round_keys' = RoundKeys(made)'
    BY <1>b
  <2> QED BY <2>2, <2>3 DEF ScheduleInv
<1>3. TableInv'
  BY DEF TableInv, Working, Ops
<1>4. ChainInv'
  BY DEF ChainInv, Before, Working, Ops, TypeOK
<1>5. TrailInv'
  <2>1. CASE mode = "decode"
    <3>1. made' = made
      BY <2>1
    <3> QED BY <2>1, <3>1, TrailKept DEF Passed, TypeOK, Ops
  <2>2. CASE mode = "encode"
    <3>1. n' = 0 /\ pc' = "next" /\ mode' = "encode"
      BY <2>2 DEF ChainInv, Working, Ops
    <3> QED BY <3>1 DEF TrailInv, Passed, Ops
  <2> QED BY <1>a, <2>1, <2>2
<1>6. BlockInv'
  BY DEF BlockInv, Ops, TypeOK
<1> QED BY <1>1, <1>2, <1>3, <1>4, <1>5, <1>6

\* A block is taken and chained.
LEMMA TakePlainInv == IInv /\ TakePlain => IInv'
<1> SUFFICES ASSUME IInv, TakePlain PROVE IInv'
  OBVIOUS
<1> USE DEF IInv, TakePlain, tables, schedule, chain, history
<1>a. job.iv \in Block /\ job.text \in Seq(Block)
  BY JobTypes DEF TypeOK
<1>b. n \in Nat /\ n + 1 \in 1 .. Len(job.text)
  BY <1>a DEF TypeOK
<1>c. Chained \in Block
  <2>1. job.text[n + 1] \in Block /\ prev \in Block
    BY <1>a, <1>b DEF TypeOK
  <2> QED BY <2>1, BlockOperations DEF Chained
<1>1. TypeOK'
  BY <1>c, SMTT(60) DEF TypeOK, ROUNDS
<1>2. ScheduleInv'
  BY ScheduleKept DEF Working, Ops
<1>3. TableInv'
  BY DEF TableInv, Working, Ops
<1>4. ChainInv'
  BY DEF ChainInv, Before, Working, Ops, TypeOK
<1>5. TrailInv'
  <2>1. \A q \in 0 .. ROUNDS, op \in Ops : Valid(q, op) => ~(At(q, op) < At(0, "xor"))
    BY DEF Valid, At, Rank, Ops, ROUNDS
  <2> HIDE DEF IInv
  <2>2. \A k \in 1 .. Len(job.text), q \in 0 .. ROUNDS, op \in Ops :
          Valid(q, op) /\ Passed(k, q, op)' => Passed(k, q, op)
    BY <2>1 DEF Passed
  <2> QED BY <2>2, TrailKept DEF IInv
<1>6. BlockInv'
  <2>1. block' = XorAll(job.text[n + 1], Before(n + 1))
    BY DEF Chained, ChainInv
  <2>2. Entry(n + 1, 0, "xor")' = XorAll(job.text[n + 1], Before(n + 1))
    BY DEF Entry, Before
  <2>3. Valid(0, "xor")
    BY DEF Valid, Ops, ROUNDS
  <2> QED BY <2>1, <2>2, <2>3 DEF BlockInv, Valid, Entry, Before, Ops
<1> QED BY <1>1, <1>2, <1>3, <1>4, <1>5, <1>6

\* Writing one entry of a table of trails leaves every other entry alone.
Written(t, k, q, op, b) == [t EXCEPT ![k][q][op] = b]

LEMMA WrittenEntry ==
  ASSUME NEW K, NEW t \in [K -> [0 .. ROUNDS -> [Ops -> Block]]],
         NEW k \in K, NEW q \in 0 .. ROUNDS, NEW op \in Ops, NEW b \in Block
  PROVE  /\ Written(t, k, q, op, b)[k][q][op] = b
         /\ \A l \in K, p \in 0 .. ROUNDS, o \in Ops :
              (l /= k \/ p /= q \/ o /= op) => Written(t, k, q, op, b)[l][p][o] = t[l][p][o]
         /\ Written(t, k, q, op, b) \in [K -> [0 .. ROUNDS -> [Ops -> Block]]]
<1> DEFINE last   == [t[k][q] EXCEPT ![op] = b]
           rounds == [t[k] EXCEPT ![q] = last]
<1>1. t[k] \in [0 .. ROUNDS -> [Ops -> Block]]
  OBVIOUS
<1>2. t[k][q] \in [Ops -> Block]
  BY <1>1
<1>3. last \in [Ops -> Block] /\ last[op] = b /\ \A o \in Ops : o /= op => last[o] = t[k][q][o]
  BY <1>2
<1>4. Written(t, k, q, op, b) = [t EXCEPT ![k] = rounds]
  BY <1>1, <1>2 DEF Written
<1> HIDE DEF last
<1>5. rounds \in [0 .. ROUNDS -> [Ops -> Block]] /\ rounds[q] = last
      /\ \A p \in 0 .. ROUNDS : p /= q => rounds[p] = t[k][p]
  BY <1>1, <1>3
<1> HIDE DEF rounds
<1>6. /\ Written(t, k, q, op, b) \in [K -> [0 .. ROUNDS -> [Ops -> Block]]]
      /\ Written(t, k, q, op, b)[k] = rounds
      /\ \A l \in K : l /= k => Written(t, k, q, op, b)[l] = t[l]
  BY <1>4, <1>5
<1>7. Written(t, k, q, op, b)[k][q][op] = b
  BY <1>3, <1>5, <1>6
<1>8. ASSUME NEW l \in K, NEW p \in 0 .. ROUNDS, NEW o \in Ops, l /= k \/ p /= q \/ o /= op
      PROVE  Written(t, k, q, op, b)[l][p][o] = t[l][p][o]
  <2>1. CASE l /= k
    BY <1>6, <2>1
  <2>2. CASE l = k /\ p /= q
    BY <1>5, <1>6, <2>2
  <2>3. CASE l = k /\ p = q /\ o /= op
    BY <1>3, <1>5, <1>6, <2>3
  <2> QED BY <1>8, <2>1, <2>2, <2>3
<1> QED BY <1>6, <1>7, <1>8

\* The last operation of a block is the last in order.
LEMMA LastOperation ==
  ASSUME NEW q \in 0 .. ROUNDS, NEW op \in Ops
  PROVE  At(q, op) \in Int /\ At(q, op) <= At(ROUNDS, "xor")
<1>1. Rank(op) \in 0 .. 3 /\ Rank("xor") = 3
  BY DEF Rank, Ops
<1> QED BY <1>1 DEF At, ROUNDS

\* An operation on the block under work is written into its trail.
LEMMA OperateInv ==
  ASSUME IInv, NEW op \in Ops, NEW next \in Working, NEW s \in 0 .. ROUNDS, r' = s,
         Operate(op, Operation(r, op, block), next),
         Operation(r, op, block) \in Block,
         next = "give" => r = ROUNDS /\ op = "xor",
         next /= "give" => /\ next \in Ops /\ Valid(s, next)
                           /\ At(s, next) > At(r, op)
                           /\ \A q \in 0 .. ROUNDS, o \in Ops :
                                Valid(q, o) /\ At(q, o) < At(s, next) => At(q, o) <= At(r, op),
         next = "sbox" => op = "xor" /\ s = r + 1,
         next = "shift" => op = "sbox" /\ s = r,
         next = "mix" => op = "shift" /\ s = r,
         next = "xor" => s = r /\ s /= 0 /\ op = IF r = ROUNDS THEN "shift" ELSE "mix"
  PROVE  IInv'
<1> DEFINE b == Operation(r, op, block)
<1> USE DEF Operate, tables, schedule, chain
<1>a. /\ TypeOK /\ pc = op /\ mode = "encode" /\ n + 1 \in 1 .. Len(job.text) /\ n \in Nat
      /\ Valid(r, op) /\ block = Entry(n + 1, r, op) /\ r \in 0 .. ROUNDS
      /\ trail \in [1 .. Len(job.text) -> [0 .. ROUNDS -> [Ops -> Block]]]
      /\ job.text \in Seq(Block) /\ Len(file) = n
  <2>1. job.text \in Seq(Block)
    BY JobTypes DEF IInv, TypeOK
  <2> QED BY <2>1 DEF IInv, TypeOK, ChainInv, BlockInv, Ops
<1>b. /\ trail'[n + 1][r][op] = b
      /\ \A k \in 1 .. Len(job.text), q \in 0 .. ROUNDS, o \in Ops :
           (k /= n + 1 \/ q /= r \/ o /= op) => trail'[k][q][o] = trail[k][q][o]
      /\ trail' \in [1 .. Len(job.text) -> [0 .. ROUNDS -> [Ops -> Block]]]
  <2> HIDE DEF b
  <2>1. trail' = Written(trail, n + 1, r, op, b) /\ b \in Block
    BY DEF b, Written
  <2> HIDE DEF Operate, tables, schedule, chain
  <2> DEFINE K == 1 .. Len(job.text)
  <2>2. /\ n + 1 \in K /\ r \in 0 .. ROUNDS /\ op \in Ops /\ b \in Block
        /\ trail \in [K -> [0 .. ROUNDS -> [Ops -> Block]]]
    BY <1>a, <2>1
  <2> HIDE DEF K
  <2>3. /\ Written(trail, n + 1, r, op, b)[n + 1][r][op] = b
        /\ \A k \in K, q \in 0 .. ROUNDS, o \in Ops :
             (k /= n + 1 \/ q /= r \/ o /= op)
             => Written(trail, n + 1, r, op, b)[k][q][o] = trail[k][q][o]
        /\ Written(trail, n + 1, r, op, b) \in [K -> [0 .. ROUNDS -> [Ops -> Block]]]
    BY <2>2, WrittenEntry
  <2> QED BY <2>1, <2>3, Zenon DEF K
<1> HIDE DEF b
<1>c. \A q \in 0 .. ROUNDS, o \in Ops : At(q, o) = At(r, op) => q = r /\ o = op
  BY <1>a DEF At, Rank, Ops, ROUNDS
<1>d. ASSUME NEW k \in 1 .. n + 1, NEW q \in 0 .. ROUNDS, NEW o \in Ops, Valid(q, o),
             k = n + 1 => At(q, o) <= At(r, op)
      PROVE  Entry(k, q, o)' = Entry(k, q, o)
  <2>0. k \in 1 .. Len(job.text) /\ Before(k)' = Before(k)
    BY <1>a DEF Before
  <2>1. CASE o = "sbox"
    <3>0. q /= 0
      BY <1>d, <2>1 DEF Valid
    <3>1. q - 1 \in 0 .. ROUNDS /\ At(q - 1, "xor") < At(q, o) /\ "xor" \in Ops
      BY <2>1, <3>0 DEF At, Rank, Ops, ROUNDS
    <3>2. trail'[k][q - 1]["xor"] = trail[k][q - 1]["xor"]
      <4>1. CASE k = n + 1
        <5>1. At(q - 1, "xor") /= At(r, op)
          BY <1>d, <3>1, <4>1, <1>a DEF At, Rank, Ops, ROUNDS
        <5> QED BY <1>b, <2>0, <3>1, <5>1
      <4>2. CASE k /= n + 1
        BY <1>b, <2>0, <3>1, <4>2
      <4> QED BY <4>1, <4>2
    <3> QED BY <2>1, <3>2 DEF Entry
  <2>2. CASE o = "shift"
    <3>1. At(q, "sbox") < At(q, o) /\ "sbox" \in Ops
      BY <2>2 DEF At, Rank, Ops, ROUNDS
    <3>2. trail'[k][q]["sbox"] = trail[k][q]["sbox"]
      <4>1. CASE k = n + 1
        <5>1. At(q, "sbox") /= At(r, op)
          BY <1>d, <3>1, <4>1, <1>a DEF At, Rank, Ops, ROUNDS
        <5> QED BY <1>b, <2>0, <3>1, <5>1
      <4>2. CASE k /= n + 1
        BY <1>b, <2>0, <3>1, <4>2
      <4> QED BY <4>1, <4>2
    <3> QED BY <2>2, <3>2 DEF Entry
  <2>3. ASSUME o = "mix" \/ (o = "xor" /\ q = ROUNDS)
        PROVE  trail'[k][q]["shift"] = trail[k][q]["shift"]
    <3>1. At(q, "shift") < At(q, o) /\ "shift" \in Ops
      BY <2>3 DEF At, Rank, Ops, ROUNDS
    <3>2. CASE k = n + 1
      <4>1. At(q, "shift") /= At(r, op)
        BY <1>d, <3>1, <3>2, <1>a DEF At, Rank, Ops, ROUNDS
      <4> QED BY <1>b, <2>0, <3>1, <4>1
    <3>3. CASE k /= n + 1
      BY <1>b, <2>0, <3>1, <3>3
    <3> QED BY <3>2, <3>3
  <2>4. CASE o = "mix"
    BY <2>3, <2>4 DEF Entry
  <2>5. CASE o = "xor"
    <3>1. CASE q = 0
      BY <2>0, <2>5, <3>1 DEF Entry
    <3>2. CASE q = ROUNDS
      BY <2>3, <2>5, <3>2 DEF Entry, ROUNDS
    <3>3. CASE q /= 0 /\ q /= ROUNDS
      <4>1. At(q, "mix") < At(q, o) /\ "mix" \in Ops
        BY <2>5 DEF At, Rank, Ops, ROUNDS
      <4>2. trail'[k][q]["mix"] = trail[k][q]["mix"]
        <5>1. CASE k = n + 1
          <6>1. At(q, "mix") /= At(r, op)
            BY <1>d, <4>1, <5>1, <1>a DEF At, Rank, Ops, ROUNDS
          <6> QED BY <1>b, <2>0, <4>1, <6>1
        <5>2. CASE k /= n + 1
          BY <1>b, <2>0, <4>1, <5>2
        <5> QED BY <5>1, <5>2
      <4> QED BY <2>5, <3>3, <4>2 DEF Entry
    <3> QED BY <3>1, <3>2, <3>3
  <2> QED BY <2>1, <2>2, <2>4, <2>5 DEF Ops
<1>1. TypeOK'
  <2>1. pc' \in {"xor", "sbox", "shift", "mix", "next", "give"}
    BY DEF Working, Ops
  <2> QED BY <1>a, <1>b, <2>1 DEF TypeOK, Ops
<1>2. ScheduleInv'
  BY <1>a, ScheduleKept DEF IInv, Working, Ops
<1>3. TableInv'
  BY <1>a DEF IInv, TableInv
<1>4. ChainInv'
  <2>1. \A k \in 1 .. Len(file) : trail'[k][ROUNDS]["xor"] = trail[k][ROUNDS]["xor"]
    <3> HIDE DEF Operate, tables, schedule, chain
    <3>1. "xor" \in Ops /\ ROUNDS \in 0 .. ROUNDS
      BY DEF Ops, ROUNDS
    <3>2. \A k \in 1 .. Len(file) : k \in 1 .. Len(job.text) /\ k /= n + 1
      BY <1>a
    <3> QED BY <1>b, <3>1, <3>2
  <2> QED BY <1>a, <2>1 DEF IInv, ChainInv, Before, Working, Ops
<1>5. TrailInv'
  <2> SUFFICES ASSUME NEW k \in 1 .. Len(job.text), NEW q \in 0 .. ROUNDS, NEW o \in Ops,
                      Valid(q, o), Passed(k, q, o)'
               PROVE  trail'[k][q][o] = Operation(q, o, Entry(k, q, o))'
    BY <1>a DEF TrailInv, Valid
  <2>1. k <= n + 1 /\ (k = n + 1 => At(q, o) <= At(r, op))
    <3>1. k <= n \/ (k = n + 1 /\ (next = "give" \/ (next \in Ops /\ At(q, o) < At(s, next))))
      BY <1>a DEF Passed
    <3> HIDE DEF Operate, tables, schedule, chain
    <3>2. At(q, o) <= At(ROUNDS, "xor") /\ At(q, o) \in Int
      BY LastOperation
    <3>3. At(r, op) \in Int
      BY <1>a, LastOperation
    <3>4. next = "give" => At(q, o) <= At(r, op)
      BY <3>2
    <3>5. next /= "give" /\ At(q, o) < At(s, next) => At(q, o) <= At(r, op)
      OBVIOUS
    <3> QED BY <3>1, <3>4, <3>5, <1>a
  <2>2. Operation(q, o, Entry(k, q, o))' = Operation(q, o, Entry(k, q, o))
    <3>1. Entry(k, q, o)' = Entry(k, q, o)
      BY <1>a, <1>d, <2>1
    <3> QED BY <3>1 DEF Operation
  <2>3. CASE k = n + 1 /\ q = r /\ o = op
    BY <1>a, <1>b, <2>2, <2>3 DEF b
  <2>4. CASE ~(k = n + 1 /\ q = r /\ o = op)
    <3>1. Passed(k, q, o)
      <4>1. k = n + 1 => At(q, o) < At(r, op)
        BY <1>a, <1>c, <2>1, <2>4 DEF At, Rank, Ops, ROUNDS
      <4> QED BY <1>a, <2>1, <4>1 DEF Passed
    <3>2. trail[k][q][o] = Operation(q, o, Entry(k, q, o))
      BY <3>1 DEF IInv, TrailInv
    <3> QED BY <1>b, <2>2, <2>4, <3>2
  <2> QED BY <2>3, <2>4
<1>6. BlockInv'
  <2>0. block' = b /\ n' = n /\ r' = s /\ mode' = "encode" /\ pc' = next
    BY <1>a DEF b
  <2>1. CASE next = "give"
    BY <1>a, <1>b, <2>0, <2>1 DEF BlockInv, Ops
  <2>2. CASE next /= "give"
    <3>1. Entry(n + 1, s, next)' = trail'[n + 1][r][op]
      <4>1. CASE next = "sbox"
        <5>1. s - 1 = r /\ op = "xor"
          BY <1>a, <4>1
        <5> QED BY <2>0, <4>1, <5>1 DEF Entry
      <4>2. CASE next = "shift" \/ next = "mix"
        BY <2>0, <4>2 DEF Entry
      <4>3. CASE next = "xor"
        BY <2>0, <4>3 DEF Entry
      <4> QED BY <2>2, <4>1, <4>2, <4>3 DEF Ops
    <3> QED BY <1>b, <2>0, <2>2, <3>1 DEF BlockInv, Ops
  <2> QED BY <2>1, <2>2
<1> QED BY <1>1, <1>2, <1>3, <1>4, <1>5, <1>6 DEF IInv

\* The four operations of encryption.
LEMMA EncryptInv == IInv /\ (ApplySbox \/ Shift \/ Mix \/ AddKey) => IInv'
<1> SUFFICES ASSUME IInv, ApplySbox \/ Shift \/ Mix \/ AddKey PROVE IInv'
  OBVIOUS
<1>a. block \in Block /\ r \in 0 .. ROUNDS /\ round_keys[r] \in Block
  BY DEF IInv, TypeOK
<1>b. SBOX \in [Byte -> Byte]
  BY CipherAssumption
<1>c. pc \in Ops => Valid(r, pc) /\ round_keys[r] = RoundKeys(made)[r]
  BY DEF IInv, BlockInv, ScheduleInv, Working
<1>1. CASE ApplySbox
  <2>0. pc = "sbox" /\ r' = r /\ r /= 0
    BY <1>1, <1>c DEF ApplySbox, Operate, Valid, Ops
  <2>1. Operation(r, "sbox", block) = SubBytes(SBOX, block)
    BY DEF Operation
  <2>2. Operation(r, "sbox", block) \in Block
    BY <1>a, <1>b, <2>1, BlockOperations
  <2>3. Operate("sbox", Operation(r, "sbox", block), "shift")
    BY <1>1, <2>1 DEF ApplySbox
  <2>4. /\ "shift" \in Ops /\ Valid(r, "shift") /\ At(r, "shift") > At(r, "sbox")
        /\ \A q \in 0 .. ROUNDS, o \in Ops : At(q, o) < At(r, "shift") => At(q, o) <= At(r, "sbox")
    BY <1>a, <2>0 DEF Valid, At, Rank, Ops, ROUNDS
  <2> QED BY <1>a, <2>0, <2>2, <2>3, <2>4, OperateInv DEF Ops, Working
<1>2. CASE Shift
  <2>0. pc = "shift" /\ r' = r /\ r /= 0
    BY <1>2, <1>c DEF Shift, Operate, Valid, Ops
  <2>1. Operation(r, "shift", block) = ShiftRows(block)
    BY DEF Operation
  <2>2. Operation(r, "shift", block) \in Block
    BY <1>a, <2>1, BlockOperations
  <2>3. CASE r < ROUNDS
    <3>1. Operate("shift", Operation(r, "shift", block), "mix")
      BY <1>2, <2>1, <2>3 DEF Shift
    <3>2. /\ "mix" \in Ops /\ Valid(r, "mix") /\ At(r, "mix") > At(r, "shift")
          /\ \A q \in 0 .. ROUNDS, o \in Ops : At(q, o) < At(r, "mix") => At(q, o) <= At(r, "shift")
      BY <1>a, <2>0, <2>3 DEF Valid, At, Rank, Ops, ROUNDS
    <3> QED BY <1>a, <2>0, <2>2, <3>1, <3>2, OperateInv DEF Ops, Working
  <2>4. CASE r = ROUNDS
    <3>1. Operate("shift", Operation(r, "shift", block), "xor")
      BY <1>2, <2>1, <2>4 DEF Shift, ROUNDS
    <3>2. /\ "xor" \in Ops /\ Valid(r, "xor") /\ At(r, "xor") > At(r, "shift")
      BY <1>a, <2>0, <2>4 DEF Valid, At, Rank, Ops, ROUNDS
    <3>3. \A q \in 0 .. ROUNDS, o \in Ops :
            Valid(q, o) /\ At(q, o) < At(r, "xor") => At(q, o) <= At(r, "shift")
      BY <1>a, <2>0, <2>4 DEF Valid, At, Rank, Ops, ROUNDS
    <3> QED BY <1>a, <2>0, <2>2, <2>4, <3>1, <3>2, <3>3, OperateInv DEF Ops, Working
  <2> QED BY <1>a, <2>3, <2>4 DEF ROUNDS
<1>3. CASE Mix
  <2>0. pc = "mix" /\ r' = r /\ r /= 0 /\ r /= ROUNDS
    BY <1>3, <1>c DEF Mix, Operate, Valid, Ops
  <2>1. Operation(r, "mix", block) = MixBytes(block)
    BY DEF Operation
  <2>2. Operation(r, "mix", block) \in Block
    BY <1>a, <2>1, BlockOperations
  <2>3. Operate("mix", Operation(r, "mix", block), "xor")
    BY <1>3, <2>1 DEF Mix
  <2>4. /\ "xor" \in Ops /\ Valid(r, "xor") /\ At(r, "xor") > At(r, "mix")
        /\ \A q \in 0 .. ROUNDS, o \in Ops : At(q, o) < At(r, "xor") => At(q, o) <= At(r, "mix")
    BY <1>a, <2>0 DEF Valid, At, Rank, Ops, ROUNDS
  <2> QED BY <1>a, <2>0, <2>2, <2>3, <2>4, OperateInv DEF Ops, Working
<1>4. CASE AddKey
  <2>0. pc = "xor"
    BY <1>4 DEF AddKey, Operate
  <2>1. Operation(r, "xor", block) = XorAll(block, round_keys[r])
    BY <1>c, <2>0 DEF Operation, Ops
  <2>2. Operation(r, "xor", block) \in Block
    BY <1>a, <2>1, BlockOperations
  <2>3. CASE r < ROUNDS
    <3>1. Operate("xor", Operation(r, "xor", block), "sbox") /\ r' = r + 1
      BY <1>4, <2>1, <2>3 DEF AddKey
    <3>2. /\ "sbox" \in Ops /\ Valid(r + 1, "sbox") /\ At(r + 1, "sbox") > At(r, "xor")
          /\ \A q \in 0 .. ROUNDS, o \in Ops :
               At(q, o) < At(r + 1, "sbox") => At(q, o) <= At(r, "xor")
      BY <1>a, <2>3 DEF Valid, At, Rank, Ops, ROUNDS
    <3>3. r + 1 \in 0 .. ROUNDS
      BY <1>a, <2>3 DEF ROUNDS
    <3> QED BY <1>a, <2>2, <3>1, <3>2, <3>3, OperateInv DEF Ops, Working
  <2>4. CASE r = ROUNDS
    <3>1. Operate("xor", Operation(r, "xor", block), "give") /\ r' = r
      BY <1>4, <2>1, <2>4 DEF AddKey, ROUNDS
    <3> QED BY <1>a, <2>2, <2>4, <3>1, OperateInv DEF Ops, Working
  <2> QED BY <1>a, <2>3, <2>4 DEF ROUNDS
<1> QED BY <1>1, <1>2, <1>3, <1>4

\* An encrypted block is given, and the chain goes on with it.
LEMMA GiveCipherInv == IInv /\ GiveCipher => IInv'
<1> SUFFICES ASSUME IInv, GiveCipher PROVE IInv'
  OBVIOUS
<1> USE DEF GiveCipher, tables, schedule, history
<1>a. /\ TypeOK /\ mode = "encode" /\ pc = "give" /\ n \in Nat /\ n < Len(job.text)
      /\ file \in Seq(Block) /\ Len(file) = n /\ block \in Block /\ job.text \in Seq(Block)
      /\ block = trail[n + 1][ROUNDS]["xor"]
  <2>1. job.text \in Seq(Block)
    BY JobTypes DEF IInv, TypeOK
  <2> QED BY <2>1 DEF IInv, TypeOK, ChainInv, BlockInv, Ops
<1>b. /\ file' \in Seq(Block) /\ Len(file') = n + 1 /\ file'[n + 1] = block
      /\ \A k \in 1 .. n : file'[k] = file[k]
  BY <1>a
<1>1. TypeOK'
  BY <1>a, <1>b DEF TypeOK
<1>2. ScheduleInv'
  BY <1>a, ScheduleKept DEF IInv, Working, Ops
<1>3. TableInv'
  BY <1>a DEF IInv, TableInv
<1>4. ChainInv'
  <2>1. prev' = Before(n + 1)'
    <3>1. n' + 1 /= 1 /\ (n' + 1) - 1 = n + 1 /\ prev' = block
      BY <1>a
    <3> QED BY <1>b, <3>1 DEF Before
  <2>2. \A k \in 1 .. n + 1 : file'[k] = trail'[k][ROUNDS]["xor"]
    BY <1>a, <1>b DEF IInv, ChainInv
  <2> QED BY <1>a, <1>b, <2>1, <2>2 DEF IInv, ChainInv, Working, Ops
<1>5. TrailInv'
  <2> SUFFICES ASSUME NEW k \in 1 .. Len(job.text), NEW q \in 0 .. ROUNDS, NEW op \in Ops,
                      Valid(q, op), Passed(k, q, op)'
               PROVE  trail'[k][q][op] = Operation(q, op, Entry(k, q, op))'
    BY DEF TrailInv, Valid
  <2>1. k <= n + 1 /\ Passed(k, q, op)
    BY <1>a DEF Passed, Ops
  <2>2. Before(k)' = Before(k)
    BY <1>a, <1>b, <2>1 DEF Before
  <2>3. Entry(k, q, op)' = Entry(k, q, op)
    BY <2>2 DEF Entry
  <2>4. Operation(q, op, Entry(k, q, op))' = Operation(q, op, Entry(k, q, op))
    BY <2>3 DEF Operation
  <2> QED BY <2>1, <2>4 DEF IInv, TrailInv
<1>6. BlockInv'
  BY <1>a DEF BlockInv, Ops
<1> QED BY <1>1, <1>2, <1>3, <1>4, <1>5, <1>6 DEF IInv

\* The other process begins with nothing but the file.
LEMMA StartDecodeInv == IInv /\ StartDecode => IInv'
<1> SUFFICES ASSUME IInv, StartDecode PROVE IInv'
  OBVIOUS
<1> USE DEF IInv, StartDecode, history
<1>a. job.iv \in Block /\ job.text \in Seq(Block)
  BY JobTypes DEF TypeOK
<1>1. TypeOK'
  BY <1>a, ZeroTypes DEF TypeOK, NB, ROUNDS
<1>2. ScheduleInv'
  <2>1. \A j : KeyWord(j)' = KeyWord(j)
    BY DEF KeyWord, Key256
  <2>2. Scheduled(made, NB * (ROUNDS + 1))'
    BY <2>1 DEF ScheduleInv, Scheduled, Working
  <2> QED BY <2>2 DEF ScheduleInv, Working, Ops
<1>3. TableInv'
  BY DEF TableInv, Working, Ops
<1>4. ChainInv'
  BY DEF ChainInv, Before, Working, Ops, TypeOK
<1>5. TrailInv'
  <2>1. \A k \in 1 .. Len(job.text), q \in 0 .. ROUNDS, op \in Ops : Passed(k, q, op)
    BY <1>a DEF Passed
  <2> QED BY <2>1, TrailKept
<1>6. BlockInv'
  BY DEF BlockInv, Ops
<1> QED BY <1>1, <1>2, <1>3, <1>4, <1>5, <1>6

\* A block is taken from the file: it is what its last operation gave.
LEMMA TakeCipherInv == IInv /\ TakeCipher => IInv'
<1> SUFFICES ASSUME IInv, TakeCipher PROVE IInv'
  OBVIOUS
<1> USE DEF IInv, TakeCipher, tables, schedule, chain, history
<1>a. /\ n \in Nat /\ n + 1 \in 1 .. Len(file) /\ file[n + 1] \in Block
      /\ file[n + 1] = trail[n + 1][ROUNDS]["xor"] /\ Len(file) = Len(job.text)
  BY DEF TypeOK, ChainInv
<1>1. TypeOK'
  BY <1>a, SMTT(60) DEF TypeOK, ROUNDS
<1>2. ScheduleInv'
  BY ScheduleKept DEF Working, Ops
<1>3. TableInv'
  BY DEF TableInv, Working, Ops
<1>4. ChainInv'
  BY <1>a DEF ChainInv, Before, Working, Ops
<1>5. TrailInv'
  BY TrailKept DEF Passed
<1>6. BlockInv'
  <2>1. Valid(ROUNDS, "xor")
    BY DEF Valid, Ops, ROUNDS
  <2> QED BY <1>a, <2>1 DEF BlockInv, Valid, Ops
<1> QED BY <1>1, <1>2, <1>3, <1>4, <1>5, <1>6

\* Undoing an operation leaves everything but the block alone.
LEMMA UndoInv ==
  ASSUME IInv, NEW op \in Ops, NEW b \in Block, NEW next \in Working, NEW s \in 0 .. ROUNDS,
         Undo(op, b, next), r' = s, next /= "next",
         next \in Ops => Valid(s, next) /\ b = trail[n + 1][s][next],
         next = "give" => b = XorAll(job.text[n + 1], Before(n + 1))
  PROVE  IInv'
<1> USE DEF IInv, Undo, tables, schedule, chain, history
<1>a. pc \in Ops /\ mode = "decode"
  OBVIOUS
<1>1. TypeOK'
  BY DEF TypeOK, Working, Ops
<1>2. ScheduleInv'
  BY ScheduleKept DEF Working, Ops
<1>3. TableInv'
  BY <1>a DEF TableInv, Working
<1>4. ChainInv'
  BY <1>a DEF ChainInv, Before, Working, Ops
<1>5. TrailInv'
  BY TrailKept DEF Passed
<1>6. BlockInv'
  BY <1>a DEF BlockInv, Before, Valid
<1> QED BY <1>1, <1>2, <1>3, <1>4, <1>5, <1>6

\* What decryption has before it undoes an operation, and what it gets.
LEMMA Undone ==
  ASSUME IInv, mode = "decode", pc \in Ops
  PROVE  /\ n + 1 \in 1 .. Len(job.text) /\ r \in 0 .. ROUNDS /\ Valid(r, pc)
         /\ block = Operation(r, pc, Entry(n + 1, r, pc)) /\ Entry(n + 1, r, pc) \in Block
         /\ round_keys = RoundKeys(made) /\ INV_SBOX = InverseTable
<1> USE DEF IInv
<1>a. /\ n \in Nat /\ n < Len(job.text) /\ r \in 0 .. ROUNDS /\ Valid(r, pc)
      /\ job.text \in Seq(Block) /\ job.iv \in Block /\ file \in Seq(Block)
      /\ Len(file) = Len(job.text)
      /\ trail \in [1 .. Len(job.text) -> [0 .. ROUNDS -> [Ops -> Block]]]
  BY JobTypes DEF TypeOK, ChainInv, BlockInv, Ops
<1>1. n + 1 \in 1 .. Len(job.text)
  BY <1>a
<1>2. block = Operation(r, pc, Entry(n + 1, r, pc))
  <2>1. Passed(n + 1, r, pc)
    BY DEF Passed
  <2> QED BY <1>a, <1>1, <2>1 DEF TrailInv, BlockInv
<1>3. Entry(n + 1, r, pc) \in Block
  <2>1. Before(n + 1) \in Block
    BY <1>a, <1>1 DEF Before
  <2>2. XorAll(job.text[n + 1], Before(n + 1)) \in Block
    <3>1. job.text[n + 1] \in Block
      BY <1>a, <1>1
    <3> QED BY <2>1, <3>1, BlockOperations
  <2>3. \A q \in 0 .. ROUNDS, op \in Ops : trail[n + 1][q][op] \in Block
    <3> HIDE DEF IInv
    <3>1. trail[n + 1] \in [0 .. ROUNDS -> [Ops -> Block]]
      BY <1>a, <1>1
    <3> QED BY <3>1
  <2>4. pc = "sbox" => r - 1 \in 0 .. ROUNDS
    BY <1>a DEF Valid, ROUNDS
  <2> QED BY <1>a, <2>2, <2>3, <2>4 DEF Entry, Ops
<1>4. round_keys = RoundKeys(made) /\ INV_SBOX = InverseTable
  BY DEF ScheduleInv, TableInv, Working
<1> QED BY <1>a, <1>1, <1>2, <1>3, <1>4

\* The four operations of decryption.
LEMMA DecryptInv == IInv /\ (RemoveKey \/ InvMix \/ InvShift \/ InvSbox) => IInv'
<1> SUFFICES ASSUME IInv, RemoveKey \/ InvMix \/ InvShift \/ InvSbox PROVE IInv'
  OBVIOUS
<1> DEFINE before == Entry(n + 1, r, pc)
<1>a. /\ mode = "decode" /\ pc \in Ops /\ r \in 0 .. ROUNDS /\ Valid(r, pc)
      /\ block = Operation(r, pc, before) /\ before \in Block
      /\ round_keys = RoundKeys(made) /\ INV_SBOX = InverseTable
  <2>1. mode = "decode" /\ pc \in Ops
    BY DEF RemoveKey, InvMix, InvShift, InvSbox, Undo, Ops
  <2> QED BY <2>1, Undone
<1> HIDE DEF before
<1>1. CASE RemoveKey
  <2>0. pc = "xor" /\ r' = r
    BY <1>1 DEF RemoveKey, Undo
  <2>1. XorAll(block, round_keys[r]) = before
    <3>1. RoundKeys(made)[r] \in Block
      BY <1>a, RoundKeyTypes DEF IInv, TypeOK
    <3>2. block = XorAll(before, RoundKeys(made)[r])
      BY <1>a, <2>0 DEF Operation
    <3> QED BY <1>a, <3>1, <3>2, XorUndone
  <2>2. CASE r = 0
    <3>1. Undo("xor", before, "give")
      BY <1>1, <2>1, <2>2 DEF RemoveKey
    <3>2. before = XorAll(job.text[n + 1], Before(n + 1))
      BY <2>0, <2>2 DEF before, Entry
    <3> QED BY <1>a, <2>0, <3>1, <3>2, UndoInv DEF Ops, Working
  <2>3. CASE r = ROUNDS
    <3>1. Undo("xor", before, "shift")
      BY <1>1, <2>1, <2>3 DEF RemoveKey, ROUNDS
    <3>2. before = trail[n + 1][r]["shift"]
      BY <2>0, <2>3 DEF before, Entry, ROUNDS
    <3>3. Valid(r, "shift")
      BY <2>3 DEF Valid, Ops, ROUNDS
    <3> QED BY <1>a, <2>0, <3>1, <3>2, <3>3, UndoInv DEF Ops, Working
  <2>4. CASE r /= 0 /\ r /= ROUNDS
    <3>1. Undo("xor", before, "mix")
      BY <1>1, <2>1, <2>4 DEF RemoveKey
    <3>2. before = trail[n + 1][r]["mix"]
      BY <2>0, <2>4 DEF before, Entry
    <3>3. Valid(r, "mix")
      BY <1>a, <2>4 DEF Valid, Ops
    <3> QED BY <1>a, <2>0, <3>1, <3>2, <3>3, UndoInv DEF Ops, Working
  <2> QED BY <2>2, <2>3, <2>4
<1>2. CASE InvMix
  <2>0. pc = "mix" /\ r' = r
    BY <1>2 DEF InvMix, Undo
  <2>1. InvMixBytes(block) = before
    BY <1>a, <2>0, MixUndone DEF Operation
  <2>2. Undo("mix", before, "shift")
    BY <1>2, <2>1 DEF InvMix
  <2>3. before = trail[n + 1][r]["shift"]
    BY <2>0 DEF before, Entry
  <2>4. Valid(r, "shift")
    BY <1>a, <2>0 DEF Valid, Ops
  <2> QED BY <1>a, <2>0, <2>2, <2>3, <2>4, UndoInv DEF Ops, Working
<1>3. CASE InvShift
  <2>0. pc = "shift" /\ r' = r
    BY <1>3 DEF InvShift, Undo
  <2>1. InvShiftRows(block) = before
    BY <1>a, <2>0, ShiftUndone DEF Operation
  <2>2. Undo("shift", before, "sbox")
    BY <1>3, <2>1 DEF InvShift
  <2>3. before = trail[n + 1][r]["sbox"]
    BY <2>0 DEF before, Entry
  <2>4. Valid(r, "sbox")
    BY <1>a, <2>0 DEF Valid, Ops
  <2> QED BY <1>a, <2>0, <2>2, <2>3, <2>4, UndoInv DEF Ops, Working
<1>4. CASE InvSbox
  <2>0. pc = "sbox" /\ r' = r - 1 /\ r /= 0
    BY <1>4, <1>a DEF InvSbox, Undo, Valid
  <2>1. SubBytes(INV_SBOX, block) = before
    BY <1>a, <2>0, SubUndone DEF Operation
  <2>2. Undo("sbox", before, "xor")
    BY <1>4, <2>1 DEF InvSbox
  <2>3. before = trail[n + 1][r - 1]["xor"]
    BY <2>0 DEF before, Entry
  <2>4. Valid(r - 1, "xor") /\ r - 1 \in 0 .. ROUNDS
    BY <1>a, <2>0 DEF Valid, Ops, ROUNDS
  <2> QED BY <1>a, <2>0, <2>2, <2>3, <2>4, UndoInv DEF Ops, Working
<1> QED BY <1>1, <1>2, <1>3, <1>4

\* A decrypted block is given: the one that was encrypted.
LEMMA GivePlainInv == IInv /\ GivePlain => IInv'
<1> SUFFICES ASSUME IInv, GivePlain PROVE IInv'
  OBVIOUS
<1> USE DEF GivePlain, tables, schedule, history
<1>a. /\ TypeOK /\ mode = "decode" /\ pc = "give" /\ n \in Nat /\ n + 1 \in 1 .. Len(file)
      /\ Len(file) = Len(job.text) /\ Len(out) = n /\ out \in Seq(Block) /\ file \in Seq(Block)
      /\ job.text \in Seq(Block) /\ job.iv \in Block /\ prev = Before(n + 1)
      /\ block = XorAll(job.text[n + 1], Before(n + 1))
  BY JobTypes, SMTT(60) DEF IInv, TypeOK, ChainInv, BlockInv, Ops
<1>b. XorAll(block, prev) = job.text[n + 1] /\ job.text[n + 1] \in Block
  <2>1. job.text[n + 1] \in Block /\ Before(n + 1) \in Block
    BY <1>a DEF Before
  <2> QED BY <1>a, <2>1, XorUndone
<1>c. /\ out' \in Seq(Block) /\ Len(out') = n + 1 /\ out'[n + 1] = job.text[n + 1]
      /\ \A k \in 1 .. n : out'[k] = out[k]
  BY <1>a, <1>b
<1>1. TypeOK'
  BY <1>a, <1>c DEF TypeOK
<1>2. ScheduleInv'
  BY <1>a, ScheduleKept DEF IInv, Working, Ops
<1>3. TableInv'
  BY <1>a DEF IInv, TableInv, Working, Ops
<1>4. ChainInv'
  <2>1. prev' = Before(n + 1)'
    <3>1. n' + 1 /= 1 /\ (n' + 1) - 1 = n + 1 /\ prev' = file[n + 1]
      BY <1>a
    <3> QED BY <3>1 DEF Before
  <2>2. \A k \in 1 .. n + 1 : out'[k] = job.text[k]
    BY <1>a, <1>c DEF IInv, ChainInv
  <2> QED BY <1>a, <1>c, <2>1, <2>2 DEF IInv, ChainInv, Working, Ops
<1>5. TrailInv'
  BY <1>a, TrailKept DEF IInv, Passed
<1>6. BlockInv'
  BY <1>a DEF BlockInv, Ops
<1> QED BY <1>1, <1>2, <1>3, <1>4, <1>5, <1>6 DEF IInv

\* The end of decode.
LEMMA CleanupInv == IInv /\ Cleanup => IInv'
<1> SUFFICES ASSUME IInv, Cleanup PROVE IInv'
  OBVIOUS
<1> USE DEF IInv, Cleanup, tables, history
<1>1. TypeOK'
  BY ZeroTypes DEF TypeOK
<1>2. ScheduleInv'
  <2>1. \A j : KeyWord(j)' = KeyWord(j)
    BY DEF KeyWord, Key256
  <2>2. Scheduled(made, NB * (ROUNDS + 1))'
    BY <2>1 DEF ScheduleInv, Scheduled
  <2> QED BY <2>2 DEF ScheduleInv, Working, Ops
<1>3. TableInv'
  BY DEF TableInv, Working, Ops
<1>4. ChainInv'
  BY DEF ChainInv, Before, Working, Ops
<1>5. TrailInv'
  BY TrailKept DEF Passed
<1>6. BlockInv'
  BY DEF BlockInv, Ops
<1> QED BY <1>1, <1>2, <1>3, <1>4, <1>5, <1>6

\* Steps that change no variable.
LEMMA StutterInv == IInv /\ UNCHANGED vars => IInv'
<1> SUFFICES ASSUME IInv, UNCHANGED vars PROVE IInv'
  OBVIOUS
<1> USE DEF IInv, vars, tables, schedule, chain, history
<1>1. TypeOK'
  BY DEF TypeOK
<1>2. ScheduleInv'
  BY ScheduleKept
<1>3. TableInv'
  BY DEF TableInv
<1>4. ChainInv'
  BY DEF ChainInv, Before
<1>5. TrailInv'
  BY TrailKept DEF Passed
<1>6. BlockInv'
  BY DEF BlockInv, Entry, Before, Valid
<1> QED BY <1>1, <1>2, <1>3, <1>4, <1>5, <1>6

\* Every step keeps the invariant.
LEMMA NextInv == IInv /\ [Next]_vars => IInv'
<1> SUFFICES ASSUME IInv, [Next]_vars PROVE IInv'
  OBVIOUS
<1> QED
  BY SboxInitInv, LoadKeyInv, ExpandInv, UnpackKeysInv, TakePlainInv, EncryptInv, GiveCipherInv,
     StartDecodeInv, TakeCipherInv, DecryptInv, GivePlainInv, CleanupInv, StutterInv
     DEF Next, Finished

-----------------------------------------------------------------------------
(* The theorems *)

\* The invariant gives the three properties.
LEMMA InvProperties == IInv => TypeOK /\ Retraces /\ DecodesToText
<1> SUFFICES ASSUME IInv PROVE TypeOK /\ Retraces /\ DecodesToText
  OBVIOUS
<1>1. Retraces
  BY DEF IInv, BlockInv, Retraces, Ops
<1>2. DecodesToText
  <2>1. job.text \in Seq(Block) /\ out \in Seq(Block) /\ mode \in {"encode", "decode"}
    BY JobTypes DEF IInv, TypeOK
  <2>2. Len(out) <= Len(job.text)
    BY <2>1 DEF IInv, ChainInv, TypeOK
  <2>3. \A k \in 1 .. Len(out) : out[k] = job.text[k]
    BY DEF IInv, ChainInv
  <2>4. pc = "done" => Len(out) = Len(job.text)
    BY <2>1 DEF IInv, ChainInv
  <2>5. pc = "done" => out = job.text
    BY <2>1, <2>3, <2>4
  <2> QED BY <2>1, <2>2, <2>3, <2>5 DEF DecodesToText
<1> QED BY <1>1, <1>2 DEF IInv

\* The variables keep their types and the counters stay within their arrays,
\* for every S-box that takes no value twice and every job.
THEOREM CipherTypes == Spec => []TypeOK
BY InitInv, NextInv, InvProperties, PTL DEF Spec

\* Decryption goes back through the blocks encryption has made.
THEOREM DecryptionRetraces == Spec => []Retraces
BY InitInv, NextInv, InvProperties, PTL DEF Spec

\* What decode makes of what encode has written is the text, for every
\* S-box that takes no value twice, every key and every text.
THEOREM DecryptionInverts == Spec => []DecodesToText
BY InitInv, NextInv, InvProperties, PTL DEF Spec
=============================================================================
