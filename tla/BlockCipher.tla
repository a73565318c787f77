------------------------------ MODULE BlockCipher ------------------------------
(***************************************************************************)
(* AES-256 in CBC mode as the cipher runs it: sbox_init, keygen_expand,    *)
(* encrypt_block and decrypt_block one round operation at a time, and the  *)
(* chain of cipher_cbc_encrypt_block and cipher_cbc_decrypt_block.  One    *)
(* process encodes a text; another one, with fresh static tables, decodes  *)
(* what the first has written.                                             *)
(*                                                                         *)
(* A byte is the set of the positions of its one bits, so that ^ is the    *)
(* symmetric difference.  Arrays keep the indices of the source.  The      *)
(* tables of gf_mul_slow are not state: every reader fills them first.     *)
(* HASH_SBOX is filled with INV_SBOX and read by nobody.                   *)
(***************************************************************************)
EXTENDS Integers, Sequences

CONSTANTS
  SBOX,       \* the forward table
  Hmac(_),    \* the 32 bytes hmac_compute makes of a short key and the fixed salt
  Jobs        \* what is encoded: a key, an initialization vector and a text

ROUNDS == 14
NK == 8
NB == 4

Bits == 0 .. 7
Byte == SUBSET Bits

Place == 0 .. 15
Block == [Place -> Byte]
Word == [0 .. 3 -> Byte]
KeyWords == 0 .. NB * (ROUNDS + 1) - 1

\* The table and the keys are bytes; the table takes no value twice.
ASSUME CipherAssumption ==
  /\ SBOX \in [Byte -> Byte]
  /\ \A a, b \in Byte : SBOX[a] = SBOX[b] => a = b
  /\ \A j \in Jobs :
       /\ j.key \in Seq(Byte)
       /\ Len(j.key) < 4 * NK => Hmac(j.key) \in [1 .. 4 * NK -> Byte]
       /\ j.iv \in Block
       /\ j.text \in Seq(Block)

VARIABLES
  job,         \* history: what is encoded
  mode,        \* the command under way, "encode" or "decode"
  pc,          \* its next step
  INV_SBOX,    \* the inverse table, zero until sbox_init has run,
  initialized, \* and whether it has
  W, i,        \* keygen_expand's words and loop counter
  round_keys,  \* the context's
  r,           \* the round of encrypt_block or decrypt_block
  block,       \* the block under work
  prev,        \* the block before it in the chain
  n,           \* the blocks this command has finished
  file,        \* the encrypted blocks
  out,         \* the decrypted blocks
  made, trail  \* history: W as the encoding process made it, and the value
               \* of every block after each operation of each round

tables == <<INV_SBOX, initialized>>
schedule == <<W, i, round_keys>>
chain == <<prev, n, file, out>>
history == <<job, made, trail>>
vars == <<mode, pc, tables, schedule, r, block, chain, history>>

-----------------------------------------------------------------------------
(* Bytes, words and blocks *)

a (+) b == (a \ b) \cup (b \ a)

XorAll(u, v) == [k \in DOMAIN u |-> u[k] (+) v[k]]

Zero(indices) == [k \in indices |-> {}]

\* a <<= 1, reduced modulo the polynomial: the turn of gf_mul_slow's loop.
Shifted(a) == {k + 1 : k \in a \ {7}} (+) (IF 7 \in a THEN {0, 1, 3, 4} ELSE {})

\* What gf_mul_slow makes of a and the constants the tables are made for.
Mul2(a)  == Shifted(a)
Mul3(a)  == a (+) Shifted(a)
Mul4(a)  == Shifted(Shifted(a))
Mul8(a)  == Shifted(Mul4(a))
Mul9(a)  == a (+) Mul8(a)
Mul11(a) == Mul3(a) (+) Mul8(a)
Mul13(a) == (a (+) Mul4(a)) (+) Mul8(a)
Mul14(a) == (Mul2(a) (+) Mul4(a)) (+) Mul8(a)

\* A row of each matrix, for the bytes of a column from that row on.
MixRow(a, b, c, d) == (Mul2(a) (+) Mul3(b)) (+) (c (+) d)

InvMixRow(a, b, c, d) == (Mul14(a) (+) Mul11(b)) (+) (Mul13(c) (+) Mul9(d))

\* The byte k rows further down in the column of place p.
Below(b, p, k) == b[4 * (p \div 4) + ((p + k) % 4)]

-----------------------------------------------------------------------------
(* The operations of a round *)

\* Mutant of ShiftRows: the rows are shifted to the right.
ShiftRowsRight(b) == [p \in Place |-> b[(p + 12 * (p % 4)) % 16]]

ShiftRows(b) == [p \in Place |-> b[(p + 4 * (p % 4)) % 16]]

InvShiftRows(b) == [p \in Place |-> b[(p + 12 * (p % 4)) % 16]]

SubBytes(table, b) == [p \in Place |-> table[b[p]]]

MixBytes(b) ==
  [p \in Place |-> MixRow(Below(b, p, 0), Below(b, p, 1), Below(b, p, 2), Below(b, p, 3))]

InvMixBytes(b) ==
  [p \in Place |-> InvMixRow(Below(b, p, 0), Below(b, p, 1), Below(b, p, 2), Below(b, p, 3))]

-----------------------------------------------------------------------------
(* The key schedule *)

Rcon == [k \in 0 .. 14 |->
  <<{}, {0}, {1}, {2}, {3}, {4}, {5}, {6}, {7}, {0, 1, 3, 4}, {1, 2, 4, 5},
    {2, 3, 5, 6}, {3, 4, 6, 7}, {0, 1, 3, 5, 7}, {0, 2, 3, 6}>>[k + 1]]

SubWord(w) == [k \in 0 .. 3 |-> SBOX[w[k]]]

\* The first byte of a word is its most significant one.
RotWord(w) == [k \in 0 .. 3 |-> w[(k + 1) % 4]]

\* The key as the schedule takes it: cut to 32 bytes, or made 32 bytes long.
Key256 == IF Len(job.key) >= 4 * NK THEN job.key ELSE Hmac(job.key)

KeyWord(k) == [j \in 0 .. 3 |-> Key256[4 * k + j + 1]]

\* Mutant of Temp: the words between two full turns are taken as they are.
TempPlain(words, k) ==
  IF k % 8 = 0
  THEN XorAll(SubWord(RotWord(words[k - 1])), [j \in 0 .. 3 |-> IF j = 0 THEN Rcon[k \div 8] ELSE {}])
  ELSE words[k - 1]

Temp(words, k) ==
  CASE k % 8 = 0 ->
         XorAll(SubWord(RotWord(words[k - 1])),
                [j \in 0 .. 3 |-> IF j = 0 THEN Rcon[k \div 8] ELSE {}])
    [] k % 8 = 4 -> SubWord(words[k - 1])
    [] OTHER     -> words[k - 1]

NewWord(words, k) == XorAll(words[k - NK], Temp(words, k))

RoundKeys(words) ==
  [k \in 0 .. ROUNDS |-> [p \in Place |-> words[4 * k + (p \div 4)][p % 4]]]

-----------------------------------------------------------------------------
NoWords == [k \in KeyWords |-> Zero(0 .. 3)]
NoKeys == [k \in 0 .. ROUNDS |-> Zero(Place)]
NoTrail == [k \in 0 .. ROUNDS |->
              [op \in {"sbox", "shift", "mix", "xor"} |-> Zero(Place)]]

\* The static tables of a process are zero when it begins.
Init ==
  /\ job \in Jobs
  /\ mode = "encode" /\ pc = "sbox_init"
  /\ INV_SBOX = Zero(Byte) /\ initialized = 0
  /\ W = NoWords /\ i = 0 /\ round_keys = NoKeys
  /\ r = 0 /\ block = Zero(Place)
  /\ prev = job.iv
  /\ n = 0
  /\ file = <<>> /\ out = <<>>
  /\ made = NoWords
  /\ trail = [k \in 1 .. Len(job.text) |-> NoTrail]

\* A value SBOX never takes would keep its zero.
InverseTable ==
  [a \in Byte |-> IF \E b \in Byte : SBOX[b] = a
                  THEN CHOOSE b \in Byte : SBOX[b] = a ELSE {}]

\* The cipher calls it before the key expansion when it encrypts, and when
\* it decrypts just before the first block.
SboxInit ==
  /\ pc = "sbox_init"
  /\ IF initialized = 1 THEN UNCHANGED tables
     ELSE INV_SBOX' = InverseTable /\ initialized' = 1
  /\ pc' = IF mode = "encode" THEN "load" ELSE "next"
  /\ UNCHANGED <<mode, schedule, r, block, chain, history>>

LoadKey ==
  /\ pc = "load"
  /\ W' = [k \in KeyWords |-> IF k < NK THEN KeyWord(k) ELSE W[k]]
  /\ i' = NK
  /\ pc' = "expand"
  /\ UNCHANGED <<mode, tables, round_keys, r, block, chain, history>>

Expand ==
  /\ pc = "expand" /\ i \in KeyWords
  /\ W' = [W EXCEPT ![i] = NewWord(W, i)]
  /\ i' = i + 1
  /\ UNCHANGED <<mode, pc, tables, round_keys, r, block, chain, history>>

\* The round keys are taken from the words, and the words wiped.
UnpackKeys ==
  /\ pc = "expand" /\ i \notin KeyWords
  /\ round_keys' = RoundKeys(W)
  /\ W' = NoWords
  /\ made' = IF mode = "encode" THEN W ELSE made
  /\ pc' = IF mode = "encode" THEN "next" ELSE "sbox_init"
  /\ UNCHANGED <<mode, tables, i, r, block, chain, job, trail>>

-----------------------------------------------------------------------------
(* Encryption of a block *)

\* Mutant of Chained: every block is chained to the initialization vector.
ChainedToIv == XorAll(job.text[n + 1], job.iv)

Chained == XorAll(job.text[n + 1], prev)

TakePlain ==
  /\ mode = "encode" /\ pc = "next" /\ n < Len(job.text)
  /\ block' = Chained
  /\ r' = 0
  /\ pc' = "xor"
  /\ UNCHANGED <<mode, tables, schedule, chain, history>>

\* An operation of round r gives the block the value b.
Operate(op, b, next) ==
  /\ mode = "encode" /\ pc = op
  /\ block' = b
  /\ trail' = [trail EXCEPT ![n + 1][r][op] = b]
  /\ pc' = next
  /\ UNCHANGED <<mode, tables, schedule, chain, job, made>>

ApplySbox == Operate("sbox", SubBytes(SBOX, block), "shift") /\ UNCHANGED r

Shift == /\ Operate("shift", ShiftRows(block), IF r < ROUNDS THEN "mix" ELSE "xor")
         /\ UNCHANGED r

Mix == Operate("mix", MixBytes(block), "xor") /\ UNCHANGED r

\* Mutant of AddKey: the last round is counted too.
AddKeyCounting ==
  /\ Operate("xor", XorAll(block, round_keys[r]), IF r < ROUNDS THEN "sbox" ELSE "give")
  /\ r' = r + 1

AddKey == /\ Operate("xor", XorAll(block, round_keys[r]), IF r < ROUNDS THEN "sbox" ELSE "give")
          /\ r' = IF r < ROUNDS THEN r + 1 ELSE r

\* The chain goes on with the encrypted block.
GiveCipher ==
  /\ mode = "encode" /\ pc = "give"
  /\ file' = Append(file, block)
  /\ prev' = block
  /\ n' = n + 1
  /\ pc' = "next"
  /\ UNCHANGED <<mode, tables, schedule, r, block, out, history>>

-----------------------------------------------------------------------------
(* The other process *)

\* The end of encode, which wipes the context, and the start of decode.
StartDecode ==
  /\ mode = "encode" /\ pc = "next" /\ n = Len(job.text)
  /\ mode' = "decode" /\ pc' = "load"
  /\ INV_SBOX' = Zero(Byte) /\ initialized' = 0
  /\ W' = NoWords /\ i' = 0 /\ round_keys' = NoKeys
  /\ r' = 0 /\ block' = Zero(Place)
  /\ prev' = job.iv
  /\ n' = 0
  /\ UNCHANGED <<file, out, history>>

TakeCipher ==
  /\ mode = "decode" /\ pc = "next" /\ n < Len(file)
  /\ block' = file[n + 1]
  /\ r' = ROUNDS
  /\ pc' = "xor"
  /\ UNCHANGED <<mode, tables, schedule, chain, history>>

Undo(op, b, next) ==
  /\ mode = "decode" /\ pc = op
  /\ block' = b
  /\ pc' = next
  /\ UNCHANGED <<mode, tables, schedule, chain, history>>

RemoveKey ==
  /\ Undo("xor", XorAll(block, round_keys[r]),
          IF r = 0 THEN "give" ELSE IF r = ROUNDS THEN "shift" ELSE "mix")
  /\ UNCHANGED r

InvMix == Undo("mix", InvMixBytes(block), "shift") /\ UNCHANGED r

InvShift == Undo("shift", InvShiftRows(block), "sbox") /\ UNCHANGED r

InvSbox == Undo("sbox", SubBytes(INV_SBOX, block), "xor") /\ r' = r - 1

GivePlain ==
  /\ mode = "decode" /\ pc = "give"
  /\ out' = Append(out, XorAll(block, prev))
  /\ prev' = file[n + 1]
  /\ n' = n + 1
  /\ pc' = "next"
  /\ UNCHANGED <<mode, tables, schedule, r, block, file, history>>

\* The end of decode, which wipes the context.
Cleanup ==
  /\ mode = "decode" /\ pc = "next" /\ n = Len(file)
  /\ round_keys' = NoKeys
  /\ prev' = Zero(Place)
  /\ pc' = "done"
  /\ UNCHANGED <<mode, tables, W, i, r, block, n, file, out, history>>

Finished == pc = "done" /\ UNCHANGED vars

Next ==
  \/ SboxInit \/ LoadKey \/ Expand \/ UnpackKeys
  \/ TakePlain \/ ApplySbox \/ Shift \/ Mix \/ AddKey \/ GiveCipher
  \/ StartDecode
  \/ TakeCipher \/ RemoveKey \/ InvMix \/ InvShift \/ InvSbox \/ GivePlain \/ Cleanup
  \/ Finished

Spec == Init /\ [][Next]_vars

-----------------------------------------------------------------------------
(* Properties *)

\* Type correctness, and the counters stay within the arrays they index.
TypeOK ==
  /\ job \in Jobs
  /\ mode \in {"encode", "decode"}
  /\ pc \in {"sbox_init", "load", "expand", "next", "xor", "sbox", "shift",
             "mix", "give", "done"}
  /\ INV_SBOX \in [Byte -> Byte] /\ initialized \in {0, 1}
  /\ W \in [KeyWords -> Word] /\ made \in [KeyWords -> Word]
  /\ i \in Nat /\ i <= NB * (ROUNDS + 1)
  /\ round_keys \in [0 .. ROUNDS -> Block]
  /\ r \in 0 .. ROUNDS
  /\ block \in Block /\ prev \in Block
  /\ n \in Nat /\ n <= Len(job.text)
  /\ file \in Seq(Block) /\ out \in Seq(Block)
  /\ trail \in [1 .. Len(job.text) ->
                  [0 .. ROUNDS -> [{"sbox", "shift", "mix", "xor"} -> Block]]]

\* decrypt_block "applies the inverse operations in reverse order": before it
\* undoes an operation of a round, the block is what that operation gave when
\* the same block was encrypted.
Retraces ==
  mode = "decode" /\ pc \in {"xor", "sbox", "shift", "mix"}
    => block = trail[n + 1][r][pc]

\* What decode has put out is the text encode was given, block for block: the
\* chain and the rounds are undone with tables and keys made from nothing.
DecodesToText ==
  /\ \A k \in 1 .. Len(out) : k <= Len(job.text) /\ out[k] = job.text[k]
  /\ pc = "done" => out = job.text
=============================================================================
