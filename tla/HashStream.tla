------------------------------ MODULE HashStream ------------------------------
(***************************************************************************)
(* A HASH_CTX over its life: hash_init, any number of hash_update calls    *)
(* with pieces of any length, hash_final, and then hash_init again, as     *)
(* hmac_compute uses the same context twice.  hash_init leaves the buffer  *)
(* as it is.                                                               *)
(*                                                                         *)
(* The compression function is left symbolic: the chaining state is the    *)
(* sequence of blocks compressed so far, so that two digests are equal     *)
(* exactly when the same blocks were compressed in the same order.         *)
(***************************************************************************)
EXTENDS Integers, Sequences

CONSTANTS
  HashBlock,    \* HASH_BLOCK_SIZE (64)
  LengthWidth,  \* bytes of the length field (8)
  Pieces,       \* what a caller may pass to hash_update
  MaxMessage,   \* bound: bytes fed between hash_init and hash_final
  MaxUses       \* bound: times the context is initialised

Byte == 0 .. 255

\* What the constants must be; the module that gives them values assumes it.
HashAssumption ==
  /\ HashBlock \in Nat \ {0}
  /\ LengthWidth \in 1 .. HashBlock - 1
  /\ \A piece \in Pieces : piece \in Seq(Byte)

VARIABLES
  pc,        \* "idle", "ready" between two calls, "update" inside hash_update
  buffer,    \* ctx->buffer
  state,     \* ctx->state, as the blocks compressed since hash_init
  count,     \* ctx->count
  data, i,   \* the argument of hash_update and its loop counter, while it runs
  message,   \* history: what was fed since hash_init
  digest,    \* what hash_final returned, until the next hash_init
  uses       \* times hash_init was called

vars == <<pc, buffer, state, count, data, i, message, digest, uses>>

\* A byte of the buffer nobody has written: a context on the stack.
Garbage == -1

Init ==
  /\ pc = "idle"
  /\ buffer = [k \in 1 .. HashBlock |-> Garbage]
  /\ state = <<>> /\ count = 0
  /\ data = <<>> /\ i = 0
  /\ message = <<>> /\ digest = <<>>
  /\ uses = 0

\* Mutant of Filled: the copy starts one byte late.
FilledLate(from, bytes) ==
  [k \in 1 .. HashBlock |->
     IF k > from + 1 /\ k <= from + Len(bytes) THEN bytes[k - from] ELSE buffer[k]]

\* buffer[from ..] filled with bytes
Filled(from, bytes) ==
  [k \in 1 .. HashBlock |->
     IF k > from /\ k <= from + Len(bytes) THEN bytes[k - from] ELSE buffer[k]]

HashInit ==
  /\ pc = "idle"
  /\ pc' = "ready"
  /\ state' = <<>>
  /\ count' = 0
  /\ message' = <<>> /\ digest' = <<>>
  /\ uses' = uses + 1
  /\ UNCHANGED <<buffer, data, i>>

\* hash_update with an argument; its loop follows.
HashUpdate(piece) ==
  /\ pc = "ready"
  /\ data' = piece
  /\ i' = 0
  /\ message' = message \o piece
  /\ pc' = "update"
  /\ UNCHANGED <<buffer, state, count, digest, uses>>

\* Mutant of Space: the last byte of the buffer is never filled.
SpaceShort == HashBlock - 1 - (count % HashBlock)

Space == HashBlock - (count % HashBlock)

Compress(blocks, block) == Append(blocks, block)

\* One turn of the loop of hash_update.
UpdateChunk ==
  /\ pc = "update"
  /\ i < Len(data)
  /\ LET chunk == IF Len(data) - i < Space THEN Len(data) - i ELSE Space
     IN  /\ buffer' = Filled(count % HashBlock, SubSeq(data, i + 1, i + chunk))
         /\ count' = count + chunk
         /\ i' = i + chunk
  /\ state' = IF count' % HashBlock = 0 THEN Compress(state, buffer') ELSE state
  /\ UNCHANGED <<pc, data, message, digest, uses>>

UpdateReturn ==
  /\ pc = "update"
  /\ i = Len(data)
  /\ pc' = "ready"
  /\ data' = <<>> /\ i' = 0
  /\ UNCHANGED <<buffer, state, count, message, digest, uses>>

Zeros(n) == [k \in 1 .. n |-> 0]

\* The length in bits, big-endian, as far as the field holds it.
LengthField(bytes) ==
  [k \in 1 .. LengthWidth |-> ((8 * bytes) \div 256 ^ (LengthWidth - k)) % 256]

LengthStart == HashBlock - LengthWidth

\* Mutant of NeedsExtraBlock: a full tail is taken for one too many.
NeedsExtraBlockEarly(index) == index >= LengthStart

\* No room is left for the length behind the mark.
NeedsExtraBlock(index) == index > LengthStart

HashFinal ==
  /\ pc = "ready"
  /\ LET index  == (count % HashBlock) + 1
         marked == SubSeq(buffer, 1, index - 1) \o <<128>>
         tail   == Zeros(LengthStart) \o LengthField(count)
         closed == marked \o SubSeq(tail, index + 1, HashBlock)
         extra  == marked \o Zeros(HashBlock - index)
     IN  IF NeedsExtraBlock(index)
         THEN /\ state' = Compress(Compress(state, extra), tail)
              /\ buffer' = tail
         ELSE /\ state' = Compress(state, closed)
              /\ buffer' = closed
  /\ digest' = state'
  /\ pc' = "idle"
  /\ UNCHANGED <<count, data, i, message, uses>>

\* A call made by somebody: within the bounds, anything in any order the
\* interface allows.
AnyCall ==
  \/ uses < MaxUses /\ HashInit
  \/ \E piece \in Pieces : Len(message) + Len(piece) <= MaxMessage /\ HashUpdate(piece)
  \/ HashFinal

InUpdate == UpdateChunk \/ UpdateReturn

Ended == pc = "idle" /\ uses = MaxUses /\ UNCHANGED vars

Next == AnyCall \/ InUpdate \/ Ended

\* A call runs to its end; whether a caller makes another one is its own affair.
Fairness == WF_vars(InUpdate)

Spec == Init /\ [][Next]_vars /\ Fairness

-----------------------------------------------------------------------------
(* Properties *)

\* The message with its padding, as FIPS 180-4 (5.1.1) defines it, cut into blocks.
PaddedBlocks(text) ==
  LET zeros == (HashBlock - ((Len(text) + 1 + LengthWidth) % HashBlock)) % HashBlock
      whole == text \o <<128>> \o Zeros(zeros) \o LengthField(Len(text))
  IN  [j \in 1 .. Len(whole) \div HashBlock |->
         SubSeq(whole, (j - 1) * HashBlock + 1, j * HashBlock)]

\* The variables stay in their types; a piece is never read past its end, and no
\* byte of the buffer that nobody wrote is ever compressed.
TypeOK ==
  /\ pc \in {"idle", "ready", "update"}
  /\ buffer \in [1 .. HashBlock -> Byte \cup {Garbage}]
  /\ state \in Seq([1 .. HashBlock -> Byte])
  /\ count \in Nat
  /\ i \in 0 .. Len(data)
  /\ uses \in Nat

\* The digest is that of the message, however it was cut into pieces and whatever
\* an earlier use left in the buffer (hash.c:122-199).
DigestIsOfMessage ==
  (pc = "idle" /\ uses > 0) => digest = PaddedBlocks(message)

\* hash_update returns: every turn of its loop consumes something (hash.c:140-158).
UpdateReturns == (pc = "update") ~> (pc = "ready")
=============================================================================
