--------------------------------- MODULE Hmac ---------------------------------
(***************************************************************************)
(* hmac_compute: the key block, then the inner and the outer hash, made    *)
(* with one HASH_CTX that is initialised again without being cleared.  The *)
(* calls of hash.c are the actions of HashStream.                          *)
(*                                                                         *)
(* The message and the digest are places in the caller's memory, and may   *)
(* be the same place: kdf_derive passes u as both.                         *)
(***************************************************************************)
EXTENDS Integers, Sequences

CONSTANTS
  HashBlock,      \* HASH_BLOCK_SIZE and HMAC_BLOCK_SIZE (64)
  LengthWidth,    \* see HashStream
  DigestSize,     \* HASH_DIGEST_SIZE and HMAC_SIZE (32)
  Squeeze(_),     \* the digest of a sequence of padded blocks
  ByteXor(_, _),  \* ^ of two bytes
  Pieces, MaxMessage, MaxUses

VARIABLES
  ctxPc, buffer, state, count, ctxData, i, message, digest, uses,  \* see HashStream
  at,        \* the next step of hmac_compute, or "idle"
  key,       \* its arguments: the key,
  from, to,  \* and the places of the message and of the digest
  keyBlock,  \* key_block
  innerHash, \* inner_hash
  memory     \* the caller's memory

Ctx == INSTANCE HashStream WITH pc <- ctxPc, data <- ctxData

ASSUME HmacAssumption == Ctx!HashAssumption /\ DigestSize \in 1 .. HashBlock

ASSUME ByteXorAssumption == \A a, b \in 0 .. 255 : ByteXor(a, b) \in 0 .. 255

ctxVars  == <<ctxPc, buffer, state, count, ctxData, i, message, digest, uses>>
callVars == <<key, from, to>>
hmacVars == <<at, callVars, keyBlock, innerHash, memory>>

Places == {"data", "salt_block", "u", "digest"}

HmacInit ==
  /\ Ctx!Init
  /\ at = "idle"
  /\ key = <<>> /\ from = "data" /\ to = "digest"
  /\ keyBlock = <<>> /\ innerHash = <<>>

\* What a caller does to call hmac_compute.
CallHmac(password, source, target) ==
  /\ at = "idle"
  /\ at' = "key_block"
  /\ key' = password
  /\ from' = source
  /\ to' = target

Pad(constant) == [k \in 1 .. HashBlock |-> ByteXor(keyBlock[k], constant)]
Ipad == Pad(54)   \* 0x36

\* Mutant of Opad: both pads are made with the same constant.
OpadSame == Pad(54)

Opad == Pad(92)   \* 0x5c

ZeroFilled(bytes) == bytes \o [k \in 1 .. HashBlock - Len(bytes) |-> 0]

\* A step that does not touch the context.
Goto(next) == at' = next /\ UNCHANGED <<callVars, memory>>

ShortKey ==
  /\ at = "key_block"
  /\ Len(key) <= HashBlock
  /\ keyBlock' = ZeroFilled(key)
  /\ Goto("inner_init")
  /\ UNCHANGED <<innerHash, ctxVars>>

LongKey ==
  /\ at = "key_block"
  /\ Len(key) > HashBlock
  /\ Ctx!HashInit
  /\ Goto("key_hash")
  /\ UNCHANGED <<keyBlock, innerHash>>

LongKeyDigest ==
  /\ at = "key_digest"
  /\ Ctx!HashFinal
  /\ keyBlock' = ZeroFilled(Squeeze(digest'))
  /\ Goto("inner_init")
  /\ UNCHANGED innerHash

Start(stage, next) ==
  /\ at = stage
  /\ Ctx!HashInit
  /\ Goto(next)
  /\ UNCHANGED <<keyBlock, innerHash>>

Feed(stage, piece, next) ==
  /\ at = stage
  /\ Ctx!HashUpdate(piece)
  /\ Goto(next)
  /\ UNCHANGED <<keyBlock, innerHash>>

InnerDigest ==
  /\ at = "inner_digest"
  /\ Ctx!HashFinal
  /\ innerHash' = Squeeze(digest')
  /\ Goto("outer_init")
  /\ UNCHANGED keyBlock

OuterDigest ==
  /\ at = "outer_digest"
  /\ Ctx!HashFinal
  /\ memory' = [memory EXCEPT ![to] = Squeeze(digest')]
  /\ at' = "idle"
  /\ UNCHANGED <<callVars, keyBlock, innerHash>>

\* The loop of hash_update, whoever called it.
InsideUpdate == Ctx!InUpdate /\ UNCHANGED hmacVars

HmacStep ==
  \/ ShortKey
  \/ LongKey \/ Feed("key_hash", key, "key_digest") \/ LongKeyDigest
  \/ Start("inner_init", "inner_pad")
  \/ Feed("inner_pad", Ipad, "inner_data")
  \/ Feed("inner_data", memory[from], "inner_digest")
  \/ InnerDigest
  \/ Start("outer_init", "outer_pad")
  \/ Feed("outer_pad", Opad, "outer_data")
  \/ Feed("outer_data", innerHash, "outer_digest")
  \/ OuterDigest

-----------------------------------------------------------------------------
(* RFC 2104, without the context and the places *)

Hash(text) == Squeeze(Ctx!PaddedBlocks(text))

HmacOf(password, text) ==
  LET short   == IF Len(password) > HashBlock THEN Hash(password) ELSE password
      padded(constant) ==
        [k \in 1 .. HashBlock |-> ByteXor(IF k <= Len(short) THEN short[k] ELSE 0, constant)]
  IN  Hash(padded(92) \o Hash(padded(54) \o text))
=============================================================================
