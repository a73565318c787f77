---------------------------------- MODULE Kdf ----------------------------------
(***************************************************************************)
(* cipher_ctx_init_encrypt: kdf_derive, PBKDF2 over hmac_compute, once for *)
(* the encryption key and once for the MAC key.  A process does one job:   *)
(*   "context"  the two derivations                                        *)
(*   "mac"      one hmac_compute over a message, as the cipher makes       *)
(*   "hash"     any use of a HASH_CTX                                      *)
(***************************************************************************)
EXTENDS Hmac

CONSTANTS
  Contexts,    \* arguments of cipher_ctx_init_encrypt, with KDF_DERIVED_KEY_SIZE
  Macs,        \* arguments of hmac_compute
  Iterations,  \* KDF_ITERATIONS (100000)
  IndexWidth   \* bytes of the block number in salt_block (4)

ASSUME KdfAssumption == Iterations \in Nat \ {0} /\ IndexWidth \in Nat \ {0}

\* Passwords, salts and messages are bytes; the size of the keys is a size_t.
ASSUME ArgumentsAssumption ==
  /\ \A args \in Contexts :
       args.password \in Seq(0 .. 255) /\ args.salt \in Seq(0 .. 255) /\ args.keySize \in Nat
  /\ \A args \in Macs : args.password \in Seq(0 .. 255) /\ args.data \in Seq(0 .. 255)

VARIABLES
  job,       \* what this process does, and its arguments
  kdfPc,     \* the next step of kdf_derive, "call" between two of them, or "done"
  tag,       \* the key being derived
  blockNum,  \* block_num
  turn,      \* i, the turns of the inner loop so far
  block,     \* block
  derived,   \* derived_key
  keys,      \* enc_key and mac_key
  argument   \* history: the message of the last hmac_compute when it was called

kdfVars == <<job, kdfPc, tag, blockNum, turn, block, derived, keys, argument>>
vars == <<ctxVars, hmacVars, kdfVars>>

NoKeys == [t \in {"ENC", "MAC"} |-> <<>>]

TagBytes == [ENC |-> <<69, 78, 67>>, MAC |-> <<77, 65, 67>>]

Jobs == [kind : {"context"}, args : Contexts] \cup [kind : {"mac"}, args : Macs]
          \cup {[kind |-> "hash"]}

Init ==
  /\ HmacInit
  /\ job \in Jobs
  /\ memory = [place \in Places |->
                 IF place = "data" /\ job.kind = "mac" THEN job.args.data ELSE <<>>]
  /\ kdfPc = "call"
  /\ tag = "ENC"
  /\ blockNum = 0 /\ turn = 0 /\ block = <<>>
  /\ derived = <<>>
  /\ keys = NoKeys
  /\ argument = <<>>

\* The steps of kdf_derive run while hmac_compute does not.
Deriving(stage) == job.kind = "context" /\ kdfPc = stage /\ at = "idle"

\* The arguments of the derivation under way.
Salt == job.args.salt \o TagBytes[tag]
KeySize == job.args.keySize

\* Mutant of BlocksNeeded: the division rounds down.
BlocksNeededFloor == KeySize \div DigestSize

BlocksNeeded == (KeySize + DigestSize - 1) \div DigestSize

\* block_num, big-endian
Index(n) == [k \in 1 .. IndexWidth |-> (n \div 256 ^ (IndexWidth - k)) % 256]

\* cipher_ctx_init_encrypt calls kdf_derive.
CallKdf ==
  /\ Deriving("call")
  /\ kdfPc' = "block"
  /\ blockNum' = 1
  /\ derived' = <<>>
  /\ UNCHANGED <<ctxVars, hmacVars, job, tag, turn, block, keys, argument>>

\* salt_block is built and u_1 computed from it.
FirstHmac ==
  /\ Deriving("block")
  /\ blockNum <= BlocksNeeded
  /\ memory' = [memory EXCEPT !["salt_block"] = Salt \o Index(blockNum)]
  /\ CallHmac(job.args.password, "salt_block", "u")
  /\ argument' = memory'["salt_block"]
  /\ turn' = 0
  /\ kdfPc' = "accumulate"
  /\ UNCHANGED <<ctxVars, keyBlock, innerHash, job, tag, blockNum, block, derived, keys>>

\* The copy of u_1, or the exclusive or of a later one.
Accumulate ==
  /\ Deriving("accumulate")
  /\ block' = IF turn = 0 THEN memory["u"]
              ELSE [j \in 1 .. DigestSize |-> ByteXor(block[j], memory["u"][j])]
  /\ turn' = turn + 1
  /\ kdfPc' = "iterate"
  /\ UNCHANGED <<ctxVars, hmacVars, job, tag, blockNum, derived, keys, argument>>

NextHmac ==
  /\ Deriving("iterate")
  /\ turn < Iterations
  /\ CallHmac(job.args.password, "u", "u")
  /\ argument' = memory["u"]
  /\ kdfPc' = "accumulate"
  /\ UNCHANGED <<ctxVars, keyBlock, innerHash, memory, job, tag, blockNum, turn, block,
                 derived, keys>>

CopyLength ==
  IF blockNum = BlocksNeeded /\ KeySize % DigestSize # 0
  THEN KeySize % DigestSize ELSE DigestSize

CopyBlock ==
  /\ Deriving("iterate")
  /\ turn = Iterations
  /\ derived' = derived \o SubSeq(block, 1, CopyLength)
  /\ blockNum' = blockNum + 1
  /\ kdfPc' = "block"
  /\ UNCHANGED <<ctxVars, hmacVars, job, tag, turn, block, keys, argument>>

\* kdf_derive returns; the MAC key follows the encryption key.
StoreKey ==
  /\ Deriving("block")
  /\ blockNum > BlocksNeeded
  /\ keys' = [keys EXCEPT ![tag] = derived]
  /\ IF tag = "ENC" THEN tag' = "MAC" /\ kdfPc' = "call"
                    ELSE tag' = tag /\ kdfPc' = "done"
  /\ UNCHANGED <<ctxVars, hmacVars, job, blockNum, turn, block, derived, argument>>

\* The cipher computes the MAC of a message.
ComputeMac ==
  /\ job.kind = "mac"
  /\ kdfPc = "call"
  /\ CallHmac(job.args.password, "data", "digest")
  /\ argument' = memory["data"]
  /\ kdfPc' = "done"
  /\ UNCHANGED <<ctxVars, keyBlock, innerHash, memory, job, tag, blockNum, turn, block,
                 derived, keys>>

KdfStep == CallKdf \/ FirstHmac \/ Accumulate \/ NextHmac \/ CopyBlock \/ StoreKey \/ ComputeMac

HashUse == job.kind = "hash" /\ Ctx!AnyCall /\ UNCHANGED <<hmacVars, kdfVars>>

\* What runs by itself once it is called.
Step ==
  \/ KdfStep
  \/ HmacStep /\ UNCHANGED kdfVars
  \/ InsideUpdate /\ UNCHANGED kdfVars

Finished == at = "idle" /\ (IF job.kind = "hash" THEN Ctx!Ended ELSE kdfPc = "done")

Next == Step \/ HashUse \/ (Finished /\ UNCHANGED vars)

\* Calls run to their end; whether a user of a bare HASH_CTX makes another one is
\* its own affair.
Fairness == WF_vars(Step)

Spec == Init /\ [][Next]_vars /\ Fairness

-----------------------------------------------------------------------------
(* Properties *)

\* PBKDF2 as RFC 2898 (5.2) defines it: the hashes of a block, what their exclusive
\* or is after each of them, and the key a byte at a time.
U(password, salt, n) ==
  LET u[j \in 1 .. Iterations] ==
        HmacOf(password, IF j = 1 THEN salt \o Index(n) ELSE u[j - 1])
  IN  u

Xored(password, salt, n) ==
  LET us == U(password, salt, n)
      t[j \in 1 .. Iterations] ==
        IF j = 1 THEN us[1] ELSE [k \in 1 .. DigestSize |-> ByteXor(t[j - 1][k], us[j][k])]
  IN  t

Pbkdf2(password, salt, size) ==
  LET T(n) == Xored(password, salt, n)[Iterations]
  IN  [n \in 1 .. size |-> T(((n - 1) \div DigestSize) + 1)[((n - 1) % DigestSize) + 1]]

\* The context keeps its types, above all no byte of its buffer that nobody wrote is
\* compressed, and a message in memory is whole when it is hashed (hash.c:122-199,
\* hmac.c:41-68).
TypeOK ==
  /\ Ctx!TypeOK
  /\ at # "idle" => memory[from] = argument
  /\ key \in Seq(0 .. 255)
  /\ keyBlock # <<>> => Len(keyBlock) = HashBlock
  /\ innerHash # <<>> => Len(innerHash) = DigestSize

\* A digest is that of its message, however it was cut into pieces and whatever an
\* earlier use left in the buffer (hash.c:122-199).
DigestIsOfMessage == Ctx!DigestIsOfMessage

\* hash_update returns: every turn of its loop consumes something (hash.c:140-158).
UpdateReturns == (ctxPc = "update") ~> (ctxPc = "ready")

\* hmac_compute leaves the HMAC of RFC 2104 of the message it was called with, also
\* in the place of that message and with a key longer than a block (hmac.c:16-69).
HmacIsRfc2104 ==
  (at = "idle" /\ memory[to] # <<>>) => memory[to] = HmacOf(key, argument)

\* Both keys of a context are the ones PBKDF2 defines for the tagged salts, although
\* u is overwritten while it is read, for every size of the key against that of a
\* digest (cipher_ops.c:40-78, kdf.c:14-77).
KeysArePbkdf2 ==
  (job.kind = "context" /\ kdfPc = "done") =>
    \A t \in DOMAIN TagBytes :
      keys[t] = Pbkdf2(job.args.password, job.args.salt \o TagBytes[t], job.args.keySize)

\* The derivation ends (kdf.c:36-74).
EventuallyEnds == job.kind # "hash" => <>(kdfPc = "done" /\ at = "idle")
=============================================================================
