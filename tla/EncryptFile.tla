----------------------------- MODULE EncryptFile -----------------------------
(***************************************************************************)
(* cipher_encrypt_file: one action per I/O call, allocation or pass of a   *)
(* loop, with every error exit and the resources that exit gives back.     *)
(*                                                                         *)
(* The environment is the C library and the operating system.  Faults      *)
(* names what may go wrong in a run:                                       *)
(*   "open", "write", "malloc"  a call the code checks fails               *)
(*   "read"       fread stops short of the end of the input                *)
(*   "mac_malloc" the allocation of hmac_data fails                        *)
(*   "mac_write"  the fwrite of the MAC is cut short                       *)
(*   "close"      the flush inside fclose(output) is cut short             *)
(*   "crash"      the process dies (a signal, abort() on a failed RNG)     *)
(*   "grow"       another process appends to the input                     *)
(* The output stream is buffered: what fwrite accepted (out) reaches the   *)
(* file (disk) at fclose, and a prefix of it on a failure or a crash.      *)
(***************************************************************************)
EXTENDS Container

CONSTANTS
  Texts,       \* possible contents of the input file
  Passwords,   \* keys the caller may pass
  Randoms,     \* values keygen_generate_iv may draw
  Faults,      \* see above
  MaxGrowth,   \* bound: bytes another process may append
  NoFile       \* content of an output path nobody has opened

AllFaults == {"open", "write", "malloc", "read", "mac_malloc", "mac_write",
              "close", "crash", "grow"}

ASSUME FaultsAssumption == Faults \subseteq AllFaults

ASSUME TextsAssumption == \A text \in Texts : text \in Seq(Byte)

ASSUME GrowthAssumption == MaxGrowth \in Nat

VARIABLES
  pc,         \* the next call of the function, "done" or "crashed"
  result,     \* its return value
  held,       \* open streams and heap blocks, and "ctx" while it holds keys
  src,        \* content of the input file
  password,   \* key, key_len
  fileSize,   \* file_size
  salt, iv,
  totalRead,  \* total_read, the position of the input stream
  chunk,      \* buffer[0 .. bytes_read)
  processed,
  pending,    \* pending_block[0 .. pending_len)
  prev,       \* the CBC chain
  enc,        \* encrypted_data[0 .. encrypted_len), as blocks
  out,        \* bytes the output stream accepted
  disk,       \* content of the output file
  unnoticed   \* history: a call whose result nobody looks at fell short

inputVars  == <<src, password, fileSize>>
headerVars == <<salt, iv>>
streamVars == <<totalRead, chunk, processed, pending>>
chainVars  == <<prev, enc>>
exitVars   == <<result, held, disk>>
vars == <<pc, inputVars, headerVars, streamVars, chainVars, out, exitVars, unnoticed>>

EncKey == DerivedKey(password, salt, "ENC")
MacKey == DerivedKey(password, salt, "MAC")

\* Mutant of Capacity: no extra block for the padding.
CapacityTight == fileSize

\* encrypted_capacity
Capacity == fileSize + BlockSize

\* size_bytes, salt, iv and encrypted_data: what hmac_data is filled with
AuthenticatedCells == SizeCells(fileSize) \o salt \o iv \o CiphertextCells(enc)

\* What is held from the loop on, and given back by the exits in it and behind it.
Resources == {"input", "output", "ctx", "encrypted_data", "buffer"}

\* Values the salt, the IV and a ciphertext block may have.
Salts == {<<>>} \cup {Cells("random", r, SaltWidth) : r \in Randoms}
Ivs   == {<<>>} \cup {Cells("random", r, BlockSize) : r \in Randoms}
Block == [key : [password : Passwords, salt : Salts, purpose : Purpose],
          iv : Ivs, plain : Seq(Byte)]

Prefixes(cells) == {SubSeq(cells, 1, n) : n \in 0 .. Len(cells)}

Init ==
  /\ pc = "open_input"
  /\ result = "none"
  /\ held = {}
  /\ src \in Texts
  /\ password \in Passwords
  /\ fileSize = 0
  /\ salt = <<>> /\ iv = <<>>
  /\ totalRead = 0 /\ chunk = <<>> /\ processed = 0 /\ pending = <<>>
  /\ prev = ChainStart(EncKey, iv)
  /\ enc = <<>>
  /\ out = <<>>
  /\ disk = NoFile
  /\ unnoticed = FALSE

-----------------------------------------------------------------------------
(* Returning *)

\* Return, having released what the exit releases.
Return(value, released) ==
  /\ pc' = "done"
  /\ result' = value
  /\ held' = held \ released

\* An error exit before the output exists.
FailEarly(released) ==
  /\ Return("-1", released)
  /\ UNCHANGED disk

\* An error exit after some of what was given to fwrite may have been flushed.
FailAfterWrites(given, released) ==
  /\ Return("-1", released)
  /\ disk' \in Prefixes(given)

\* fwrite of cells: accepted whole, or short with an error exit.
WriteOrFail(cells, next, released) ==
  \/ /\ pc' = next
     /\ out' = out \o cells
     /\ UNCHANGED exitVars
  \/ /\ "write" \in Faults
     /\ out' = out
     /\ FailAfterWrites(out \o SubSeq(cells, 1, Len(cells) - 1), released)

-----------------------------------------------------------------------------
(* Opening, header, allocations *)

OpenInput ==
  /\ pc = "open_input"
  /\ \/ /\ pc' = "measure_input"
        /\ held' = {"input"}
        /\ UNCHANGED <<result, disk>>
     \/ /\ "open" \in Faults
        /\ FailEarly({})
  /\ UNCHANGED <<inputVars, headerVars, streamVars, chainVars, out, unnoticed>>

MeasureInput ==
  /\ pc = "measure_input"
  /\ fileSize' = Len(src)
  /\ IF fileSize' > 0
     THEN pc' = "open_output" /\ UNCHANGED exitVars
     ELSE FailEarly({"input"})
  /\ UNCHANGED <<src, password, headerVars, streamVars, chainVars, out, unnoticed>>

OpenOutput ==
  /\ pc = "open_output"
  /\ \/ /\ pc' = "write_size"
        /\ held' = held \cup {"output"}
        /\ disk' = <<>>
        /\ UNCHANGED result
     \/ /\ "open" \in Faults
        /\ FailEarly({"input"})
  /\ UNCHANGED <<inputVars, headerVars, streamVars, chainVars, out, unnoticed>>

WriteSize ==
  /\ pc = "write_size"
  /\ WriteOrFail(SizeCells(fileSize), "write_salt", {"input", "output"})
  /\ UNCHANGED <<inputVars, headerVars, streamVars, chainVars, unnoticed>>

WriteSalt ==
  /\ pc = "write_salt"
  /\ \E r \in Randoms : salt' = Cells("random", r, SaltWidth)
  /\ WriteOrFail(salt', "init_ctx", {"input", "output"})
  /\ UNCHANGED <<inputVars, iv, streamVars, chainVars, unnoticed>>

\* kdf_derive refuses only null pointers and a zero length, which this caller
\* never passes: the keys are always derived.
InitCtx ==
  /\ pc = "init_ctx"
  /\ pc' = "write_iv"
  /\ held' = held \cup {"ctx"}
  /\ UNCHANGED <<inputVars, headerVars, streamVars, chainVars, out, result, disk,
                 unnoticed>>

WriteIv ==
  /\ pc = "write_iv"
  /\ \E r \in Randoms : iv' = Cells("random", r, BlockSize)
  /\ WriteOrFail(iv', "alloc_encrypted", {"ctx", "input", "output"})
  /\ UNCHANGED <<inputVars, salt, streamVars, chainVars, unnoticed>>

AllocEncrypted ==
  /\ pc = "alloc_encrypted"
  /\ \/ /\ pc' = "alloc_buffer"
        /\ held' = held \cup {"encrypted_data"}
        /\ prev' = ChainStart(EncKey, iv)
        /\ UNCHANGED <<result, disk>>
     \/ /\ "malloc" \in Faults
        /\ FailAfterWrites(out, {"ctx", "input", "output"})
        /\ UNCHANGED prev
  /\ UNCHANGED <<inputVars, headerVars, streamVars, enc, out, unnoticed>>

\* Mutant of AllocBuffer: the exit forgets encrypted_data.
AllocBufferLeaky ==
  /\ pc = "alloc_buffer"
  /\ \/ /\ pc' = "read"
        /\ held' = held \cup {"buffer"}
        /\ UNCHANGED <<result, disk>>
     \/ /\ "malloc" \in Faults
        /\ FailAfterWrites(out, {"ctx", "input", "output"})
  /\ UNCHANGED <<inputVars, headerVars, streamVars, chainVars, out, unnoticed>>

AllocBuffer ==
  /\ pc = "alloc_buffer"
  /\ \/ /\ pc' = "read"
        /\ held' = held \cup {"buffer"}
        /\ UNCHANGED <<result, disk>>
     \/ /\ "malloc" \in Faults
        /\ FailAfterWrites(out, {"ctx", "encrypted_data", "input", "output"})
  /\ UNCHANGED <<inputVars, headerVars, streamVars, chainVars, out, unnoticed>>

-----------------------------------------------------------------------------
(* The streaming loop *)

\* Mutant of ReadChunk: the loop does not stop on an empty read.
ReadChunkForever ==
  /\ pc = "read"
  /\ LET got == Smaller(StreamChunk, Len(src) - totalRead)
     IN  /\ chunk' = SubSeq(src, totalRead + 1, totalRead + got)
         /\ totalRead' = totalRead + got
  /\ processed' = 0
  /\ pc' = "top_up"
  /\ UNCHANGED <<inputVars, headerVars, pending, chainVars, out, exitVars, unnoticed>>

\* fread fills the buffer unless the input ends or, with the fault, an error
\* cuts it short; the loop condition cannot tell the two apart.
ReadChunk ==
  /\ pc = "read"
  /\ LET wanted == Smaller(StreamChunk, Len(src) - totalRead)
     IN  \E got \in 0 .. wanted :
           /\ got = wanted \/ "read" \in Faults
           /\ chunk' = SubSeq(src, totalRead + 1, totalRead + got)
           /\ totalRead' = totalRead + got
           /\ processed' = 0
           /\ unnoticed' = (unnoticed \/ got < wanted)
           /\ pc' = IF got > 0 THEN "top_up" ELSE "final"
  /\ UNCHANGED <<inputVars, headerVars, pending, chainVars, out, exitVars>>

\* Mutant of EmitBlock: the ciphertext does not become the next prev.
EmitBlockUnchained(block, next) ==
  /\ enc' = Append(enc, CbcEncryptBlock(prev, block))
  /\ prev' = prev
  /\ WriteOrFail(BlockCells(CbcEncryptBlock(prev, block)), next, Resources)

\* cipher_cbc_encrypt_block, the copy to encrypted_data and the fwrite
EmitBlock(block, next) ==
  /\ prev' = CbcEncryptBlock(prev, block)
  /\ enc' = Append(enc, prev')
  /\ WriteOrFail(BlockCells(prev'), next, Resources)

TopUpPending ==
  /\ pc = "top_up"
  /\ LET toCopy == Smaller(BlockSize - Len(pending), Len(chunk))
         filled == pending \o SubSeq(chunk, 1, toCopy)
     IN  IF pending = <<>>
         THEN /\ pc' = "blocks"
              /\ UNCHANGED <<processed, pending, chainVars, out, exitVars>>
         ELSE /\ processed' = toCopy
              /\ IF Len(filled) = BlockSize
                 THEN /\ EmitBlock(filled, "blocks")
                      /\ pending' = <<>>
                 ELSE /\ pending' = filled
                      /\ pc' = "blocks"
                      /\ UNCHANGED <<chainVars, out, exitVars>>
  /\ UNCHANGED <<inputVars, headerVars, totalRead, chunk, unnoticed>>

EncryptBlock ==
  /\ pc = "blocks"
  /\ processed + BlockSize <= Len(chunk)
  /\ EmitBlock(SubSeq(chunk, processed + 1, processed + BlockSize), "blocks")
  /\ processed' = processed + BlockSize
  /\ UNCHANGED <<inputVars, headerVars, totalRead, chunk, pending, unnoticed>>

\* Mutant of SaveLeftover: the block loop stops one block early.
SaveLeftoverEager ==
  /\ pc = "blocks"
  /\ processed + BlockSize >= Len(chunk)
  /\ pending' = IF processed < Len(chunk)
                THEN SubSeq(chunk, processed + 1, Len(chunk))
                ELSE pending
  /\ pc' = "read"
  /\ UNCHANGED <<inputVars, headerVars, totalRead, chunk, processed, chainVars, out,
                 exitVars, unnoticed>>

SaveLeftover ==
  /\ pc = "blocks"
  /\ processed + BlockSize > Len(chunk)
  /\ pending' = IF processed < Len(chunk)
                THEN SubSeq(chunk, processed + 1, Len(chunk))
                ELSE pending
  /\ pc' = "read"
  /\ UNCHANGED <<inputVars, headerVars, totalRead, chunk, processed, chainVars, out,
                 exitVars, unnoticed>>

\* Mutant of FinalBlock: no padding block after a whole number of blocks.
FinalBlockIfPending ==
  /\ pc = "final"
  /\ IF pending = <<>>
     THEN pc' = "mac" /\ UNCHANGED <<chainVars, out, exitVars>>
     ELSE EmitBlock(AddPadding(pending), "mac")
  /\ UNCHANGED <<inputVars, headerVars, streamVars, unnoticed>>

FinalBlock ==
  /\ pc = "final"
  /\ EmitBlock(AddPadding(pending), "mac")
  /\ UNCHANGED <<inputVars, headerVars, streamVars, unnoticed>>

-----------------------------------------------------------------------------
(* The MAC and the successful return *)

\* A failed allocation of hmac_data skips the MAC, on the way to return 0.
AllocMac ==
  /\ pc = "mac"
  /\ \/ /\ pc' = "write_mac"
        /\ held' = held \cup {"hmac_data"}
        /\ UNCHANGED <<result, disk, unnoticed>>
     \/ /\ "mac_malloc" \in Faults
        /\ pc' = "close"
        /\ unnoticed' = TRUE
        /\ UNCHANGED exitVars
  /\ UNCHANGED <<inputVars, headerVars, streamVars, chainVars, out>>

\* A short fwrite of the MAC goes unnoticed.  hmac_data is freed behind it.
WriteMac ==
  /\ pc = "write_mac"
  /\ pc' = "close"
  /\ held' = held \ {"hmac_data"}
  /\ LET mac == MacCells(MacKey, AuthenticatedCells)
     IN  /\ \/ out' = out \o mac
            \/ /\ "mac_write" \in Faults
               /\ \E n \in 0 .. MacWidth - 1 : out' = out \o SubSeq(mac, 1, n)
         /\ unnoticed' = (unnoticed \/ out' # out \o mac)
  /\ UNCHANGED <<inputVars, headerVars, streamVars, chainVars, result, disk>>

\* The result of fclose is not looked at.
CloseAndReturn ==
  /\ pc = "close"
  /\ Return("0", Resources)
  /\ \/ disk' = out
     \/ /\ "close" \in Faults
        /\ disk' \in Prefixes(out)
  /\ unnoticed' = (unnoticed \/ disk' # out)
  /\ UNCHANGED <<inputVars, headerVars, streamVars, chainVars, out>>

-----------------------------------------------------------------------------
(* The environment *)

Running == pc \notin {"done", "crashed"}

\* The process dies; the system reclaims its resources and the unflushed tail
\* of the output is lost.
Crash ==
  /\ "crash" \in Faults
  /\ Running
  /\ pc' = "crashed"
  /\ held' = {}
  /\ IF "output" \in held THEN disk' \in Prefixes(out) ELSE UNCHANGED disk
  /\ UNCHANGED <<inputVars, headerVars, streamVars, chainVars, out, result, unnoticed>>

\* Another process appends to the input while it is being encrypted.
Grow ==
  /\ "grow" \in Faults
  /\ "input" \in held
  /\ Len(src) < fileSize + MaxGrowth
  /\ \E b \in Byte : src' = Append(src, b)
  /\ UNCHANGED <<pc, password, fileSize, headerVars, streamVars, chainVars, out, exitVars,
                 unnoticed>>

Step ==
  \/ OpenInput \/ MeasureInput \/ OpenOutput \/ WriteSize \/ WriteSalt \/ InitCtx \/ WriteIv
  \/ AllocEncrypted \/ AllocBuffer
  \/ ReadChunk \/ TopUpPending \/ EncryptBlock \/ SaveLeftover \/ FinalBlock
  \/ AllocMac \/ WriteMac \/ CloseAndReturn

\* Nothing runs once the function has returned or the process is gone.
Ended == ~Running /\ UNCHANGED vars

Next == Step \/ Crash \/ Grow \/ Ended

\* A sequential process the system keeps scheduling.
Fairness == WF_vars(Step)

Spec == Init /\ [][Next]_vars /\ Fairness

-----------------------------------------------------------------------------
(* Properties *)

Places ==
  {"open_input", "measure_input", "open_output", "write_size", "write_salt", "init_ctx",
   "write_iv", "alloc_encrypted", "alloc_buffer", "read", "top_up", "blocks", "final",
   "mac", "write_mac", "close", "done", "crashed"}

\* The variables stay in their types; in particular the partial block carried
\* between chunks never reaches a whole block (cipher.c:139-161, 184-189).
TypeOK ==
  /\ pc \in Places
  /\ result \in {"none", "0", "-1"}
  /\ held \subseteq Resources \cup {"hmac_data"}
  /\ src \in Seq(Byte)
  /\ password \in Passwords
  /\ fileSize \in Nat
  /\ salt \in Salts /\ iv \in Ivs
  /\ totalRead \in Nat
  /\ chunk \in Seq(Byte) /\ Len(chunk) <= StreamChunk
  /\ processed \in Nat
  /\ pending \in Seq(Byte) /\ Len(pending) < BlockSize
  /\ prev \in Block
  /\ enc \in Seq(Block)
  /\ unnoticed \in BOOLEAN

\* Every memcpy into encrypted_data stays inside the encrypted_capacity bytes
\* allocated from the size ftell reported (cipher.c:102, 149, 170, 202).
CiphertextFits == BlockSize * Len(enc) <= Capacity

\* The same, unless another process has made the input longer than it was measured.
FitsUnlessGrown == Len(src) <= fileSize => CiphertextFits

\* Whatever exit the function takes, it has closed both streams, freed the three
\* buffers and wiped the key context (cipher.c:37-248).
ReleasedOnReturn == pc = "done" => held = {}

\* Returning 0 means the output file is the complete sealed form of the input,
\* as computed without streaming (cipher.h:18-25), unless a read, the MAC or the
\* flush fell short unnoticed or the input grew after it was measured.
SuccessIsSealed ==
  (result = "0" /\ ~unnoticed /\ Len(src) = fileSize) =>
    disk = Sealed(src, fileSize, password, salt, iv)

\* Returning 0 means the output file is the complete sealed form of the input
\* (cipher.h:18-28).
ZeroIsSealed ==
  result = "0" => disk = Sealed(src, fileSize, password, salt, iv)

\* Whatever a failure or a crash leaves in the output file, the decoder accepts
\* it only under the password of the encryption and only if it is the complete
\* encryption of the bytes that were read (cipher.c:216-237 against 297-371).
\* Nothing is claimed once a copy has left encrypted_data.
VerifiedIsWhole ==
  (disk # NoFile /\ CiphertextFits) =>
    \A p \in Passwords :
      Verifies(disk, p) =>
        /\ p = password
        /\ disk = Sealed(SubSeq(src, 1, totalRead), fileSize, password, salt, iv)

\* The function ends: the streaming loop consumes its input (cipher.c:134-192).
EventuallyEnds == <>(~Running)
=============================================================================
