----------------------------- MODULE DecryptFile -----------------------------
(***************************************************************************)
(* cipher_decrypt_file: the header, the verification pass over the         *)
(* ciphertext, the MAC comparison, the decryption pass that reads the      *)
(* ciphertext a second time, and the last block with its padding.          *)
(*                                                                         *)
(* Faults names what may go wrong in a run:                                *)
(*   "open", "write", "malloc"  a call the code checks fails               *)
(*   "read"    an fread before the MAC comparison stops short              *)
(*   "reread"  an fread of the decryption pass stops short                 *)
(*   "close"   the flush inside fclose(output) is cut short                *)
(*   "crash"   the process dies                                            *)
(***************************************************************************)
EXTENDS Container

CONSTANTS
  Files,       \* possible contents of the encrypted file
  Passwords,   \* keys the caller may pass
  Faults,      \* see above
  NoFile       \* content of an output path nobody has opened

AllFaults == {"open", "write", "malloc", "read", "reread", "close", "crash"}

ASSUME FaultsAssumption == Faults \subseteq AllFaults

ASSUME FilesAssumption == \A f \in Files : IsFile(f)

\* A MAC is made by who holds the key, and cipher_encrypt_file makes it over nothing
\* else (VerifiedIsWhole in EncryptFile).  The size in the header was measured before
\* the text was read: it may be more than the text, less, or less than its whole
\* blocks, when the input outgrew encrypted_data and the process went on.
ASSUME SealedAssumption ==
  \A f \in Files, p \in Passwords : Verifies(f, p) => IsSealed(f, p)

\* The decryption pass walks a chunk block by block and drops what is left over.
ASSUME ChunkAssumption == StreamChunk % BlockSize = 0

VARIABLES
  pc,         \* the next call of the function, "done" or "crashed"
  result,     \* its return value
  held,       \* open streams and heap blocks, and "ctx" while it holds keys
  file,       \* content of the encrypted file
  password,   \* key, key_len
  pos,        \* position of the input stream
  sizeBytes,  \* size_bytes
  salt, iv,
  storedMac,  \* stored_mac
  hmacData,   \* the part of hmac_data filled so far
  remaining,
  prev,       \* the ciphertext block before the next one
  out,        \* bytes the output stream accepted; its length is total_written
  disk,       \* content of the output file
  unnoticed   \* history: a read or a flush whose outcome nobody looks at fell short

inputVars  == <<file, password>>
headerVars == <<sizeBytes, salt, iv, storedMac>>
verifyVars == <<hmacData>>
exitVars   == <<result, held, disk>>
vars ==
  <<pc, inputVars, headerVars, verifyVars, pos, remaining, prev, out, exitVars, unnoticed>>

EncKey == DerivedKey(password, salt, "ENC")
MacKey == DerivedKey(password, salt, "MAC")

OriginalSize  == SizeOf(sizeBytes)
EncryptedSize == Len(file) - HeaderWidth - MacWidth

Resources == {"input", "output", "ctx", "chunk_buf", "hmac_data"}

Prefixes(cells) == {SubSeq(cells, 1, n) : n \in 0 .. Len(cells)}

AllButLast(cells) == SubSeq(cells, 1, Len(cells) - 1)

\* The state of a process about to call the function on a file.
Ready ==
  /\ pc = "open_input"
  /\ result = "none"
  /\ held = {}
  /\ pos = 0
  /\ sizeBytes = <<>> /\ salt = <<>> /\ iv = <<>> /\ storedMac = <<>>
  /\ hmacData = <<>>
  /\ remaining = 0
  /\ prev = ChainStart(EncKey, <<>>)
  /\ out = <<>>
  /\ disk = NoFile
  /\ unnoticed = FALSE

Init ==
  /\ file \in Files
  /\ password \in Passwords
  /\ Ready

-----------------------------------------------------------------------------
(* Reading and returning *)

\* What fread may return for a request: all that is there, or less on an error.
Fread(wanted, error) ==
  LET there == Smaller(wanted, Len(file) - pos)
  IN  {SubSeq(file, pos + 1, pos + got) :
         got \in IF error \in Faults THEN 0 .. there ELSE {there}}

Return(value, released) ==
  /\ pc' = "done"
  /\ result' = value
  /\ held' = held \ released

\* Every error exit: one return code, whatever went wrong.  Once the output is
\* open, some of what was given to fwrite may have been flushed.
Fail(given, released) ==
  /\ Return("-1", released)
  /\ IF "output" \in held THEN disk' \in Prefixes(given) ELSE UNCHANGED disk

Continue(next) == pc' = next /\ UNCHANGED exitVars

-----------------------------------------------------------------------------
(* Header *)

OpenInput ==
  /\ pc = "open_input"
  /\ \/ /\ pc' = "read_size"
        /\ held' = {"input"}
        /\ UNCHANGED <<result, disk>>
     \/ /\ "open" \in Faults
        /\ Fail(out, {})
  /\ UNCHANGED <<inputVars, unnoticed, headerVars, verifyVars, pos, remaining, prev, out>>

ReadSize ==
  /\ pc = "read_size"
  /\ \E got \in Fread(SizeWidth, "read") :
       /\ sizeBytes' = got
       /\ pos' = pos + Len(got)
       /\ IF Len(got) = SizeWidth THEN Continue("read_salt") ELSE Fail(out, {"input"})
  /\ UNCHANGED <<inputVars, unnoticed, salt, iv, storedMac, verifyVars, remaining, prev,
                 out>>

\* The salt, and the keys derived from it: kdf_derive cannot fail on it.
ReadSalt ==
  /\ pc = "read_salt"
  /\ \E got \in Fread(SaltWidth, "read") :
       /\ salt' = got
       /\ pos' = pos + Len(got)
       /\ IF Len(got) = SaltWidth
          THEN /\ pc' = "read_iv"
               /\ held' = held \cup {"ctx"}
               /\ UNCHANGED <<result, disk>>
          ELSE Fail(out, {"input"})
  /\ UNCHANGED <<inputVars, unnoticed, sizeBytes, iv, storedMac, verifyVars, remaining, prev,
                 out>>

\* Mutant of ReadIv: the exit does not wipe the keys.
ReadIvLeaky ==
  /\ pc = "read_iv"
  /\ \E got \in Fread(BlockSize, "read") :
       /\ iv' = got
       /\ pos' = pos + Len(got)
       /\ IF Len(got) = BlockSize THEN Continue("measure") ELSE Fail(out, {"input"})
  /\ UNCHANGED <<inputVars, unnoticed, sizeBytes, salt, storedMac, verifyVars, remaining, prev,
                 out>>

ReadIv ==
  /\ pc = "read_iv"
  /\ \E got \in Fread(BlockSize, "read") :
       /\ iv' = got
       /\ pos' = pos + Len(got)
       /\ IF Len(got) = BlockSize THEN Continue("measure") ELSE Fail(out, {"ctx", "input"})
  /\ UNCHANGED <<inputVars, unnoticed, sizeBytes, salt, storedMac, verifyVars, remaining, prev,
                 out>>

\* Mutant of Measure: the length is not checked.
MeasureUnchecked ==
  /\ pc = "measure"
  /\ pos' = Len(file)
  /\ Continue("read_mac")
  /\ UNCHANGED <<inputVars, unnoticed, headerVars, verifyVars, remaining, prev, out>>

Measure ==
  /\ pc = "measure"
  /\ pos' = Len(file)
  /\ IF EncryptedSize > 0 /\ EncryptedSize % BlockSize = 0
     THEN Continue("read_mac")
     ELSE Fail(out, {"ctx", "input"})
  /\ UNCHANGED <<inputVars, unnoticed, headerVars, verifyVars, remaining, prev, out>>

\* The MAC is read from the end of the file, then the stream goes back to the
\* ciphertext.
ReadMac ==
  /\ pc = "read_mac"
  /\ \/ /\ storedMac' = SubSeq(file, Len(file) - MacWidth + 1, Len(file))
        /\ pos' = HeaderWidth
        /\ Continue("alloc_chunk")
     \/ /\ "read" \in Faults
        /\ Fail(out, {"ctx", "input"})
        /\ UNCHANGED <<storedMac, pos>>
  /\ UNCHANGED <<inputVars, unnoticed, sizeBytes, salt, iv, verifyVars, remaining, prev,
                 out>>

AllocChunk ==
  /\ pc = "alloc_chunk"
  /\ \/ /\ pc' = "alloc_hmac"
        /\ held' = held \cup {"chunk_buf"}
        /\ UNCHANGED <<result, disk>>
     \/ /\ "malloc" \in Faults
        /\ Fail(out, {"ctx", "input"})
  /\ UNCHANGED <<inputVars, unnoticed, headerVars, verifyVars, pos, remaining, prev, out>>

-----------------------------------------------------------------------------
(* Verification *)

AllocHmacData ==
  /\ pc = "alloc_hmac"
  /\ \/ /\ hmacData' = sizeBytes \o salt \o iv
        /\ remaining' = EncryptedSize
        /\ pc' = "verify_read"
        /\ held' = held \cup {"hmac_data"}
        /\ UNCHANGED <<result, disk>>
     \/ /\ "malloc" \in Faults
        /\ Fail(out, {"ctx", "chunk_buf", "input"})
        /\ UNCHANGED <<hmacData, remaining>>
  /\ UNCHANGED <<inputVars, unnoticed, headerVars, pos, prev, out>>

VerifyRead ==
  /\ pc = "verify_read"
  /\ \/ /\ remaining = 0
        /\ pc' = "check_mac"
        /\ UNCHANGED <<hmacData, pos, remaining>>
     \/ /\ remaining > 0
        /\ \E got \in Fread(Smaller(remaining, StreamChunk), "read") :
             /\ hmacData' = hmacData \o got
             /\ pos' = pos + Len(got)
             /\ remaining' = remaining - Len(got)
             /\ pc' = IF got = <<>> THEN "check_mac" ELSE "verify_read"
  /\ UNCHANGED <<inputVars, unnoticed, headerVars, prev, out, exitVars>>

\* hmac_compute over the whole buffer: after an early end of the reads its tail
\* is what malloc left there.  hmac_data is freed before the comparison.
HashedData ==
  hmacData \o Cells("uninitialized", 0, HeaderWidth + EncryptedSize - Len(hmacData))

\* Mutant of CheckMac: the comparison is dropped.
CheckMacSkipped ==
  /\ pc = "check_mac"
  /\ pc' = "open_output"
  /\ held' = held \ {"hmac_data"}
  /\ UNCHANGED <<inputVars, unnoticed, headerVars, verifyVars, pos, remaining, prev, out,
                 result, disk>>

CheckMac ==
  /\ pc = "check_mac"
  /\ IF MacCells(MacKey, HashedData) = storedMac
     THEN /\ pc' = "open_output"
          /\ held' = held \ {"hmac_data"}
          /\ UNCHANGED <<result, disk>>
     ELSE Fail(out, {"hmac_data", "ctx", "chunk_buf", "input"})
  /\ UNCHANGED <<inputVars, unnoticed, headerVars, verifyVars, pos, remaining, prev, out>>

-----------------------------------------------------------------------------
(* Decryption *)

\* Mutant of OpenOutput: the last block is not kept back.
OpenOutputWhole ==
  /\ pc = "open_output"
  /\ \/ /\ pc' = "decrypt"
        /\ held' = held \cup {"output"}
        /\ disk' = <<>>
        /\ prev' = ChainStart(EncKey, iv)
        /\ pos' = HeaderWidth
        /\ remaining' = EncryptedSize
        /\ UNCHANGED result
     \/ /\ "open" \in Faults
        /\ Fail(out, {"ctx", "chunk_buf", "input"})
        /\ UNCHANGED <<prev, pos, remaining>>
  /\ UNCHANGED <<inputVars, unnoticed, headerVars, verifyVars, out>>

OpenOutput ==
  /\ pc = "open_output"
  /\ \/ /\ pc' = "decrypt"
        /\ held' = held \cup {"output"}
        /\ disk' = <<>>
        /\ prev' = ChainStart(EncKey, iv)
        /\ pos' = HeaderWidth
        /\ remaining' = EncryptedSize - BlockSize
        /\ UNCHANGED result
     \/ /\ "open" \in Faults
        /\ Fail(out, {"ctx", "chunk_buf", "input"})
        /\ UNCHANGED <<prev, pos, remaining>>
  /\ UNCHANGED <<inputVars, unnoticed, headerVars, verifyVars, out>>

\* The i-th block of a chunk, and what decrypting it in its place gives.
\* A group of cells that straddles two blocks decrypts to junk.
BlockAt(cells, i) == SubSeq(cells, (i - 1) * BlockSize + 1, i * BlockSize)

NoKey == DerivedKey(NoFile, <<>>, "none")

ChainAfter(cells, i) ==
  LET group == BlockAt(cells, i)
  IN  IF i = 0 THEN prev
      ELSE IF IsBlock(group) THEN group[1][2] ELSE ChainStart(NoKey, group)

\* Mutant of PlainAt: prev is not advanced within a chunk.
PlainAtUnchained(cells, i) == CbcDecryptBlock(EncKey, prev, ChainAfter(cells, i))

PlainAt(cells, i) == CbcDecryptBlock(EncKey, ChainAfter(cells, i - 1), ChainAfter(cells, i))

PlainOf(cells) ==
  [j \in 1 .. (BlockSize * (Len(cells) \div BlockSize)) |->
     PlainAt(cells, ((j - 1) \div BlockSize) + 1)[((j - 1) % BlockSize) + 1]]

DecryptChunk ==
  /\ pc = "decrypt"
  /\ remaining > 0
  /\ \E got \in Fread(Smaller(remaining, StreamChunk), "reread") :
       /\ pos' = pos + Len(got)
       /\ unnoticed' = (unnoticed \/ Len(got) < Smaller(remaining, StreamChunk))
       /\ IF got = <<>>
          THEN /\ Continue("last_block")
               /\ UNCHANGED <<remaining, prev, out>>
          ELSE /\ prev' = ChainAfter(got, Len(got) \div BlockSize)
               /\ \/ /\ out' = out \o PlainOf(got)
                     /\ remaining' = remaining - Len(got)
                     /\ Continue("decrypt")
                  \/ /\ "write" \in Faults
                     /\ Len(got) >= BlockSize
                     /\ UNCHANGED <<out, remaining>>
                     /\ Fail(AllButLast(out \o PlainOf(got)),
                             {"ctx", "chunk_buf", "input", "output"})
  /\ UNCHANGED <<inputVars, headerVars, verifyVars>>

\* Mutant of DecryptEnd: the loop's condition is remaining >= 0, and the empty
\* reads that follow do not break it.
DecryptEndSpinning ==
  /\ pc = "decrypt"
  /\ remaining = 0
  /\ Continue("decrypt")
  /\ UNCHANGED <<inputVars, unnoticed, headerVars, verifyVars, pos, remaining, prev, out>>

DecryptEnd ==
  /\ pc = "decrypt"
  /\ remaining = 0
  /\ Continue("last_block")
  /\ UNCHANGED <<inputVars, unnoticed, headerVars, verifyVars, pos, remaining, prev, out>>

\* Mutant of Clamp: the declared size is ignored.
Unclamped(length) == length

\* original_size - total_written in size_t arithmetic: below zero it wraps to a
\* number no unpadded length exceeds.
Clamp(length) ==
  IF OriginalSize >= Len(out) THEN Smaller(length, OriginalSize - Len(out)) ELSE length

WriteLast(plain) ==
  LET written == SubSeq(plain, 1, Clamp(Len(plain)))
  IN  \/ /\ out' = out \o written
         /\ Continue("close")
      \/ /\ "write" \in Faults
         /\ written # <<>>
         /\ out' = out
         /\ Fail(AllButLast(out \o written), {"ctx", "chunk_buf", "input", "output"})

\* Without a whole block to read there is nothing to unpad: the function goes on.
NoLastBlock == Continue("close") /\ UNCHANGED <<prev, out>>

\* Junk may or may not end in valid padding.
LastBlock ==
  /\ pc = "last_block"
  /\ \E got \in Fread(BlockSize, "reread") :
       /\ pos' = pos + Len(got)
       /\ unnoticed' = (unnoticed \/ Len(got) < BlockSize)
       /\ IF Len(got) < BlockSize
          THEN NoLastBlock
          ELSE LET plain == PlainOf(got)
               IN  /\ prev' = ChainAfter(got, 1)
                   /\ \/ /\ plain # Junk
                         /\ PaddingIsValid(plain)
                         /\ WriteLast(RemovePadding(plain))
                      \/ /\ plain = Junk
                         /\ \E n \in 0 .. BlockSize - 1 : WriteLast(SubSeq(Junk, 1, n))
                      \/ /\ plain = Junk \/ ~PaddingIsValid(plain)
                         /\ out' = out
                         /\ Fail(out, {"ctx", "chunk_buf", "input", "output"})
  /\ UNCHANGED <<inputVars, headerVars, verifyVars, remaining>>

\* The result of fclose is not looked at.
CloseAndReturn ==
  /\ pc = "close"
  /\ Return("0", {"ctx", "chunk_buf", "input", "output"})
  /\ \/ disk' = out
     \/ /\ "close" \in Faults
        /\ disk' \in Prefixes(out)
  /\ unnoticed' = (unnoticed \/ disk' # out)
  /\ UNCHANGED <<inputVars, headerVars, verifyVars, pos, remaining, prev, out>>

-----------------------------------------------------------------------------
(* The process *)

Running == pc \notin {"done", "crashed"}

Crash ==
  /\ "crash" \in Faults
  /\ Running
  /\ pc' = "crashed"
  /\ held' = {}
  /\ IF "output" \in held THEN disk' \in Prefixes(out) ELSE UNCHANGED disk
  /\ UNCHANGED <<inputVars, unnoticed, headerVars, verifyVars, pos, remaining, prev, out,
                 result>>

Step ==
  \/ OpenInput \/ ReadSize \/ ReadSalt \/ ReadIv \/ Measure \/ ReadMac \/ AllocChunk
  \/ AllocHmacData \/ VerifyRead \/ CheckMac
  \/ OpenOutput \/ DecryptChunk \/ DecryptEnd \/ LastBlock \/ CloseAndReturn

Ended == ~Running /\ UNCHANGED vars

Next == Step \/ Crash \/ Ended

\* A sequential process the system keeps scheduling.
Fairness == WF_vars(Step)

Spec == Init /\ [][Next]_vars /\ Fairness

-----------------------------------------------------------------------------
(* Properties *)

Places ==
  {"open_input", "read_size", "read_salt", "read_iv", "measure", "read_mac",
   "alloc_chunk", "alloc_hmac", "verify_read", "check_mac", "open_output", "decrypt",
   "last_block", "close", "done", "crashed"}

\* The variables stay in their types; in particular hmac_data is never filled
\* past its allocation (cipher.c:329-354) and neither loop counter goes below
\* zero (cipher.c:353, 418).
TypeOK ==
  /\ pc \in Places
  /\ result \in {"none", "0", "-1"}
  /\ held \subseteq Resources
  /\ password \in Passwords
  /\ pos \in 0 .. Len(file)
  /\ Len(sizeBytes) <= SizeWidth
  /\ Len(salt) <= SaltWidth
  /\ Len(iv) <= BlockSize
  /\ Len(storedMac) \in {0, MacWidth}
  /\ hmacData # <<>> => Len(hmacData) <= HeaderWidth + EncryptedSize
  /\ remaining \in Nat
  /\ Len(out) \in Nat
  /\ unnoticed \in BOOLEAN

SealedText == TextUnder(file)

\* What the sealed text has of whole blocks: they are written without a look at the
\* declared size.
WholeBlocks == BlockSize * (Len(SealedText) \div BlockSize)

\* The output path is touched only for a file whose MAC verifies under the
\* password, whatever fails on the way (cipher.c:364-374, readme.md:62).
NoOutputBeforeVerify == disk # NoFile => Verifies(file, password)

\* Returning 0 means the output is the sealed text, up to the size the header
\* declares, although the ciphertext is read a second time, chunk by chunk, unless
\* a read or a flush nobody looks at fell short (cipher.c:389-454).  A size below the
\* whole blocks of the text bounds nothing: the whole text is written then.
SuccessIsPlaintext ==
  (result = "0" /\ ~unnoticed) =>
    /\ Verifies(file, password)
    /\ disk = SubSeq(SealedText, 1, IF OriginalSize < WholeBlocks
                                    THEN Len(SealedText)
                                    ELSE Smaller(OriginalSize, Len(SealedText)))

\* A failure or a crash after the verification leaves a prefix of the sealed text
\* behind, never other bytes, unless such a read fell short (cipher.c:397-453).
OutputIsPrefix == (disk # NoFile /\ ~unnoticed) => disk \in Prefixes(SealedText)

\* original_size - total_written wraps when the last block is clamped, short reads or
\* not, only under a declared size that the whole blocks of the text exceed.  It does
\* wrap then, when no read has fallen short: the clamp does not "prevent any
\* possibility of writing beyond expected length" (cipher.c:441-443).
WrapsIfUnderdeclared ==
  pc = "last_block" =>
    /\ Len(out) > OriginalSize => OriginalSize < WholeBlocks
    /\ (OriginalSize < WholeBlocks /\ ~unnoticed) => Len(out) > OriginalSize

\* Whatever exit the function takes, it has closed both streams, freed both
\* buffers and wiped the key context (cipher.c:265-465).
ReleasedOnReturn == pc = "done" => held = {}

\* Both read loops end, short reads included (cipher.c:347-354, 397-420).
EventuallyEnds == <>(~Running)
=============================================================================
