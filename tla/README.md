# A TLA+ model of Apex Obfuscator

Apex Obfuscator is a C command-line program that encrypts a file (`encode`), decrypts
it (`decode`) and deletes it beyond recovery (`shred`). This directory holds TLA+
specifications of the parts of it whose correctness depends on order, failure and
state, the TLC configurations that check them on small instances, and TLAPS proofs of
their main safety properties for every value of the constants. Paths such as
`cipher.c:134` are lines of the repository (`source/core/`, `source/shred/`,
`source/cli/`).

## 1. Inventory

The program is sequential: one process runs one command and ends. What makes it hard is
its environment. Every library call can fail, at a point where some resources are held
and some output is written. The process can die (a signal, `abort()` when the random
numbers fail), the machine can lose what it caches, and other processes, other commands
of this program among them, can touch the files in between. A command is also one step
of a longer sequence of commands, which meets what earlier ones left behind.

| Part | State | Operations | Talks to | What must be right |
|---|---|---|---|---|
| File encryption (`cipher.c:30-249`, `cipher_ops.c`) | streams, key context, header, chunk, partial block, CBC chain, `encrypted_data` | `cipher_encrypt_file` | kdf, keygen, hmac, AES, stdio | the stream of chunks becomes exactly the format; no buffer is overrun; every exit releases everything; a partial file is never taken for a whole one |
| File decryption (`cipher.c:255-468`) | streams, key context, header, `hmac_data`, chain, `remaining` | `cipher_decrypt_file` | as above | nothing is written before the MAC verifies; only the sealed text is written; every exit releases everything |
| Container format (`cipher.c:20-28`) | the file itself | written by encode, read by decode | both of the above | what encode seals decode opens, with the key only, across crashes and retries |
| Secure deletion (`shred.c`) | stream, pass, chunk; system cache; medium | `shred_file` | stdio, fsync, keygen | every pass reaches the medium, in order, before anything is given up |
| SHA-256 context (`hash.c`) | buffer, state, count | `hash_init`, `hash_update`, `hash_final` | hmac | the digest does not depend on how the message is cut or on earlier uses |
| HMAC, PBKDF2 (`hmac.c`, `kdf.c`, `cipher_ops.c:40-78`) | key block, one reused context; `u`, `block` | `hmac_compute`, `kdf_derive`, `cipher_ctx_init_encrypt` | hash | RFC 2104 and RFC 2898, with input and output in one buffer (`kdf.c:60`) |
| Key expansion, AES, CBC (`keygen.c:24-165`, `round_ops.c`, `encrypt_decrypt.c`, `sbox.c`, `cipher_ops.c:93-134`) | static tables, words, round keys, block, chain | `sbox_init`, `keygen_expand`, `encrypt_block`, `decrypt_block` | cipher | AES-256 as published; decryption takes back every step, in a process that begins with empty tables |
| Random numbers (`keygen.c:51-93, 169-184`) | bytes read so far | `secure_random` | the system | every byte is filled, or the process aborts |
| Keys (`args.c:32-97, 200-212`, `utils.c`, `crypto_context.c`) | key bytes, default key, what is displayed | parsing, generation, display | the user, random numbers | what is typed or shown names one key for encode and decode |
| Commands (`args.c`, `main.c`) | names, open files | `encode`, `decode`, `shred` | everything above | output names, exit codes; files changed between check and use, or by another command |
| Zeroization (`cipher_ops.c:15-18, 185-189`) | buffers with secrets | `cipher_secure_zero`, `cipher_ctx_cleanup` | cipher | no secret outlives its use |

The hard behaviours are listed one by one, with their lines and the properties that
cover them, under `hazards` in PROJECT.json.

## 2. Modules

| Module | What it is |
|---|---|
| `Container` | the file format and the symbolic cryptography, as operators |
| `EncryptFile` | `cipher_encrypt_file` with the C library and the system as environment |
| `DecryptFile` | `cipher_decrypt_file`, likewise |
| `SealedBox` | abstract: what `encode` and `decode` promise together |
| `RoundTrip` | one `EncryptFile`, then several `DecryptFile` over what it left; implements `SealedBox` |
| `ShredFile` | `shred_file` with stream buffer, system cache and medium |
| `HashStream` | the life of a `HASH_CTX` |
| `Hmac` | `hmac_compute` over one `HashStream` |
| `Kdf` | `cipher_ctx_init_encrypt` and `kdf_derive` over `Hmac`; also one MAC, and a bare `HASH_CTX` |
| `BlockCipher`, `Sbox` | the AES of the program with its key schedule, tables and CBC chain; the table of `sbox.c` |
| `KeySession` | random bytes, the key arguments and the key that is shown, over one encode and one decode |
| `Workspace` | commands as processes over one directory of shared names |
| `MC*` | small instances for TLC |
| `EncryptFile_proofs`, `DecryptFile_proofs` | theorems; each begins with the lemmas about the format that it needs: divisions, slices, chains, where a MAC can be |
| `RoundTrip_proofs`, `ShredFile_proofs`, `Kdf_proofs`, `BlockCipher_proofs`, `KeySession_proofs`, `Workspace_proofs` | theorems |

Two levels of detail meet in `Container`: `EncryptFile`, `DecryptFile` and `RoundTrip`
take the cryptography as symbolic, and `Kdf` and `BlockCipher` show of the code below
it what that needs: that the same password and salt give the same keys, and that
decryption inverts encryption. That HMAC and PBKDF2 are injective and AES a good
permutation is cryptography, not a property of this code.

**Container.** A plaintext is a sequence of bytes. A cell of an encrypted file is
`<<kind, value, index>>`, the index-th byte of a size, salt, IV, ciphertext block or
MAC, so a file can be cut, or a byte changed, anywhere. AES is a permutation under its
key, HMAC and PBKDF2 are injective. A CBC ciphertext block is then exactly what it
depends on: key, IV and the plaintext of the chain so far. Decrypting a block out of
place or under another key gives `Junk`, of which the code can observe only whether it
happens to end in valid padding; `DecryptFile` tries both outcomes. A password stands
for a class of keys with the same HMAC key block (short keys are filled with zero
bytes, `hmac.c:41-47`). `Sealed` and `Verifies` say what a whole file is without any
streaming, and are the reference the machines are compared with.

**EncryptFile / DecryptFile.** One action per library call, allocation or turn of a
loop, in the order of the code, each with the error exit it has there. `held` is the set
of resources (streams, buffers, and the key context until `cipher_ctx_cleanup`); an
error exit subtracts what that exit gives back, so a forgotten `free` leaves something
in `held`. `out` is what `fwrite` has accepted, `disk` the content of the file: they
become equal at `fclose`; a failure or a crash leaves any prefix. Opening the input and
measuring it are two steps, and so are the allocation of `hmac_data` and the write of
the MAC, since an exit or a release lies between them. The constant `Faults` names what
may go wrong. Calls the code checks (`open`, `write`, `malloc`, `read` of the header)
lead to an error exit; those it does not (`close`, `mac_malloc`, `mac_write`, a `read`
in the encryption loop, `reread` in the second pass of decryption) lead on. The history
variable `unnoticed` records such an outcome: what is promised on a return of 0
(`SuccessIsSealed`, `SuccessIsPlaintext`) is promised as long as it is FALSE, under
every other fault. A short read of the second pass (`cipher.c:400, 425`) and a failed
flush at the end (`cipher.c:465`) leave a shortened output under a return of 0, where
`cipher.h:43` announces -1 for an I/O error. The size in the header only bounds the last
write (`cipher.c:443`): a text that is shorter than declared, because the input shrank
while it was encoded, decrypts with 0, too. And where the declared size is less than the
whole blocks of the text, `original_size - total_written` wraps (442) and bounds
nothing: the whole text is written, although the comment at `cipher.c:441` has the clamp
"prevent any possibility of writing beyond expected length". `WrapsIfUnderdeclared` says
that this happens exactly then. Such a file is one that a growing input makes, when the
overrun of `encrypted_data` (`EncryptGrow`) does not end the process. The tail of
`hmac_data` after an early end of the first pass is uninitialized memory, a value of its
own that no MAC covers.

**RoundTrip.** The two machines by `INSTANCE`, with the file of the first as the input
of the second. `StartDecode` begins a new decoding, with any key, when none is running.
The box of SealedBox is open while the encoding runs, then sealed if the decoder would
accept the file under the key of the encoding, and useless otherwise. Each step of the
code is a step of SealedBox or a stutter.

**ShredFile.** A cell holds the number of the last pass that reached it. There are
three copies: what `fwrite` took (`accepted`, `flushed`), the system's `cache`, and the
`media`. The system writes cached cells back at any time, and `fsync` all of them.
`unsynced` records an `fsync` that failed. Cells are overwritten in place;
copy-on-write file systems and remapping drives are outside the model as they are
outside the code. The pattern values are abstracted to the number of the pass (the
comment at `shred.c:36` calls 0x49 the complement of 0x92, which is 0x6D; nothing
depends on it).

**HashStream.** The compression function is symbolic: the state is the sequence of
blocks compressed. `Garbage` marks bytes of the buffer nobody has written.
`PaddedBlocks` is the definition of FIPS 180-4. `AnyCall` is what a caller may do;
`Hmac` replaces it by what `hmac_compute` does.

**Hmac / Kdf.** The message and the digest of `hmac_compute` are places in the caller's
`memory`, which may be one place, as in `kdf.c:60`; each call of hash.c is an action,
and so is each turn of the loop in `hash_update`. `HmacOf` and `Pbkdf2` are the
definitions of the RFCs, on values. The history variable `argument` is the message as
it was when the call began.

**BlockCipher.** A byte is the set of the positions of its one bits: `^` is the
symmetric difference and multiplication by x shifts the positions. An action is one
round operation, one word of the key schedule, one block of the chain. The history
variables `trail` and `made` keep what encryption has computed. The GF tables
(`round_ops.c:38-50`) are filled by every reader before it reads and are operators
here; `INV_SBOX` is state, because its readers rely on a call elsewhere. `decode` runs
in a process of its own, with tables and schedule empty again.

**KeySession.** Characters are codes, and the notation has `Base` digits where the
program has sixteen, so that TLC can try all texts. `getrandom` gives all, some or none
of the bytes; `/dev/urandom` adds them in pieces of any length, or ends the program.
`hex_to_bytes` (`args.c:43-51`) never compares the digits it is given with the 64 bytes
of `key` (155, 201): with more of them the process comes to the place `overrun`, where
what it does next is undefined and the model ends. `TypeOK` and `KeyReopens` say that no
other argument leads there, and that decode does not go there where encode has not.
`Decode` is the user, who types what was typed before, or what `encode` has shown.

**Workspace.** A process has a program counter, the files it has open and what it has
read. `dir` binds names to files and `file` holds their cells, so that a file lives on
under an open stream after its name is gone or bound to another. Every command looks its
name up more than once (`Check`, `Open`, `Truncate`, `Unlink`), and reads and writes one
cell per step; streams hold their output back until they have more than `StreamRoom`
cells. A sealed cell says which run, key and place it comes from. `touched` is a history
variable: the processes to one of whose open files another hand has written. A name is a
sequence of parts; `Kept` is what `strncpy` leaves of it (`args.c:111-113`), and `Stems`
what a name has before its extension, as it was typed and as it was cut. Calls do not
fail here, but any process can be killed at any step. A growing input overruns
`encrypted_data` (`cipher.c:102`), after which the process may die or go on: the first
is the `died` alternative of `SealBlock`.

## 3. Runs

| Run | Result | What it shows |
|---|---|---|
| `EncryptAnyFault` | passes | With every fault: every exit releases everything; nothing is copied past `encrypted_data` unless another process has appended to the input; 0 means the complete sealed form unless a call nobody looks at fell short; a file the decoder accepts is whole and under the right key; the function ends |
| `DecryptAnyFault` | passes | With every fault over damaged and foreign files: no output before the MAC verifies; only the sealed text or its beginning is written (until an unchecked call falls short); the clamp of the last block wraps exactly under a declared size below the whole blocks of the text; every exit releases everything; the loops end |
| `RoundTripAnyFault` | passes | RoundTrip implements SealedBox; after a successful encoding a decoding under its key that nothing disturbs ends with 0 and the whole text, also after one that failed or died (the unchecked calls that can fall short are left out here: SealedBox does not hold with them) |
| `ShredAnyFault` | passes | Until an fsync fails nothing is given up before the medium holds the last pass and no cell skips a pass; the deletion ends |
| `KdfChecked` | passes | The digest is that of the message for every way of cutting it, over contexts used again; `hmac_compute` and both keys of a context are what the RFCs define; all calls return |
| `BlockCipherChecked` | passes | The published examples come out, decryption meets every intermediate block again and ends with the text |
| `KeySessionChecked` | passes | Only digits for more bytes than the array has room for leave it; otherwise typed and shown keys name one key; random bytes are whole or the program aborts; every command ends |
| `WorkspaceChecked` | passes | Two or three commands at once: a file that verifies is one run's, disturbance stays within a stem (as typed or as cut), what is undisturbed is delivered or wiped, every command ends |
| `EncryptUnnoticed` | violation | a read error ends the loop like the end of the file and 0 is returned (`cipher.c:134`); likewise a failed `malloc` for the MAC (222), a short write of it (232), a failed flush (247) |
| `EncryptGrow` | violation | an input that grows outgrows the allocation (`cipher.c:102`) |
| `ShredSyncLost` | violation | a failed `fsync` is not noticed: the file is unlinked with its content on the medium (`shred.c:89`) |
| `EncodeOwnInput` | violation | `encode x.enc` replaces its own input by the sealed form of an empty text and returns 0 (`args.c:127`, `cipher.c:45`) |

What `EncryptUnnoticed` leaves on disk is never taken for something else: by
`VerifiedIsWhole`, checked under the same faults, the decoder refuses it or gets back
exactly what was read.

**Bounds.** A block has 2 bytes, the size field two digits of base 3, the salt 2, the
MAC 4. A chunk has 4 bytes, two blocks, except in `EncryptAnyFault`: 5 bytes there, so
that a full chunk leaves a partial block to the next although no read is short; with the
64 KB of the code only a short read does. Texts go up to 7 bytes (8 in
`EncryptAnyFault`, 5 in `RoundTripAnyFault`, 3 where a violation is shown): they end in
every phase of a block, within and behind a full chunk. Bytes include the values that
look like padding; files for `DecryptFile` vary only the last block and a byte, because
CBC tells the rest apart. The files are: everything encryption can leave (with every
declared size from one to more than the longest text, so also those below the whole
blocks of a text), every prefix of a whole file, every single-cell change, every
rearrangement of blocks, extensions, and foreign files of every length up to two blocks
more than the minimum. Two passwords. `MaxGrowth` is 1 in `EncryptAnyFault`, where
growth is one of many faults and every cut of the reads counts, and 3 in `EncryptGrow`,
which lets an input outgrow the spare block; `MaxAttempts` (2) decodings follow an
encoding. Shredding runs all seven passes over 0 to 4 cells in chunks of 2 (less than a
chunk, a chunk, a part more, two). Hashing uses a block of 4 with a length field of 2,
pieces up to 5 bytes, messages up to 9: they end before, at and after the length field
of the first, second and third block. `MaxUses` (2) lets one use follow another.

`Kdf` keeps the proportion of a block (4) to a digest (2): keys are empty, shorter than
a block, a block, longer; derived keys are shorter than a digest, one, one and a half,
two, two and a half; three iterations make one that is first, one in between and one
that is last; the digest is a checksum in which every byte and its position count.
`BlockCipher` runs at full size, on the examples of FIPS 197 (C.3) and SP 800-38A
(F.2.5), a key of 40 bytes, one of 5 and one of zeros over three equal blocks.
`KeySession` has three digits (one with a capital), one other character, a key room of 2
and all texts up to 6 characters: digits that fill the room and digits for one byte
more, odd numbers of digits, and texts on both sides of the cut. `KeyRoom` stands for
the 64 bytes of `args.c:155` and `args.c:201`.

`Workspace` runs every two of twelve commands, encode, decode and shred over `a.t`,
`a.enc` and `a.dec`, with and without a key, encode of `d.e/x` and `d.e/y` in a
directory with a dot in its name, and encode of a file `d.t` beside it, once over a
directory with nothing encoded and once with two sealed files, one of them under the
name of an output of decode; and one scene of three, two deletions of the file an
encoding is about to make. Texts have one or two blocks that fill whole cells, so that
the padding is a cell of its own and the cut of the last block does not show
(DecryptFile is about that). Two passes of seven show that each begins at the start.
`NameRoom` (4 parts for 1019 characters) cuts `d.e/x` and `d.e/y`, of five parts, to the
same four, so that their outputs clash, as those of two long names do. A stream holds
back more than the header (`StreamRoom` of 1; a C library holds back 4096 bytes): with
none, an encode of its own output could read the header it had just written, and so on
for ever, which no buffer of the size of a header allows.

**Fairness.** Weak fairness of the program's own steps: a sequential process that the
system keeps scheduling. Nothing is assumed of the environment: write-back, growth,
crashes, kills and power losses may happen or not, and the user of KeySession need not
decode. In HashStream only the steps inside `hash_update` are fair, as a caller need
not call again; in Kdf those of the calls under way. In RoundTrip `StartDecode` is fair
for the leads-to property to speak of retries; `RightKeyDelivers` needs only that a
decoding once started runs on. In Workspace fairness is weak fairness of the union of
all steps: some process goes on as long as one can. This is less than fairness for
each, and enough, as every process ends by itself. Deadlock is checked in every run:
the machines end in an explicit stuttering step.

## 4. Proofs

All are checked by TLAPS for every value of the constants that meets the named
assumptions of the modules, which TLC evaluates in the runs:

- `SizesAssumption`, `ByteAssumption`, `ChunkAssumption`, `TextsAssumption`,
  `FaultsAssumption`: positive widths, chunks of whole blocks, texts that are sequences
  of bytes, `0 .. BlockSize` among the bytes, faults among the known ones.
- `FilesAssumption` and `SealedAssumption` of DecryptFile: its input is made of the
  cells the format knows, and what verifies was sealed, as a MAC is made by who has the
  key. The size it declares may be any. `RoundTrip_proofs` does without them: there they
  are proved of what the encoding has left.
- Workspace: names are sequences of parts, and the files there are at first sequences of
  cells (`ScenesAssumption`); a block or a MAC found among these, or within a text, was
  left by a run that had the key (`OriginAssumption`, of the constant `Earlier`).
- RoundTrip: a length can be read back from the size field it is written in (eight
  bytes, `cipher.c:60-65`).
- Kdf: arguments and exclusive or are bytes (`ArgumentsAssumption`,
  `ByteXorAssumption`). The theorems also have the premise `SqueezeGivesDigest`, that
  the compression of blocks of bytes ends in `DigestSize` bytes; it is no ASSUME, as TLC
  could not evaluate it over all sequences of blocks; `MCSqueeze` satisfies it.

**EncryptFile.** `TypeCorrect` (`[]TypeOK`). `EveryExitReleases`
(`[]ReleasedOnReturn`) is not inductive; `HeldByPlace` says which resources are held at
each place of the function, so that each exit can be compared with it.
`AllocationSuffices` (`[]FitsUnlessGrown`): unless another process has appended to the
input, every `memcpy` into `encrypted_data` stays inside it. Its invariant `StreamInv`
is the meaning of the loop: the plaintext in the CBC chain, the partial block and what
is left of the chunk, joined, are the part of the input that has been read; the blocks
emitted times the block size are the length of the plaintext in the chain. At the end
fewer than `BlockSize` bytes are pending, so the padded block still fits. It needs no
assumption on the faults, and `EncryptGrow` shows that the exception is needed.
`SuccessSeals` (`[]SuccessIsSealed`) and `OnlyWholeVerifies` (`[]VerifiedIsWhole`): the
invariant `SealInv` adds what the blocks are (each is the chain of the input up to its
end), what has been accepted by the output stream at each place, and that the file
contains no end of a MAC before the MAC is written. Whatever a crash, a failed flush or
a short write leaves is a prefix of that, and a prefix without the end of a MAC is
refused.

**DecryptFile.** `DecryptInv` says what has been read at each place of the function and
what is held; from it `DecryptTypes` (`[]TypeOK`), `DecryptReleases`
(`[]ReleasedOnReturn`) and `DecryptVerifiesFirst` (`[]NoOutputBeforeVerify`), under
every fault and for every file. `PlainInv` adds the second pass: the file verifies, so
it is laid out as the format says (`Layout`), and the read position, the chain, what is
left to write and the output are those of the number of blocks done (`StepInv`). Then
`SuccessDecrypts` (`[]SuccessIsPlaintext`), `OutputStaysPrefix` (`[]OutputIsPrefix`) and
`ClampWrapsIfUnderdeclared` (`[]WrapsIfUnderdeclared`): `WholeBlocks` is what has been
written when the clamp is reached, so that `original_size - total_written` goes below
zero only if the declared size is less, although a short read of the second pass shifts
the places of everything that follows, and does so if none has fallen short.

**RoundTrip.** `RoundTripIsSealedBox` (`Spec => ImplementsSealedBox`): every step of the
encoding and of any number of decodings is a step of SealedBox or a stutter. The premise
`FaultsAreNoticed` leaves out the read errors of the encryption loop, the short reads of
the second pass and a failed last flush of the decoding, after which the code returns 0
without the whole text (`EncryptUnnoticed` shows the first); crashes and all other
failures are in. `EncP`, `DecP` and `CalmP` are the proof modules of the two functions,
instantiated as RoundTrip instantiates the functions, so that their lemmas apply; the
first lemmas say that the steps of the instances are the same. `LeftInv` is what links
the two: a file the encoding has left is made of the cells of the format and verifies,
if at all, under the key and as the whole sealed form, so that it is `Legitimate` for
the decodings.
`RightKeyAlwaysOpens` (`[]RightKeyOpens`) has no such premise, so it covers more faults
than the run. It is the converse of
`LeftInv`: the decoder not only accepts nothing else, it accepts this. `OpenInv` says
that where an encoding has returned 0 with nothing unnoticed the file is the complete
sealed form (`SuccessIsOpenable`), and of a decoding under its key, none of whose calls
has failed, what it has read so far: the header is that of the file (so no header is
refused), the first pass has read every block of it (so the MAC is computed of the whole
and agrees), the last block ends in valid padding, and the text written so far is the
beginning of the source. It says nothing of other encodings and other decodings, which
only have to leave the file alone (`OpenKept`). With it the safety half of
`RightKeyDelivers` is proved: such a decoding can only end with the text; that it ends
is what `DecryptionDescends` says.

**ShredFile.** `TypeCorrect`, `WipedFirst` (`[]WipedBeforeGone`) and
`EveryPassReachesTheMedium` (`MediumSeesEveryPass`). The invariant says that until an
`fsync` fails a cached cell is at this pass or the one before and the medium at most
one pass behind the cache (`OnePassApart`), how far the pass has come at each place
(`PassProgress`), and that what is given up stays overwritten (`GivenUpLast`).

**HashStream, Hmac, Kdf.** `KdfTypesHold`, `DigestsAreOfMessages`, `HmacsAreRfc2104`
and `DerivedKeysArePbkdf2`. `KdfInv`: the blocks compressed and the bytes of the buffer,
joined, are the part of the message that was consumed; at the end the padding of
`hash_final`, in one block or two, completes exactly the padded message of FIPS 180-4
(`PaddedEnd`); and at each step of `hmac_compute` the context has been fed what RFC 2104
says (`FedSoFar`), the message lying in its place until the outer digest overwrites it.
`DeriveInv`: at each turn `block` is the exclusive or of the hashes so far, `u` the last
of them or the next on its way, and `derived` the beginning of the key. PBKDF2 is
defined by recursive functions; that they exist and that their values obey their
equations is proved by induction (`GoesOn`), which the well-foundedness of `<` on the
naturals gives without an operator as a parameter.

**BlockCipher.** `CipherTypes` (`[]TypeOK`), `DecryptionRetraces` (`[]Retraces`)
and `DecryptionInverts` (`[]DecodesToText`), for every S-box without repetition, every
key, vector and text. The algebra comes first: the symmetric difference is an
exclusive or, multiplication by x is linear, and so the matrix of `inv_mix_bytes` is
the inverse of that of `mix_bytes`; `InvShiftRows` and the inverse table are
inverses. The invariant then says what each process has at each place: the second one
has the tables and round keys of the first (`made`), `trail` holds for every block a
chain of values in which each round operation gives the next, the encrypted blocks are
its ends, and the block under work is the one that `trail` names.

**KeySession.** `KeyTypes` (`[]TypeOK`), `RandomBytesWhole` (`[]RandomIsWhole`) and
`ShownKeyReopens` (`[]KeyReopens`). The invariant: the first `got` bytes of the buffer
are drawn, all of them behind the call (`BufferInv`); what is shown is the notation of
the key that was used, and each of the two parsers makes the same of the argument and of
the notation (`KeyInv`), which rests on a lemma that reading the notation of a key gives
the key. No argument is excluded: `OverrunIsHex` says that a key longer than its array
was given as digits, and the notation of a key that has room names no more bytes than
the key has.

**Workspace.** For any number of processes, commands, names, files and cells, and every
order of their steps, killings included. `WorkInv` gives each process a type by its
place (`Typed`): what is open, how far a loop can have come. It holds of what an
operation makes of one process and is left alone by what the others do (`OneMoves`);
`WorkspaceTypes` (`[]TypeOK`) follows. `WipedOnGivingUp` (`WipedIfGivenUp`): `WipeInv`
says how far the last pass has come in a file that nobody else has written to;
`OthersLeft` is what makes this an invariant among other processes: a step of another
leaves the open files of a process as they are, or makes the process `touched`.
`DisturbanceIsByKin` (`[]OnlyKinInterfere`): `KinInv` says that every file can be given
one name under which each process that holds it found or made it, so that two which hold
one file have names in common; `StemOfOutput`, that the stem of an output name is that
of what is kept of the name it is made from, then makes them kin. It is about the last
dot behind the last slash of a sequence, whose existence comes from the well-foundedness
of `<` (`Largest`). `MacNamesTheRun` (`[]VerifiedIsOneRun`): `OriginInv` says that the
cells on the disk and those about to be written lie in a set that contains what its
blocks enclose, and whose MACs are those of a run over header, blocks and padding
(`Closed`). The set has to be closed under opening a block, as decode writes what was
enclosed, and a text may consist of sealed cells; it grows by what each step writes
(`ClosedWith`). The blocks a run has made so far are its own, one for each place
(`PartSealed`). `UndisturbedDelivers` (`AloneDelivers`): `AloneInv` says what a command
has measured, read, made and written of its two files as long as no other hand has
written to them (`EncodesFrom`, `DecodesFrom`, `Writes`). It stands on `OthersLeft` as
`WipeInv` does, and for decode on `OriginInv`: what the first pass has accepted is a
sealed file (`AcceptedIsSealed`), so that each block of the second pass opens to the
text in its place, and the last one to the padding (`OpenedNext`).

**Ways to the end.** Liveness is beyond the prover, but what it rests on is not. For each
component whose runs check that it ends, a theorem says that a quantity taken from a
well-founded order gets less with every step the component takes by itself, crashes
included: a natural number in `EncryptionDescends`, `DecryptionDescends`,
`DeletionDescends` and in the `CommandsDescend` of KeySession, a tuple in lexicographic
order where the loops lie inside each other (`CallsDescend` of Kdf: keys, blocks,
turns, stages of an HMAC, bytes of a message; `CommandsDescend` of Workspace: places and
cells). The definitions stand under "The way to the end" in each proof module. So no
read that gives little, no retry and no order of steps keeps a loop turning for ever.
One thing adds to the way: bytes appended to the input that an encode is still reading
(`Grow` in EncryptFile, `InputGrows` in Workspace); an input that grows for ever is
read for ever, by the code as well. In Workspace nothing else that one command does
adds to the way of another. What the theorems leave to TLC is that a component that has
not ended can take a step.

Only model-checked: `MatchesStandard` of BlockCipher, which is about the published
values; and the liveness properties themselves (`EventuallyEnds`, `UpdateReturns`,
`RightKeyDelivers`), as fairness and ENABLED are out of reach of the prover.

## 5. Not modelled, and what is left open

Not modelled on purpose:

- `hash_mix` (`hash.c:17-106`): a function of 32-bit words without state or choice; what
  could be said of it is that it agrees with published values, which a test says as well.
- `HASH_SBOX`, `crypto_get_default_key` and `utils_print_safe`: nobody reads or calls
  them. (The comment at `main.c:17` has the default key used when no key is given;
  `prepare_key` draws another one, which `KeySession` models.)
- Progress output, messages, the usage text, the branches for Windows and BSD, timing
  (the constant-time comparison is its result).
- The comment at `args.c:104` says that `archive.tar.gz` gets the extension appended;
  the code replaces `.gz`, and the model does what the code does.
- In Workspace: failing calls (the modules of each function have them all), the system's
  caches, and the read buffers of the streams, so that a reader sees the newest cells.
- Of zeroization, which buffers still hold text or keys after each exit: the key
  context is a resource in `EncryptFile` and `DecryptFile` and must be given up; the
  rest would be a list of buffers without an order of events to check.

Disagreements of the code with its documents that properties of passing runs state: the
clamp that wraps (`WrapsIfUnderdeclared`; `cipher.c:441`), and digits that leave the
array of a key (`TypeOK` of KeySession; `readme.md:68` speaks of enforcing 32 to 64
bytes).

What is left open: a decoding whose second pass falls short returns 0 with a shortened
output (`cipher.c:400, 425, 465`; `cipher.h:43`), of which the properties of DecryptFile
make an exception; what a command ends with whose input another process changes
(`AloneDelivers` is about the others); and calls that fail in Workspace, so that
`AloneDelivers` also speaks of a full disk, as `SuccessIsSealed` does of one command
alone.
