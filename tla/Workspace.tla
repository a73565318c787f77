------------------------------- MODULE Workspace -------------------------------
(***************************************************************************)
(* Several commands at work in one directory tree.  Each is a process: it  *)
(* looks its files up by name more than once, keeps what it has opened,    *)
(* and reads and writes one cell at a time while the others go on.         *)
(*                                                                         *)
(* A cell is a block of a text or of an encoded file; a text fills its     *)
(* blocks, so that the padding is a cell of its own.  A run of encode      *)
(* stands for its salt and its IV.  Calls do not fail by themselves here:  *)
(* EncryptFile, DecryptFile and ShredFile are about that.                  *)
(***************************************************************************)
EXTENDS Integers, Sequences, SequencesExt, Functions

CONSTANTS
  Procs,       \* the processes
  Earlier,     \* what other runs have encoded: run, key, size and text of each
  Scenes,      \* what may be at first: the command line each is given, and the
               \* files there are, a sequence of <<name, content>>
  NoCommand,   \* for a process that is never started
  NoKey,       \* no key argument
  Parts,       \* what names are made of: letters or words, dots and slashes
  NameRoom,    \* characters of a name that are kept (1019)
  StreamRoom,  \* cells a stream keeps to itself; the header is one
  Passes       \* SHRED_PASSES

ASSUME WorkspaceAssumption ==
  /\ {".", "/", "enc", "dec"} \subseteq Parts
  /\ NameRoom \in Nat \ {0}
  /\ StreamRoom \in Nat \ {0}
  /\ Passes \in Nat \ {0}

IsSequence(s) == Len(s) \in Nat /\ s = [k \in 1 .. Len(s) |-> s[k]]

Verbs == {"encode", "decode", "shred"}

ASSUME ScenesAssumption ==
  \A scene \in Scenes :
    /\ DOMAIN scene[1] = Procs
    /\ \A p \in Procs : scene[1][p] /= NoCommand =>
         scene[1][p].verb \in Verbs /\ scene[1][p].file \in Seq(Parts)
    /\ IsSequence(scene[2])
    /\ \A i \in DOMAIN scene[2] : scene[2][i][1] \in Seq(Parts) /\ IsSequence(scene[2][i][2])

VARIABLES
  plan,     \* the verb, file and key each process was given
  proc,     \* the processes
  dir,      \* the names, and the file each is bound to
  file,     \* the files ever made, and what they hold
  touched   \* history: the processes another hand has written to a file of

vars == <<plan, proc, dir, file, touched>>

None == 0    \* no file is open

Started == {p \in Procs : plan[p] /= NoCommand}

Fresh ==
  [pc |-> "start", result |-> "none", in |-> None, out |-> None, size |-> 0, pos |-> 0,
   got |-> <<>>, mac |-> <<>>, made |-> <<>>, flushed |-> 0]

Init ==
  /\ \E scene \in Scenes :
       LET disk == scene[2]
       IN  /\ plan = scene[1]
           /\ file = [i \in DOMAIN disk |-> disk[i][2]]
           /\ dir = [name \in {disk[i][1] : i \in DOMAIN disk} |->
                       CHOOSE i \in DOMAIN disk : disk[i][1] = name]
  /\ proc = [p \in Procs |-> IF p \in Started THEN Fresh ELSE [Fresh EXCEPT !.pc = "done"]]
  /\ touched = {}

-----------------------------------------------------------------------------
(* Names *)

\* strncpy into the buffer: a long name is cut.
Kept(name) == SubSeq(name, 1, IF Len(name) > NameRoom THEN NameRoom ELSE Len(name))

\* Mutant of OutputName: a dot in the name of a directory is taken for one in
\* the name of the file.
OutputNameAnyDot(name, ext) ==
  LET dot == SelectLastInSeq(Kept(name), LAMBDA c : c = ".")
  IN  (IF dot > 0 THEN SubSeq(Kept(name), 1, dot - 1) ELSE Kept(name)) \o <<".", ext>>

OutputName(name, ext) ==
  LET dot   == SelectLastInSeq(Kept(name), LAMBDA c : c = ".")
      slash == SelectLastInSeq(Kept(name), LAMBDA c : c = "/")
  IN  (IF dot > slash THEN SubSeq(Kept(name), 1, dot - 1) ELSE Kept(name)) \o <<".", ext>>

-----------------------------------------------------------------------------
(* Content *)

Header(run, size)        == <<"head", run, size>>
Block(run, key, k, cell) == <<"block", run, key, k, cell>>
Pad  == <<"pad">>
Junk == <<"junk">>    \* a block that was decrypted out of its place
Hole == <<"hole">>    \* what lies before a cell written behind the end
Wiped(pass) == <<"wiped", pass>>

RunOf(cell) == IF Len(cell) = 3 THEN cell[2] ELSE "nobody"

\* Mutant of Mac: only the header is authenticated.
MacOfHeader(key, run, data) == <<"mac", key, run, data[1]>>

\* The key of the MAC is derived from the salt.
Mac(key, run, data) == <<"mac", key, run, data>>

\* What a run that has measured size and read text leaves.
Sealing(run, key, size, text) ==
  LET data == <<Header(run, size)>>
              \o [k \in 1 .. Len(text) + 1 |->
                    Block(run, key, k, IF k <= Len(text) THEN text[k] ELSE Pad)]
  IN  Append(data, Mac(key, run, data))

Sealed(e) == Sealing(e.run, e.key, e.size, e.text)

\* A block, or a MAC, comes from a run that had the key.
HasOrigin(cell) == Len(cell) \in {4, 5} => \E e \in Earlier : cell \in Range(Sealed(e))

ASSUME OriginAssumption ==
  /\ \A e \in Earlier : IsSequence(e.text) /\ \A k \in DOMAIN e.text : HasOrigin(e.text[k])
  /\ \A scene \in Scenes : \A i \in DOMAIN scene[2] :
       \A k \in DOMAIN scene[2][i][2] : HasOrigin(scene[2][i][2][k])

\* CBC: the text of a block that comes after the one before it, under its key.
Opened(cell, before, key) ==
  IF /\ Len(cell) = 5 /\ cell[1] = "block" /\ cell[3] = key
     /\ IF cell[4] = 1 THEN RunOf(before) = cell[2]
        ELSE Len(before) = 5 /\ before[2] = cell[2] /\ before[4] = cell[4] - 1
  THEN cell[5] ELSE Junk

-----------------------------------------------------------------------------
(* Files *)

Ended(p) == proc[p].pc = "done"
Held(p)  == {proc[p].in, proc[p].out} \ {None}

Disturb(i, others) == touched' = touched \cup {q \in others : i \in Held(q)}

\* fopen(name, "wb")
OpenForWriting(name, others) ==
  IF name \in DOMAIN dir
  THEN /\ file' = [file EXCEPT ![dir[name]] = <<>>]
       /\ Disturb(dir[name], others)
       /\ UNCHANGED dir
  ELSE /\ file' = Append(file, <<>>)
       /\ dir' = [n \in DOMAIN dir \cup {name} |-> IF n = name THEN Len(file) + 1 ELSE dir[n]]
       /\ UNCHANGED touched

With(content, k, cell) ==
  [j \in 1 .. (IF k > Len(content) THEN k ELSE Len(content)) |->
     IF j = k THEN cell ELSE IF j <= Len(content) THEN content[j] ELSE Hole]

PutCell(p, i, k, cell) ==
  /\ file' = [file EXCEPT ![i] = With(@, k, cell)]
  /\ Disturb(i, Procs \ {p})
  /\ UNCHANGED dir

AtEnd(p) == proc[p].pos >= Len(file[proc[p].in])
NextCell(p) == file[proc[p].in][proc[p].pos + 1]

\* What change does not name stays as it is.
Become(p, change) ==
  proc' = [proc EXCEPT ![p] =
             [f \in DOMAIN Fresh |-> IF f \in DOMAIN change THEN change[f] ELSE proc[p][f]]]
Return(p, value)  == Become(p, [Fresh EXCEPT !.pc = "done", !.result = value])
FilesStay == UNCHANGED <<dir, file, touched>>

At(p, verb, place) == proc[p].pc = place /\ plan[p].verb = verb
KeyOf(p) == IF plan[p].key = NoKey THEN <<"random", p>> ELSE plan[p].key

-----------------------------------------------------------------------------
(* The command line *)

\* main: decode and shred take exactly their arguments, encode at least a file.
WellFormed(c) ==
  \/ c.verb = "encode"
  \/ c.verb = "decode" /\ c.key /= NoKey
  \/ c.verb = "shred" /\ c.key = NoKey

Dispatch(p) ==
  /\ proc[p].pc = "start"
  /\ IF WellFormed(plan[p]) THEN Become(p, [pc |-> "check"]) ELSE Return(p, "1")
  /\ FilesStay

\* The file is opened, measured unless it is to be shredded, and closed.  The
\* user has three seconds to think about a shredding.
Check(p) ==
  /\ proc[p].pc = "check"
  /\ LET name == plan[p].file
     IN  IF name \in DOMAIN dir /\ (plan[p].verb = "shred" \/ file[dir[name]] /= <<>>)
         THEN Become(p, [pc |-> "open", size |-> Len(file[dir[name]])])
         ELSE Return(p, "1")
  /\ FilesStay

\* The name is looked up again.
Open(p) ==
  /\ proc[p].pc = "open"
  /\ IF plan[p].file \in DOMAIN dir
     THEN Become(p, [pc |-> IF plan[p].verb = "decode" THEN "head" ELSE "measure",
                     in |-> dir[plan[p].file]])
     ELSE Return(p, "-1")
  /\ FilesStay

-----------------------------------------------------------------------------
(* encode *)

\* Mutant of Measured: the size is that of the check.
MeasuredBefore(p) == proc[p].size

\* The size of the file that is open.
Measured(p) == Len(file[proc[p].in])

MeasureInput(p) ==
  /\ At(p, "encode", "measure")
  /\ IF Measured(p) = 0
     THEN Return(p, "-1")
     ELSE Become(p, [pc |-> "open_output", size |-> Measured(p)])
  /\ FilesStay

\* The output is created or emptied, and the header written.
OpenSealed(p) ==
  /\ At(p, "encode", "open_output")
  /\ OpenForWriting(OutputName(plan[p].file, "enc"), Procs)
  /\ Become(p, [pc |-> "seal", out |-> dir'[OutputName(plan[p].file, "enc")],
                made |-> <<Header(p, proc[p].size)>>])

\* The copy of the blocks in memory has room for one more than was measured: an
\* input that has grown by more overruns it, which may end the process.
SealBlock(p) ==
  /\ At(p, "encode", "seal") /\ ~AtEnd(p)
  /\ LET k == proc[p].pos + 1
     IN  \/ Become(p, [pos |-> k,
                       made |-> Append(proc[p].made, Block(p, KeyOf(p), k, NextCell(p)))])
         \/ k > proc[p].size + 1 /\ Return(p, "died")
  /\ FilesStay

SealEnd(p) ==
  /\ At(p, "encode", "seal") /\ AtEnd(p)
  /\ LET data == Append(proc[p].made, Block(p, KeyOf(p), proc[p].pos + 1, Pad))
     IN  Become(p, [pc |-> "close", result |-> "0",
                    made |-> Append(data, Mac(KeyOf(p), p, data))])
  /\ FilesStay

-----------------------------------------------------------------------------
(* decode *)

ReadHead(p) ==
  /\ At(p, "decode", "head")
  /\ IF AtEnd(p) THEN Return(p, "-1")
     ELSE Become(p, [pc |-> "measure", got |-> <<NextCell(p)>>])
  /\ FilesStay

\* size is encrypted_size.
MeasureSealed(p) ==
  /\ At(p, "decode", "measure")
  /\ IF Measured(p) <= 2 THEN Return(p, "-1")
     ELSE Become(p, [pc |-> "mac", size |-> Measured(p) - 2])
  /\ FilesStay

\* The last cell, wherever the end of the file is by now; then back to the blocks.
ReadMac(p) ==
  /\ At(p, "decode", "mac")
  /\ IF file[proc[p].in] = <<>> THEN Return(p, "-1")
     ELSE Become(p, [pc |-> "verify", mac |-> Last(file[proc[p].in]), pos |-> 1])
  /\ FilesStay

\* The first pass, which ends early where the file does.
ReadBlock(p) ==
  /\ At(p, "decode", "verify") /\ proc[p].pos <= proc[p].size /\ ~AtEnd(p)
  /\ Become(p, [pos |-> proc[p].pos + 1, got |-> Append(proc[p].got, NextCell(p))])
  /\ FilesStay

Salt(p) == RunOf(proc[p].got[1])

\* Mutant of Verify: the loop does not stop where nothing is left to read.
VerifyAfterAll(p) ==
  /\ At(p, "decode", "verify") /\ proc[p].pos > proc[p].size
  /\ IF /\ Len(proc[p].got) = proc[p].size + 1
        /\ proc[p].mac = Mac(KeyOf(p), Salt(p), proc[p].got)
     THEN Become(p, [pc |-> "open_output"])
     ELSE Return(p, "-1")
  /\ FilesStay

\* Where the pass has ended early the rest of hmac_data is memory nobody wrote.
Verify(p) ==
  /\ At(p, "decode", "verify") /\ (proc[p].pos > proc[p].size \/ AtEnd(p))
  /\ IF /\ Len(proc[p].got) = proc[p].size + 1
        /\ proc[p].mac = Mac(KeyOf(p), Salt(p), proc[p].got)
     THEN Become(p, [pc |-> "open_output"])
     ELSE Return(p, "-1")
  /\ FilesStay

\* got is now what stands before the next block in the CBC chain.
OpenPlain(p) ==
  /\ At(p, "decode", "open_output")
  /\ OpenForWriting(OutputName(plan[p].file, "dec"), Procs)
  /\ Become(p, [pc |-> "unseal", out |-> dir'[OutputName(plan[p].file, "dec")], pos |-> 1,
                mac |-> <<>>, got |-> <<Header(Salt(p), proc[p].got[1][3])>>])

\* The second pass, over all blocks but the last.
UnsealBlock(p) ==
  /\ At(p, "decode", "unseal") /\ proc[p].pos < proc[p].size /\ ~AtEnd(p)
  /\ Become(p, [pos |-> proc[p].pos + 1, got |-> <<NextCell(p)>>,
                made |-> Append(proc[p].made, Opened(NextCell(p), proc[p].got[1], KeyOf(p)))])
  /\ FilesStay

\* A last block that is missing is passed over, and one that is not the padding may
\* look padded: then nothing of it is written, or a part.
UnsealLast(p) ==
  /\ At(p, "decode", "unseal") /\ (proc[p].pos >= proc[p].size \/ AtEnd(p))
  /\ LET last   == IF AtEnd(p) THEN Pad ELSE Opened(NextCell(p), proc[p].got[1], KeyOf(p))
         end(r) == Become(p, [pc |-> "close", result |-> r])
     IN  \/ last = Pad /\ end("0")
         \/ last /= Pad /\ (end("0") \/ end("-1"))
         \/ last /= Pad /\ Become(p, [pc |-> "close", result |-> "0",
                                      made |-> Append(proc[p].made, Junk)])
  /\ FilesStay

-----------------------------------------------------------------------------
(* What encode and decode write *)

\* A stream keeps what it is given until it has more than room for.
Flush(p) ==
  /\ proc[p].out /= None /\ proc[p].flushed < Len(proc[p].made)
  /\ proc[p].pc = "close" \/ Len(proc[p].made) - proc[p].flushed > StreamRoom
  /\ LET k == proc[p].flushed + 1
     IN  PutCell(p, proc[p].out, k, proc[p].made[k]) /\ Become(p, [flushed |-> k])

Close(p) ==
  /\ proc[p].pc = "close" /\ proc[p].flushed = Len(proc[p].made)
  /\ Return(p, proc[p].result)
  /\ FilesStay

-----------------------------------------------------------------------------
(* shred *)

MeasureFile(p) ==
  /\ At(p, "shred", "measure")
  /\ Become(p, [pc |-> IF Measured(p) = 0 THEN "unlink" ELSE "wipe", size |-> Measured(p)])
  /\ FilesStay

\* Mutant of Target: no fseek before a pass.
TargetBehind(p) == proc[p].pos + 1

\* The cell that is next, every pass from the beginning of the file.
Target(p) == (proc[p].pos % proc[p].size) + 1

\* Mutant of Wipe: one turn too many.
WipeOnceMore(p) ==
  /\ At(p, "shred", "wipe") /\ proc[p].pos <= Passes * proc[p].size
  /\ PutCell(p, proc[p].in, Target(p), Wiped((proc[p].pos \div proc[p].size) + 1))
  /\ Become(p, [pos |-> proc[p].pos + 1])

Wipe(p) ==
  /\ At(p, "shred", "wipe") /\ proc[p].pos < Passes * proc[p].size
  /\ PutCell(p, proc[p].in, Target(p), Wiped((proc[p].pos \div proc[p].size) + 1))
  /\ Become(p, [pos |-> proc[p].pos + 1])

\* The file is closed, and whatever has its name by now is emptied.
Truncate(p) ==
  /\ At(p, "shred", "wipe") /\ proc[p].pos = Passes * proc[p].size
  /\ OpenForWriting(plan[p].file, Procs \ {p})
  /\ Become(p, [pc |-> "unlink"])

Unlink(p) ==
  /\ At(p, "shred", "unlink")
  /\ dir' = Restrict(dir, DOMAIN dir \ {plan[p].file})
  /\ Return(p, IF plan[p].file \in DOMAIN dir THEN "0" ELSE "-1")
  /\ UNCHANGED <<file, touched>>

-----------------------------------------------------------------------------
\* What an operation does not name stays as it is; so does the plan.
Step(p) ==
  /\ \/ Dispatch(p) \/ Check(p) \/ Open(p) \/ Flush(p) \/ Close(p)
     \/ MeasureInput(p) \/ OpenSealed(p) \/ SealBlock(p) \/ SealEnd(p)
     \/ ReadHead(p) \/ MeasureSealed(p) \/ ReadMac(p) \/ ReadBlock(p) \/ Verify(p)
     \/ OpenPlain(p) \/ UnsealBlock(p) \/ UnsealLast(p)
     \/ MeasureFile(p) \/ Wipe(p) \/ Truncate(p) \/ Unlink(p)
  /\ UNCHANGED plan

\* Ctrl+C: what the streams hold is lost.
Kill(p) ==
  /\ ~Ended(p)
  /\ Return(p, "died")
  /\ FilesStay /\ UNCHANGED plan

Finished == (\A p \in Procs : Ended(p)) /\ UNCHANGED vars

Next == (\E p \in Procs : Step(p) \/ Kill(p)) \/ Finished

\* As long as a process can go on, some process does.
Fairness == WF_vars(\E p \in Procs : Step(p))

Spec == Init /\ [][Next]_vars /\ Fairness

-----------------------------------------------------------------------------
(* Properties *)

\* Type correctness: only files that exist are bound or open, and no loop goes on
\* behind the size it was given.
TypeOK ==
  /\ DOMAIN dir \subseteq Seq(Parts)
  /\ \A name \in DOMAIN dir : dir[name] \in DOMAIN file
  /\ touched \subseteq Procs
  /\ \A p \in Procs :
       /\ proc[p].result \in {"none", "0", "-1", "1", "died"}
       /\ Held(p) \subseteq DOMAIN file
       /\ proc[p].flushed \in 0 .. Len(proc[p].made)
       /\ proc[p].pc = "verify" => proc[p].pos \in 1 .. proc[p].size + 1
       /\ proc[p].pc = "unseal" => proc[p].pos \in 1 .. proc[p].size
       /\ proc[p].pc = "wipe" => proc[p].pos \in 0 .. Passes * proc[p].size

Content(cell) == IF Len(cell) = 5 THEN cell[5] ELSE cell

Accepts(content, key) ==
  /\ Len(content) > 2
  /\ Last(content) = Mac(key, RunOf(content[1]), Front(content))

\* What a decoder accepts was sealed by one run, header, blocks and MAC, whichever
\* others have written to the same file meanwhile (cipher.c:219-240, 365-380).
VerifiedIsOneRun ==
  \A i \in DOMAIN file : \A key \in {KeyOf(p) : p \in Started} :
    Accepts(file[i], key) =>
      file[i] = Sealing(file[i][1][2], key, file[i][1][3],
                        [k \in 1 .. Len(file[i]) - 3 |-> Content(file[i][k + 1])])

Succeeds(p) == proc[p].pc = "close" /\ proc'[p].pc = "done" /\ proc'[p].result = "0"

Delivered(p) ==
  LET input == file[proc[p].in]  output == file'[proc[p].out]
  IN  IF plan[p].verb = "encode"
      THEN output = Sealing(p, KeyOf(p), Len(input), input)
      ELSE input = Sealing(input[1][2], KeyOf(p), input[1][3], output)

\* A command that succeeds, and whose open files no other hand has written to,
\* has done what it says, whatever happened between the check of the name and its
\* opening: encode leaves the sealed form of its input, and decode the text that
\* its input is the sealed form of (args.c:139-179, 185-250; cipher.h:28, 43).
AloneDelivers == [][\A p \in Started : Succeeds(p) /\ p \notin touched => Delivered(p)]_vars

GivesUp(p) ==
  /\ plan[p].verb = "shred" /\ plan[p].file \in DOMAIN dir
  /\ dir[plan[p].file] = proc[p].in
  /\ \/ file[proc[p].in] /= <<>> /\ file'[proc[p].in] = <<>>
     \/ plan[p].file \notin DOMAIN dir'

\* shred gives up a file only after it has wiped all of it, unless the name was
\* bound to another file meanwhile or another hand has written to this one
\* (shred.c:159-227).
WipedIfGivenUp ==
  [][\A p \in Started : proc'[p] /= proc[p] /\ GivesUp(p) /\ p \notin touched
       => \A k \in DOMAIN file[proc[p].in] : file[proc[p].in][k] = Wiped(Passes)]_vars

Stem(name) ==
  LET dots == {k \in DOMAIN name :
                 name[k] = "." /\ \A j \in k + 1 .. Len(name) : name[j] \notin {".", "/"}}
  IN  IF dots = {} THEN name ELSE SubSeq(name, 1, (CHOOSE k \in dots : TRUE) - 1)

\* What the input and what the output of a command have before the extension.
Stems(name) == {Stem(name), Stem(Kept(name))}

\* Commands disturb each other only over one stem, of a name as it was typed or as
\* it was cut: those whose names differ before the extension, within what is kept
\* of them, have different outputs (args.c:107-132).
OnlyKinInterfere ==
  \A p \in touched :
    \/ \E q \in Started \ {p} : Stems(plan[q].file) \cap Stems(plan[p].file) /= {}
    \/ plan[p].file \in {OutputName(plan[p].file, ext) : ext \in {"enc", "dec"}}

\* Every command ends, whatever the others do to its files.
EventuallyEnds == <>(\A p \in Procs : Ended(p))

\* encode leaves its input as it is.
InputSurvives ==
  [][\A p \in Started : At(p, "encode", "open_output") /\ proc'[p] /= proc[p]
       => file'[proc[p].in] = file[proc[p].in]]_vars
=============================================================================
