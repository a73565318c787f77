--------------------------- MODULE Workspace_proofs ---------------------------
(***************************************************************************)
(* For any number of processes, files and cells.                           *)
(***************************************************************************)
EXTENDS Workspace, SequenceTheorems, WellFoundedInduction, TLAPS

-----------------------------------------------------------------------------
(* Sequences *)

LEMMA SequenceOf == ASSUME NEW S, NEW s \in Seq(S) PROVE IsSequence(s)
BY LenProperties DEF IsSequence

LEMMA OfSequence ==
  ASSUME NEW s, IsSequence(s)
  PROVE  s \in Seq({s[k] : k \in 1 .. Len(s)}) /\ DOMAIN s = 1 .. Len(s) /\ Len(s) \in Nat
<1> DEFINE n == Len(s)
           S == {s[k] : k \in 1 .. n}
           t == [k \in 1 .. n |-> s[k]]
<1>1. n \in Nat /\ s = t
  BY DEF IsSequence
<1> HIDE DEF n
<1>2. t \in [1 .. n -> S] /\ DOMAIN t = 1 .. n
  OBVIOUS
<1> HIDE DEF S, t
<1>3. t \in Seq(S)
  BY <1>1, <1>2
<1>4. s \in Seq(S) /\ DOMAIN s = 1 .. n
  BY <1>1, <1>2, <1>3
<1>5. QED
  BY <1>1, <1>4 DEF S, n

LEMMA FunctionIs ==
  ASSUME NEW n \in Nat, NEW f, f = [k \in 1 .. n |-> f[k]]
  PROVE  IsSequence(f) /\ Len(f) = n
<1> DEFINE S == {f[k] : k \in 1 .. n}
           g == [k \in 1 .. n |-> f[k]]
<1>1. g \in [1 .. n -> S]
  OBVIOUS
<1> HIDE DEF S
<1>2. g \in Seq(S) /\ Len(g) = n
  BY <1>1
<1>3. f = g
  OBVIOUS
<1> HIDE DEF g
<1>4. QED
  BY <1>2, <1>3, SequenceOf

LEMMA Appending ==
  ASSUME NEW s, IsSequence(s), NEW e
  PROVE  /\ IsSequence(Append(s, e)) /\ Len(Append(s, e)) = Len(s) + 1
         /\ Len(s) \in Nat
         /\ \A k \in 1 .. Len(s) : Append(s, e)[k] = s[k]
         /\ Append(s, e)[Len(s) + 1] = e
<1> DEFINE S == {s[k] : k \in 1 .. Len(s)} \cup {e}
<1>1. s \in Seq(S) /\ Len(s) \in Nat /\ e \in S
  <2>1. s \in Seq({s[k] : k \in 1 .. Len(s)}) /\ Len(s) \in Nat
    BY OfSequence
  <2>2. {s[k] : k \in 1 .. Len(s)} \subseteq S
    OBVIOUS
  <2>3. Seq({s[k] : k \in 1 .. Len(s)}) \subseteq Seq(S)
    BY <2>2
  <2>4. QED
    BY <2>1, <2>3
<1> HIDE DEF S
<1>2. /\ Append(s, e) \in Seq(S) /\ Len(Append(s, e)) = Len(s) + 1
      /\ \A k \in 1 .. Len(s) : Append(s, e)[k] = s[k]
      /\ Append(s, e)[Len(s) + 1] = e
  BY <1>1, AppendProperties
<1>3. QED
  BY <1>1, <1>2, SequenceOf

\* The largest of some numbers up to n.
LEMMA Largest ==
  ASSUME NEW n \in Nat, NEW I, I \subseteq 1 .. n, I # {}
  PROVE  Max(I) \in I /\ \A k \in I : k <= Max(I)
<1> DEFINE J == {n - k : k \in I}
           Below == {p \in Nat \X Nat : p[1] < p[2]}
<1>1. J \subseteq Nat /\ J # {}
  <2>1. \A k \in I : k \in 1 .. n
    OBVIOUS
  <2>2. PICK k \in I : TRUE
    OBVIOUS
  <2>3. n - k \in J
    BY <2>2
  <2>4. \A j \in J : j \in Nat
    BY <2>1
  <2>5. QED
    BY <2>3, <2>4
<1>2. IsWellFoundedOn(Below, Nat)
  BY NatLessThanWellFounded, Zenon DEF OpToRel
<1> HIDE DEF Below
<1>3. PICK x \in J : \A y \in J : <<y, x>> \notin Below
  <2> HIDE DEF J
  <2>1. QED
    BY <1>1, <1>2, WFMin
<1>4. PICK m \in I : x = n - m
  BY <1>3
<1>5. \A k \in I : k <= m
  <2> SUFFICES ASSUME NEW k \in I PROVE k <= m
    OBVIOUS
  <2>1. n - k \in J /\ n - k \in Nat /\ x \in Nat
    BY <1>1, <1>3
  <2>2. ~(n - k < x)
    BY <1>3, <2>1 DEF Below
  <2>3. QED
    BY <1>4, <2>1, <2>2
<1>6. \E z \in I : \A y \in I : z >= y
  BY <1>4, <1>5
<1>7. Max(I) \in I /\ \A y \in I : Max(I) >= y
  BY <1>6, Zenon DEF Max
<1>8. QED
  BY <1>7

\* Where the last c of a sequence is, or 0.
LastOf(s, c) == SelectLastInSeq(s, LAMBDA x : x = c)

LEMMA LastPlace ==
  ASSUME NEW s, Len(s) \in Nat, NEW c
  PROVE  /\ LastOf(s, c) \in 0 .. Len(s)
         /\ LastOf(s, c) > 0 => s[LastOf(s, c)] = c
         /\ \A k \in LastOf(s, c) + 1 .. Len(s) : s[k] # c
<1> DEFINE I == {k \in 1 .. Len(s) : s[k] = c}
<1>1. LastOf(s, c) = IF I # {} THEN Max(I) ELSE 0
  BY DEF LastOf, SelectLastInSeq
<1>2. CASE I = {}
  <2>1. LastOf(s, c) = 0
    BY <1>1, <1>2
  <2>2. \A k \in 1 .. Len(s) : s[k] # c
    BY <1>2
  <2>3. QED
    BY <2>1, <2>2
<1>3. CASE I # {}
  <2>1. I \subseteq 1 .. Len(s)
    OBVIOUS
  <2>2. Max(I) \in I /\ \A k \in I : k <= Max(I)
    <3> HIDE DEF I
    <3>1. QED
      BY <1>3, <2>1, Largest
  <2>3. LastOf(s, c) \in I /\ \A k \in I : k <= LastOf(s, c)
    BY <1>1, <1>3, <2>2
  <2>4. QED
    BY <2>3
<1>4. QED
  BY <1>2, <1>3
-----------------------------------------------------------------------------
(* Types *)

Fields == {"pc", "result", "in", "out", "size", "pos", "got", "mac", "made", "flushed"}

Stops == {"start", "check", "open", "measure", "head", "mac", "verify", "open_output",
          "seal", "unseal", "close", "wipe", "unlink", "done"}

Outside == {"start", "check", "open", "done"}

\* A process, where there are n files.
Typed(r, n) ==
  /\ DOMAIN r = Fields /\ r.pc \in Stops
  /\ r.result \in {"none", "0", "-1", "1", "died"}
  /\ r.in \in 0 .. n /\ r.out \in 0 .. n
  /\ r.size \in Nat /\ r.pos \in Nat
  /\ IsSequence(r.made) /\ r.flushed \in 0 .. Len(r.made)
  /\ r.pc \in Outside <=> r.in = None
  /\ r.pc \notin {"seal", "unseal", "close"} => r.out = None /\ r.flushed = 0
  /\ r.pc \in {"mac", "verify", "open_output", "unseal", "wipe"} => r.size > 0
  /\ r.pc \in {"start", "check", "open", "head", "measure"} => r.pos = 0
  /\ r.pc = "close" => r.result \in {"0", "-1"}
  /\ r.pc = "verify" => r.pos \in 1 .. r.size + 1
  /\ r.pc = "unseal" => r.pos \in 1 .. r.size
  /\ r.pc = "wipe" => r.pos \in 0 .. Passes * r.size

\* The files and the names they are bound to.
Disk ==
  /\ IsSequence(file)
  /\ \A k \in 1 .. Len(file) : IsSequence(file[k])
  /\ \A name \in DOMAIN dir : name \in Seq(Parts) /\ dir[name] \in 1 .. Len(file)

Planned ==
  /\ \A p \in Started : plan[p].verb \in Verbs /\ plan[p].file \in Seq(Parts)
  /\ \A p \in Procs : proc[p].pc # "done" => p \in Started

WorkInv ==
  /\ DOMAIN proc = Procs /\ Disk /\ Planned /\ touched \subseteq Procs
  /\ \A p \in Procs : Typed(proc[p], Len(file))

\* What Become makes of a process.
After(r, change) == [f \in Fields |-> IF f \in DOMAIN change THEN change[f] ELSE r[f]]

LEMMA Becoming ==
  ASSUME NEW p \in Procs, NEW change, DOMAIN proc = Procs, Become(p, change)
  PROVE  /\ DOMAIN proc' = Procs /\ proc'[p] = After(proc[p], change)
         /\ \A q \in Procs \ {p} : proc'[q] = proc[q]
<1>1. DOMAIN Fresh = Fields
  BY DEF Fresh, Fields
<1>2. proc' = [proc EXCEPT ![p] = After(proc[p], change)]
  BY <1>1 DEF Become, After
<1>3. QED
  BY <1>2

LEMMA EmptySequence == IsSequence(<<>>) /\ Len(<<>>) = 0
BY DEF IsSequence

LEMMA FreshIs ==
  /\ DOMAIN Fresh = Fields
  /\ Fresh.pc = "start" /\ Fresh.result = "none" /\ Fresh.in = None /\ Fresh.out = None
  /\ Fresh.size = 0 /\ Fresh.pos = 0 /\ Fresh.made = <<>> /\ Fresh.flushed = 0
BY DEF Fresh, Fields

\* A process that has ended.
LEMMA ReturnTypes ==
  ASSUME NEW p \in Procs, NEW value \in {"0", "-1", "1", "died"}, DOMAIN proc = Procs,
         Return(p, value), NEW n \in Nat
  PROVE  /\ Typed(proc'[p], n)
         /\ proc'[p] = [Fresh EXCEPT !.pc = "done", !.result = value]
<1> DEFINE change == [Fresh EXCEPT !.pc = "done", !.result = value]
<1>1. /\ DOMAIN change = Fields /\ change.pc = "done" /\ change.result = value
      /\ change.in = None /\ change.out = None /\ change.size = 0 /\ change.pos = 0
      /\ change.made = <<>> /\ change.flushed = 0
  BY FreshIs DEF Fields
<1>2. Become(p, change)
  BY DEF Return
<1>3. change = [f \in Fields |-> change[f]]
  BY <1>1
<1> HIDE DEF change
<1>4. proc'[p] = change
  BY <1>1, <1>2, <1>3, Becoming DEF After
<1>5. Typed(change, n)
  BY <1>1, EmptySequence DEF Typed, Stops, Outside, None
<1>6. QED
  BY <1>4, <1>5 DEF change

LEMMA TypedMore ==
  ASSUME NEW r, NEW n \in Nat, NEW m \in Nat, n <= m, Typed(r, n)
  PROVE  Typed(r, m)
BY DEF Typed

\* What an operation has to keep, when one process moves.
LEMMA OneMoves ==
  ASSUME WorkInv, NEW p \in Started, plan' = plan, DOMAIN proc' = Procs,
         \A q \in Procs \ {p} : proc'[q] = proc[q],
         Disk', Len(file) <= Len(file'), touched' \subseteq Procs,
         Typed(proc'[p], Len(file'))
  PROVE  WorkInv'
<1>1. Len(file) \in Nat /\ Len(file') \in Nat
  BY DEF WorkInv, Disk, IsSequence
<1>2. ASSUME NEW q \in Procs PROVE Typed(proc'[q], Len(file'))
  BY <1>1, TypedMore DEF WorkInv
<1>3. Started' = Started /\ p \in Procs
  BY DEF Started
<1>4. Planned'
  BY <1>3 DEF WorkInv, Planned
<1>5. QED
  BY <1>2, <1>4 DEF WorkInv

\* The same where no file changes.
LEMMA FilesStaying ==
  ASSUME WorkInv, FilesStay
  PROVE  Disk' /\ Len(file) <= Len(file') /\ touched' \subseteq Procs /\ Len(file) \in Nat
         /\ Len(file') = Len(file)
BY DEF WorkInv, FilesStay, Disk, IsSequence

LEMMA Returning ==
  ASSUME WorkInv, NEW p \in Started, plan' = plan, FilesStay,
         NEW value \in {"0", "-1", "1", "died"}, Return(p, value)
  PROVE  WorkInv'
<1>1. p \in Procs /\ DOMAIN proc = Procs
  BY DEF Started, WorkInv
<1>2. /\ Disk' /\ Len(file) <= Len(file') /\ touched' \subseteq Procs /\ Len(file') \in Nat
  BY FilesStaying
<1>3. Typed(proc'[p], Len(file'))
  BY <1>1, <1>2, ReturnTypes
<1>4. DOMAIN proc' = Procs /\ \A q \in Procs \ {p} : proc'[q] = proc[q]
  BY <1>1, Becoming DEF Return
<1>5. QED
  BY <1>2, <1>3, <1>4, OneMoves

\* A process that goes on, and writes nothing.
LEMMA GoingOn ==
  ASSUME WorkInv, NEW p \in Started, plan' = plan, FilesStay,
         NEW change, Become(p, change), Typed(After(proc[p], change), Len(file))
  PROVE  WorkInv'
<1>1. p \in Procs /\ DOMAIN proc = Procs
  BY DEF Started, WorkInv
<1>2. /\ Disk' /\ Len(file) <= Len(file') /\ touched' \subseteq Procs /\ Len(file') = Len(file)
  BY FilesStaying
<1>3. /\ DOMAIN proc' = Procs /\ proc'[p] = After(proc[p], change)
      /\ \A q \in Procs \ {p} : proc'[q] = proc[q]
  BY <1>1, Becoming
<1>4. QED
  BY <1>2, <1>3, OneMoves
-----------------------------------------------------------------------------
(* Names *)

\* The characters of a name before its extension.
Base(name) ==
  IF LastOf(name, ".") > LastOf(name, "/") THEN SubSeq(name, 1, LastOf(name, ".") - 1)
                                           ELSE name

LEMMA OutputNameIs ==
  ASSUME NEW name, NEW ext
  PROVE  OutputName(name, ext) = Base(Kept(name)) \o <<".", ext>>
BY DEF OutputName, Base, Kept, LastOf

LEMMA FirstPart ==
  ASSUME NEW S, NEW s \in Seq(S), NEW n \in 0 .. Len(s)
  PROVE  /\ SubSeq(s, 1, n) \in Seq(S) /\ Len(SubSeq(s, 1, n)) = n
         /\ \A k \in 1 .. n : SubSeq(s, 1, n)[k] = s[k]
<1>1. \A k \in 1 .. n : s[k] \in S
  BY ElementOfSeq, LenProperties
<1>2. n \in Nat
  BY LenProperties
<1>3. QED
  BY <1>1, <1>2, SubSeqProperties

LEMMA KeptName ==
  ASSUME NEW name \in Seq(Parts)
  PROVE  Kept(name) \in Seq(Parts)
<1> DEFINE n == IF Len(name) > NameRoom THEN NameRoom ELSE Len(name)
<1>1. n \in 0 .. Len(name)
  BY WorkspaceAssumption, LenProperties
<1> HIDE DEF n
<1>2. SubSeq(name, 1, n) \in Seq(Parts)
  BY <1>1, FirstPart
<1>3. QED
  BY <1>2 DEF Kept, n

LEMMA BaseName ==
  ASSUME NEW name \in Seq(Parts)
  PROVE  Base(name) \in Seq(Parts)
<1>1. Len(name) \in Nat
  BY LenProperties
<1>2. LastOf(name, ".") \in 0 .. Len(name) /\ LastOf(name, "/") \in 0 .. Len(name)
  BY <1>1, LastPlace
<1>3. CASE LastOf(name, ".") > LastOf(name, "/")
  <2>1. LastOf(name, ".") - 1 \in 0 .. Len(name)
    BY <1>1, <1>2, <1>3
  <2>2. QED
    BY <1>3, <2>1, FirstPart DEF Base
<1>4. CASE ~(LastOf(name, ".") > LastOf(name, "/"))
  BY <1>4 DEF Base
<1>5. QED
  BY <1>3, <1>4

LEMMA OutputNameType ==
  ASSUME NEW name \in Seq(Parts), NEW ext \in Parts
  PROVE  OutputName(name, ext) \in Seq(Parts)
<1>1. Base(Kept(name)) \in Seq(Parts)
  BY KeptName, BaseName
<1>2. <<".", ext>> \in Seq(Parts)
  <2>1. "." \in Parts
    BY WorkspaceAssumption
  <2>2. \A a, b : a \in Parts /\ b \in Parts => <<a, b>> \in Seq(Parts)
    OBVIOUS
  <2>3. QED
    BY <2>1, <2>2
<1>3. QED
  BY <1>1, <1>2, OutputNameIs, ConcatProperties

-----------------------------------------------------------------------------
(* What the operations on files do *)

LEMMA OpenDisk ==
  ASSUME Disk, NEW name \in Seq(Parts), NEW others, OpenForWriting(name, others)
  PROVE  /\ Disk' /\ Len(file) \in Nat /\ Len(file) <= Len(file')
         /\ name \in DOMAIN dir' /\ dir'[name] \in 1 .. Len(file')
         /\ touched' \subseteq touched \cup others
<1>1. /\ Len(file) \in Nat /\ DOMAIN file = 1 .. Len(file)
      /\ file = [k \in 1 .. Len(file) |-> file[k]]
      /\ \A k \in 1 .. Len(file) : IsSequence(file[k])
      /\ \A n \in DOMAIN dir : n \in Seq(Parts) /\ dir[n] \in 1 .. Len(file)
  BY OfSequence DEF Disk, IsSequence
<1>2. CASE name \in DOMAIN dir
  <2>1. file' = [file EXCEPT ![dir[name]] = <<>>] /\ dir' = dir
        /\ touched' \subseteq touched \cup others
    BY <1>2 DEF OpenForWriting, Disturb
  <2>2. IsSequence(file') /\ Len(file') = Len(file)
    <3>1. file' = [k \in 1 .. Len(file) |-> file'[k]]
      BY <1>1, <2>1
    <3>2. QED
      BY <1>1, <3>1, FunctionIs
  <2>3. \A k \in 1 .. Len(file) : IsSequence(file'[k])
    BY <1>1, <2>1, EmptySequence
  <2>4. QED
    BY <1>1, <1>2, <2>1, <2>2, <2>3 DEF Disk
<1>3. CASE name \notin DOMAIN dir
  <2>1. /\ file' = Append(file, <<>>) /\ touched' = touched
        /\ dir' = [n \in DOMAIN dir \cup {name} |-> IF n = name THEN Len(file) + 1 ELSE dir[n]]
    BY <1>3 DEF OpenForWriting
  <2>2. /\ IsSequence(file') /\ Len(file') = Len(file) + 1
        /\ \A k \in 1 .. Len(file) : file'[k] = file[k]
        /\ file'[Len(file) + 1] = <<>>
    BY <2>1, Appending DEF Disk
  <2>3. \A k \in 1 .. Len(file') : IsSequence(file'[k])
    BY <1>1, <2>2, EmptySequence
  <2>4. \A n \in DOMAIN dir' : n \in Seq(Parts) /\ dir'[n] \in 1 .. Len(file')
    BY <1>1, <2>1, <2>2
  <2>5. QED
    BY <1>1, <2>1, <2>2, <2>3, <2>4 DEF Disk
<1>4. QED
  BY <1>2, <1>3

LEMMA WithIsSequence ==
  ASSUME NEW content, IsSequence(content), NEW k \in Nat \ {0}, NEW cell
  PROVE  /\ IsSequence(With(content, k, cell))
         /\ Len(With(content, k, cell)) = IF k > Len(content) THEN k ELSE Len(content)
<1> DEFINE n == IF k > Len(content) THEN k ELSE Len(content)
           f == [j \in 1 .. n |-> IF j = k THEN cell
                                  ELSE IF j <= Len(content) THEN content[j] ELSE Hole]
<1>1. n \in Nat
  BY DEF IsSequence
<1> HIDE DEF n
<1>2. f = [j \in 1 .. n |-> f[j]]
  OBVIOUS
<1>3. IsSequence(f) /\ Len(f) = n
  <2> HIDE DEF f
  <2>1. QED
    BY <1>1, <1>2, FunctionIs
<1>4. With(content, k, cell) = f
  BY DEF With, f, n
<1>5. QED
  BY <1>3, <1>4 DEF n

LEMMA PutDisk ==
  ASSUME Disk, NEW p, NEW i \in 1 .. Len(file), NEW k \in Nat \ {0}, NEW cell,
         PutCell(p, i, k, cell)
  PROVE  /\ Disk' /\ Len(file) \in Nat /\ Len(file') = Len(file)
         /\ touched' \subseteq touched \cup Procs
<1>1. /\ Len(file) \in Nat /\ DOMAIN file = 1 .. Len(file)
      /\ file = [j \in 1 .. Len(file) |-> file[j]]
      /\ \A j \in 1 .. Len(file) : IsSequence(file[j])
  BY OfSequence DEF Disk, IsSequence
<1>2. /\ file' = [file EXCEPT ![i] = With(file[i], k, cell)] /\ dir' = dir
      /\ touched' \subseteq touched \cup Procs
  BY DEF PutCell, Disturb
<1>3. IsSequence(With(file[i], k, cell))
  BY <1>1, WithIsSequence
<1>4. IsSequence(file') /\ Len(file') = Len(file)
  <2>1. file' = [j \in 1 .. Len(file) |-> file'[j]]
    BY <1>1, <1>2
  <2>2. QED
    BY <1>1, <2>1, FunctionIs
<1>5. \A j \in 1 .. Len(file) : IsSequence(file'[j])
  BY <1>1, <1>2, <1>3
<1>6. QED
  BY <1>1, <1>2, <1>4, <1>5 DEF Disk
-----------------------------------------------------------------------------
(* The operations *)

\* What is known of a process that moves.
LEMMA Mover ==
  ASSUME WorkInv, NEW p \in Started
  PROVE  /\ p \in Procs /\ DOMAIN proc = Procs /\ Disk /\ Len(file) \in Nat
         /\ Typed(proc[p], Len(file))
         /\ plan[p].verb \in Verbs /\ plan[p].file \in Seq(Parts)
BY DEF WorkInv, Started, Planned, Disk, IsSequence

LEMMA DispatchKeeps ==
  ASSUME WorkInv, NEW p \in Started, plan' = plan, Dispatch(p) PROVE WorkInv'
<1>1. CASE Return(p, "1")
  BY <1>1, Returning DEF Dispatch
<1>2. CASE Become(p, [pc |-> "check"])
  <2>1. proc[p].pc = "start"
    BY DEF Dispatch
  <2>2. Typed(After(proc[p], [pc |-> "check"]), Len(file))
    BY <2>1, Mover DEF Typed, After, Fields, Stops, Outside
  <2>3. QED
    BY <1>2, <2>2, GoingOn DEF Dispatch
<1>3. QED
  BY <1>1, <1>2 DEF Dispatch

LEMMA CheckKeeps ==
  ASSUME WorkInv, NEW p \in Started, plan' = plan, Check(p) PROVE WorkInv'
<1> DEFINE i == dir[plan[p].file]
           change == [pc |-> "open", size |-> Len(file[i])]
<1>1. proc[p].pc = "check" /\ FilesStay
  BY DEF Check
<1>2. CASE Return(p, "1")
  BY <1>1, <1>2, Returning
<1>3. CASE plan[p].file \in DOMAIN dir /\ Become(p, change)
  <2>1. i \in 1 .. Len(file) /\ Len(file[i]) \in Nat
    BY <1>3, Mover DEF Disk, IsSequence
  <2> HIDE DEF i
  <2>2. Typed(After(proc[p], change), Len(file))
    BY <1>1, <2>1, Mover DEF Typed, After, Fields, Stops, Outside
  <2>3. QED
    BY <1>1, <1>3, <2>2, GoingOn
<1>4. QED
  BY <1>2, <1>3 DEF Check

LEMMA OpenKeeps ==
  ASSUME WorkInv, NEW p \in Started, plan' = plan, Open(p) PROVE WorkInv'
<1> DEFINE i == dir[plan[p].file]
           stop == IF plan[p].verb = "decode" THEN "head" ELSE "measure"
           change == [pc |-> stop, in |-> i]
<1>1. proc[p].pc = "open" /\ FilesStay
  BY DEF Open
<1>2. CASE Return(p, "-1")
  BY <1>1, <1>2, Returning
<1>3. CASE plan[p].file \in DOMAIN dir /\ Become(p, change)
  <2>1. i \in 1 .. Len(file) /\ stop \in {"head", "measure"}
    BY <1>3, Mover DEF Disk
  <2> HIDE DEF i, stop
  <2>2. Typed(After(proc[p], change), Len(file))
    BY <1>1, <2>1, Mover DEF Typed, After, Fields, Stops, Outside, None
  <2>3. QED
    BY <1>1, <1>3, <2>2, GoingOn
<1>4. QED
  BY <1>2, <1>3 DEF Open

LEMMA MeasureInputKeeps ==
  ASSUME WorkInv, NEW p \in Started, plan' = plan, MeasureInput(p) PROVE WorkInv'
<1> DEFINE n == Measured(p)
           change == [pc |-> "open_output", size |-> n]
<1>1. proc[p].pc = "measure" /\ FilesStay
  BY DEF MeasureInput, At
<1>2. proc[p].in \in 1 .. Len(file)
  BY <1>1, Mover DEF Typed, Outside, None
<1>3. n \in Nat
  BY <1>2, Mover DEF Disk, IsSequence, Measured
<1> HIDE DEF n
<1>4. CASE Return(p, "-1")
  BY <1>1, <1>4, Returning
<1>5. CASE n # 0 /\ Become(p, change)
  <2>1. Typed(After(proc[p], change), Len(file))
    BY <1>1, <1>3, <1>5, Mover DEF Typed, After, Fields, Stops, Outside
  <2>2. QED
    BY <1>1, <1>5, <2>1, GoingOn
<1>6. QED
  BY <1>4, <1>5 DEF MeasureInput, n
LEMMA OpenSealedKeeps ==
  ASSUME WorkInv, NEW p \in Started, plan' = plan, OpenSealed(p) PROVE WorkInv'
<1> DEFINE name == OutputName(plan[p].file, "enc")
           i == dir'[name]
           made == <<Header(p, proc[p].size)>>
           change == [pc |-> "seal", out |-> i, made |-> made]
<1>1. proc[p].pc = "open_output" /\ OpenForWriting(name, Procs) /\ Become(p, change)
  BY DEF OpenSealed, At
<1>2. name \in Seq(Parts)
  BY Mover, OutputNameType, WorkspaceAssumption
<1> HIDE DEF name
<1>3. Disk' /\ Len(file) <= Len(file') /\ i \in 1 .. Len(file') /\ touched' \subseteq Procs
  BY <1>1, <1>2, Mover, OpenDisk DEF WorkInv
<1>4. IsSequence(made) /\ Len(made) = 1
  BY DEF IsSequence
<1> HIDE DEF i, made
<1>5. Len(file') \in Nat
  BY <1>3 DEF Disk, IsSequence
<1>6. Typed(After(proc[p], change), Len(file'))
  <2>1. Typed(proc[p], Len(file'))
    BY <1>3, <1>5, Mover, TypedMore
  <2>2. QED
    BY <1>1, <1>3, <1>4, <1>5, <2>1 DEF Typed, After, Fields, Stops, Outside
<1> HIDE DEF change
<1>7. QED
  BY <1>1, <1>3, <1>6, Mover, Becoming, OneMoves

LEMMA SealBlockKeeps ==
  ASSUME WorkInv, NEW p \in Started, plan' = plan, SealBlock(p) PROVE WorkInv'
<1> DEFINE k == proc[p].pos + 1
           made == Append(proc[p].made, Block(p, KeyOf(p), k, NextCell(p)))
           change == [pos |-> k, made |-> made]
<1>1. proc[p].pc = "seal" /\ FilesStay
  BY DEF SealBlock, At
<1>2. CASE Return(p, "died")
  BY <1>1, <1>2, Returning
<1>3. CASE Become(p, change)
  <2>1. /\ IsSequence(made) /\ Len(made) = Len(proc[p].made) + 1 /\ Len(proc[p].made) \in Nat
    BY Mover, Appending DEF Typed
  <2>2. k \in Nat
    BY Mover DEF Typed
  <2> HIDE DEF k, made
  <2>3. Typed(After(proc[p], change), Len(file))
    BY <1>1, <2>1, <2>2, Mover DEF Typed, After, Fields, Stops, Outside
  <2>4. QED
    BY <1>1, <1>3, <2>3, GoingOn
<1>4. QED
  BY <1>2, <1>3 DEF SealBlock

LEMMA SealEndKeeps ==
  ASSUME WorkInv, NEW p \in Started, plan' = plan, SealEnd(p) PROVE WorkInv'
<1> DEFINE data == Append(proc[p].made, Block(p, KeyOf(p), proc[p].pos + 1, Pad))
           made == Append(data, Mac(KeyOf(p), p, data))
           change == [pc |-> "close", result |-> "0", made |-> made]
<1>1. proc[p].pc = "seal" /\ FilesStay /\ Become(p, change)
  BY DEF SealEnd, At
<1>2. /\ IsSequence(data) /\ Len(data) = Len(proc[p].made) + 1 /\ Len(proc[p].made) \in Nat
  BY Mover, Appending DEF Typed
<1> HIDE DEF data
<1>3. IsSequence(made) /\ Len(made) = Len(proc[p].made) + 2
  <2>1. IsSequence(made) /\ Len(made) = Len(data) + 1
    BY <1>2, Appending
  <2>2. QED
    BY <1>2, <2>1
<1> HIDE DEF made
<1>4. Typed(After(proc[p], change), Len(file))
  BY <1>1, <1>2, <1>3, Mover DEF Typed, After, Fields, Stops, Outside
<1>5. QED
  BY <1>1, <1>4, GoingOn

LEMMA ReadHeadKeeps ==
  ASSUME WorkInv, NEW p \in Started, plan' = plan, ReadHead(p) PROVE WorkInv'
<1> DEFINE change == [pc |-> "measure", got |-> <<NextCell(p)>>]
<1>1. proc[p].pc = "head" /\ FilesStay
  BY DEF ReadHead, At
<1>2. CASE Return(p, "-1")
  BY <1>1, <1>2, Returning
<1>3. CASE Become(p, change)
  <2>1. Typed(After(proc[p], change), Len(file))
    BY <1>1, Mover DEF Typed, After, Fields, Stops, Outside
  <2>2. QED
    BY <1>1, <1>3, <2>1, GoingOn
<1>4. QED
  BY <1>2, <1>3 DEF ReadHead

\* The length of a file that is open.
LEMMA MeasuredType ==
  ASSUME WorkInv, NEW p \in Started, proc[p].pc \notin Outside
  PROVE  proc[p].in \in 1 .. Len(file) /\ IsSequence(file[proc[p].in]) /\ Measured(p) \in Nat
<1>1. proc[p].in \in 1 .. Len(file)
  BY Mover DEF Typed, None
<1>2. QED
  BY <1>1, Mover DEF Disk, IsSequence, Measured

LEMMA MeasureSealedKeeps ==
  ASSUME WorkInv, NEW p \in Started, plan' = plan, MeasureSealed(p) PROVE WorkInv'
<1> DEFINE n == Measured(p)
           change == [pc |-> "mac", size |-> n - 2]
<1>1. proc[p].pc = "measure" /\ FilesStay
  BY DEF MeasureSealed, At
<1>2. n \in Nat
  BY <1>1, MeasuredType DEF Outside
<1>3. CASE Return(p, "-1")
  BY <1>1, <1>3, Returning
<1>4. CASE ~(n <= 2) /\ Become(p, change)
  <2> HIDE DEF n
  <2>1. n - 2 \in Nat /\ n - 2 > 0
    BY <1>2, <1>4
  <2>2. Typed(After(proc[p], change), Len(file))
    BY <1>1, <2>1, Mover DEF Typed, After, Fields, Stops, Outside
  <2>3. QED
    BY <1>1, <1>4, <2>2, GoingOn
<1>5. QED
  BY <1>3, <1>4 DEF MeasureSealed
LEMMA ReadMacKeeps ==
  ASSUME WorkInv, NEW p \in Started, plan' = plan, ReadMac(p) PROVE WorkInv'
<1> DEFINE mac == Last(file[proc[p].in])
           change == [pc |-> "verify", mac |-> mac, pos |-> 1]
<1>1. proc[p].pc = "mac" /\ FilesStay
  BY DEF ReadMac, At
<1>2. CASE Return(p, "-1")
  BY <1>1, <1>2, Returning
<1>3. CASE Become(p, change)
  <2> HIDE DEF mac
  <2>1. Typed(After(proc[p], change), Len(file))
    BY <1>1, Mover DEF Typed, After, Fields, Stops, Outside
  <2>2. QED
    BY <1>1, <1>3, <2>1, GoingOn
<1>4. QED
  BY <1>2, <1>3 DEF ReadMac

LEMMA ReadBlockKeeps ==
  ASSUME WorkInv, NEW p \in Started, plan' = plan, ReadBlock(p) PROVE WorkInv'
<1> DEFINE got == Append(proc[p].got, NextCell(p))
           change == [pos |-> proc[p].pos + 1, got |-> got]
<1>1. proc[p].pc = "verify" /\ proc[p].pos <= proc[p].size /\ FilesStay /\ Become(p, change)
  BY DEF ReadBlock, At
<1> HIDE DEF got
<1>2. Typed(After(proc[p], change), Len(file))
  BY <1>1, Mover DEF Typed, After, Fields, Stops, Outside
<1>3. QED
  BY <1>1, <1>2, GoingOn

LEMMA VerifyKeeps ==
  ASSUME WorkInv, NEW p \in Started, plan' = plan, Verify(p) PROVE WorkInv'
<1> DEFINE change == [pc |-> "open_output"]
<1>1. proc[p].pc = "verify" /\ FilesStay
  BY DEF Verify, At
<1>2. CASE Return(p, "-1")
  BY <1>1, <1>2, Returning
<1>3. CASE Become(p, change)
  <2>1. Typed(After(proc[p], change), Len(file))
    BY <1>1, Mover DEF Typed, After, Fields, Stops, Outside
  <2>2. QED
    BY <1>1, <1>3, <2>1, GoingOn
<1>4. QED
  BY <1>2, <1>3 DEF Verify

LEMMA OpenPlainKeeps ==
  ASSUME WorkInv, NEW p \in Started, plan' = plan, OpenPlain(p) PROVE WorkInv'
<1> DEFINE name == OutputName(plan[p].file, "dec")
           i == dir'[name]
           got == <<Header(Salt(p), proc[p].got[1][3])>>
           change == [pc |-> "unseal", out |-> i, pos |-> 1, mac |-> <<>>, got |-> got]
<1>1. proc[p].pc = "open_output" /\ OpenForWriting(name, Procs) /\ Become(p, change)
  BY DEF OpenPlain, At
<1>2. name \in Seq(Parts)
  BY Mover, OutputNameType, WorkspaceAssumption
<1> HIDE DEF name
<1>3. Disk' /\ Len(file) <= Len(file') /\ i \in 1 .. Len(file') /\ touched' \subseteq Procs
  BY <1>1, <1>2, Mover, OpenDisk DEF WorkInv
<1> HIDE DEF i, got
<1>4. Len(file') \in Nat
  BY <1>3 DEF Disk, IsSequence
<1>5. Typed(After(proc[p], change), Len(file'))
  <2>1. Typed(proc[p], Len(file'))
    BY <1>3, <1>4, Mover, TypedMore
  <2>2. QED
    BY <1>1, <1>3, <1>4, <2>1 DEF Typed, After, Fields, Stops, Outside
<1> HIDE DEF change
<1>6. QED
  BY <1>1, <1>3, <1>5, Mover, Becoming, OneMoves

LEMMA UnsealBlockKeeps ==
  ASSUME WorkInv, NEW p \in Started, plan' = plan, UnsealBlock(p) PROVE WorkInv'
<1> DEFINE got == <<NextCell(p)>>
           made == Append(proc[p].made, Opened(NextCell(p), proc[p].got[1], KeyOf(p)))
           change == [pos |-> proc[p].pos + 1, got |-> got, made |-> made]
<1>1. proc[p].pc = "unseal" /\ proc[p].pos < proc[p].size /\ FilesStay /\ Become(p, change)
  BY DEF UnsealBlock, At
<1>2. /\ IsSequence(made) /\ Len(made) = Len(proc[p].made) + 1 /\ Len(proc[p].made) \in Nat
  BY Mover, Appending DEF Typed
<1> HIDE DEF got, made
<1>3. Typed(After(proc[p], change), Len(file))
  BY <1>1, <1>2, Mover DEF Typed, After, Fields, Stops, Outside
<1>4. QED
  BY <1>1, <1>3, GoingOn

LEMMA UnsealLastKeeps ==
  ASSUME WorkInv, NEW p \in Started, plan' = plan, UnsealLast(p) PROVE WorkInv'
<1> DEFINE made == Append(proc[p].made, Junk)
           more == [pc |-> "close", result |-> "0", made |-> made]
           end(r) == [pc |-> "close", result |-> r]
<1>1. proc[p].pc = "unseal" /\ FilesStay
  BY DEF UnsealLast, At
<1>2. ASSUME NEW r \in {"0", "-1"}, Become(p, end(r)) PROVE WorkInv'
  <2>1. Typed(After(proc[p], end(r)), Len(file))
    BY <1>1, Mover DEF Typed, After, Fields, Stops, Outside
  <2>2. QED
    BY <1>1, <1>2, <2>1, GoingOn
<1>3. CASE Become(p, more)
  <2>1. /\ IsSequence(made) /\ Len(made) = Len(proc[p].made) + 1 /\ Len(proc[p].made) \in Nat
    BY Mover, Appending DEF Typed
  <2> HIDE DEF made
  <2>2. Typed(After(proc[p], more), Len(file))
    BY <1>1, <2>1, Mover DEF Typed, After, Fields, Stops, Outside
  <2>3. QED
    BY <1>1, <1>3, <2>2, GoingOn
<1>4. Become(p, end("0")) \/ Become(p, end("-1")) \/ Become(p, more)
  BY DEF UnsealLast
<1> HIDE DEF end, more
<1>5. QED
  BY <1>2, <1>3, <1>4
LEMMA FlushKeeps ==
  ASSUME WorkInv, NEW p \in Started, plan' = plan, Flush(p) PROVE WorkInv'
<1> DEFINE k == proc[p].flushed + 1
           change == [flushed |-> k]
<1>1. /\ proc[p].out # None /\ proc[p].flushed < Len(proc[p].made)
      /\ PutCell(p, proc[p].out, k, proc[p].made[k]) /\ Become(p, change)
  BY DEF Flush
<1>2. /\ Len(proc[p].made) \in Nat /\ proc[p].flushed \in Nat
      /\ proc[p].out \in 1 .. Len(file) /\ proc[p].pc \in {"seal", "unseal", "close"}
  <2>1. /\ proc[p].flushed \in 0 .. Len(proc[p].made) /\ IsSequence(proc[p].made)
        /\ proc[p].out \in 0 .. Len(file)
    BY Mover, Zenon DEF Typed
  <2>2. proc[p].pc \in {"seal", "unseal", "close"}
    BY <1>1, Mover DEF Typed
  <2>3. Len(file) \in Nat /\ Len(proc[p].made) \in Nat
    BY <2>1, Mover DEF IsSequence
  <2>4. QED
    BY <1>1, <2>1, <2>2, <2>3 DEF None
<1>3. k \in Nat \ {0} /\ k <= Len(proc[p].made)
  BY <1>1, <1>2
<1>4. Disk' /\ Len(file') = Len(file) /\ Len(file) \in Nat /\ touched' \subseteq Procs
  <2> DEFINE cell == proc[p].made[k]
  <2> HIDE DEF k, cell
  <2>1. PutCell(p, proc[p].out, k, cell)
    BY <1>1 DEF cell
  <2>2. QED
    BY <1>2, <1>3, <2>1, Mover, PutDisk DEF WorkInv
<1> HIDE DEF k
<1>5. Typed(After(proc[p], change), Len(file'))
  BY <1>2, <1>3, <1>4, Mover DEF Typed, After, Fields, Stops, Outside
<1> HIDE DEF change
<1>6. Len(file) <= Len(file')
  BY <1>4
<1>7. QED
  BY <1>1, <1>4, <1>5, <1>6, Mover, Becoming, OneMoves

LEMMA CloseKeeps ==
  ASSUME WorkInv, NEW p \in Started, plan' = plan, Close(p) PROVE WorkInv'
<1>1. proc[p].result \in {"0", "-1", "1", "died"}
  BY Mover DEF Close, Typed
<1>2. QED
  BY <1>1, Returning DEF Close
LEMMA MeasureFileKeeps ==
  ASSUME WorkInv, NEW p \in Started, plan' = plan, MeasureFile(p) PROVE WorkInv'
<1> DEFINE n == Measured(p)
           stop == IF n = 0 THEN "unlink" ELSE "wipe"
           change == [pc |-> stop, size |-> n]
<1>1. proc[p].pc = "measure" /\ FilesStay /\ Become(p, change)
  BY DEF MeasureFile, At
<1>2. n \in Nat
  BY <1>1, MeasuredType DEF Outside
<1>3. /\ stop \in {"unlink", "wipe"} /\ (stop = "wipe" => n > 0)
      /\ 0 \in 0 .. Passes * n
  <2> HIDE DEF n
  <2>1. Passes * n \in Nat
    BY <1>2, WorkspaceAssumption
  <2>2. QED
    BY <1>2, <2>1
<1> HIDE DEF n, stop
<1>4. Typed(After(proc[p], change), Len(file))
  BY <1>1, <1>2, <1>3, Mover DEF Typed, After, Fields, Stops, Outside
<1>5. QED
  BY <1>1, <1>4, GoingOn

\* Where shred writes.
LEMMA TargetIs ==
  ASSUME NEW p, proc[p].size \in Nat \ {0}, proc[p].pos \in Nat
  PROVE  Target(p) \in 1 .. proc[p].size
<1> DEFINE n == proc[p].size
           k == proc[p].pos
<1>1. k % n \in 0 .. n - 1
  <2> HIDE DEF n, k
  <2>1. ASSUME NEW a \in Nat, NEW b \in Nat \ {0} PROVE a % b \in 0 .. b - 1
    OBVIOUS
  <2>2. QED
    BY <2>1 DEF n, k
<1>2. Target(p) = (k % n) + 1
  BY DEF Target
<1> HIDE DEF k
<1>3. QED
  BY <1>1, <1>2

LEMMA WipeKeeps ==
  ASSUME WorkInv, NEW p \in Started, plan' = plan, Wipe(p) PROVE WorkInv'
<1> DEFINE change == [pos |-> proc[p].pos + 1]
           cell == Wiped((proc[p].pos \div proc[p].size) + 1)
           k == Target(p)
<1>1. /\ proc[p].pc = "wipe" /\ proc[p].pos < Passes * proc[p].size
      /\ PutCell(p, proc[p].in, k, cell) /\ Become(p, change)
  BY DEF Wipe, At
<1>2. proc[p].size \in Nat \ {0} /\ proc[p].pos \in Nat
  BY <1>1, Mover DEF Typed
<1>3. k \in Nat \ {0}
  BY <1>2, TargetIs
<1>4. proc[p].in \in 1 .. Len(file)
  BY <1>1, MeasuredType DEF Outside
<1> HIDE DEF cell, k
<1>5. Disk' /\ Len(file') = Len(file) /\ Len(file) \in Nat /\ touched' \subseteq Procs
  BY <1>1, <1>3, <1>4, Mover, PutDisk DEF WorkInv
<1>6. Typed(After(proc[p], change), Len(file'))
  <2> DEFINE m == Passes * proc[p].size
  <2>1. m \in Nat /\ proc[p].pos < m
    BY <1>1, <1>2, WorkspaceAssumption
  <2>2. proc[p].pos + 1 \in 0 .. m
    <3> HIDE DEF m
    <3>1. QED
      BY <1>2, <2>1
  <2>3. QED
    BY <1>1, <1>2, <1>5, <2>2, Mover DEF Typed, After, Fields, Stops, Outside
<1> HIDE DEF change
<1>7. Len(file) <= Len(file')
  BY <1>5
<1>8. QED
  BY <1>1, <1>5, <1>6, <1>7, Mover, Becoming, OneMoves

LEMMA TruncateKeeps ==
  ASSUME WorkInv, NEW p \in Started, plan' = plan, Truncate(p) PROVE WorkInv'
<1> DEFINE name == plan[p].file
           change == [pc |-> "unlink"]
           others == Procs \ {p}
<1>1. /\ proc[p].pc = "wipe" /\ OpenForWriting(name, others) /\ Become(p, change)
  BY DEF Truncate, At
<1>2. name \in Seq(Parts)
  BY Mover
<1> HIDE DEF name
<1>3. Disk' /\ Len(file) <= Len(file') /\ touched' \subseteq Procs
  <2>1. touched' \subseteq touched \cup others /\ Disk' /\ Len(file) <= Len(file')
    <3> HIDE DEF others
    <3>1. QED
      BY <1>1, <1>2, Mover, OpenDisk
  <2>2. QED
    BY <2>1 DEF WorkInv
<1>4. Len(file') \in Nat
  BY <1>3 DEF Disk, IsSequence
<1>5. Typed(After(proc[p], change), Len(file'))
  <2>1. Typed(proc[p], Len(file'))
    BY <1>3, <1>4, Mover, TypedMore
  <2>2. QED
    BY <1>1, <2>1 DEF Typed, After, Fields, Stops, Outside
<1> HIDE DEF change
<1>6. QED
  BY <1>1, <1>3, <1>5, Mover, Becoming, OneMoves

LEMMA UnlinkKeeps ==
  ASSUME WorkInv, NEW p \in Started, plan' = plan, Unlink(p) PROVE WorkInv'
<1> DEFINE value == IF plan[p].file \in DOMAIN dir THEN "0" ELSE "-1"
<1>1. /\ dir' = Restrict(dir, DOMAIN dir \ {plan[p].file})
      /\ Return(p, value) /\ file' = file /\ touched' = touched
  BY DEF Unlink
<1>2. Disk' /\ Len(file) <= Len(file') /\ touched' \subseteq Procs /\ Len(file') \in Nat
  <2>1. \A n \in DOMAIN dir' : n \in DOMAIN dir /\ dir'[n] = dir[n]
    BY <1>1 DEF Restrict
  <2>2. Disk /\ touched \subseteq Procs /\ Len(file) \in Nat
    BY Mover DEF WorkInv
  <2>3. Disk'
    <3>1. \A name \in DOMAIN dir' : name \in Seq(Parts) /\ dir'[name] \in 1 .. Len(file)
      BY <2>1, <2>2, Zenon DEF Disk
    <3>2. QED
      BY <1>1, <2>2, <3>1 DEF Disk
  <2>4. QED
    BY <1>1, <2>2, <2>3
<1>3. value \in {"0", "-1", "1", "died"}
  OBVIOUS
<1> HIDE DEF value
<1>4. Typed(proc'[p], Len(file'))
  BY <1>1, <1>2, <1>3, Mover, ReturnTypes
<1>5. QED
  BY <1>1, <1>2, <1>4, Mover, Becoming, OneMoves DEF Return
LEMMA KillKeeps ==
  ASSUME WorkInv, NEW p \in Procs, Kill(p) PROVE WorkInv'
<1>1. p \in Started
  BY DEF Kill, Ended, WorkInv, Planned
<1>2. QED
  BY <1>1, Returning DEF Kill

LEMMA StepStarted ==
  ASSUME WorkInv, NEW p \in Procs, Step(p)
  PROVE  p \in Started /\ plan' = plan
<1> SUFFICES p \in Started
  BY DEF Step
<1>1. CASE Flush(p)
  <2>1. proc[p].out # None
    BY <1>1 DEF Flush
  <2>2. proc[p].pc # "done"
    BY <2>1, Zenon DEF WorkInv, Typed
  <2>3. QED
    BY <2>2 DEF WorkInv, Planned
<1>2. CASE proc[p].pc # "done"
  BY <1>2 DEF WorkInv, Planned
<1>3. Flush(p) \/ proc[p].pc # "done"
  BY DEF Step, Dispatch, Check, Open, Close, MeasureInput, OpenSealed, SealBlock, SealEnd,
         ReadHead, MeasureSealed, ReadMac, ReadBlock, Verify, OpenPlain, UnsealBlock,
         UnsealLast, MeasureFile, Wipe, Truncate, Unlink, At
<1>4. QED
  BY <1>1, <1>2, <1>3

LEMMA StepKeeps ==
  ASSUME WorkInv, NEW p \in Procs, Step(p) PROVE WorkInv'
BY StepStarted, DispatchKeeps, CheckKeeps, OpenKeeps, FlushKeeps, CloseKeeps,
   MeasureInputKeeps, OpenSealedKeeps, SealBlockKeeps, SealEndKeeps, ReadHeadKeeps,
   MeasureSealedKeeps, ReadMacKeeps, ReadBlockKeeps, VerifyKeeps, OpenPlainKeeps,
   UnsealBlockKeeps, UnsealLastKeeps, MeasureFileKeeps, WipeKeeps, TruncateKeeps,
   UnlinkKeeps, Zenon
   DEF Step

LEMMA InitWork == ASSUME Init PROVE WorkInv
<1>1. PICK scene \in Scenes :
        /\ plan = scene[1]
        /\ file = [i \in DOMAIN scene[2] |-> scene[2][i][2]]
        /\ dir = [name \in {scene[2][i][1] : i \in DOMAIN scene[2]} |->
                    CHOOSE i \in DOMAIN scene[2] : scene[2][i][1] = name]
  BY DEF Init
<1> DEFINE disk == scene[2]
<1>2. /\ IsSequence(disk)
      /\ \A i \in DOMAIN disk : disk[i][1] \in Seq(Parts) /\ IsSequence(disk[i][2])
      /\ \A p \in Procs : scene[1][p] # NoCommand =>
           scene[1][p].verb \in Verbs /\ scene[1][p].file \in Seq(Parts)
  BY ScenesAssumption
<1>3. DOMAIN disk = 1 .. Len(disk) /\ Len(disk) \in Nat
  BY <1>2, OfSequence
<1>4. Disk
  <2>1. IsSequence(file) /\ Len(file) = Len(disk)
    <3>1. file = [i \in 1 .. Len(disk) |-> file[i]]
      BY <1>1, <1>3
    <3>2. QED
      BY <1>3, <3>1, FunctionIs
  <2>2. \A k \in 1 .. Len(file) : IsSequence(file[k])
    BY <1>1, <1>2, <1>3, <2>1
  <2>3. ASSUME NEW name \in DOMAIN dir
        PROVE  name \in Seq(Parts) /\ dir[name] \in 1 .. Len(file)
    <3>1. dir[name] = CHOOSE i \in DOMAIN disk : disk[i][1] = name
      BY <1>1, <2>3
    <3>2. PICK i \in DOMAIN disk : disk[i][1] = name
      BY <1>1, <2>3
    <3>3. dir[name] \in DOMAIN disk
      BY <3>1, <3>2
    <3>4. QED
      BY <1>2, <1>3, <2>1, <3>2, <3>3
  <2>4. QED
    BY <2>1, <2>2, <2>3 DEF Disk
<1>5. Planned
  <2>1. \A p \in Started : plan[p].verb \in Verbs /\ plan[p].file \in Seq(Parts)
    BY <1>1, <1>2 DEF Started
  <2>2. \A p \in Procs \ Started : proc[p] = [Fresh EXCEPT !.pc = "done"]
    BY DEF Init
  <2>3. [Fresh EXCEPT !.pc = "done"].pc = "done"
    BY FreshIs DEF Fields
  <2>4. QED
    BY <2>1, <2>2, <2>3 DEF Planned
<1>6. ASSUME NEW p \in Procs PROVE Typed(proc[p], Len(file))
  <2>1. Len(file) \in Nat
    BY <1>4 DEF Disk, IsSequence
  <2>2. Typed(Fresh, Len(file))
    BY <2>1, FreshIs, EmptySequence DEF Typed, Stops, Outside, None
  <2>3. Typed([Fresh EXCEPT !.pc = "done"], Len(file))
    <3> DEFINE r == [Fresh EXCEPT !.pc = "done"]
    <3>1. /\ DOMAIN r = Fields /\ r.pc = "done" /\ r.result = "none"
          /\ r.in = None /\ r.out = None /\ r.size = 0 /\ r.pos = 0
          /\ r.made = <<>> /\ r.flushed = 0
      BY FreshIs DEF Fields
    <3> HIDE DEF r
    <3>2. Typed(r, Len(file))
      BY <2>1, <3>1, EmptySequence DEF Typed, Stops, Outside, None
    <3>3. QED
      BY <3>2 DEF r
  <2>4. QED
    BY <2>2, <2>3 DEF Init
<1>7. DOMAIN proc = Procs /\ touched \subseteq Procs
  BY DEF Init
<1>8. QED
  BY <1>4, <1>5, <1>6, <1>7 DEF WorkInv

LEMMA NextWork == ASSUME WorkInv, [Next]_vars PROVE WorkInv'
<1>1. ASSUME NEW p \in Procs, Step(p) \/ Kill(p) PROVE WorkInv'
  BY <1>1, StepKeeps, KillKeeps
<1>2. CASE UNCHANGED vars
  <2>1. proc' = proc /\ dir' = dir /\ file' = file /\ plan' = plan /\ touched' = touched
    BY <1>2 DEF vars
  <2>2. Disk' /\ Planned'
    BY <2>1 DEF WorkInv, Disk, Planned, Started
  <2>3. QED
    BY <2>1, <2>2 DEF WorkInv
<1>3. QED
  BY <1>1, <1>2 DEF Next, Finished

LEMMA AlwaysWork == Spec => []WorkInv
BY InitWork, NextWork, PTL DEF Spec

LEMMA WorkTypes == ASSUME WorkInv PROVE TypeOK
<1>1. Disk /\ Len(file) \in Nat /\ DOMAIN file = 1 .. Len(file) /\ touched \subseteq Procs
  BY OfSequence DEF WorkInv, Disk
<1>2. DOMAIN dir \subseteq Seq(Parts) /\ \A name \in DOMAIN dir : dir[name] \in DOMAIN file
  BY <1>1 DEF Disk
<1>3. ASSUME NEW p \in Procs
      PROVE  /\ proc[p].result \in {"none", "0", "-1", "1", "died"}
             /\ Held(p) \subseteq DOMAIN file
             /\ proc[p].flushed \in 0 .. Len(proc[p].made)
             /\ proc[p].pc = "verify" => proc[p].pos \in 1 .. proc[p].size + 1
             /\ proc[p].pc = "unseal" => proc[p].pos \in 1 .. proc[p].size
             /\ proc[p].pc = "wipe" => proc[p].pos \in 0 .. Passes * proc[p].size
  <2>1. Typed(proc[p], Len(file))
    BY DEF WorkInv
  <2>2. Held(p) \subseteq DOMAIN file
    <3>1. proc[p].in \in 0 .. Len(file) /\ proc[p].out \in 0 .. Len(file)
      BY <2>1, Zenon DEF Typed
    <3>2. QED
      BY <1>1, <3>1 DEF Held, None
  <2>3. QED
    BY <2>1, <2>2, Zenon DEF Typed
<1>4. QED
  BY <1>1, <1>2, <1>3, Zenon DEF TypeOK

THEOREM WorkspaceTypes == Spec => []TypeOK
BY AlwaysWork, WorkTypes, PTL
-----------------------------------------------------------------------------
(* Names that differ only in the extension *)

\* The stem is what OutputName keeps.
LEMMA StemIsBase == ASSUME NEW name \in Seq(Parts) PROVE Stem(name) = Base(name)
<1> DEFINE d == LastOf(name, ".")
           s == LastOf(name, "/")
           dots == {k \in DOMAIN name :
                      name[k] = "." /\ \A j \in k + 1 .. Len(name) : name[j] \notin {".", "/"}}
<1>1. Len(name) \in Nat /\ DOMAIN name = 1 .. Len(name)
  BY LenProperties
<1>2. /\ d \in 0 .. Len(name) /\ s \in 0 .. Len(name)
      /\ d > 0 => name[d] = "."
      /\ s > 0 => name[s] = "/"
      /\ \A k \in d + 1 .. Len(name) : name[k] # "."
      /\ \A k \in s + 1 .. Len(name) : name[k] # "/"
  BY <1>1, LastPlace
<1> HIDE DEF d, s
<1>3. CASE d > s
  <2>1. d \in dots
    <3>1. d \in 1 .. Len(name)
      BY <1>1, <1>2, <1>3
    <3>2. \A j \in d + 1 .. Len(name) : j \in s + 1 .. Len(name)
      BY <1>1, <1>2, <1>3
    <3>3. QED
      BY <1>1, <1>2, <3>1, <3>2
  <2>2. ASSUME NEW k \in dots PROVE k = d
    <3>1. k \in 1 .. Len(name) /\ name[k] = "." /\ \A j \in k + 1 .. Len(name) : name[j] # "."
      BY <1>1, <2>2
    <3>2. ~(k > d)
      BY <1>1, <1>2, <3>1
    <3>3. ~(d > k)
      <4>1. SUFFICES ASSUME d > k PROVE FALSE
        OBVIOUS
      <4>2. d \in k + 1 .. Len(name)
        BY <1>1, <1>2, <3>1, <4>1
      <4>3. QED
        BY <1>2, <1>1, <3>1, <4>2
    <3>4. QED
      BY <1>1, <1>2, <3>1, <3>2, <3>3
  <2> HIDE DEF dots
  <2>3. (CHOOSE k \in dots : TRUE) = d /\ dots # {}
    BY <2>1, <2>2
  <2>4. Stem(name) = SubSeq(name, 1, (CHOOSE k \in dots : TRUE) - 1)
    BY <2>3 DEF Stem, dots
  <2>5. QED
    BY <1>3, <2>3, <2>4 DEF Base, d, s
<1>4. CASE ~(d > s)
  <2>1. ASSUME NEW k \in dots PROVE FALSE
    <3>1. /\ k \in 1 .. Len(name) /\ name[k] = "."
          /\ \A j \in k + 1 .. Len(name) : name[j] # "/"
      BY <1>1, <2>1
    <3>2. k <= d
      BY <1>1, <1>2, <3>1
    <3>3. s > 0 /\ name[s] = "/" /\ k # s /\ k <= s
      BY <1>1, <1>2, <1>4, <3>1, <3>2
    <3>4. s \in k + 1 .. Len(name)
      BY <1>1, <1>2, <3>1, <3>3
    <3>5. QED
      BY <3>1, <3>3, <3>4
  <2>2. dots = {}
    BY <2>1
  <2>3. Stem(name) = name
    BY <2>2 DEF Stem
  <2>4. QED
    BY <1>4, <2>3 DEF Base, d, s
<1>5. QED
  BY <1>3, <1>4

LEMMA StemOfBase ==
  ASSUME NEW b \in Seq(Parts), NEW ext \in {"enc", "dec"}
  PROVE  Stem(b \o <<".", ext>>) = b
<1> DEFINE t == <<".", ext>>
           name == b \o t
           n == Len(b)
           dots == {k \in DOMAIN name :
                      name[k] = "." /\ \A j \in k + 1 .. Len(name) : name[j] \notin {".", "/"}}
<1>1. /\ t \in Seq(Parts) /\ Len(t) = 2 /\ t[1] = "." /\ t[2] = ext
  <2>1. "." \in Parts /\ ext \in Parts
    BY WorkspaceAssumption
  <2>2. \A x, y : x \in Parts /\ y \in Parts => <<x, y>> \in Seq(Parts)
    OBVIOUS
  <2>3. QED
    BY <2>1, <2>2
<1>2. n \in Nat
  BY LenProperties
<1> HIDE DEF t
<1>3. /\ name \in Seq(Parts) /\ Len(name) = n + 2
      /\ \A k \in 1 .. n : name[k] = b[k]
      /\ name[n + 1] = "." /\ name[n + 2] = ext
  <2>1. name \in Seq(Parts) /\ Len(name) = Len(b) + Len(t)
    BY <1>1, ConcatProperties
  <2>2. \A k \in 1 .. Len(b) + Len(t) : name[k] = IF k <= Len(b) THEN b[k] ELSE t[k - Len(b)]
    BY <1>1, ConcatProperties
  <2>3. /\ n + 1 \in 1 .. n + 2 /\ n + 2 \in 1 .. n + 2 /\ ~(n + 1 <= n) /\ ~(n + 2 <= n)
        /\ n + 1 - n = 1 /\ n + 2 - n = 2
    BY <1>2
  <2>4. \A k \in 1 .. n : k \in 1 .. n + 2 /\ k <= n
    BY <1>2
  <2>5. QED
    BY <1>1, <2>1, <2>2, <2>3, <2>4
<1>4. DOMAIN name = 1 .. n + 2
  BY <1>3, LenProperties
<1> HIDE DEF name, n
<1>5. dots = {n + 1}
  <2>1. n + 1 \in dots
    <3>1. \A j \in n + 1 + 1 .. n + 2 : j = n + 2
      BY <1>2
    <3>2. ext \notin {".", "/"} /\ n + 1 \in 1 .. n + 2
      BY <1>2
    <3>3. QED
      BY <1>3, <1>4, <3>1, <3>2
  <2>2. ASSUME NEW k \in dots PROVE k = n + 1
    <3>1. /\ k \in 1 .. n + 2 /\ name[k] = "."
          /\ \A j \in k + 1 .. n + 2 : name[j] # "."
      BY <1>3, <1>4
    <3>2. k # n + 2
      BY <1>3, <3>1
    <3>3. ~(k < n + 1)
      <4>1. SUFFICES ASSUME k < n + 1 PROVE FALSE
        OBVIOUS
      <4>2. n + 1 \in k + 1 .. n + 2
        BY <1>2, <3>1, <4>1
      <4>3. QED
        BY <1>3, <3>1, <4>2
    <3>4. QED
      BY <1>2, <3>1, <3>2, <3>3
  <2>3. QED
    BY <2>1, <2>2
<1>6. (CHOOSE k \in dots : TRUE) = n + 1 /\ dots # {}
  BY <1>5
<1>7. Stem(name) = SubSeq(name, 1, (CHOOSE k \in dots : TRUE) - 1)
  BY <1>6 DEF Stem
<1>8. Stem(name) = SubSeq(name, 1, n)
  <2>1. n + 1 - 1 = n
    BY <1>2
  <2> DEFINE c == CHOOSE k \in dots : TRUE
  <2>2. c = n + 1 /\ Stem(name) = SubSeq(name, 1, c - 1)
    BY <1>6, <1>7, Zenon
  <2> HIDE DEF c
  <2>3. c - 1 = n
    <3>1. c = n + 1
      BY <2>2
    <3>2. QED
      BY <1>2, <3>1
  <2>4. QED
    BY <2>2, <2>3, Zenon
<1>9. SubSeq(name, 1, n) = b
  <2>1. /\ SubSeq(name, 1, n) \in Seq(Parts) /\ Len(SubSeq(name, 1, n)) = n
        /\ \A k \in 1 .. n : SubSeq(name, 1, n)[k] = name[k]
    <3>1. n \in 0 .. Len(name)
      BY <1>2, <1>3
    <3>2. QED
      BY <1>3, <3>1, FirstPart
  <2>2. b \in Seq(Parts) /\ Len(b) = n
    BY DEF n
  <2>3. QED
    BY <1>3, <2>1, <2>2, SeqEqual
<1>10. QED
  BY <1>8, <1>9 DEF name, t

LEMMA StemOfOutput ==
  ASSUME NEW name \in Seq(Parts), NEW ext \in {"enc", "dec"}
  PROVE  Stem(OutputName(name, ext)) = Stem(Kept(name))
<1>1. OutputName(name, ext) = Base(Kept(name)) \o <<".", ext>>
  BY OutputNameIs
<1>2. Kept(name) \in Seq(Parts)
  BY KeptName
<1>3. Base(Kept(name)) \in Seq(Parts)
  BY <1>2, BaseName
<1>4. QED
  BY <1>1, <1>2, <1>3, StemOfBase, StemIsBase
-----------------------------------------------------------------------------
(* Who disturbs whom *)

\* What OnlyKinInterfere says of one process.
Kin(p) ==
  \/ \E q \in Started \ {p} : Stems(plan[q].file) \cap Stems(plan[p].file) /= {}
  \/ plan[p].file \in {OutputName(plan[p].file, ext) : ext \in {"enc", "dec"}}

OutputOf(p, name) == \E ext \in {"enc", "dec"} : name = OutputName(plan[p].file, ext)

\* A name for every file, the one that it was opened by.
Named(name) ==
  /\ \A n \in DOMAIN dir : name[dir[n]] = n
  /\ \A p \in Started :
       /\ proc[p].in # None => name[proc[p].in] = plan[p].file
       /\ proc[p].out # None => OutputOf(p, name[proc[p].out])

KinInv == WorkInv /\ (\E name : Named(name)) /\ \A p \in touched : Kin(p)

LEMMA SameStem ==
  ASSUME WorkInv, NEW p \in Started, NEW n, n = plan[p].file \/ OutputOf(p, n)
  PROVE  Stem(n) \in Stems(plan[p].file)
BY Mover, StemOfOutput DEF OutputOf, Stems

\* A process that is disturbed by another, or by itself when it opens its output.
LEMMA DisturbedAreKin ==
  ASSUME WorkInv, NEW name, Named(name), NEW q \in Started, NEW i,
         name[i] = plan[q].file \/ OutputOf(q, name[i]),
         NEW p \in Procs, i \in Held(p),
         p = q => proc[p].out = None /\ OutputOf(q, name[i])
  PROVE  Kin(p)
<1>1. i # None /\ i \in {proc[p].in, proc[p].out}
  BY DEF Held
<1>2. p \in Started
  <2>1. proc[p].pc # "done"
    BY <1>1 DEF WorkInv, Typed, Outside, None
  <2>2. QED
    BY <2>1 DEF WorkInv, Planned
<1>3. name[i] = plan[p].file \/ OutputOf(p, name[i])
  BY <1>1, <1>2 DEF Named
<1>4. CASE p = q
  <2>1. name[i] = plan[p].file
    BY <1>1, <1>2, <1>4 DEF Named
  <2>2. QED
    BY <1>4, <2>1 DEF Kin, OutputOf
<1>5. CASE p # q
  <2>1. Stem(name[i]) \in Stems(plan[p].file) /\ Stem(name[i]) \in Stems(plan[q].file)
    BY <1>2, <1>3, SameStem
  <2>2. QED
    BY <1>5, <2>1 DEF Kin
<1>6. QED
  BY <1>4, <1>5

\* The operations that write nothing.
Quiet(p) ==
  /\ FilesStay
  /\ \A q \in Procs \ {p} : proc'[q] = proc[q]
  /\ \/ proc'[p].in = None
     \/ proc'[p].in = proc[p].in
     \/ plan[p].file \in DOMAIN dir /\ proc'[p].in = dir[plan[p].file]
  /\ proc'[p].out \in {None, proc[p].out}

LEMMA QuietNames ==
  ASSUME KinInv, NEW p \in Started, plan' = plan, Quiet(p), WorkInv'
  PROVE  KinInv'
<1>1. PICK name : Named(name)
  BY DEF KinInv
<1>2. Started' = Started /\ dir' = dir /\ touched' = touched /\ Started \subseteq Procs
  BY DEF Quiet, FilesStay, Started
<1>3. ASSUME NEW q \in Started
      PROVE  /\ proc'[q].in # None => name[proc'[q].in] = plan[q].file
             /\ proc'[q].out # None => OutputOf(q, name[proc'[q].out])
  <2>1. CASE q = p
    BY <1>1, <2>1 DEF Quiet, Named
  <2>2. CASE q # p
    BY <1>1, <1>2, <2>2 DEF Quiet, Named
  <2>3. QED
    BY <2>1, <2>2
<1>4. Named(name)'
  BY <1>1, <1>2, <1>3 DEF Named, OutputOf
<1>5. \A q \in touched' : Kin(q)'
  BY <1>2 DEF KinInv, Kin
<1>6. QED
  BY <1>4, <1>5 DEF KinInv

LEMMA ReturnIsQuiet ==
  ASSUME WorkInv, NEW p \in Started, NEW value, Return(p, value), FilesStay
  PROVE  Quiet(p)
<1>1. DOMAIN Fresh = Fields /\ Fresh.in = None /\ Fresh.out = None
  BY FreshIs
<1> DEFINE change == [Fresh EXCEPT !.pc = "done", !.result = value]
<1>2. /\ DOMAIN change = Fields /\ change.in = None /\ change.out = None
      /\ Become(p, change)
  BY <1>1 DEF Fields, Return
<1> HIDE DEF change
<1>3. proc'[p].in = None /\ proc'[p].out = None
  <2>1. proc'[p] = After(proc[p], change)
    BY <1>2, Mover, Becoming
  <2>2. QED
    BY <1>2, <2>1 DEF After, Fields
<1>4. QED
  BY <1>2, <1>3, Mover, Becoming DEF Quiet

LEMMA BecomeIsQuiet ==
  ASSUME WorkInv, NEW p \in Started, NEW change, Become(p, change), FilesStay,
         "in" \in DOMAIN change => plan[p].file \in DOMAIN dir
                                   /\ change["in"] = dir[plan[p].file],
         "out" \notin DOMAIN change
  PROVE  Quiet(p)
<1>1. /\ proc'[p] = After(proc[p], change)
      /\ \A q \in Procs \ {p} : proc'[q] = proc[q]
  BY Mover, Becoming
<1>2. QED
  BY <1>1 DEF Quiet, After, Fields
\* Every operation but those that write, create or unlink.
LEMMA MostAreQuiet ==
  ASSUME WorkInv, NEW p \in Started,
         \/ Dispatch(p) \/ Check(p) \/ Open(p) \/ Close(p) \/ MeasureInput(p)
         \/ SealBlock(p) \/ SealEnd(p) \/ ReadHead(p) \/ MeasureSealed(p) \/ ReadMac(p)
         \/ ReadBlock(p) \/ Verify(p) \/ UnsealBlock(p) \/ UnsealLast(p) \/ MeasureFile(p)
  PROVE  Quiet(p)
<1>1. FilesStay
  BY DEF Dispatch, Check, Open, Close, MeasureInput, SealBlock, SealEnd, ReadHead,
         MeasureSealed, ReadMac, ReadBlock, Verify, UnsealBlock, UnsealLast, MeasureFile
<1> DEFINE Back == \E value : Return(p, value)
           On == \E change : /\ Become(p, change)
                             /\ "in" \notin DOMAIN change /\ "out" \notin DOMAIN change
<1>2. CASE Back
  BY <1>1, <1>2, ReturnIsQuiet
<1>3. CASE On
  BY <1>1, <1>3, BecomeIsQuiet
<1>4. CASE Open(p)
  <2> DEFINE stop == IF plan[p].verb = "decode" THEN "head" ELSE "measure"
             change == [pc |-> stop, in |-> dir[plan[p].file]]
  <2>1. CASE plan[p].file \in DOMAIN dir /\ Become(p, change)
    <3>1. /\ change["in"] = dir[plan[p].file] /\ "out" \notin DOMAIN change
      OBVIOUS
    <3> HIDE DEF change
    <3>2. QED
      BY <1>1, <2>1, <3>1, BecomeIsQuiet
  <2>2. Back \/ (plan[p].file \in DOMAIN dir /\ Become(p, change))
    BY <1>4 DEF Open
  <2>3. QED
    BY <1>2, <2>1, <2>2
<1>5. CASE Dispatch(p) \/ Check(p) \/ Close(p) \/ MeasureInput(p)
  <2>1. ASSUME NEW change, Become(p, change),
               DOMAIN change \in {{"pc"}, {"pc", "size"}}
        PROVE  On
    BY <2>1
  <2> HIDE DEF On
  <2>2. QED
    BY <1>2, <1>3, <1>5, <2>1 DEF Dispatch, Check, Close, MeasureInput
<1>6. CASE SealBlock(p) \/ SealEnd(p) \/ ReadHead(p) \/ MeasureSealed(p)
  <2>1. ASSUME NEW change, Become(p, change),
               DOMAIN change \in {{"pos", "made"}, {"pc", "result", "made"}, {"pc", "got"},
                                  {"pc", "size"}}
        PROVE  On
    BY <2>1
  <2> HIDE DEF On
  <2>2. QED
    BY <1>2, <1>3, <1>6, <2>1 DEF SealBlock, SealEnd, ReadHead, MeasureSealed
<1>7. CASE ReadMac(p) \/ ReadBlock(p) \/ Verify(p) \/ UnsealBlock(p)
  <2>1. ASSUME NEW change, Become(p, change),
               DOMAIN change \in {{"pc", "mac", "pos"}, {"pos", "got"}, {"pc"},
                                  {"pos", "got", "made"}}
        PROVE  On
    BY <2>1
  <2> HIDE DEF On
  <2>2. QED
    BY <1>2, <1>3, <1>7, <2>1 DEF ReadMac, ReadBlock, Verify, UnsealBlock
<1>8. CASE UnsealLast(p) \/ MeasureFile(p)
  <2>1. ASSUME NEW change, Become(p, change),
               DOMAIN change \in {{"pc", "result"}, {"pc", "result", "made"}, {"pc", "size"}}
        PROVE  On
    BY <2>1
  <2> HIDE DEF On
  <2>2. QED
    BY <1>2, <1>3, <1>8, <2>1 DEF UnsealLast, MeasureFile
<1>9. QED
  BY <1>4, <1>5, <1>6, <1>7, <1>8
\* A file that is opened by a name of one's own.
LEMMA OpeningNames ==
  ASSUME KinInv, WorkInv', NEW p \in Started, plan' = plan,
         NEW n, n = plan[p].file \/ OutputOf(p, n),
         NEW others \in SUBSET Procs, OpenForWriting(n, others),
         p \in others => proc[p].out = None /\ OutputOf(p, n),
         \A q \in Procs \ {p} : proc'[q] = proc[q],
         proc'[p].in = proc[p].in,
         \/ proc'[p].out = proc[p].out
         \/ proc'[p].out = dir'[n] /\ OutputOf(p, n)
  PROVE  KinInv'
<1>1. PICK name : Named(name)
  BY DEF KinInv
<1>2. /\ WorkInv /\ Started' = Started /\ Started \subseteq Procs
      /\ Len(file) \in Nat
      /\ \A m \in DOMAIN dir : dir[m] \in 1 .. Len(file)
  BY Mover DEF KinInv, WorkInv, Disk, Started
<1>3. \A q \in Started : proc[q].in \in 0 .. Len(file) /\ proc[q].out \in 0 .. Len(file)
  BY <1>2, Zenon DEF WorkInv, Typed
<1>4. ASSUME NEW to, \A m \in DOMAIN dir' : to[dir'[m]] = m, n \in DOMAIN dir',
             \A i \in 1 .. Len(file) : to[i] = name[i]
      PROVE  Named(to)'
  <2>1. ASSUME NEW q \in Started
        PROVE  /\ proc'[q].in # None => to[proc'[q].in] = plan[q].file
               /\ proc'[q].out # None => OutputOf(q, to[proc'[q].out])
    <3>1. /\ proc[q].in # None => to[proc[q].in] = plan[q].file
          /\ proc[q].out # None => OutputOf(q, to[proc[q].out])
      <4>1. /\ proc[q].in # None => proc[q].in \in 1 .. Len(file)
            /\ proc[q].out # None => proc[q].out \in 1 .. Len(file)
        BY <1>2, <1>3 DEF None
      <4>2. QED
        BY <1>1, <1>4, <4>1 DEF Named
    <3>2. CASE q # p
      BY <1>2, <3>1, <3>2
    <3>3. CASE q = p
      BY <1>4, <3>1, <3>3
    <3>4. QED
      BY <3>2, <3>3
  <2>2. QED
    BY <1>2, <1>4, <2>1 DEF Named, OutputOf
<1>5. ASSUME \A q \in touched' : Kin(q) PROVE \A q \in touched' : Kin(q)'
  BY <1>2, <1>5 DEF Kin
<1>6. CASE n \in DOMAIN dir
  <2>1. /\ dir' = dir
        /\ touched' = touched \cup {q \in others : dir[n] \in Held(q)}
    BY <1>6 DEF OpenForWriting, Disturb
  <2>2. Named(name)'
    BY <1>1, <1>4, <1>6, <2>1 DEF Named
  <2>3. name[dir[n]] = n
    BY <1>1, <1>6 DEF Named
  <2>4. ASSUME NEW q \in others, dir[n] \in Held(q) PROVE Kin(q)
    <3>1. q \in Procs
      OBVIOUS
    <3>2. QED
      BY <1>1, <1>2, <2>3, <2>4, <3>1, DisturbedAreKin
  <2>5. \A q \in touched' : Kin(q)
    BY <2>1, <2>4 DEF KinInv
  <2>6. QED
    BY <1>5, <2>2, <2>5 DEF KinInv
<1>7. CASE n \notin DOMAIN dir
  <2> PICK to : to = [i \in 1 .. Len(file) + 1 |-> IF i = Len(file) + 1 THEN n ELSE name[i]]
    OBVIOUS
  <2>1. /\ touched' = touched
        /\ dir' = [m \in DOMAIN dir \cup {n} |-> IF m = n THEN Len(file) + 1 ELSE dir[m]]
    BY <1>7 DEF OpenForWriting
  <2>2. \A i \in 1 .. Len(file) : to[i] = name[i]
    BY <1>2
  <2>3. to[Len(file) + 1] = n
    BY <1>2
  <2>4. ASSUME NEW m \in DOMAIN dir' PROVE to[dir'[m]] = m
    <3>1. CASE m = n
      BY <2>1, <2>3, <3>1
    <3>2. CASE m # n
      <4>1. m \in DOMAIN dir /\ dir'[m] = dir[m]
        BY <2>1, <3>2
      <4>2. QED
        BY <1>1, <1>2, <2>2, <4>1 DEF Named
    <3>3. QED
      BY <3>1, <3>2
  <2>5. Named(to)'
    <3>1. n \in DOMAIN dir'
      BY <2>1
    <3>2. QED
      BY <1>4, <2>2, <2>4, <3>1
  <2>6. \A q \in touched' : Kin(q)
    BY <2>1 DEF KinInv
  <2>7. QED
    BY <1>5, <2>5, <2>6 DEF KinInv
<1>8. QED
  BY <1>6, <1>7

\* A cell that is put into a file of one's own.
LEMMA PuttingNames ==
  ASSUME KinInv, WorkInv', NEW p \in Started, plan' = plan,
         NEW i \in {proc[p].in, proc[p].out} \ {None}, NEW k, NEW cell, PutCell(p, i, k, cell),
         \A q \in Procs \ {p} : proc'[q] = proc[q],
         proc'[p].in = proc[p].in, proc'[p].out = proc[p].out
  PROVE  KinInv'
<1>1. PICK name : Named(name)
  BY DEF KinInv
<1>2. /\ WorkInv /\ Started' = Started /\ Started \subseteq Procs
      /\ dir' = dir /\ touched' = touched \cup {q \in Procs \ {p} : i \in Held(q)}
  BY DEF KinInv, Started, PutCell, Disturb
<1>3. name[i] = plan[p].file \/ OutputOf(p, name[i])
  BY <1>1 DEF Named
<1>4. \A q \in Procs : proc'[q].in = proc[q].in /\ proc'[q].out = proc[q].out
  OBVIOUS
<1>5. Named(name)'
  BY <1>1, <1>2, <1>4 DEF Named, OutputOf
<1>6. ASSUME NEW q \in Procs \ {p}, i \in Held(q) PROVE Kin(q)
  BY <1>1, <1>2, <1>3, <1>6, DisturbedAreKin
<1>7. \A q \in touched' : Kin(q)'
  <2>1. \A q \in touched' : Kin(q)
    BY <1>2, <1>6 DEF KinInv
  <2>2. QED
    BY <1>2, <2>1 DEF Kin
<1>8. QED
  BY <1>5, <1>7 DEF KinInv
LEMMA OpenSealedNames ==
  ASSUME KinInv, WorkInv', NEW p \in Started, plan' = plan, OpenSealed(p) PROVE KinInv'
<1> DEFINE n == OutputName(plan[p].file, "enc")
           change == [pc |-> "seal", out |-> dir'[n],
                      made |-> <<Header(p, proc[p].size)>>]
<1>1. proc[p].pc = "open_output" /\ OpenForWriting(n, Procs) /\ Become(p, change)
  BY DEF OpenSealed, At
<1>2. OutputOf(p, n)
  BY DEF OutputOf
<1>3. WorkInv /\ Typed(proc[p], Len(file))
  BY Mover DEF KinInv
<1>4. proc[p].out = None
  BY <1>1, <1>3 DEF Typed
<1>5. change["out"] = dir'[n] /\ DOMAIN change = {"pc", "out", "made"}
  OBVIOUS
<1> HIDE DEF change, n
<1>6. /\ proc'[p] = After(proc[p], change)
      /\ \A q \in Procs \ {p} : proc'[q] = proc[q]
  BY <1>1, <1>3, Mover, Becoming
<1>7. proc'[p].in = proc[p].in /\ proc'[p].out = dir'[n]
  BY <1>5, <1>6 DEF After, Fields
<1>8. Procs \in SUBSET Procs
  OBVIOUS
<1>9. QED
  BY <1>1, <1>2, <1>4, <1>6, <1>7, <1>8, OpeningNames

LEMMA OpenPlainNames ==
  ASSUME KinInv, WorkInv', NEW p \in Started, plan' = plan, OpenPlain(p) PROVE KinInv'
<1> DEFINE n == OutputName(plan[p].file, "dec")
           change == [pc |-> "unseal", out |-> dir'[n], pos |-> 1, mac |-> <<>>,
                      got |-> <<Header(Salt(p), proc[p].got[1][3])>>]
<1>1. proc[p].pc = "open_output" /\ OpenForWriting(n, Procs) /\ Become(p, change)
  BY DEF OpenPlain, At
<1>2. OutputOf(p, n)
  BY DEF OutputOf
<1>3. WorkInv /\ Typed(proc[p], Len(file))
  BY Mover DEF KinInv
<1>4. proc[p].out = None
  BY <1>1, <1>3 DEF Typed
<1>5. change["out"] = dir'[n] /\ DOMAIN change = {"pc", "out", "pos", "mac", "got"}
  OBVIOUS
<1> HIDE DEF change, n
<1>6. /\ proc'[p] = After(proc[p], change)
      /\ \A q \in Procs \ {p} : proc'[q] = proc[q]
  BY <1>1, <1>3, Mover, Becoming
<1>7. proc'[p].in = proc[p].in /\ proc'[p].out = dir'[n]
  BY <1>5, <1>6 DEF After, Fields
<1>8. Procs \in SUBSET Procs
  OBVIOUS
<1>9. QED
  BY <1>1, <1>2, <1>4, <1>6, <1>7, <1>8, OpeningNames

\* A change that opens and closes nothing.
LEMMA StaysOpen ==
  ASSUME WorkInv, NEW p \in Started, NEW change, Become(p, change),
         "in" \notin DOMAIN change, "out" \notin DOMAIN change
  PROVE  /\ proc'[p].in = proc[p].in /\ proc'[p].out = proc[p].out
         /\ \A q \in Procs \ {p} : proc'[q] = proc[q]
<1>1. /\ proc'[p] = After(proc[p], change)
      /\ \A q \in Procs \ {p} : proc'[q] = proc[q]
  BY Mover, Becoming
<1>2. QED
  BY <1>1 DEF After, Fields

LEMMA TruncateNames ==
  ASSUME KinInv, WorkInv', NEW p \in Started, plan' = plan, Truncate(p) PROVE KinInv'
<1> DEFINE n == plan[p].file
           others == Procs \ {p}
           change == [pc |-> "unlink"]
<1>1. OpenForWriting(n, others) /\ Become(p, change)
  BY DEF Truncate
<1>2. "in" \notin DOMAIN change /\ "out" \notin DOMAIN change /\ WorkInv
  BY DEF KinInv
<1> HIDE DEF change
<1>3. /\ proc'[p].in = proc[p].in /\ proc'[p].out = proc[p].out
      /\ \A q \in Procs \ {p} : proc'[q] = proc[q]
  BY <1>1, <1>2, StaysOpen
<1>4. others \in SUBSET Procs /\ p \notin others
  OBVIOUS
<1> HIDE DEF others
<1>5. QED
  BY <1>1, <1>3, <1>4, OpeningNames

LEMMA FlushNames ==
  ASSUME KinInv, WorkInv', NEW p \in Started, plan' = plan, Flush(p) PROVE KinInv'
<1> DEFINE k == proc[p].flushed + 1
           cell == proc[p].made[k]
           change == [flushed |-> k]
<1>1. proc[p].out # None /\ PutCell(p, proc[p].out, k, cell) /\ Become(p, change)
  BY DEF Flush
<1>2. "in" \notin DOMAIN change /\ "out" \notin DOMAIN change /\ WorkInv
  BY DEF KinInv
<1> HIDE DEF change, k, cell
<1>3. /\ proc'[p].in = proc[p].in /\ proc'[p].out = proc[p].out
      /\ \A q \in Procs \ {p} : proc'[q] = proc[q]
  BY <1>1, <1>2, StaysOpen
<1>4. QED
  BY <1>1, <1>3, PuttingNames

LEMMA WipeNames ==
  ASSUME KinInv, WorkInv', NEW p \in Started, plan' = plan, Wipe(p) PROVE KinInv'
<1> DEFINE k == Target(p)
           cell == Wiped((proc[p].pos \div proc[p].size) + 1)
           change == [pos |-> proc[p].pos + 1]
<1>1. proc[p].pc = "wipe" /\ PutCell(p, proc[p].in, k, cell) /\ Become(p, change)
  BY DEF Wipe, At
<1>2. "in" \notin DOMAIN change /\ "out" \notin DOMAIN change /\ WorkInv
  BY DEF KinInv
<1>3. proc[p].in # None
  BY <1>1, <1>2, MeasuredType DEF Outside, None
<1> HIDE DEF change, k, cell
<1>4. /\ proc'[p].in = proc[p].in /\ proc'[p].out = proc[p].out
      /\ \A q \in Procs \ {p} : proc'[q] = proc[q]
  BY <1>1, <1>2, StaysOpen
<1>5. QED
  BY <1>1, <1>3, <1>4, PuttingNames

LEMMA UnlinkNames ==
  ASSUME KinInv, WorkInv', NEW p \in Started, plan' = plan, Unlink(p) PROVE KinInv'
<1>1. PICK name : Named(name)
  BY DEF KinInv
<1>2. PICK value \in {"0", "-1"} : Return(p, value)
  BY DEF Unlink
<1>3. /\ WorkInv /\ Started' = Started /\ Started \subseteq Procs /\ touched' = touched
      /\ \A m \in DOMAIN dir' : m \in DOMAIN dir /\ dir'[m] = dir[m]
  BY DEF KinInv, Started, Unlink, Restrict
<1>4. /\ proc'[p].in = None /\ proc'[p].out = None
      /\ \A q \in Procs \ {p} : proc'[q] = proc[q]
  <2>1. proc'[p] = [Fresh EXCEPT !.pc = "done", !.result = value]
    BY <1>2, <1>3, Mover, ReturnTypes
  <2>2. QED
    BY <1>2, <1>3, <2>1, Mover, Becoming, FreshIs DEF Return, Fields
<1>5. Named(name)'
  BY <1>1, <1>3, <1>4 DEF Named, OutputOf
<1>6. \A q \in touched' : Kin(q)'
  BY <1>3 DEF KinInv, Kin
<1>7. QED
  BY <1>5, <1>6 DEF KinInv
LEMMA StepNames == ASSUME KinInv, NEW p \in Procs, Step(p) PROVE KinInv'
<1>1. WorkInv /\ WorkInv' /\ p \in Started /\ plan' = plan
  BY StepKeeps, StepStarted DEF KinInv
<1>2. CASE \/ Dispatch(p) \/ Check(p) \/ Open(p) \/ Close(p) \/ MeasureInput(p)
           \/ SealBlock(p) \/ SealEnd(p) \/ ReadHead(p) \/ MeasureSealed(p) \/ ReadMac(p)
           \/ ReadBlock(p) \/ Verify(p) \/ UnsealBlock(p) \/ UnsealLast(p) \/ MeasureFile(p)
  BY <1>1, <1>2, MostAreQuiet, QuietNames
<1>3. CASE Flush(p)
  BY <1>1, <1>3, FlushNames
<1>4. CASE OpenSealed(p)
  BY <1>1, <1>4, OpenSealedNames
<1>5. CASE OpenPlain(p)
  BY <1>1, <1>5, OpenPlainNames
<1>6. CASE Wipe(p)
  BY <1>1, <1>6, WipeNames
<1>7. CASE Truncate(p)
  BY <1>1, <1>7, TruncateNames
<1>8. CASE Unlink(p)
  BY <1>1, <1>8, UnlinkNames
<1>9. QED
  BY <1>2, <1>3, <1>4, <1>5, <1>6, <1>7, <1>8, Zenon DEF Step

LEMMA InitNames == ASSUME Init PROVE KinInv
<1>1. WorkInv
  BY InitWork
<1>2. PICK scene \in Scenes :
        /\ file = [i \in DOMAIN scene[2] |-> scene[2][i][2]]
        /\ dir = [n \in {scene[2][i][1] : i \in DOMAIN scene[2]} |->
                    CHOOSE i \in DOMAIN scene[2] : scene[2][i][1] = n]
  BY DEF Init
<1> DEFINE disk == scene[2]
<1>3. PICK name : name = [i \in DOMAIN disk |-> disk[i][1]]
  OBVIOUS
<1>4. ASSUME NEW n \in DOMAIN dir PROVE name[dir[n]] = n
  <2>1. PICK i \in DOMAIN disk : disk[i][1] = n
    BY <1>2, <1>4
  <2>2. dir[n] = CHOOSE j \in DOMAIN disk : disk[j][1] = n
    BY <1>2, <1>4
  <2>3. dir[n] \in DOMAIN disk /\ disk[dir[n]][1] = n
    BY <2>1, <2>2
  <2>4. QED
    BY <1>3, <2>3
<1>5. ASSUME NEW p \in Started PROVE proc[p].in = None /\ proc[p].out = None
  <2>1. proc[p] = Fresh
    BY DEF Init, Started
  <2>2. QED
    BY <2>1, FreshIs
<1>6. Named(name)
  BY <1>4, <1>5 DEF Named
<1>7. touched = {}
  BY DEF Init
<1>8. QED
  BY <1>1, <1>6, <1>7 DEF KinInv

LEMMA NextNames == ASSUME KinInv, [Next]_vars PROVE KinInv'
<1>1. ASSUME NEW p \in Procs, Kill(p) PROVE KinInv'
  <2>1. WorkInv /\ WorkInv' /\ p \in Started
    BY <1>1, KillKeeps DEF KinInv, Kill, Ended, WorkInv, Planned
  <2>2. Quiet(p)
    BY <1>1, <2>1, ReturnIsQuiet DEF Kill
  <2>3. QED
    BY <1>1, <2>1, <2>2, QuietNames DEF Kill
<1>2. CASE UNCHANGED vars
  <2>1. proc' = proc /\ dir' = dir /\ file' = file /\ plan' = plan /\ touched' = touched
    BY <1>2 DEF vars
  <2>2. WorkInv'
    BY <1>2, NextWork DEF KinInv
  <2>3. ASSUME NEW name, Named(name) PROVE Named(name)'
    BY <2>1, <2>3 DEF Named, Started, OutputOf
  <2>4. \A p \in touched' : Kin(p)'
    BY <2>1 DEF KinInv, Kin, Started
  <2>5. QED
    BY <2>2, <2>3, <2>4 DEF KinInv
<1>3. ASSUME NEW p \in Procs, Step(p) PROVE KinInv'
  BY <1>3, StepNames
<1>4. QED
  BY <1>1, <1>2, <1>3 DEF Next, Finished

LEMMA AlwaysKin == Spec => []KinInv
BY InitNames, NextNames, PTL DEF Spec

\* Only commands on files whose names, as typed or as cut, differ in nothing but the
\* extension, or a command whose input bears the name of its output, can find a file
\* of theirs changed by another hand (args.c:107-132).
THEOREM DisturbanceIsByKin == Spec => []OnlyKinInterfere
<1>1. KinInv => OnlyKinInterfere
  BY DEF KinInv, Kin, OnlyKinInterfere
<1>2. QED
  BY <1>1, AlwaysKin, PTL
-----------------------------------------------------------------------------
(* What nobody disturbs *)

\* Opening a file for writing disturbs those who hold it, or changes none.
LEMMA OpeningLeaves ==
  ASSUME Disk, NEW n, NEW others, OpenForWriting(n, others)
  PROVE  /\ touched \subseteq touched'
         /\ \A q \in others, i \in 1 .. Len(file) :
              i \in Held(q) /\ q \notin touched' => file'[i] = file[i]
<1>1. /\ Len(file) \in Nat /\ DOMAIN file = 1 .. Len(file) /\ IsSequence(file)
      /\ \A m \in DOMAIN dir : dir[m] \in 1 .. Len(file)
  BY OfSequence DEF Disk
<1>2. CASE n \in DOMAIN dir
  <2>1. /\ file' = [file EXCEPT ![dir[n]] = <<>>]
        /\ touched' = touched \cup {q \in others : dir[n] \in Held(q)}
    BY <1>2 DEF OpenForWriting, Disturb
  <2>2. ASSUME NEW q \in others, NEW i \in 1 .. Len(file), i \in Held(q), q \notin touched'
        PROVE  file'[i] = file[i]
    <3>1. i # dir[n]
      BY <2>1, <2>2
    <3>2. QED
      BY <1>1, <2>1, <3>1
  <2>3. QED
    BY <2>1, <2>2
<1>3. CASE n \notin DOMAIN dir
  BY <1>1, <1>3, Appending DEF OpenForWriting
<1>4. QED
  BY <1>2, <1>3

LEMMA PuttingLeaves ==
  ASSUME Disk, NEW p, NEW i, NEW k, NEW cell, PutCell(p, i, k, cell)
  PROVE  /\ touched \subseteq touched'
         /\ \A q \in Procs \ {p}, j \in 1 .. Len(file) :
              j \in Held(q) /\ q \notin touched' => file'[j] = file[j]
<1>1. /\ Len(file) \in Nat /\ DOMAIN file = 1 .. Len(file)
  BY OfSequence DEF Disk
<1>2. /\ file' = [file EXCEPT ![i] = With(file[i], k, cell)]
      /\ touched' = touched \cup {q \in Procs \ {p} : i \in Held(q)}
  BY DEF PutCell, Disturb
<1>3. ASSUME NEW q \in Procs \ {p}, NEW j \in 1 .. Len(file), j \in Held(q), q \notin touched'
      PROVE  file'[j] = file[j]
  <2>1. i # j
    BY <1>2, <1>3
  <2>2. QED
    BY <1>1, <1>2, <2>1
<1>4. QED
  BY <1>2, <1>3

Moves(p) == Step(p) \/ Kill(p)

QuietStep(p) ==
  \/ Dispatch(p) \/ Check(p) \/ Open(p) \/ Close(p) \/ MeasureInput(p)
  \/ SealBlock(p) \/ SealEnd(p) \/ ReadHead(p) \/ MeasureSealed(p) \/ ReadMac(p)
  \/ ReadBlock(p) \/ Verify(p) \/ UnsealBlock(p) \/ UnsealLast(p) \/ MeasureFile(p)

\* What a process does to the others, and to the files they hold.
LEMMA OthersLeft ==
  ASSUME WorkInv, NEW p \in Procs, Moves(p)
  PROVE  /\ p \in Started /\ plan' = plan /\ touched \subseteq touched'
         /\ Len(file) \in Nat /\ Len(file) <= Len(file')
         /\ \A q \in Procs \ {p} :
              /\ proc'[q] = proc[q]
              /\ \A i \in Held(q) : q \notin touched' => file'[i] = file[i]
<1>1. p \in Started /\ plan' = plan
  BY StepStarted DEF Moves, Kill, Ended, WorkInv, Planned
<1>2. \A q \in Procs : Held(q) \subseteq 1 .. Len(file)
  <2>1. ASSUME NEW q \in Procs PROVE Held(q) \subseteq 1 .. Len(file)
    <3>1. proc[q].in \in 0 .. Len(file) /\ proc[q].out \in 0 .. Len(file)
      BY Zenon DEF WorkInv, Typed
    <3>2. Len(file) \in Nat
      BY <1>1, Mover
    <3>3. QED
      BY <3>1, <3>2 DEF Held, None
  <2>2. QED
    BY <2>1
<1> DEFINE Rest == \A q \in Procs \ {p} : proc'[q] = proc[q]
           Left == /\ touched \subseteq touched' /\ Len(file) <= Len(file')
                   /\ \A q \in Procs \ {p} : \A i \in Held(q) :
                        q \notin touched' => file'[i] = file[i]
<1>3. WorkInv /\ Disk /\ Len(file) \in Nat
  BY <1>1, Mover
<1>4. ASSUME NEW change, Become(p, change) PROVE Rest
  BY <1>1, <1>4, Mover, Becoming
<1>5. ASSUME Quiet(p) PROVE Rest /\ Left
  BY <1>3, <1>5 DEF Quiet, FilesStay
<1>6. ASSUME NEW n \in Seq(Parts), NEW others, Procs \ {p} \subseteq others,
             OpenForWriting(n, others)
      PROVE  Left
  <2>1. Len(file) <= Len(file')
    BY <1>3, <1>6, OpenDisk
  <2>2. QED
    BY <1>2, <1>3, <1>6, <2>1, OpeningLeaves
<1>7. ASSUME NEW i \in 1 .. Len(file), NEW k \in Nat \ {0}, NEW cell, PutCell(p, i, k, cell)
      PROVE  Left
  <2>1. Len(file) <= Len(file')
    <3>1. Disk
      BY <1>3
    <3>2. Len(file') = Len(file)
      BY <1>7, <3>1, PutDisk, Zenon
    <3>3. QED
      BY <1>3, <3>2
  <2>2. QED
    BY <1>2, <1>3, <1>7, <2>1, PuttingLeaves
<1> HIDE DEF Rest, Left
<1>8. CASE QuietStep(p) \/ Kill(p)
  <2>1. Quiet(p)
    BY <1>1, <1>3, <1>8, MostAreQuiet, ReturnIsQuiet DEF QuietStep, Kill
  <2>2. QED
    BY <1>1, <1>3, <1>5, <2>1 DEF Rest, Left
<1>9. CASE OpenSealed(p) \/ OpenPlain(p) \/ Truncate(p)
  <2>1. Rest
    BY <1>4, <1>9 DEF OpenSealed, OpenPlain, Truncate
  <2>2. \A ext \in {"enc", "dec"} : OutputName(plan[p].file, ext) \in Seq(Parts)
    BY <1>1, Mover, OutputNameType, WorkspaceAssumption
  <2>3. plan[p].file \in Seq(Parts)
    BY <1>1, Mover
  <2>4. Left
    BY <1>6, <1>9, <2>2, <2>3 DEF OpenSealed, OpenPlain, Truncate
  <2>5. QED
    BY <1>1, <1>3, <2>1, <2>4 DEF Rest, Left
<1>10. CASE Flush(p)
  <2> DEFINE k == proc[p].flushed + 1
             cell == proc[p].made[k]
  <2>1. proc[p].out # None /\ PutCell(p, proc[p].out, k, cell)
    BY <1>10 DEF Flush
  <2>2. Rest
    BY <1>4, <1>10 DEF Flush
  <2>3. proc[p].out \in 1 .. Len(file)
    BY <1>1, <1>2, <2>1, Mover DEF Held
  <2>4. k \in Nat \ {0}
    <3>1. proc[p].flushed \in 0 .. Len(proc[p].made) /\ Len(proc[p].made) \in Nat
      BY <1>1, Mover, Zenon DEF Typed, IsSequence
    <3>2. QED
      BY <3>1
  <2> HIDE DEF k, cell
  <2>5. Left
    BY <1>7, <2>1, <2>3, <2>4
  <2>6. QED
    BY <1>1, <1>3, <2>2, <2>5 DEF Rest, Left
<1>11. CASE Wipe(p)
  <2> DEFINE k == Target(p)
             cell == Wiped((proc[p].pos \div proc[p].size) + 1)
  <2>1. proc[p].pc = "wipe" /\ PutCell(p, proc[p].in, k, cell)
    BY <1>11 DEF Wipe, At
  <2>2. Rest
    BY <1>4, <1>11 DEF Wipe
  <2>3. proc[p].in \in 1 .. Len(file)
    BY <1>1, <1>3, <2>1, MeasuredType DEF Outside
  <2>4. k \in Nat \ {0}
    <3>1. proc[p].size \in Nat \ {0} /\ proc[p].pos \in Nat
      BY <1>1, <2>1, Mover DEF Typed
    <3>2. QED
      BY <3>1, TargetIs
  <2> HIDE DEF k, cell
  <2>5. Left
    BY <1>7, <2>1, <2>3, <2>4
  <2>6. QED
    BY <1>1, <1>3, <2>2, <2>5 DEF Rest, Left
<1>12. CASE Unlink(p)
  <2>1. PICK value \in {"0", "-1"} : Return(p, value)
    BY <1>12 DEF Unlink
  <2>2. Rest
    BY <1>4, <2>1 DEF Return
  <2>3. Left
    BY <1>3, <1>12 DEF Unlink, Left
  <2>4. QED
    BY <1>1, <1>3, <2>2, <2>3 DEF Rest, Left
<1>13. QuietStep(p) \/ Kill(p) \/ OpenSealed(p) \/ OpenPlain(p) \/ Truncate(p) \/ Flush(p)
       \/ Wipe(p) \/ Unlink(p)
  BY Zenon DEF Moves, Step, QuietStep
<1>14. QED
  BY <1>8, <1>9, <1>10, <1>11, <1>12, <1>13
\* The fields of a process that moves.
LEMMA NewFields ==
  ASSUME WorkInv, NEW p \in Started, NEW change, Become(p, change)
  PROVE  \A f \in Fields : proc'[p][f] = IF f \in DOMAIN change THEN change[f] ELSE proc[p][f]
<1>1. proc'[p] = After(proc[p], change)
  BY Mover, Becoming
<1>2. QED
  BY <1>1 DEF After

LEMMA EndFields ==
  ASSUME WorkInv, NEW p \in Started, NEW value, Return(p, value)
  PROVE  /\ proc'[p].pc = "done" /\ proc'[p].result = value
         /\ proc'[p].in = None /\ proc'[p].out = None
<1> DEFINE change == [Fresh EXCEPT !.pc = "done", !.result = value]
<1>1. /\ DOMAIN change = Fields /\ change.pc = "done" /\ change.result = value
      /\ change.in = None /\ change.out = None /\ Become(p, change)
  BY FreshIs DEF Fields, Return
<1> HIDE DEF change
<1>2. \A f \in Fields : proc'[p][f] = change[f]
  BY <1>1, NewFields
<1>3. QED
  BY <1>1, <1>2 DEF Fields

LEMMA NewPlace ==
  ASSUME WorkInv, NEW p \in Started, NEW change, Become(p, change)
  PROVE  /\ "pc" \in DOMAIN change => proc'[p].pc = change.pc
         /\ "pc" \notin DOMAIN change => proc'[p].pc = proc[p].pc
BY NewFields DEF Fields

-----------------------------------------------------------------------------
(* What shred has wiped *)

\* How far the last pass has come, in a file that nobody else has written to.
Wiping(p) ==
  LET content == file[proc[p].in]
  IN  /\ proc[p].pc = "wipe" =>
           /\ Len(content) = proc[p].size
           /\ \A k \in 1 .. proc[p].size :
                proc[p].pos >= proc[p].size * (Passes - 1) + k => content[k] = Wiped(Passes)
      /\ proc[p].pc = "unlink" => \A k \in 1 .. Len(content) : content[k] = Wiped(Passes)

WipeInv == WorkInv /\ \A p \in Started \ touched : Wiping(p)

\* The operations that a shredding in progress is at.
LEMMA WhoWipes ==
  ASSUME WorkInv, NEW p \in Started, Moves(p), proc'[p].pc \in {"wipe", "unlink"}
  PROVE  MeasureFile(p) \/ Wipe(p) \/ Truncate(p)
<1>1. ASSUME NEW value, Return(p, value) PROVE FALSE
  BY <1>1, EndFields
<1>2. ASSUME NEW change, Become(p, change), "pc" \in DOMAIN change,
             change["pc"] \notin {"wipe", "unlink"}
      PROVE  FALSE
  BY <1>2, NewPlace
<1>3. ASSUME NEW change, Become(p, change), "pc" \notin DOMAIN change,
             proc[p].pc \notin {"wipe", "unlink"}
      PROVE  FALSE
  BY <1>3, NewPlace
<1>4. CASE Dispatch(p) \/ Check(p) \/ Open(p) \/ Close(p) \/ MeasureInput(p) \/ Kill(p)
           \/ Unlink(p)
  BY <1>1, <1>2, <1>4 DEF Dispatch, Check, Open, Close, MeasureInput, Kill, Unlink
<1>5. CASE SealBlock(p) \/ ReadBlock(p) \/ UnsealBlock(p)
  BY <1>1, <1>3, <1>5 DEF SealBlock, ReadBlock, UnsealBlock, At
<1>6. CASE SealEnd(p) \/ ReadHead(p) \/ MeasureSealed(p) \/ ReadMac(p) \/ Verify(p)
  BY <1>1, <1>2, <1>6 DEF SealEnd, ReadHead, MeasureSealed, ReadMac, Verify
<1>7. CASE UnsealLast(p) \/ OpenSealed(p) \/ OpenPlain(p)
  BY <1>1, <1>2, <1>7 DEF UnsealLast, OpenSealed, OpenPlain
<1>8. CASE Flush(p)
  <2>1. proc[p].out # None
    BY <1>8 DEF Flush
  <2>2. proc[p].pc \notin {"wipe", "unlink"}
    <3>1. Typed(proc[p], Len(file))
      BY Mover
    <3>2. QED
      BY <2>1, <3>1 DEF Typed
  <2>3. QED
    BY <1>3, <1>8, <2>2 DEF Flush
<1>9. QED
  BY <1>4, <1>5, <1>6, <1>7, <1>8 DEF Moves, Step

LEMMA MeasureFileWipes ==
  ASSUME WipeInv, NEW p \in Started, MeasureFile(p) PROVE Wiping(p)'
<1> DEFINE n == Measured(p)
           stop == IF n = 0 THEN "unlink" ELSE "wipe"
           change == [pc |-> stop, size |-> n]
<1>1. WorkInv /\ proc[p].pc = "measure" /\ Become(p, change) /\ file' = file
  BY DEF WipeInv, MeasureFile, At, FilesStay
<1>2. n \in Nat /\ n = Len(file[proc[p].in])
  BY <1>1, MeasuredType DEF Outside, Measured
<1>3. proc[p].pos = 0
  BY <1>1, Mover DEF Typed
<1> HIDE DEF n
<1>4. /\ proc'[p].in = proc[p].in /\ proc'[p].pos = 0 /\ proc'[p].size = n
      /\ proc'[p].pc = stop
  BY <1>1, <1>3, NewFields DEF Fields
<1>5. CASE n = 0
  BY <1>1, <1>2, <1>4, <1>5 DEF Wiping
<1>6. CASE n # 0
  <2>1. ASSUME NEW k \in 1 .. n PROVE ~(0 >= n * (Passes - 1) + k)
    <3>1. Passes - 1 \in Nat
      BY WorkspaceAssumption
    <3>2. n * (Passes - 1) \in Nat
      BY <1>2, <3>1
    <3>3. QED
      BY <3>2
  <2>2. QED
    BY <1>1, <1>2, <1>4, <1>6, <2>1 DEF Wiping
<1>7. QED
  BY <1>5, <1>6
\* In the last pass the cell behind the ones before it is written for the last time.
LEMMA LastPass ==
  ASSUME NEW size \in Nat \ {0}, NEW pos \in Nat, pos < Passes * size,
         pos >= size * (Passes - 1)
  PROVE  /\ (pos \div size) + 1 = Passes
         /\ (pos % size) + 1 = pos - size * (Passes - 1) + 1
<1> DEFINE q == Passes - 1
           d == pos \div size
           r == pos % size
<1>1. q \in Nat /\ Passes = q + 1
  BY WorkspaceAssumption
<1>2. /\ d \in Int /\ r \in Int /\ 0 <= r /\ r < size /\ pos = size * d + r
  OBVIOUS
<1>3. pos >= size * q /\ pos < size * q + size
  <2>1. Passes * size = size * q + size
    BY <1>1
  <2>2. QED
    BY <2>1
<1> HIDE DEF q, d, r
<1>4. d = q
  <2>1. ~(d < q)
    <3>1. SUFFICES ASSUME d < q PROVE FALSE
      OBVIOUS
    <3>2. size * d + size <= size * q
      <4>1. PICK e \in Nat : q = d + 1 + e
        <5>1. q - d - 1 \in Nat /\ q = d + 1 + (q - d - 1)
          BY <1>1, <1>2, <3>1
        <5>2. QED
          BY <5>1
      <4>2. size * q = size * d + size + size * e
        BY <1>2, <4>1
      <4>3. size * e \in Nat
        BY <4>1
      <4>4. size * d \in Int /\ size * q \in Int
        BY <1>1, <1>2
      <4>5. QED
        BY <4>2, <4>3, <4>4
    <3>3. size * d \in Int /\ size * q \in Int
      BY <1>1, <1>2
    <3>4. QED
      BY <1>2, <1>3, <3>2, <3>3
  <2>2. ~(q < d)
    <3>1. SUFFICES ASSUME q < d PROVE FALSE
      OBVIOUS
    <3>2. size * q + size <= size * d
      <4>1. PICK e \in Nat : d = q + 1 + e
        <5>1. d - q - 1 \in Nat /\ d = q + 1 + (d - q - 1)
          BY <1>1, <1>2, <3>1
        <5>2. QED
          BY <5>1
      <4>2. size * d = size * q + size + size * e
        BY <1>1, <4>1
      <4>3. size * e \in Nat
        BY <4>1
      <4>4. size * d \in Int /\ size * q \in Int
        BY <1>1, <1>2
      <4>5. QED
        BY <4>2, <4>3, <4>4
    <3>3. size * d \in Int /\ size * q \in Int
      BY <1>1, <1>2
    <3>4. QED
      BY <1>2, <1>3, <3>2, <3>3
  <2>3. QED
    BY <1>1, <1>2, <2>1, <2>2
<1>5. r = pos - size * q
  <2>1. size * q \in Int
    BY <1>1
  <2>2. QED
    BY <1>2, <1>4, <2>1
<1>6. QED
  BY <1>1, <1>4, <1>5 DEF q, d, r

\* The cells of a content after a write.
LEMMA WithCells ==
  ASSUME NEW content, IsSequence(content), NEW k \in 1 .. Len(content), NEW cell
  PROVE  /\ Len(With(content, k, cell)) = Len(content)
         /\ With(content, k, cell)[k] = cell
         /\ \A j \in 1 .. Len(content) : j # k => With(content, k, cell)[j] = content[j]
<1>1. Len(content) \in Nat
  BY DEF IsSequence
<1>2. ~(k > Len(content)) /\ k \in Nat \ {0}
  BY <1>1
<1>3. Len(With(content, k, cell)) = Len(content)
  BY <1>2, WithIsSequence
<1>4. With(content, k, cell)
        = [j \in 1 .. Len(content) |-> IF j = k THEN cell
                                       ELSE IF j <= Len(content) THEN content[j] ELSE Hole]
  BY <1>2 DEF With
<1>5. QED
  BY <1>1, <1>3, <1>4

LEMMA WipeWipes ==
  ASSUME WipeInv, NEW p \in Started, p \notin touched, Wipe(p) PROVE Wiping(p)'
<1> DEFINE change == [pos |-> proc[p].pos + 1]
           cell == Wiped((proc[p].pos \div proc[p].size) + 1)
           k == Target(p)
           i == proc[p].in
           n == proc[p].size
           pos == proc[p].pos
           last == n * (Passes - 1)
<1>1. /\ WorkInv /\ proc[p].pc = "wipe" /\ pos < Passes * n
      /\ PutCell(p, i, k, cell) /\ Become(p, change)
  BY DEF WipeInv, Wipe, At
<1>2. n \in Nat \ {0} /\ pos \in Nat
  BY <1>1, Mover DEF Typed
<1>3. k \in 1 .. n
  BY <1>2, TargetIs
<1>4. /\ i \in 1 .. Len(file) /\ IsSequence(file[i]) /\ DOMAIN file = 1 .. Len(file)
  BY <1>1, MeasuredType, Mover, OfSequence DEF Outside, Disk
<1>5. /\ Len(file[i]) = n
      /\ \A j \in 1 .. n : pos >= last + j => file[i][j] = Wiped(Passes)
  BY <1>1 DEF WipeInv, Wiping
<1>6. file'[i] = With(file[i], k, cell)
  BY <1>1, <1>4 DEF PutCell
<1>7. /\ Len(file'[i]) = n /\ file'[i][k] = cell
      /\ \A j \in 1 .. n : j # k => file'[i][j] = file[i][j]
  <2> HIDE DEF k, cell, n, i
  <2>1. QED
    BY <1>3, <1>4, <1>5, <1>6, WithCells
<1>8. /\ proc'[p].in = i /\ proc'[p].pos = pos + 1 /\ proc'[p].size = n
      /\ proc'[p].pc = "wipe"
  BY <1>1, NewFields DEF Fields
<1>9. last \in Nat
  <2>1. Passes - 1 \in Nat
    BY WorkspaceAssumption
  <2>2. QED
    BY <1>2, <2>1
<1>10. pos >= last => cell = Wiped(Passes) /\ k = pos - last + 1
  BY <1>1, <1>2, LastPass DEF Target
<1> HIDE DEF k, cell, last
<1>11. ASSUME NEW j \in 1 .. n, pos + 1 >= last + j PROVE file'[i][j] = Wiped(Passes)
  <2>1. pos >= last
    BY <1>2, <1>9, <1>11
  <2>2. CASE j = k
    BY <1>7, <1>10, <2>1, <2>2
  <2>3. CASE j # k
    <3>1. pos >= last + j
      BY <1>2, <1>9, <1>10, <1>11, <2>1, <2>3
    <3>2. QED
      BY <1>5, <1>7, <2>3, <3>1
  <2>4. QED
    BY <2>2, <2>3
<1>12. QED
  BY <1>7, <1>8, <1>11 DEF Wiping, last

\* All passes over, nothing is left.
LEMMA AllWiped ==
  ASSUME WipeInv, NEW p \in Started, p \notin touched, proc[p].pc = "wipe",
         proc[p].pos = Passes * proc[p].size
  PROVE  \A k \in 1 .. Len(file[proc[p].in]) : file[proc[p].in][k] = Wiped(Passes)
<1> DEFINE n == proc[p].size
           pos == proc[p].pos
<1>1. n \in Nat \ {0} /\ pos \in Nat /\ pos = Passes * n
  BY Mover DEF WipeInv, Typed
<1>2. /\ Len(file[proc[p].in]) = n
      /\ \A k \in 1 .. n : pos >= n * (Passes - 1) + k => file[proc[p].in][k] = Wiped(Passes)
  BY DEF WipeInv, Wiping
<1>3. Passes * n = n * (Passes - 1) + n /\ n * (Passes - 1) \in Nat
  <2>1. Passes - 1 \in Nat /\ Passes \in Nat
    BY WorkspaceAssumption
  <2>2. QED
    BY <1>1, <2>1
<1> HIDE DEF n, pos
<1>4. \A k \in 1 .. n : pos >= n * (Passes - 1) + k
  <2> DEFINE m == n * (Passes - 1)
  <2>1. m \in Nat /\ pos = m + n
    BY <1>1, <1>3
  <2> HIDE DEF m
  <2>2. \A k \in 1 .. n : pos >= m + k
    BY <1>1, <2>1
  <2>3. QED
    BY <2>2 DEF m
<1>5. QED
  BY <1>2, <1>4

LEMMA TruncateWipes ==
  ASSUME WipeInv, NEW p \in Started, p \notin touched, Truncate(p) PROVE Wiping(p)'
<1> DEFINE change == [pc |-> "unlink"]
           others == Procs \ {p}
           n == plan[p].file
           i == proc[p].in
<1>1. /\ WorkInv /\ proc[p].pc = "wipe" /\ proc[p].pos = Passes * proc[p].size
      /\ OpenForWriting(n, others) /\ Become(p, change)
  BY DEF WipeInv, Truncate, At
<1>2. /\ i \in 1 .. Len(file) /\ DOMAIN file = 1 .. Len(file) /\ IsSequence(file)
  BY <1>1, MeasuredType, Mover, OfSequence DEF Outside, Disk
<1>3. file'[i] = file[i] \/ file'[i] = <<>>
  BY <1>1, <1>2, Appending DEF OpenForWriting
<1>4. proc'[p].in = i /\ proc'[p].pc = "unlink"
  BY <1>1, NewFields DEF Fields
<1>5. \A k \in 1 .. Len(file[i]) : file[i][k] = Wiped(Passes)
  BY <1>1, AllWiped
<1>6. \A k \in 1 .. Len(file'[i]) : file'[i][k] = Wiped(Passes)
  BY <1>3, <1>5, EmptySequence
<1>7. QED
  BY <1>4, <1>6 DEF Wiping

LEMMA WipesOn ==
  ASSUME WipeInv, NEW p \in Procs, Moves(p) PROVE WipeInv'
<1>1. /\ WorkInv /\ p \in Started /\ plan' = plan /\ touched \subseteq touched'
      /\ Started' = Started
  BY OthersLeft DEF WipeInv, Started
<1>2. WorkInv'
  BY <1>1, StepKeeps, KillKeeps DEF Moves
<1>3. ASSUME p \notin touched' PROVE Wiping(p)'
  <2>1. CASE proc'[p].pc \in {"wipe", "unlink"}
    <3>1. MeasureFile(p) \/ Wipe(p) \/ Truncate(p)
      BY <1>1, <2>1, WhoWipes
    <3>2. p \notin touched
      BY <1>1, <1>3
    <3>3. QED
      BY <1>1, <3>1, <3>2, MeasureFileWipes, WipeWipes, TruncateWipes
  <2>2. CASE proc'[p].pc \notin {"wipe", "unlink"}
    BY <2>2 DEF Wiping
  <2>3. QED
    BY <2>1, <2>2
<1>4. ASSUME NEW q \in Started, q # p, q \notin touched' PROVE Wiping(q)'
  <2>1. q \in Procs \ {p} /\ q \notin touched /\ Wiping(q)
    BY <1>1, <1>4 DEF WipeInv, Started
  <2>2. proc'[q] = proc[q] /\ \A i \in Held(q) : file'[i] = file[i]
    BY <1>1, <1>4, <2>1, OthersLeft
  <2>3. CASE proc[q].pc \in {"wipe", "unlink"}
    <3>1. proc[q].in # None
      BY <1>1, <2>3, Mover DEF Typed, Outside
    <3>2. file'[proc[q].in] = file[proc[q].in]
      BY <2>2, <3>1 DEF Held
    <3>3. QED
      BY <2>1, <2>2, <3>2 DEF Wiping
  <2>4. CASE proc[q].pc \notin {"wipe", "unlink"}
    BY <2>2, <2>4 DEF Wiping
  <2>5. QED
    BY <2>3, <2>4
<1>5. QED
  BY <1>1, <1>2, <1>3, <1>4 DEF WipeInv

LEMMA InitWipes == ASSUME Init PROVE WipeInv
<1>1. \A p \in Procs : proc[p].pc \in {"start", "done"}
  BY DEF Init, Fresh
<1>2. QED
  BY <1>1, InitWork DEF WipeInv, Wiping, Started

LEMMA NextWipes == ASSUME WipeInv, [Next]_vars PROVE WipeInv'
<1>1. CASE \E p \in Procs : Moves(p)
  BY <1>1, WipesOn
<1>2. CASE UNCHANGED vars
  <2>1. proc' = proc /\ dir' = dir /\ file' = file /\ plan' = plan /\ touched' = touched
    BY <1>2 DEF vars
  <2>2. WorkInv'
    BY <1>2, NextWork DEF WipeInv
  <2>3. QED
    BY <2>1, <2>2 DEF WipeInv, Wiping, Started
<1>3. QED
  BY <1>1, <1>2 DEF Next, Finished, Moves

LEMMA AlwaysWipe == Spec => []WipeInv
BY InitWipes, NextWipes, PTL DEF Spec

\* A cell that is put does not leave a file empty.
LEMMA PuttingFills ==
  ASSUME Disk, NEW p, NEW i \in 1 .. Len(file), NEW k \in Nat \ {0}, NEW cell,
         PutCell(p, i, k, cell), NEW j \in 1 .. Len(file), file[j] # <<>>
  PROVE  file'[j] # <<>> /\ dir' = dir
<1>1. /\ Len(file) \in Nat /\ DOMAIN file = 1 .. Len(file) /\ IsSequence(file[i])
  BY OfSequence DEF Disk
<1>2. file' = [file EXCEPT ![i] = With(file[i], k, cell)] /\ dir' = dir
  BY DEF PutCell
<1>3. CASE j = i
  <2>1. file'[j] = With(file[i], k, cell)
    BY <1>1, <1>2, <1>3
  <2>2. Len(With(file[i], k, cell)) = IF k > Len(file[i]) THEN k ELSE Len(file[i])
    BY <1>1, WithIsSequence
  <2>3. Len(file[i]) \in Nat
    BY <1>1 DEF IsSequence
  <2>4. Len(With(file[i], k, cell)) # 0
    BY <2>2, <2>3
  <2>5. QED
    BY <1>2, <2>1, <2>4, EmptySequence
<1>4. CASE j # i
  BY <1>1, <1>2, <1>4
<1>5. QED
  BY <1>3, <1>4

LEMMA GivesUpWiped ==
  ASSUME WipeInv, NEW p \in Started, Moves(p), GivesUp(p), p \notin touched
  PROVE  \A k \in 1 .. Len(file[proc[p].in]) : file[proc[p].in][k] = Wiped(Passes)
<1> DEFINE i == proc[p].in
           n == plan[p].file
<1>1. /\ WorkInv /\ Disk /\ plan[p].verb = "shred" /\ n \in DOMAIN dir /\ dir[n] = i
      /\ i \in 1 .. Len(file)
  BY Mover DEF WipeInv, GivesUp, Disk
<1>2. ~(dir' = dir /\ (file[i] # <<>> => file'[i] # <<>>))
  BY DEF GivesUp
<1>3. CASE QuietStep(p) \/ Kill(p)
  <2>1. Quiet(p)
    BY <1>1, <1>3, MostAreQuiet, ReturnIsQuiet DEF QuietStep, Kill
  <2>2. QED
    BY <1>2, <2>1 DEF Quiet, FilesStay
<1>4. CASE OpenSealed(p) \/ OpenPlain(p)
  BY <1>1, <1>4 DEF OpenSealed, OpenPlain, At
<1>5. CASE Flush(p)
  <2> DEFINE k == proc[p].flushed + 1
             cell == proc[p].made[k]
  <2>1. proc[p].out # None /\ PutCell(p, proc[p].out, k, cell)
    BY <1>5 DEF Flush
  <2>2. /\ proc[p].out \in 0 .. Len(file) /\ Len(file) \in Nat
        /\ proc[p].flushed \in 0 .. Len(proc[p].made) /\ Len(proc[p].made) \in Nat
    BY <1>1, Mover, Zenon DEF Typed, IsSequence
  <2>3. proc[p].out \in 1 .. Len(file) /\ k \in Nat \ {0}
    BY <2>1, <2>2 DEF None
  <2> HIDE DEF k, cell
  <2>4. QED
    BY <1>1, <1>2, <2>1, <2>3, PuttingFills
<1>6. CASE Wipe(p)
  <2> DEFINE k == Target(p)
             cell == Wiped((proc[p].pos \div proc[p].size) + 1)
  <2>1. proc[p].pc = "wipe" /\ PutCell(p, i, k, cell)
    BY <1>6 DEF Wipe, At
  <2>2. k \in Nat \ {0}
    <3>1. proc[p].size \in Nat \ {0} /\ proc[p].pos \in Nat
      BY <1>1, <2>1, Mover DEF Typed
    <3>2. QED
      BY <3>1, TargetIs
  <2> HIDE DEF k, cell
  <2>3. QED
    BY <1>1, <1>2, <2>1, <2>2, PuttingFills
<1>7. CASE Truncate(p)
  <2>1. proc[p].pc = "wipe" /\ proc[p].pos = Passes * proc[p].size
    BY <1>7 DEF Truncate, At
  <2>2. QED
    BY <2>1, AllWiped
<1>8. CASE Unlink(p)
  BY <1>8 DEF Unlink, At, WipeInv, Wiping
<1>9. QuietStep(p) \/ Kill(p) \/ OpenSealed(p) \/ OpenPlain(p) \/ Truncate(p) \/ Flush(p)
      \/ Wipe(p) \/ Unlink(p)
  BY Zenon DEF Moves, Step, QuietStep
<1>10. QED
  BY <1>3, <1>4, <1>5, <1>6, <1>7, <1>8, <1>9

\* A file that shred empties, or takes the name from, and that no other hand has
\* written to, has had its last pass over all of its length (shred.c:159-227).
THEOREM WipedOnGivingUp == Spec => WipedIfGivenUp
<1> DEFINE A == \A p \in Started : proc'[p] /= proc[p] /\ GivesUp(p) /\ p \notin touched
                  => \A k \in DOMAIN file[proc[p].in] : file[proc[p].in][k] = Wiped(Passes)
<1>1. ASSUME WipeInv, [Next]_vars PROVE [A]_vars
  <2>1. SUFFICES ASSUME NEW p \in Started, proc'[p] # proc[p], GivesUp(p), p \notin touched
                 PROVE  \A k \in DOMAIN file[proc[p].in] :
                          file[proc[p].in][k] = Wiped(Passes)
    OBVIOUS
  <2>2. PICK q \in Procs : Moves(q)
    BY <1>1, <2>1 DEF Next, Finished, Moves, vars
  <2>3. WorkInv /\ p \in Procs
    BY <1>1 DEF WipeInv, Started
  <2>4. q = p
    BY <2>1, <2>2, <2>3, OthersLeft
  <2>5. \A k \in 1 .. Len(file[proc[p].in]) : file[proc[p].in][k] = Wiped(Passes)
    BY <1>1, <2>1, <2>2, <2>4, GivesUpWiped
  <2>6. DOMAIN file[proc[p].in] = 1 .. Len(file[proc[p].in])
    <3>1. proc[p].in \in 1 .. Len(file)
      BY <2>1, <2>3, Mover DEF GivesUp, Disk
    <3>2. QED
      BY <2>3, <3>1, OfSequence DEF WorkInv, Disk
  <2>7. QED
    BY <2>5, <2>6
<1> HIDE DEF A
<1>2. Spec => [][A]_vars
  BY <1>1, AlwaysWipe, PTL DEF Spec
<1>3. QED
  BY <1>2 DEF WipedIfGivenUp, A

-----------------------------------------------------------------------------
(* What a run has sealed *)

LEMMA CellKinds ==
  ASSUME NEW run, NEW key, NEW k, NEW x
  PROVE  /\ Len(Header(run, x)) = 3 /\ Header(run, x)[2] = run /\ Header(run, x)[3] = x
         /\ Len(Block(run, key, k, x)) = 5 /\ Block(run, key, k, x)[5] = x
         /\ Content(Block(run, key, k, x)) = x
         /\ Len(Mac(key, run, x)) = 4
         /\ Len(Pad) = 1 /\ Len(Junk) = 1 /\ Len(Hole) = 1 /\ Len(Wiped(k)) = 2
         /\ RunOf(Header(run, x)) = run
BY DEF Header, Block, Mac, Pad, Junk, Hole, Wiped, RunOf, Content

LEMMA MacNames ==
  ASSUME NEW key, NEW run, NEW data, NEW key2, NEW run2, NEW data2,
         Mac(key, run, data) = Mac(key2, run2, data2)
  PROVE  key = key2 /\ run = run2 /\ data = data2
BY DEF Mac

\* What a run authenticates: header, blocks and padding.
IsSealing(run, key, data) ==
  /\ IsSequence(data) /\ Len(data) >= 2
  /\ data[1] = Header(run, data[1][3])
  /\ \A k \in 1 .. Len(data) - 2 : data[k + 1] = Block(run, key, k, Content(data[k + 1]))
  /\ data[Len(data)] = Block(run, key, Len(data) - 1, Pad)

LEMMA Concatenation ==
  ASSUME NEW s, IsSequence(s), NEW t, IsSequence(t)
  PROVE  /\ IsSequence(s \o t) /\ Len(s \o t) = Len(s) + Len(t)
         /\ Len(s) \in Nat /\ Len(t) \in Nat
         /\ \A k \in 1 .. Len(s) + Len(t) :
              (s \o t)[k] = IF k <= Len(s) THEN s[k] ELSE t[k - Len(s)]
<1> DEFINE A == {s[k] : k \in 1 .. Len(s)}
           B == {t[k] : k \in 1 .. Len(t)}
<1>1. s \in Seq(A) /\ t \in Seq(B) /\ Len(s) \in Nat /\ Len(t) \in Nat
  BY OfSequence
<1> HIDE DEF A, B
<1>2. s \in Seq(A \cup B) /\ t \in Seq(A \cup B)
  <2>1. Seq(A) \subseteq Seq(A \cup B) /\ Seq(B) \subseteq Seq(A \cup B)
    OBVIOUS
  <2>2. QED
    BY <1>1, <2>1
<1>3. s \o t \in Seq(A \cup B)
  BY <1>2, ConcatProperties
<1>4. QED
  BY <1>1, <1>2, <1>3, ConcatProperties, SequenceOf

\* What Sealing authenticates.
DataOf(run, key, size, text) ==
  <<Header(run, size)>>
  \o [k \in 1 .. Len(text) + 1 |->
        Block(run, key, k, IF k <= Len(text) THEN text[k] ELSE Pad)]

LEMMA SealingIs ==
  ASSUME NEW run, NEW key, NEW size, NEW text
  PROVE  Sealing(run, key, size, text)
           = Append(DataOf(run, key, size, text), Mac(key, run, DataOf(run, key, size, text)))
BY DEF Sealing, DataOf

LEMMA DataCells ==
  ASSUME NEW run, NEW key, NEW size, NEW text, Len(text) \in Nat
  PROVE  LET data == DataOf(run, key, size, text)
         IN  /\ IsSequence(data) /\ Len(data) = Len(text) + 2
             /\ data[1] = Header(run, size)
             /\ \A k \in 1 .. Len(text) : data[k + 1] = Block(run, key, k, text[k])
             /\ data[Len(text) + 2] = Block(run, key, Len(text) + 1, Pad)
<1> DEFINE n == Len(text)
           head == <<Header(run, size)>>
           blocks == [k \in 1 .. n + 1 |-> Block(run, key, k, IF k <= n THEN text[k] ELSE Pad)]
<1>1. n \in Nat
  OBVIOUS
<1>2. IsSequence(head) /\ Len(head) = 1 /\ head[1] = Header(run, size)
  BY DEF IsSequence
<1>3. IsSequence(blocks) /\ Len(blocks) = n + 1
  <2>1. blocks = [k \in 1 .. n + 1 |-> blocks[k]]
    OBVIOUS
  <2> HIDE DEF blocks
  <2>2. QED
    BY <1>1, <2>1, FunctionIs
<1>4. \A k \in 1 .. n + 1 : blocks[k] = Block(run, key, k, IF k <= n THEN text[k] ELSE Pad)
  OBVIOUS
<1>5. DataOf(run, key, size, text) = head \o blocks
  BY DEF DataOf
<1> HIDE DEF head, blocks
<1>6. /\ IsSequence(head \o blocks) /\ Len(head \o blocks) = n + 2
      /\ \A k \in 1 .. n + 2 : (head \o blocks)[k] = IF k <= 1 THEN head[k] ELSE blocks[k - 1]
  <2> HIDE DEF n
  <2>1. Len(head) + Len(blocks) = n + 2 /\ Len(head) = 1
    BY <1>1, <1>2, <1>3
  <2>2. /\ IsSequence(head \o blocks) /\ Len(head \o blocks) = Len(head) + Len(blocks)
        /\ \A k \in 1 .. Len(head) + Len(blocks) :
             (head \o blocks)[k] = IF k <= Len(head) THEN head[k] ELSE blocks[k - Len(head)]
    BY <1>2, <1>3, Concatenation
  <2>3. QED
    BY <2>1, <2>2
<1>7. (head \o blocks)[1] = Header(run, size)
  BY <1>1, <1>2, <1>6
<1>8. ASSUME NEW k \in 1 .. n + 1
      PROVE  (head \o blocks)[k + 1] = Block(run, key, k, IF k <= n THEN text[k] ELSE Pad)
  <2>1. k + 1 \in 1 .. n + 2 /\ ~(k + 1 <= 1) /\ k + 1 - 1 = k
    BY <1>1
  <2>2. (head \o blocks)[k + 1] = blocks[k]
    BY <1>6, <2>1
  <2>3. QED
    BY <1>4, <2>2
<1>9. ASSUME NEW k \in 1 .. n PROVE (head \o blocks)[k + 1] = Block(run, key, k, text[k])
  <2>1. k \in 1 .. n + 1 /\ k <= n
    BY <1>1
  <2>2. QED
    BY <1>8, <2>1
<1>10. (head \o blocks)[n + 2] = Block(run, key, n + 1, Pad)
  <2>1. n + 1 \in 1 .. n + 1 /\ ~(n + 1 <= n) /\ n + 1 + 1 = n + 2
    BY <1>1
  <2>2. QED
    BY <1>8, <2>1
<1>11. QED
  BY <1>5, <1>6, <1>7, <1>9, <1>10

LEMMA DataIsSealing ==
  ASSUME NEW run, NEW key, NEW size, NEW text, Len(text) \in Nat
  PROVE  IsSealing(run, key, DataOf(run, key, size, text))
<1> DEFINE data == DataOf(run, key, size, text)
           n == Len(text)
<1>1. n \in Nat
  OBVIOUS
<1>2. /\ IsSequence(data) /\ Len(data) = n + 2
      /\ data[1] = Header(run, size)
      /\ \A k \in 1 .. n : data[k + 1] = Block(run, key, k, text[k])
      /\ data[n + 2] = Block(run, key, n + 1, Pad)
  BY <1>1, DataCells
<1> HIDE DEF data, n
<1>3. data[1] = Header(run, data[1][3])
  BY <1>2, CellKinds
<1>4. \A k \in 1 .. n : data[k + 1] = Block(run, key, k, Content(data[k + 1]))
  BY <1>2, CellKinds
<1>5. Len(data) - 2 = n /\ Len(data) - 1 = n + 1 /\ Len(data) >= 2
  BY <1>1, <1>2
<1>6. IsSealing(run, key, data)
  BY <1>2, <1>3, <1>4, <1>5 DEF IsSealing
<1>7. QED
  BY <1>6 DEF data

\* The other way round: what is laid out like this is the sealed form of its text.
LEMMA SealingOfData ==
  ASSUME NEW run, NEW key, NEW data, IsSealing(run, key, data)
  PROVE  data = DataOf(run, key, data[1][3],
                       [k \in 1 .. Len(data) - 2 |-> Content(data[k + 1])])
<1> DEFINE n == Len(data) - 2
           text == [k \in 1 .. n |-> Content(data[k + 1])]
           whole == DataOf(run, key, data[1][3], text)
<1>1. n \in Nat /\ Len(data) = n + 2 /\ Len(data) - 1 = n + 1
  BY DEF IsSealing, IsSequence
<1>2. Len(text) = n /\ \A k \in 1 .. n : text[k] = Content(data[k + 1])
  <2>1. text = [k \in 1 .. n |-> text[k]] /\ \A k \in 1 .. n : text[k] = Content(data[k + 1])
    OBVIOUS
  <2> HIDE DEF text, n
  <2>2. QED
    BY <1>1, <2>1, FunctionIs
<1> HIDE DEF n, text
<1>3. /\ IsSequence(whole) /\ Len(whole) = n + 2
      /\ whole[1] = Header(run, data[1][3])
      /\ \A k \in 1 .. n : whole[k + 1] = Block(run, key, k, text[k])
      /\ whole[n + 2] = Block(run, key, n + 1, Pad)
  <2>1. Len(text) \in Nat /\ Len(text) = n
    BY <1>1, <1>2
  <2>2. LET d == whole
        IN  /\ IsSequence(d) /\ Len(d) = Len(text) + 2
            /\ d[1] = Header(run, data[1][3])
            /\ \A k \in 1 .. Len(text) : d[k + 1] = Block(run, key, k, text[k])
            /\ d[Len(text) + 2] = Block(run, key, Len(text) + 1, Pad)
    BY <2>1, DataCells
  <2> HIDE DEF whole
  <2>3. QED
    BY <2>1, <2>2
<1> HIDE DEF whole
<1>4. /\ IsSequence(data) /\ data[1] = Header(run, data[1][3])
      /\ \A k \in 1 .. n : data[k + 1] = Block(run, key, k, Content(data[k + 1]))
      /\ data[n + 2] = Block(run, key, n + 1, Pad)
  BY <1>1 DEF IsSealing, n
<1>5. ASSUME NEW j \in 1 .. n + 2 PROVE data[j] = whole[j]
  <2>1. CASE j = 1
    BY <1>3, <1>4, <2>1
  <2>2. CASE j = n + 2
    BY <1>3, <1>4, <2>2
  <2>3. CASE j # 1 /\ j # n + 2
    <3>1. j - 1 \in 1 .. n /\ (j - 1) + 1 = j
      BY <1>1, <2>3
    <3>2. data[j] = Block(run, key, j - 1, Content(data[j]))
          /\ whole[j] = Block(run, key, j - 1, text[j - 1])
          /\ text[j - 1] = Content(data[j])
      BY <1>2, <1>3, <1>4, <3>1
    <3>3. QED
      BY <3>2
  <2>4. QED
    BY <2>1, <2>2, <2>3
<1>6. data = whole
  <2>1. data = [j \in 1 .. n + 2 |-> data[j]] /\ whole = [j \in 1 .. n + 2 |-> whole[j]]
    BY <1>1, <1>3, <1>4 DEF IsSequence
  <2>2. QED
    BY <1>5, <2>1
<1>7. QED
  BY <1>6 DEF whole, text, n

-----------------------------------------------------------------------------
(* Where cells come from *)

Legit(cell) ==
  \E run, key, data : cell = Mac(key, run, data) /\ IsSealing(run, key, data)

\* Cells among which is what the blocks hold, and all MACs come from a run.
Closed(G) ==
  \A cell \in G : /\ Len(cell) = 5 => cell[5] \in G
                  /\ Len(cell) = 4 => Legit(cell)

\* What is on the disk, and what is to be written.
Among(G) ==
  /\ \A i \in 1 .. Len(file) : \A k \in 1 .. Len(file[i]) : file[i][k] \in G
  /\ \A p \in Started : \A k \in 1 .. Len(proc[p].made) : proc[p].made[k] \in G

\* How far an encoding has come.
PartSealed(p) ==
  /\ At(p, "encode", "open_output") => proc[p].pos = 0
  /\ proc[p].pc = "seal" =>
       /\ Len(proc[p].made) = proc[p].pos + 1
       /\ proc[p].made[1] = Header(p, proc[p].size)
       /\ \A k \in 1 .. proc[p].pos :
            proc[p].made[k + 1] = Block(p, KeyOf(p), k, Content(proc[p].made[k + 1]))

OriginInv ==
  /\ WorkInv
  /\ \E G : Closed(G) /\ Among(G)
  /\ \A p \in Started : PartSealed(p)

\* What an operation has to keep.
LEMMA OriginKept ==
  ASSUME OriginInv, NEW p \in Procs, Moves(p), NEW G, Among(G), NEW H, Closed(H), G \subseteq H,
         \A i \in 1 .. Len(file') : \A k \in 1 .. Len(file'[i]) : file'[i][k] \in H,
         \A k \in 1 .. Len(proc'[p].made) : proc'[p].made[k] \in H,
         PartSealed(p)'
  PROVE  OriginInv'
<1>1. /\ WorkInv /\ p \in Started /\ plan' = plan /\ Started' = Started
      /\ \A q \in Procs \ {p} : proc'[q] = proc[q]
  BY OthersLeft DEF OriginInv, Started
<1>2. WorkInv'
  BY <1>1, StepKeeps, KillKeeps DEF Moves
<1>3. ASSUME NEW q \in Started, q # p
      PROVE  (\A k \in 1 .. Len(proc'[q].made) : proc'[q].made[k] \in H) /\ PartSealed(q)'
  <2>1. proc'[q] = proc[q]
    BY <1>1, <1>3 DEF Started
  <2>2. PartSealed(q)
    BY DEF OriginInv
  <2>3. QED
    BY <1>1, <2>1, <2>2 DEF Among, PartSealed, KeyOf, At
<1>4. Among(H)'
  <2>1. ASSUME NEW q \in Started
        PROVE  \A k \in 1 .. Len(proc'[q].made) : proc'[q].made[k] \in H
    BY <1>3
  <2>2. QED
    BY <1>1, <2>1 DEF Among
<1>5. Closed(H)'
  BY DEF Closed, Legit
<1>6. \A q \in Started' : PartSealed(q)'
  BY <1>1, <1>3
<1>7. QED
  BY <1>2, <1>4, <1>5, <1>6 DEF OriginInv

\* A cell that comes to them.
LEMMA ClosedWith ==
  ASSUME NEW G, Closed(G), NEW cell, Len(cell) = 5 => cell[5] \in G,
         Len(cell) = 4 => Legit(cell)
  PROVE  Closed(G \cup {cell}) /\ G \subseteq G \cup {cell}
BY DEF Closed

LEMMA OpeningCells ==
  ASSUME Disk, NEW n, NEW others, OpenForWriting(n, others), NEW G, Among(G)
  PROVE  \A i \in 1 .. Len(file') : \A k \in 1 .. Len(file'[i]) : file'[i][k] \in G
<1>1. /\ Len(file) \in Nat /\ DOMAIN file = 1 .. Len(file) /\ IsSequence(file)
      /\ \A m \in DOMAIN dir : dir[m] \in 1 .. Len(file)
      /\ file = [j \in 1 .. Len(file) |-> file[j]]
  BY OfSequence DEF Disk, IsSequence
<1>2. ASSUME NEW i \in 1 .. Len(file'), file'[i] = <<>>
      PROVE  \A k \in 1 .. Len(file'[i]) : file'[i][k] \in G
  BY <1>2, EmptySequence
<1>3. ASSUME NEW i \in 1 .. Len(file), file'[i] = file[i]
      PROVE  \A k \in 1 .. Len(file'[i]) : file'[i][k] \in G
  BY <1>3 DEF Among
<1>4. CASE n \in DOMAIN dir
  <2>1. file' = [file EXCEPT ![dir[n]] = <<>>]
    BY <1>4 DEF OpenForWriting
  <2>2. Len(file') = Len(file)
    <3>1. file' = [j \in 1 .. Len(file) |-> file'[j]]
      BY <1>1, <2>1
    <3>2. QED
      BY <1>1, <3>1, FunctionIs
  <2>3. \A i \in 1 .. Len(file) : file'[i] \in {file[i], <<>>}
    BY <1>1, <2>1
  <2>4. QED
    BY <1>2, <1>3, <2>2, <2>3
<1>5. CASE n \notin DOMAIN dir
  <2>1. file' = Append(file, <<>>)
    BY <1>5 DEF OpenForWriting
  <2>2. /\ Len(file') = Len(file) + 1 /\ file'[Len(file) + 1] = <<>>
        /\ \A i \in 1 .. Len(file) : file'[i] = file[i]
    BY <1>1, <2>1, Appending
  <2>3. QED
    BY <1>1, <1>2, <1>3, <2>2
<1>6. QED
  BY <1>4, <1>5

LEMMA PuttingCells ==
  ASSUME Disk, NEW p, NEW i \in 1 .. Len(file), NEW k \in Nat \ {0}, NEW cell,
         PutCell(p, i, k, cell), NEW G, Among(G), cell \in G, Hole \in G
  PROVE  \A j \in 1 .. Len(file') : \A m \in 1 .. Len(file'[j]) : file'[j][m] \in G
<1>1. /\ Len(file) \in Nat /\ DOMAIN file = 1 .. Len(file) /\ IsSequence(file[i])
  BY OfSequence DEF Disk
<1>2. file' = [file EXCEPT ![i] = With(file[i], k, cell)] /\ Len(file') = Len(file)
  BY PutDisk DEF PutCell
<1> DEFINE n == IF k > Len(file[i]) THEN k ELSE Len(file[i])
           f == [j \in 1 .. n |-> IF j = k THEN cell
                                  ELSE IF j <= Len(file[i]) THEN file[i][j] ELSE Hole]
<1>3. With(file[i], k, cell) = f
  BY DEF With
<1>4. Len(f) = n
  BY <1>1, <1>3, WithIsSequence
<1>5. Len(file[i]) \in Nat
  BY <1>1 DEF IsSequence
<1>6. n \in Nat
  BY <1>5
<1>7. \A j \in 1 .. n :
        f[j] = IF j = k THEN cell ELSE IF j <= Len(file[i]) THEN file[i][j] ELSE Hole
  OBVIOUS
<1> HIDE DEF f, n
<1>8. \A j \in 1 .. n : f[j] \in G
  <2>1. \A j \in 1 .. Len(file[i]) : file[i][j] \in G
    BY DEF Among
  <2>2. QED
    BY <1>5, <1>6, <1>7, <2>1
<1>9. ASSUME NEW j \in 1 .. Len(file') PROVE \A m \in 1 .. Len(file'[j]) : file'[j][m] \in G
  <2>1. CASE j = i
    <3>1. file'[j] = f
      BY <1>1, <1>2, <1>3, <2>1
    <3>2. QED
      BY <1>4, <1>8, <3>1
  <2>2. CASE j # i
    <3>1. file'[j] = file[j] /\ j \in 1 .. Len(file)
      BY <1>1, <1>2, <2>2
    <3>2. QED
      BY <3>1 DEF Among
  <2>3. QED
    BY <2>1, <2>2
<1>10. QED
  BY <1>9

\* An operation that prepares nothing to be written.
LEMMA MakesNothing ==
  ASSUME OriginInv, NEW p \in Procs, Moves(p), FilesStay, proc'[p].pc # "seal",
         At(p, "encode", "open_output")' => proc'[p].pos = 0,
         proc'[p].made \in {proc[p].made, <<>>}
  PROVE  OriginInv'
<1>1. PICK G : Closed(G) /\ Among(G)
  BY DEF OriginInv
<1>2. p \in Started
  BY OthersLeft DEF OriginInv
<1>3. \A i \in 1 .. Len(file') : \A k \in 1 .. Len(file'[i]) : file'[i][k] \in G
  BY <1>1 DEF FilesStay, Among
<1>4. \A k \in 1 .. Len(proc'[p].made) : proc'[p].made[k] \in G
  BY <1>1, <1>2, EmptySequence DEF Among
<1>5. PartSealed(p)'
  BY DEF PartSealed
<1>6. QED
  BY <1>1, <1>3, <1>4, <1>5, OriginKept

LEMMA EndMakesNothing ==
  ASSUME WorkInv, NEW p \in Started, NEW value, Return(p, value)
  PROVE  proc'[p].pc = "done" /\ proc'[p].made = <<>>
<1> DEFINE change == [Fresh EXCEPT !.pc = "done", !.result = value]
<1>1. /\ DOMAIN change = Fields /\ change.pc = "done" /\ change.made = <<>> /\ Become(p, change)
  BY FreshIs DEF Fields, Return
<1> HIDE DEF change
<1>2. QED
  BY <1>1, NewFields DEF Fields

LEMMA MostMakeNothing ==
  ASSUME OriginInv, NEW p \in Started, Moves(p),
         \/ Dispatch(p) \/ Check(p) \/ Open(p) \/ Close(p) \/ MeasureInput(p)
         \/ ReadHead(p) \/ MeasureSealed(p) \/ ReadMac(p) \/ ReadBlock(p) \/ Verify(p)
         \/ MeasureFile(p) \/ Kill(p)
  PROVE  OriginInv'
<1>1. WorkInv /\ FilesStay /\ p \in Procs
  BY DEF OriginInv, Started, Dispatch, Check, Open, Close, MeasureInput, ReadHead,
         MeasureSealed, ReadMac, ReadBlock, Verify, MeasureFile, Kill
<1>2. ASSUME NEW value, Return(p, value) PROVE OriginInv'
  BY <1>1, <1>2, EndMakesNothing, MakesNothing DEF At
<1>3. ASSUME NEW change, Become(p, change), "made" \notin DOMAIN change,
             "pc" \in DOMAIN change, change["pc"] \notin {"seal", "open_output"}
      PROVE  OriginInv'
  <2>1. proc'[p].made = proc[p].made /\ proc'[p].pc \notin {"seal", "open_output"}
    BY <1>1, <1>3, NewFields DEF Fields
  <2>2. QED
    BY <1>1, <2>1, MakesNothing DEF At
<1>4. CASE Dispatch(p) \/ Check(p) \/ Open(p) \/ Close(p) \/ Kill(p)
  BY <1>2, <1>3, <1>4 DEF Dispatch, Check, Open, Close, Kill
<1>5. CASE ReadHead(p) \/ MeasureSealed(p) \/ ReadMac(p) \/ MeasureFile(p)
  BY <1>2, <1>3, <1>5 DEF ReadHead, MeasureSealed, ReadMac, MeasureFile
<1>6. CASE ReadBlock(p)
  <2> DEFINE change == [pos |-> proc[p].pos + 1, got |-> Append(proc[p].got, NextCell(p))]
  <2>1. Become(p, change) /\ proc[p].pc # "seal"
    BY <1>6 DEF ReadBlock, At
  <2>2. proc'[p].made = proc[p].made /\ proc'[p].pc = "verify"
    <3>1. proc[p].pc = "verify" /\ "pc" \notin DOMAIN change /\ "made" \notin DOMAIN change
      BY <1>6 DEF ReadBlock, At
    <3> HIDE DEF change
    <3>2. QED
      BY <1>1, <2>1, <3>1, NewFields DEF Fields
  <2>3. QED
    BY <1>1, <2>1, <2>2, MakesNothing DEF At
<1>7. CASE MeasureInput(p)
  <2> DEFINE change == [pc |-> "open_output", size |-> Measured(p)]
  <2>1. CASE Become(p, change)
    <3>1. proc[p].pc = "measure"
      BY <1>7 DEF MeasureInput, At
    <3>2. proc[p].pos = 0
      BY <1>1, <3>1, Mover DEF Typed
    <3>3. /\ proc'[p].made = proc[p].made /\ proc'[p].pc = "open_output"
          /\ proc'[p].pos = proc[p].pos
      BY <1>1, <2>1, NewFields DEF Fields
    <3>4. QED
      BY <1>1, <3>2, <3>3, MakesNothing
  <2>2. QED
    BY <1>2, <1>7, <2>1 DEF MeasureInput
<1>8. CASE Verify(p)
  <2>1. CASE Become(p, [pc |-> "open_output"])
    <3>1. plan'[p].verb # "encode"
      BY <1>8, OthersLeft DEF Verify, At, OriginInv, Started
    <3>2. proc'[p].made = proc[p].made /\ proc'[p].pc = "open_output"
      BY <1>1, <2>1, NewFields DEF Fields
    <3>3. QED
      BY <1>1, <3>1, <3>2, MakesNothing DEF At
  <2>2. QED
    BY <1>2, <1>8, <2>1 DEF Verify
<1>9. QED
  BY <1>4, <1>5, <1>6, <1>7, <1>8

LEMMA OpenSealedMakes ==
  ASSUME OriginInv, NEW p \in Started, Moves(p), OpenSealed(p) PROVE OriginInv'
<1> DEFINE n == OutputName(plan[p].file, "enc")
           head == Header(p, proc[p].size)
           i == dir'[n]
           made == <<head>>
           change == [pc |-> "seal", out |-> i, made |-> made]
<1>1. /\ WorkInv /\ Disk /\ p \in Procs /\ proc[p].pc = "open_output"
      /\ OpenForWriting(n, Procs) /\ Become(p, change) /\ plan[p].verb = "encode"
  BY Mover DEF OriginInv, OpenSealed, At
<1>2. PICK G : Closed(G) /\ Among(G)
  BY DEF OriginInv
<1>3. Len(head) = 3
  BY CellKinds
<1>4. Closed(G \cup {head}) /\ G \subseteq G \cup {head}
  <2> HIDE DEF head
  <2>1. QED
    BY <1>2, <1>3, ClosedWith
<1>5. \A j \in 1 .. Len(file') : \A k \in 1 .. Len(file'[j]) : file'[j][k] \in G \cup {head}
  BY <1>1, <1>2, OpeningCells
<1>6. Len(made) = 1 /\ made[1] = head
  OBVIOUS
<1> HIDE DEF made, i
<1>7. /\ proc'[p].pc = "seal" /\ proc'[p].made = made /\ proc'[p].pos = proc[p].pos
      /\ proc'[p].size = proc[p].size
  BY <1>1, NewFields DEF Fields
<1>8. PartSealed(p)'
  <2>1. PartSealed(p)
    BY DEF OriginInv
  <2>2. proc[p].pos = 0
    BY <1>1, <2>1 DEF PartSealed, At
  <2>3. QED
    BY <1>6, <1>7, <2>2 DEF PartSealed, At
<1>9. \A k \in 1 .. Len(proc'[p].made) : proc'[p].made[k] \in G \cup {head}
  <2> HIDE DEF head
  <2>1. \A k \in 1 .. 1 : made[k] \in G \cup {head}
    BY <1>6
  <2>2. QED
    BY <1>6, <1>7, <2>1
<1> HIDE DEF head
<1>10. QED
  BY <1>1, <1>2, <1>4, <1>5, <1>8, <1>9, OriginKept

LEMMA SealBlockMakes ==
  ASSUME OriginInv, NEW p \in Started, Moves(p), SealBlock(p) PROVE OriginInv'
<1> DEFINE k == proc[p].pos + 1
           cell == Block(p, KeyOf(p), k, NextCell(p))
           made == proc[p].made
           longer == Append(made, cell)
           change == [pos |-> k, made |-> longer]
<1>1. /\ WorkInv /\ p \in Procs /\ proc[p].pc = "seal" /\ FilesStay /\ ~AtEnd(p)
      /\ plan' = plan
  BY OthersLeft, Mover DEF OriginInv, SealBlock, At
<1>2. CASE Return(p, "died")
  BY <1>1, <1>2, EndMakesNothing, MakesNothing DEF At
<1>3. CASE Become(p, change)
  <2>1. PICK G : Closed(G) /\ Among(G)
    BY DEF OriginInv
  <2>2. /\ proc[p].pos \in Nat /\ IsSequence(made)
    BY <1>1, Mover, Zenon DEF Typed
  <2>3. PartSealed(p)
    BY DEF OriginInv
  <2>4. /\ Len(made) = k /\ made[1] = Header(p, proc[p].size)
        /\ \A j \in 1 .. proc[p].pos : made[j + 1] = Block(p, KeyOf(p), j, Content(made[j + 1]))
    BY <1>1, <2>3 DEF PartSealed
  <2>5. NextCell(p) \in G
    <3>1. proc[p].in \in 1 .. Len(file) /\ IsSequence(file[proc[p].in])
      BY <1>1, MeasuredType DEF Outside
    <3>2. k \in 1 .. Len(file[proc[p].in])
      BY <1>1, <2>2, <3>1 DEF AtEnd, IsSequence
    <3>3. QED
      BY <2>1, <3>1, <3>2 DEF Among, NextCell
  <2>6. Len(cell) = 5 /\ cell[5] \in G /\ Content(cell) = NextCell(p)
    BY <2>5, CellKinds
  <2>7. Closed(G \cup {cell}) /\ G \subseteq G \cup {cell}
    <3> HIDE DEF cell
    <3>1. QED
      BY <2>1, <2>6, ClosedWith
  <2>8. /\ IsSequence(longer) /\ Len(longer) = k + 1 /\ longer[k + 1] = cell
        /\ \A j \in 1 .. k : longer[j] = made[j]
    <3> HIDE DEF cell, k
    <3>1. QED
      BY <2>2, <2>4, Appending
  <2>9. /\ proc'[p].pc = "seal" /\ proc'[p].made = longer /\ proc'[p].pos = k
        /\ proc'[p].size = proc[p].size
    <3>1. /\ "pc" \notin DOMAIN change /\ "size" \notin DOMAIN change
          /\ change["made"] = longer /\ change["pos"] = k
          /\ "made" \in DOMAIN change /\ "pos" \in DOMAIN change
      OBVIOUS
    <3> HIDE DEF change, longer, k
    <3>2. QED
      BY <1>1, <1>3, <3>1, NewFields DEF Fields
  <2>10. \A j \in 1 .. k : longer[j + 1] = Block(p, KeyOf(p), j, Content(longer[j + 1]))
    <3>1. ASSUME NEW j \in 1 .. proc[p].pos
          PROVE  longer[j + 1] = Block(p, KeyOf(p), j, Content(longer[j + 1]))
      <4>1. j + 1 \in 1 .. k
        BY <2>2
      <4>2. longer[j + 1] = made[j + 1]
        BY <2>8, <4>1
      <4>3. QED
        BY <2>4, <4>2
    <3>2. longer[k + 1] = Block(p, KeyOf(p), k, Content(longer[k + 1]))
      BY <2>6, <2>8
    <3>3. \A j \in 1 .. k : j = k \/ j \in 1 .. proc[p].pos
      BY <2>2
    <3>4. QED
      BY <3>1, <3>2, <3>3
  <2>11. longer[1] = Header(p, proc[p].size)
    <3>1. 1 \in 1 .. k
      BY <2>2
    <3>2. QED
      BY <2>4, <2>8, <3>1
  <2>12. \A j \in 1 .. Len(longer) : longer[j] \in G \cup {cell}
    <3>1. \A j \in 1 .. k : made[j] \in G
      BY <2>1, <2>4 DEF Among
    <3>2. \A j \in 1 .. k + 1 : j = k + 1 \/ j \in 1 .. k
      BY <2>2
    <3> HIDE DEF cell, k, longer
    <3>3. QED
      BY <2>8, <3>1, <3>2
  <2> HIDE DEF cell, longer
  <2>13. PartSealed(p)'
    <3>1. KeyOf(p)' = KeyOf(p)
      BY <1>1 DEF KeyOf
    <3>2. QED
      BY <2>8, <2>9, <2>10, <2>11, <3>1 DEF PartSealed, At
  <2>14. \A i \in 1 .. Len(file') : \A j \in 1 .. Len(file'[i]) : file'[i][j] \in G \cup {cell}
    BY <1>1, <2>1 DEF FilesStay, Among
  <2>15. QED
    BY <1>1, <2>1, <2>7, <2>9, <2>12, <2>13, <2>14, OriginKept
<1>4. QED
  BY <1>2, <1>3 DEF SealBlock

LEMMA SealEndMakes ==
  ASSUME OriginInv, NEW p \in Started, Moves(p), SealEnd(p) PROVE OriginInv'
<1> DEFINE k == proc[p].pos + 1
           cell == Block(p, KeyOf(p), k, Pad)
           made == proc[p].made
           data == Append(made, cell)
           mac == Mac(KeyOf(p), p, data)
           longer == Append(data, mac)
           change == [pc |-> "close", result |-> "0", made |-> longer]
<1>1. /\ WorkInv /\ p \in Procs /\ proc[p].pc = "seal" /\ FilesStay /\ Become(p, change)
  BY Mover DEF OriginInv, SealEnd, At
<1>2. PICK G : Closed(G) /\ Among(G)
  BY DEF OriginInv
<1>3. /\ proc[p].pos \in Nat /\ IsSequence(made)
  BY <1>1, Mover, Zenon DEF Typed
<1>4. PartSealed(p)
  BY DEF OriginInv
<1>5. /\ Len(made) = k /\ made[1] = Header(p, proc[p].size)
      /\ \A j \in 1 .. proc[p].pos : made[j + 1] = Block(p, KeyOf(p), j, Content(made[j + 1]))
  BY <1>1, <1>4 DEF PartSealed
<1>6. Len(cell) = 5 /\ cell[5] = Pad /\ Len(mac) = 4 /\ Len(Pad) = 1
  BY CellKinds
<1>7. /\ IsSequence(data) /\ Len(data) = k + 1 /\ data[k + 1] = cell
      /\ \A j \in 1 .. k : data[j] = made[j]
  <2> HIDE DEF cell, k
  <2>1. QED
    BY <1>3, <1>5, Appending
<1>8. /\ IsSequence(longer) /\ Len(longer) = k + 2 /\ longer[k + 2] = mac
      /\ \A j \in 1 .. k + 1 : longer[j] = data[j]
  <2>1. k + 1 + 1 = k + 2
    BY <1>3
  <2> HIDE DEF mac, data, k
  <2>2. QED
    BY <1>7, <2>1, Appending
<1>9. IsSealing(p, KeyOf(p), data)
  <2>1. Len(data) - 2 = proc[p].pos /\ Len(data) - 1 = k /\ Len(data) >= 2
    <3> HIDE DEF data, cell
    <3>1. QED
      BY <1>3, <1>7
  <2>2. \A j \in 1 .. proc[p].pos : data[j + 1] = made[j + 1]
    BY <1>3, <1>7
  <2>3. data[1] = Header(p, proc[p].size)
    <3>1. 1 \in 1 .. k
      BY <1>3
    <3>2. QED
      BY <1>5, <1>7, <3>1
  <2>4. data[1] = Header(p, data[1][3])
    BY <2>3, CellKinds
  <2>5. data[Len(data)] = cell
    BY <1>7
  <2> HIDE DEF data, k
  <2>6. QED
    BY <1>5, <1>7, <2>1, <2>2, <2>4, <2>5 DEF IsSealing
<1>10. Legit(mac)
  BY <1>9 DEF Legit
<1> DEFINE H == ((G \cup {Pad}) \cup {cell}) \cup {mac}
<1>11. Closed(H) /\ G \subseteq H
  <2> HIDE DEF cell, mac
  <2>1. Closed(G \cup {Pad})
    BY <1>2, <1>6, ClosedWith
  <2>2. Closed((G \cup {Pad}) \cup {cell})
    BY <1>6, <2>1, ClosedWith
  <2>3. QED
    BY <1>6, <1>10, <2>2, ClosedWith
<1>12. cell \in H /\ mac \in H
  OBVIOUS
<1>13. /\ proc'[p].pc = "close" /\ proc'[p].made = longer
  <2>1. /\ change["pc"] = "close" /\ change["made"] = longer
        /\ "made" \in DOMAIN change /\ "pc" \in DOMAIN change
    OBVIOUS
  <2> HIDE DEF change, longer
  <2>2. QED
    BY <1>1, <2>1, NewFields DEF Fields
<1>14. \A j \in 1 .. Len(longer) : longer[j] \in H
  <2>1. \A j \in 1 .. k : made[j] \in H
    BY <1>2, <1>5, <1>11 DEF Among
  <2>2. \A j \in 1 .. k + 2 : j = k + 2 \/ j = k + 1 \/ j \in 1 .. k
    BY <1>3
  <2>3. \A j \in 1 .. k + 1 : j \in 1 .. k \/ j = k + 1
    BY <1>3
  <2>4. k + 1 \in 1 .. k + 1 /\ \A j \in 1 .. k : j \in 1 .. k + 1
    BY <1>3
  <2> HIDE DEF cell, k, mac, data, longer, H
  <2>5. QED
    BY <1>7, <1>8, <1>12, <2>1, <2>2, <2>3, <2>4
<1> HIDE DEF cell, longer, H
<1>15. PartSealed(p)'
  BY <1>13 DEF PartSealed, At
<1>16. \A i \in 1 .. Len(file') : \A j \in 1 .. Len(file'[i]) : file'[i][j] \in H
  BY <1>1, <1>2, <1>11 DEF FilesStay, Among
<1>17. QED
  BY <1>1, <1>2, <1>11, <1>13, <1>14, <1>15, <1>16, OriginKept

\* What decode writes.
LEMMA OpenedCell ==
  ASSUME NEW G, Closed(G), NEW cell \in G, NEW before, NEW key
  PROVE  Opened(cell, before, key) \in G \cup {Junk}
BY DEF Opened, Closed

LEMMA ClosedWithJunk ==
  ASSUME NEW G, Closed(G) PROVE Closed(G \cup {Junk}) /\ G \subseteq G \cup {Junk}
<1>1. Len(Junk) = 1
  BY CellKinds
<1>2. QED
  BY <1>1, ClosedWith

LEMMA UnsealingMakes ==
  ASSUME OriginInv, NEW p \in Started, Moves(p), NEW G, Closed(G), Among(G), FilesStay,
         proc'[p].pc \in {"unseal", "close"},
         \/ proc'[p].made = proc[p].made
         \/ \E cell \in G \cup {Junk} : proc'[p].made = Append(proc[p].made, cell)
  PROVE  OriginInv'
<1>1. p \in Procs /\ IsSequence(proc[p].made)
  BY Mover, Zenon DEF OriginInv, Typed
<1>2. Closed(G \cup {Junk}) /\ G \subseteq G \cup {Junk}
  BY ClosedWithJunk
<1>3. \A k \in 1 .. Len(proc[p].made) : proc[p].made[k] \in G
  BY DEF Among
<1>4. \A k \in 1 .. Len(proc'[p].made) : proc'[p].made[k] \in G \cup {Junk}
  <2>1. CASE proc'[p].made = proc[p].made
    BY <1>3, <2>1
  <2>2. ASSUME NEW cell \in G \cup {Junk}, proc'[p].made = Append(proc[p].made, cell)
        PROVE  \A k \in 1 .. Len(proc'[p].made) : proc'[p].made[k] \in G \cup {Junk}
    <3> DEFINE n == Len(proc[p].made)
    <3>1. /\ n \in Nat /\ Len(proc'[p].made) = n + 1
          /\ \A k \in 1 .. n : proc'[p].made[k] = proc[p].made[k]
          /\ proc'[p].made[n + 1] = cell
      BY <1>1, <2>2, Appending
    <3>2. \A k \in 1 .. n + 1 : k = n + 1 \/ k \in 1 .. n
      BY <3>1
    <3>3. QED
      BY <1>3, <3>1, <3>2
  <2>3. QED
    BY <2>1, <2>2
<1>5. PartSealed(p)'
  BY DEF PartSealed, At
<1>6. \A i \in 1 .. Len(file') : \A j \in 1 .. Len(file'[i]) : file'[i][j] \in G \cup {Junk}
  BY DEF FilesStay, Among
<1>7. QED
  BY <1>1, <1>2, <1>4, <1>5, <1>6, OriginKept

LEMMA NextCellIn ==
  ASSUME OriginInv, NEW p \in Started, NEW G, Among(G), proc[p].pc \notin Outside, ~AtEnd(p)
  PROVE  NextCell(p) \in G
<1>1. proc[p].in \in 1 .. Len(file) /\ IsSequence(file[proc[p].in]) /\ proc[p].pos \in Nat
  BY MeasuredType, Mover DEF OriginInv, Typed
<1>2. proc[p].pos + 1 \in 1 .. Len(file[proc[p].in])
  BY <1>1 DEF AtEnd, IsSequence
<1>3. QED
  BY <1>1, <1>2 DEF Among, NextCell

LEMMA UnsealMakes ==
  ASSUME OriginInv, NEW p \in Started, Moves(p), UnsealBlock(p) \/ UnsealLast(p)
  PROVE  OriginInv'
<1>1. PICK G : Closed(G) /\ Among(G)
  BY DEF OriginInv
<1>2. WorkInv /\ FilesStay /\ proc[p].pc = "unseal"
  BY DEF OriginInv, UnsealBlock, UnsealLast, At
<1>3. ASSUME NEW change, Become(p, change), "made" \notin DOMAIN change,
             "pc" \in DOMAIN change, change["pc"] = "close"
      PROVE  OriginInv'
  <2>1. proc'[p].pc = "close" /\ proc'[p].made = proc[p].made
    BY <1>2, <1>3, NewFields DEF Fields
  <2>2. QED
    BY <1>1, <1>2, <2>1, UnsealingMakes
<1>4. ASSUME NEW change, Become(p, change), "made" \in DOMAIN change,
             NEW cell \in G \cup {Junk}, change["made"] = Append(proc[p].made, cell),
             "pc" \in DOMAIN change => change["pc"] = "close"
      PROVE  OriginInv'
  <2>1. proc'[p].pc \in {"close", "unseal"} /\ proc'[p].made = Append(proc[p].made, cell)
    BY <1>2, <1>4, NewFields DEF Fields
  <2>2. QED
    BY <1>1, <1>2, <2>1, UnsealingMakes
<1>5. CASE UnsealLast(p)
  BY <1>3, <1>4, <1>5 DEF UnsealLast
<1>6. CASE UnsealBlock(p)
  <2> DEFINE cell == Opened(NextCell(p), proc[p].got[1], KeyOf(p))
             change == [pos |-> proc[p].pos + 1, got |-> <<NextCell(p)>>,
                        made |-> Append(proc[p].made, cell)]
  <2>1. Become(p, change) /\ ~AtEnd(p)
    BY <1>6 DEF UnsealBlock
  <2>2. cell \in G \cup {Junk}
    BY <1>1, <1>2, <2>1, NextCellIn, OpenedCell DEF Outside
  <2>3. /\ "made" \in DOMAIN change /\ "pc" \notin DOMAIN change
        /\ change["made"] = Append(proc[p].made, cell)
    OBVIOUS
  <2> HIDE DEF change, cell
  <2>4. QED
    BY <1>4, <2>1, <2>2, <2>3
<1>7. QED
  BY <1>5, <1>6

LEMMA FlushMakes ==
  ASSUME OriginInv, NEW p \in Started, Moves(p), Flush(p) PROVE OriginInv'
<1> DEFINE k == proc[p].flushed + 1
           cell == proc[p].made[k]
           change == [flushed |-> k]
<1>1. /\ WorkInv /\ Disk /\ p \in Procs /\ proc[p].out # None /\ Become(p, change)
      /\ PutCell(p, proc[p].out, k, cell) /\ proc[p].flushed < Len(proc[p].made)
      /\ plan' = plan
  BY OthersLeft, Mover DEF OriginInv, Flush
<1>2. /\ proc[p].out \in 0 .. Len(file) /\ Len(file) \in Nat
      /\ proc[p].flushed \in 0 .. Len(proc[p].made) /\ Len(proc[p].made) \in Nat
  BY <1>1, Mover, Zenon DEF Typed, IsSequence
<1>3. proc[p].out \in 1 .. Len(file) /\ k \in Nat \ {0} /\ k \in 1 .. Len(proc[p].made)
  BY <1>1, <1>2 DEF None
<1>4. PICK G : Closed(G) /\ Among(G)
  BY DEF OriginInv
<1>5. cell \in G
  BY <1>3, <1>4 DEF Among
<1>6. Closed(G \cup {Hole}) /\ G \subseteq G \cup {Hole}
  <2>1. Len(Hole) = 1
    BY CellKinds
  <2>2. QED
    BY <1>4, <2>1, ClosedWith
<1>7. /\ proc'[p].pc = proc[p].pc /\ proc'[p].made = proc[p].made
      /\ proc'[p].pos = proc[p].pos /\ proc'[p].size = proc[p].size
  <2>1. DOMAIN change = {"flushed"}
    OBVIOUS
  <2> HIDE DEF change
  <2>2. QED
    BY <1>1, <2>1, NewFields DEF Fields
<1>8. PartSealed(p)'
  <2>1. PartSealed(p) /\ KeyOf(p)' = KeyOf(p)
    BY <1>1 DEF OriginInv, KeyOf
  <2>2. QED
    BY <1>1, <1>7, <2>1 DEF PartSealed, At
<1>9. Among(G \cup {Hole})
  BY <1>4 DEF Among
<1> HIDE DEF k, cell
<1>10. \A i \in 1 .. Len(file') : \A j \in 1 .. Len(file'[i]) : file'[i][j] \in G \cup {Hole}
  BY <1>1, <1>3, <1>5, <1>9, PuttingCells
<1>11. \A j \in 1 .. Len(proc'[p].made) : proc'[p].made[j] \in G \cup {Hole}
  BY <1>7, <1>9 DEF Among
<1>12. QED
  BY <1>1, <1>4, <1>6, <1>8, <1>10, <1>11, OriginKept

LEMMA WipeMakes ==
  ASSUME OriginInv, NEW p \in Started, Moves(p), Wipe(p) PROVE OriginInv'
<1> DEFINE k == Target(p)
           pass == (proc[p].pos \div proc[p].size) + 1
           cell == Wiped(pass)
           change == [pos |-> proc[p].pos + 1]
<1>1. /\ WorkInv /\ Disk /\ p \in Procs /\ proc[p].pc = "wipe" /\ Become(p, change)
      /\ PutCell(p, proc[p].in, k, cell)
  BY Mover DEF OriginInv, Wipe, At
<1>2. proc[p].in \in 1 .. Len(file)
  BY <1>1, MeasuredType DEF Outside
<1>3. k \in Nat \ {0}
  <2>1. proc[p].size \in Nat \ {0} /\ proc[p].pos \in Nat
    BY <1>1, Mover DEF Typed
  <2>2. QED
    BY <2>1, TargetIs
<1>4. PICK G : Closed(G) /\ Among(G)
  BY DEF OriginInv
<1>5. Len(cell) = 2 /\ Len(Hole) = 1
  BY CellKinds
<1> HIDE DEF k, cell
<1>6. Closed((G \cup {Hole}) \cup {cell})
  <2>1. Closed(G \cup {Hole})
    BY <1>4, <1>5, ClosedWith
  <2>2. QED
    BY <1>5, <2>1, ClosedWith
<1>7. /\ proc'[p].pc = "wipe" /\ proc'[p].made = proc[p].made
  <2>1. DOMAIN change = {"pos"}
    OBVIOUS
  <2> HIDE DEF change
  <2>2. QED
    BY <1>1, <2>1, NewFields DEF Fields
<1>8. PartSealed(p)'
  BY <1>7 DEF PartSealed, At
<1>9. Among((G \cup {Hole}) \cup {cell})
  BY <1>4 DEF Among
<1>10. \A i \in 1 .. Len(file') : \A j \in 1 .. Len(file'[i]) :
         file'[i][j] \in (G \cup {Hole}) \cup {cell}
  BY <1>1, <1>2, <1>3, <1>9, PuttingCells
<1>11. \A j \in 1 .. Len(proc'[p].made) : proc'[p].made[j] \in (G \cup {Hole}) \cup {cell}
  BY <1>7, <1>9 DEF Among
<1>12. QED
  BY <1>1, <1>4, <1>6, <1>8, <1>10, <1>11, OriginKept

LEMMA RestMakes ==
  ASSUME OriginInv, NEW p \in Started, Moves(p), OpenPlain(p) \/ Truncate(p) \/ Unlink(p)
  PROVE  OriginInv'
<1>1. WorkInv /\ Disk /\ p \in Procs
  BY Mover DEF OriginInv
<1>2. PICK G : Closed(G) /\ Among(G)
  BY DEF OriginInv
<1>3. ASSUME NEW change, Become(p, change), "made" \notin DOMAIN change,
             "pc" \in DOMAIN change, change["pc"] \in {"unseal", "unlink"}
      PROVE  proc'[p].made = proc[p].made /\ proc'[p].pc \in {"unseal", "unlink"}
  BY <1>1, <1>3, NewFields DEF Fields
<1>4. /\ proc'[p].made \in {proc[p].made, <<>>}
      /\ proc'[p].pc \in {"unseal", "unlink", "done"}
  <2>1. CASE OpenPlain(p) \/ Truncate(p)
    BY <1>3, <2>1 DEF OpenPlain, Truncate
  <2>2. CASE Unlink(p)
    BY <1>1, <2>2, EndMakesNothing DEF Unlink
  <2>3. QED
    BY <2>1, <2>2
<1>5. \A i \in 1 .. Len(file') : \A j \in 1 .. Len(file'[i]) : file'[i][j] \in G
  <2>1. CASE OpenPlain(p) \/ Truncate(p)
    BY <1>1, <1>2, <2>1, OpeningCells DEF OpenPlain, Truncate
  <2>2. CASE Unlink(p)
    BY <1>2, <2>2 DEF Unlink, Among
  <2>3. QED
    BY <2>1, <2>2
<1>6. \A j \in 1 .. Len(proc'[p].made) : proc'[p].made[j] \in G
  BY <1>2, <1>4, EmptySequence DEF Among
<1>7. PartSealed(p)'
  BY <1>4 DEF PartSealed, At
<1>8. QED
  BY <1>1, <1>2, <1>5, <1>6, <1>7, OriginKept

LEMMA NextOrigin == ASSUME OriginInv, [Next]_vars PROVE OriginInv'
<1>1. ASSUME NEW p \in Procs, Moves(p) PROVE OriginInv'
  <2>1. p \in Started
    BY <1>1, OthersLeft DEF OriginInv
  <2>2. CASE OpenSealed(p) \/ SealBlock(p) \/ SealEnd(p) \/ UnsealBlock(p) \/ UnsealLast(p)
    BY <1>1, <2>1, <2>2, OpenSealedMakes, SealBlockMakes, SealEndMakes, UnsealMakes
  <2>3. CASE Flush(p) \/ Wipe(p) \/ OpenPlain(p) \/ Truncate(p) \/ Unlink(p)
    BY <1>1, <2>1, <2>3, FlushMakes, WipeMakes, RestMakes
  <2>4. QED
    BY <1>1, <2>1, <2>2, <2>3, MostMakeNothing DEF Moves, Step
<1>2. CASE UNCHANGED vars
  <2>1. proc' = proc /\ dir' = dir /\ file' = file /\ plan' = plan /\ touched' = touched
    BY <1>2 DEF vars
  <2>2. WorkInv'
    BY <1>2, NextWork DEF OriginInv
  <2>3. ASSUME NEW G, Closed(G), Among(G) PROVE (Closed(G) /\ Among(G))'
    BY <2>1, <2>3 DEF Closed, Legit, Among, Started
  <2>4. \A p \in Started' : PartSealed(p)'
    BY <2>1 DEF OriginInv, PartSealed, At, KeyOf, Started
  <2>5. QED
    BY <2>2, <2>3, <2>4 DEF OriginInv
<1>3. QED
  BY <1>1, <1>2 DEF Next, Finished, Moves

\* The cells of what an earlier run has left, and of its text.
CellsOf(e) == Range(Sealed(e)) \cup Range(e.text)

LEMMA InitOrigin == ASSUME Init PROVE OriginInv
<1> DEFINE F == UNION {Range(file[i]) : i \in 1 .. Len(file)}
           E == UNION {CellsOf(e) : e \in Earlier}
           G == (F \cup E) \cup {Pad}
<1>1. WorkInv
  BY InitWork
<1>2. \A p \in Started : proc[p].pc \in {"start", "done"} /\ proc[p].made = <<>>
  BY DEF Init, Fresh, Started
<1>3. ASSUME NEW i \in 1 .. Len(file), NEW k \in 1 .. Len(file[i])
      PROVE  file[i][k] \in F /\ HasOrigin(file[i][k])
  <2>1. PICK scene \in Scenes : file = [j \in DOMAIN scene[2] |-> scene[2][j][2]]
    BY DEF Init
  <2>2. i \in Nat /\ k \in Nat
    BY <1>1 DEF WorkInv, Disk, IsSequence
  <2>3. DOMAIN file = 1 .. Len(file) /\ DOMAIN file[i] = 1 .. Len(file[i])
    BY <1>1, OfSequence DEF WorkInv, Disk
  <2>4. i \in DOMAIN scene[2] /\ file[i] = scene[2][i][2]
    BY <2>1, <2>3
  <2>5. HasOrigin(scene[2][i][2][k])
    BY <2>3, <2>4, OriginAssumption
  <2>6. file[i][k] \in Range(file[i])
    BY <2>3 DEF Range
  <2>7. QED
    BY <2>4, <2>5, <2>6
<1>4. ASSUME NEW cell, HasOrigin(cell), Len(cell) \in {4, 5}
      PROVE  /\ Len(cell) = 5 => cell[5] \in E \cup {Pad}
             /\ Len(cell) = 4 => Legit(cell)
  <2>1. PICK e \in Earlier : cell \in Range(Sealed(e))
    BY <1>4 DEF HasOrigin
  <2> DEFINE data == DataOf(e.run, e.key, e.size, e.text)
             n == Len(e.text)
             mac == Mac(e.key, e.run, data)
  <2>2. n \in Nat /\ DOMAIN e.text = 1 .. n
    BY OriginAssumption, OfSequence
  <2>3. /\ IsSequence(data) /\ Len(data) = n + 2
        /\ data[1] = Header(e.run, e.size)
        /\ \A k \in 1 .. n : data[k + 1] = Block(e.run, e.key, k, e.text[k])
        /\ data[n + 2] = Block(e.run, e.key, n + 1, Pad)
    BY <2>2, DataCells
  <2>4. Sealed(e) = Append(data, mac)
    BY SealingIs DEF Sealed
  <2>5. IsSealing(e.run, e.key, data)
    BY <2>2, DataIsSealing
  <2>6. Legit(mac)
    BY <2>5 DEF Legit
  <2> HIDE DEF data, n, mac
  <2>7. /\ IsSequence(Sealed(e)) /\ Len(Sealed(e)) = n + 3 /\ Sealed(e)[n + 3] = mac
        /\ \A k \in 1 .. n + 2 : Sealed(e)[k] = data[k]
    <3>1. n + 2 + 1 = n + 3
      BY <2>2
    <3>2. QED
      BY <2>3, <2>4, <3>1, Appending
  <2>8. PICK k \in 1 .. n + 3 : cell = Sealed(e)[k]
    BY <2>1, <2>7, OfSequence DEF Range
  <2>9. CASE k = n + 3
    <3>1. cell = mac /\ Len(mac) = 4
      BY <2>7, <2>8, <2>9, CellKinds DEF mac
    <3>2. QED
      BY <2>6, <3>1
  <2>10. CASE k = 1
    <3>1. 1 \in 1 .. n + 2
      BY <2>2
    <3>2. cell = Header(e.run, e.size)
      BY <2>3, <2>7, <2>8, <2>10, <3>1
    <3>3. Len(cell) = 3
      BY <3>2, CellKinds
    <3>4. QED
      BY <1>4, <3>3
  <2>11. CASE k \in 2 .. n + 2
    <3>1. k - 1 \in 1 .. n + 1 /\ (k - 1) + 1 = k /\ k \in 1 .. n + 2
      BY <2>2, <2>11
    <3>2. cell = data[(k - 1) + 1]
      BY <2>7, <2>8, <3>1
    <3>3. CASE k - 1 \in 1 .. n
      <4>1. cell = Block(e.run, e.key, k - 1, e.text[k - 1])
        BY <2>3, <3>2, <3>3
      <4>2. Len(cell) = 5 /\ cell[5] = e.text[k - 1]
        BY <4>1, CellKinds
      <4>3. e.text[k - 1] \in Range(e.text)
        BY <2>2, <3>3 DEF Range
      <4>4. cell[5] \in E
        BY <4>2, <4>3 DEF CellsOf
      <4> HIDE DEF E
      <4>5. QED
        BY <4>2, <4>4
    <3>4. CASE k - 1 = n + 1
      <4>1. k = n + 2
        BY <2>2, <3>4, <2>11
      <4>2. cell = Block(e.run, e.key, n + 1, Pad)
        BY <2>3, <3>1, <3>2, <4>1
      <4>3. Len(cell) = 5 /\ cell[5] = Pad
        BY <4>2, CellKinds
      <4>4. QED
        BY <4>3
    <3>5. QED
      BY <2>2, <3>1, <3>3, <3>4
  <2>12. k = n + 3 \/ k = 1 \/ k \in 2 .. n + 2
    BY <2>2
  <2>13. QED
    BY <2>9, <2>10, <2>11, <2>12
<1>5. ASSUME NEW cell \in G
      PROVE  /\ Len(cell) = 5 => cell[5] \in E \cup {Pad}
             /\ Len(cell) = 4 => Legit(cell)
  <2>1. CASE HasOrigin(cell)
    BY <1>4, <2>1
  <2>2. ASSUME cell \in F PROVE HasOrigin(cell)
    <3> HIDE DEF E
    <3>1. PICK i \in 1 .. Len(file) : cell \in Range(file[i])
      BY <2>2
    <3>2. DOMAIN file[i] = 1 .. Len(file[i])
      BY <1>1, OfSequence DEF WorkInv, Disk
    <3>3. PICK k \in 1 .. Len(file[i]) : cell = file[i][k]
      BY <3>1, <3>2 DEF Range
    <3>4. QED
      BY <1>3, <3>3
  <2>3. ASSUME cell \in E
        PROVE  HasOrigin(cell)
    <3>1. PICK e \in Earlier : cell \in CellsOf(e)
      BY <2>3
    <3>2. CASE cell \in Range(Sealed(e))
      BY <3>2 DEF HasOrigin
    <3>3. CASE cell \in Range(e.text)
      BY <3>3, OriginAssumption DEF Range
    <3>4. QED
      BY <3>1, <3>2, <3>3 DEF CellsOf
  <2>4. HasOrigin(Pad)
    <3>1. Len(Pad) = 1
      BY CellKinds
    <3>2. QED
      BY <3>1 DEF HasOrigin
  <2> HIDE DEF F, E
  <2>5. QED
    BY <2>1, <2>2, <2>3, <2>4
<1> HIDE DEF F, E
<1>6. Closed(G)
  BY <1>5 DEF Closed
<1>7. Among(G)
  BY <1>2, <1>3, EmptySequence DEF Among
<1>8. \A p \in Started : PartSealed(p)
  BY <1>2 DEF PartSealed, At
<1>9. QED
  BY <1>1, <1>6, <1>7, <1>8 DEF OriginInv

LEMMA AlwaysOrigin == Spec => []OriginInv
BY InitOrigin, NextOrigin, PTL DEF Spec

\* The text of a sealed file.
TextIn(content) == [k \in 1 .. Len(content) - 3 |-> Content(content[k + 1])]

SealedUnder(key, content) ==
  /\ Len(content) >= 3
  /\ content = Sealing(content[1][2], key, content[1][3], TextIn(content))

LEMMA FrontAndLast ==
  ASSUME NEW s, IsSequence(s), Len(s) > 0
  PROVE  /\ IsSequence(Front(s)) /\ Len(Front(s)) = Len(s) - 1
         /\ \A k \in 1 .. Len(s) - 1 : Front(s)[k] = s[k]
         /\ s = Append(Front(s), s[Len(s)])
<1> DEFINE n == Len(s)
           front == Front(s)
           whole == Append(front, s[n])
<1>1. PICK S : s \in Seq(S)
  BY OfSequence
<1>2. n \in Nat /\ n - 1 \in 0 .. n
  BY DEF IsSequence
<1>3. front = SubSeq(s, 1, n - 1)
  BY DEF Front
<1>4. /\ front \in Seq(S) /\ Len(front) = n - 1 /\ \A k \in 1 .. n - 1 : front[k] = s[k]
  BY <1>1, <1>2, <1>3, FirstPart
<1>5. IsSequence(front)
  BY <1>4, SequenceOf
<1> HIDE DEF front
<1>6. /\ IsSequence(whole) /\ Len(whole) = n /\ whole[n] = s[n]
      /\ \A k \in 1 .. n - 1 : whole[k] = front[k]
  <2>1. n - 1 + 1 = n
    BY <1>2
  <2> HIDE DEF n
  <2>2. QED
    BY <1>4, <1>5, <2>1, Appending
<1> HIDE DEF whole
<1>7. \A k \in 1 .. n : k = n \/ k \in 1 .. n - 1
  BY <1>2
<1>8. \A k \in 1 .. n : whole[k] = s[k]
  BY <1>4, <1>6, <1>7
<1>9. whole = [k \in 1 .. n |-> whole[k]] /\ s = [k \in 1 .. n |-> s[k]]
  BY <1>6 DEF IsSequence
<1>10. whole = s
  BY <1>8, <1>9
<1>11. QED
  BY <1>4, <1>5, <1>10 DEF whole, front

\* What a decoder accepts.
LEMMA AcceptedIsSealed ==
  ASSUME NEW content, IsSequence(content), Len(content) >= 3, Legit(content[Len(content)]),
         NEW key, NEW run, content[Len(content)] = Mac(key, run, Front(content))
  PROVE  SealedUnder(key, content)
<1> DEFINE n == Len(content)
           data == Front(content)
           text == TextIn(content)
<1>1. n \in Nat /\ n >= 3 /\ n > 0
  BY DEF IsSequence
<1>2. content[n] = Mac(key, run, data) /\ IsSealing(run, key, data)
  <2>1. PICK run2, key2, data2 : content[n] = Mac(key2, run2, data2)
                                 /\ IsSealing(run2, key2, data2)
    BY DEF Legit
  <2>2. Mac(key2, run2, data2) = Mac(key, run, data)
    BY <2>1
  <2> HIDE DEF data
  <2>3. key2 = key /\ run2 = run /\ data2 = data
    BY <2>2, MacNames
  <2>4. QED
    BY <2>1, <2>3
<1>3. /\ Len(data) = n - 1 /\ \A k \in 1 .. n - 1 : data[k] = content[k]
      /\ content = Append(data, content[n])
  BY <1>1, FrontAndLast
<1> HIDE DEF n, data
<1>4. data = DataOf(run, key, data[1][3], text)
  <2>1. data = DataOf(run, key, data[1][3],
                      [k \in 1 .. Len(data) - 2 |-> Content(data[k + 1])])
    BY <1>2, SealingOfData
  <2>2. Len(data) - 2 = n - 3
    BY <1>1, <1>3
  <2>3. \A k \in 1 .. n - 3 : data[k + 1] = content[k + 1]
    BY <1>1, <1>3
  <2>4. [k \in 1 .. Len(data) - 2 |-> Content(data[k + 1])] = text
    BY <2>2, <2>3 DEF TextIn, n
  <2> HIDE DEF text
  <2>5. QED
    BY <2>1, <2>4
<1>5. data[1] = content[1] /\ content[1][2] = run
  <2>1. 1 \in 1 .. n - 1
    BY <1>1
  <2>2. data[1] = Header(run, data[1][3])
    BY <1>2 DEF IsSealing
  <2>3. QED
    BY <1>3, <2>1, <2>2, CellKinds
<1> HIDE DEF text
<1>6. content = Sealing(content[1][2], key, content[1][3], text)
  BY <1>2, <1>3, <1>4, <1>5, SealingIs
<1>7. QED
  BY <1>1, <1>6 DEF SealedUnder, text, n

\* The last cell of any file.
LEMMA LastIsLegit ==
  ASSUME OriginInv, NEW i \in 1 .. Len(file), Len(file[i]) > 0, Len(file[i][Len(file[i])]) = 4
  PROVE  Legit(file[i][Len(file[i])])
<1>1. PICK G : Closed(G) /\ Among(G)
  BY DEF OriginInv
<1>2. Len(file[i]) \in 1 .. Len(file[i])
  BY DEF OriginInv, WorkInv, Disk, IsSequence
<1>3. file[i][Len(file[i])] \in G
  BY <1>1, <1>2 DEF Among
<1>4. QED
  BY <1>1, <1>3 DEF Closed

\* Whatever others write to a file while it is encoded, decoded or shredded: if its
\* last cell is the MAC of those before it, they are header, blocks and padding of
\* the one run that computed this MAC (cipher.c:219-240, 365-380).
THEOREM MacNamesTheRun == Spec => []VerifiedIsOneRun
<1>1. ASSUME OriginInv PROVE VerifiedIsOneRun
  <2>1. SUFFICES ASSUME NEW i \in DOMAIN file, NEW key, Accepts(file[i], key)
                 PROVE  file[i] = Sealing(file[i][1][2], key, file[i][1][3],
                                    [k \in 1 .. Len(file[i]) - 3 |-> Content(file[i][k + 1])])
    BY DEF VerifiedIsOneRun
  <2>2. i \in 1 .. Len(file) /\ IsSequence(file[i])
    BY <1>1, OfSequence DEF OriginInv, WorkInv, Disk
  <2>3. PICK content, run : content = file[i] /\ run = RunOf(content[1])
    OBVIOUS
  <2>4. /\ Len(content) > 2 /\ Len(content) \in Nat
        /\ content[Len(content)] = Mac(key, run, Front(content))
    BY <2>1, <2>2, <2>3 DEF Accepts, Last, IsSequence
  <2>5. Len(content[Len(content)]) = 4
    BY <2>4, CellKinds
  <2>6. Len(content) > 0 /\ Len(content) >= 3
    BY <2>4
  <2>7. Legit(content[Len(content)])
    BY <1>1, <2>2, <2>3, <2>5, <2>6, LastIsLegit
  <2>8. SealedUnder(key, content)
    BY <2>2, <2>3, <2>4, <2>6, <2>7, AcceptedIsSealed
  <2>9. QED
    BY <2>3, <2>8 DEF SealedUnder, TextIn
<1>2. QED
  BY <1>1, AlwaysOrigin, PTL

-----------------------------------------------------------------------------
(* What an undisturbed command has done *)

\* What a run of encode has made of its input.
EncodesFrom(p, key, r, input) ==
  /\ r.pc = "open_output" => r.pos = 0 /\ r.size = Len(input)
  /\ r.pc = "seal" =>
       /\ r.size = Len(input) /\ r.pos <= Len(input)
       /\ Len(r.made) = r.pos + 1 /\ r.made[1] = Header(p, r.size)
       /\ \A k \in 1 .. r.pos : r.made[k + 1] = Block(p, key, k, input[k])
  /\ r.pc = "close" => r.made = Sealing(p, key, Len(input), input)

\* What a run of decode has read of its input, and made of it.
DecodesFrom(key, r, input) ==
  /\ r.pc \notin {"unseal", "close"} => r.made = <<>>
  /\ r.pc \in {"measure", "mac"} => Len(input) > 0 /\ r.got = <<input[1]>>
  /\ r.pc \in {"mac", "verify", "open_output", "unseal"} => r.size = Len(input) - 2
  /\ r.pc = "verify" =>
       /\ r.mac = input[Len(input)]
       /\ IsSequence(r.got) /\ Len(r.got) = r.pos /\ \A k \in 1 .. r.pos : r.got[k] = input[k]
  /\ r.pc \in {"open_output", "unseal", "close"} => SealedUnder(key, input)
  /\ r.pc = "open_output" => r.got[1] = input[1]
  /\ r.pc = "unseal" =>
       /\ r.got[1] = input[r.pos] /\ Len(r.made) = r.pos - 1
       /\ \A k \in 1 .. r.pos - 1 : r.made[k] = TextIn(input)[k]
  /\ r.pc = "close" => r.made = TextIn(input)

\* What is in the output: the beginning of what was made.
Writes(r, output) ==
  /\ Len(output) = r.flushed
  /\ \A k \in 1 .. r.flushed : output[k] = r.made[k]

Alone(p) ==
  /\ plan[p].verb = "encode" => EncodesFrom(p, KeyOf(p), proc[p], file[proc[p].in])
  /\ plan[p].verb = "decode" => DecodesFrom(KeyOf(p), proc[p], file[proc[p].in])
  /\ proc[p].pc \in {"seal", "unseal", "close"} =>
       /\ plan[p].verb # "shred" /\ proc[p].out \notin {None, proc[p].in}
       /\ Writes(proc[p], file[proc[p].out])

AloneInv == OriginInv /\ \A p \in Started \ touched : Alone(p)

\* What an operation has to keep.
LEMMA AloneKept ==
  ASSUME AloneInv, NEW p \in Procs, Moves(p), p \notin touched' => Alone(p)'
  PROVE  AloneInv'
<1>1. /\ WorkInv /\ p \in Started /\ plan' = plan /\ Started' = Started
      /\ touched \subseteq touched'
  BY OthersLeft DEF AloneInv, OriginInv, Started
<1>2. OriginInv'
  <2>1. [Next]_vars
    BY DEF Next, Moves
  <2>2. QED
    BY <2>1, NextOrigin DEF AloneInv
<1>3. ASSUME NEW q \in Started, q # p, q \notin touched' PROVE Alone(q)'
  <2>1. q \in Procs \ {p} /\ q \notin touched /\ Alone(q)
    BY <1>1, <1>3 DEF AloneInv, Started
  <2>2. proc'[q] = proc[q] /\ \A i \in Held(q) : file'[i] = file[i]
    BY <1>1, <1>3, <2>1, OthersLeft
  <2>3. KeyOf(q)' = KeyOf(q)
    BY <1>1 DEF KeyOf
  <2>4. proc[q].pc \in Outside <=> proc[q].in = None
    BY <1>1, Mover DEF Typed
  <2>5. PICK r, key : r = proc[q] /\ key = KeyOf(q)
    OBVIOUS
  <2>6. /\ plan[q].verb = "encode" => EncodesFrom(q, key, r, file'[r.in])
        /\ plan[q].verb = "decode" => DecodesFrom(key, r, file'[r.in])
    <3>1. CASE r.pc \in Outside
      <4>1. plan[q].verb = "decode" => r.made = <<>>
        BY <2>1, <2>5, <3>1 DEF Alone, DecodesFrom, Outside
      <4>2. QED
        BY <3>1, <4>1 DEF EncodesFrom, DecodesFrom, Outside
    <3>2. CASE r.pc \notin Outside
      <4>1. file'[r.in] = file[r.in]
        BY <2>2, <2>4, <2>5, <3>2 DEF Held
      <4>2. QED
        BY <2>1, <2>5, <4>1 DEF Alone
    <3>3. QED
      BY <3>1, <3>2
  <2>7. ASSUME r.pc \in {"seal", "unseal", "close"}
        PROVE  plan[q].verb # "shred" /\ r.out \notin {None, r.in} /\ Writes(r, file'[r.out])
    <3>1. plan[q].verb # "shred" /\ r.out \notin {None, r.in} /\ Writes(r, file[r.out])
      BY <2>1, <2>5, <2>7 DEF Alone
    <3>2. file'[r.out] = file[r.out]
      BY <2>2, <2>5, <3>1 DEF Held
    <3>3. QED
      BY <3>1, <3>2
  <2>8. QED
    BY <1>1, <2>2, <2>3, <2>5, <2>6, <2>7 DEF Alone
<1>4. QED
  BY <1>1, <1>2, <1>3 DEF AloneInv

\* What is known of a process that moves, and stays alone.
LEMMA AloneMover ==
  ASSUME AloneInv, NEW p \in Started, Moves(p), p \notin touched'
  PROVE  /\ WorkInv /\ OriginInv /\ Disk /\ p \in Procs /\ plan' = plan /\ p \notin touched
         /\ Alone(p) /\ KeyOf(p)' = KeyOf(p)
BY OthersLeft, Mover DEF AloneInv, OriginInv, KeyOf, WorkInv, Started

\* A process that has read nothing yet, or has nothing left to write.
LEMMA AloneIdle ==
  ASSUME NEW p \in Started, plan' = plan,
         \/ proc'[p].pc \in {"check", "open", "head", "done"}
         \/ plan[p].verb # "decode" /\ proc'[p].pc = "measure"
         \/ plan[p].verb = "shred" /\ proc'[p].pc \in {"wipe", "unlink"},
         plan[p].verb = "decode" => proc'[p].made = <<>>
  PROVE  Alone(p)'
<1>1. PICK s, key, input : s = proc'[p] /\ key = KeyOf(p)' /\ input = file'[proc'[p].in]
  OBVIOUS
<1>2. plan[p].verb = "encode" => EncodesFrom(p, key, s, input)
  BY <1>1 DEF EncodesFrom
<1>3. plan[p].verb = "decode" => DecodesFrom(key, s, input)
  BY <1>1 DEF DecodesFrom
<1>4. s.pc \notin {"seal", "unseal", "close"}
  BY <1>1
<1>5. QED
  BY <1>1, <1>2, <1>3, <1>4 DEF Alone

LEMMA AloneEnds ==
  ASSUME AloneInv, NEW p \in Started, Moves(p), p \notin touched', NEW value, Return(p, value)
  PROVE  Alone(p)'
<1>1. proc'[p].pc = "done" /\ proc'[p].made = <<>>
  BY AloneMover, EndMakesNothing
<1>2. QED
  BY <1>1, AloneMover, AloneIdle

LEMMA AloneBegins ==
  ASSUME AloneInv, NEW p \in Started, Moves(p), p \notin touched',
         \/ Dispatch(p) \/ Check(p) \/ Open(p) \/ Close(p) \/ Kill(p) \/ Unlink(p)
  PROVE  Alone(p)'
<1>1. WorkInv /\ plan' = plan /\ Alone(p)
  BY AloneMover
<1>2. ASSUME NEW change, Become(p, change), "made" \notin DOMAIN change,
             "pc" \in DOMAIN change, proc[p].pc \in {"start", "check", "open"},
             \/ change["pc"] \in {"check", "open", "head"}
             \/ change["pc"] = "measure" /\ plan[p].verb # "decode"
      PROVE  Alone(p)'
  <2>1. proc'[p].made = proc[p].made /\ proc'[p].pc = change["pc"]
    BY <1>1, <1>2, NewFields DEF Fields
  <2>2. plan[p].verb = "decode" => proc[p].made = <<>>
    BY <1>1, <1>2 DEF Alone, DecodesFrom
  <2>3. QED
    BY <1>1, <1>2, <2>1, <2>2, AloneIdle
<1>3. CASE Close(p) \/ Kill(p) \/ Unlink(p)
  BY <1>3, AloneEnds DEF Close, Kill, Unlink
<1>4. CASE Dispatch(p) \/ Check(p)
  BY <1>2, <1>4, AloneEnds DEF Dispatch, Check
<1>5. CASE Open(p)
  <2> DEFINE stop == IF plan[p].verb = "decode" THEN "head" ELSE "measure"
             change == [pc |-> stop, in |-> dir[plan[p].file]]
  <2>1. CASE Become(p, change)
    <3>1. /\ change["pc"] = stop /\ "made" \notin DOMAIN change /\ "pc" \in DOMAIN change
          /\ proc[p].pc \in {"start", "check", "open"}
      BY <1>5 DEF Open
    <3>2. stop = "head" \/ (stop = "measure" /\ plan[p].verb # "decode")
      OBVIOUS
    <3> HIDE DEF change, stop
    <3>3. QED
      BY <1>2, <2>1, <3>1, <3>2
  <2>2. QED
    BY <1>5, <2>1, AloneEnds DEF Open
<1>6. QED
  BY <1>3, <1>4, <1>5

LEMMA AloneShreds ==
  ASSUME AloneInv, NEW p \in Started, Moves(p), p \notin touched',
         MeasureFile(p) \/ Wipe(p) \/ Truncate(p)
  PROVE  Alone(p)'
<1>1. WorkInv /\ plan' = plan /\ plan[p].verb = "shred"
  BY AloneMover DEF MeasureFile, Wipe, Truncate, At
<1>2. proc'[p].pc \in {"wipe", "unlink"}
  <2>1. ASSUME NEW change, Become(p, change), "pc" \in DOMAIN change,
               change["pc"] \in {"wipe", "unlink"}
        PROVE  proc'[p].pc \in {"wipe", "unlink"}
    BY <1>1, <2>1, NewPlace
  <2>2. CASE MeasureFile(p) \/ Truncate(p)
    BY <2>1, <2>2 DEF MeasureFile, Truncate
  <2>3. CASE Wipe(p)
    <3> DEFINE change == [pos |-> proc[p].pos + 1]
    <3>1. Become(p, change) /\ "pc" \notin DOMAIN change /\ proc[p].pc = "wipe"
      BY <2>3 DEF Wipe, At
    <3> HIDE DEF change
    <3>2. QED
      BY <1>1, <3>1, NewPlace
  <2>4. QED
    BY <2>2, <2>3
<1>3. QED
  BY <1>1, <1>2, AloneIdle

\* The output that is opened: it is not the input, and empty.
LEMMA AloneOpens ==
  ASSUME Disk, NEW n, OpenForWriting(n, Procs), NEW p \in Procs, p \notin touched',
         proc[p].in \in 1 .. Len(file)
  PROVE  /\ dir'[n] \notin {None, proc[p].in} /\ file'[dir'[n]] = <<>>
         /\ file'[proc[p].in] = file[proc[p].in]
<1>1. /\ Len(file) \in Nat /\ DOMAIN file = 1 .. Len(file) /\ IsSequence(file)
      /\ \A m \in DOMAIN dir : dir[m] \in 1 .. Len(file)
  BY OfSequence DEF Disk
<1>2. proc[p].in \in Held(p)
  BY <1>1 DEF Held, None
<1>3. CASE n \in DOMAIN dir
  <2>1. /\ file' = [file EXCEPT ![dir[n]] = <<>>] /\ dir' = dir
        /\ touched' = touched \cup {q \in Procs : dir[n] \in Held(q)}
    BY <1>3 DEF OpenForWriting, Disturb
  <2>2. dir[n] # proc[p].in
    BY <1>2, <2>1
  <2>3. QED
    BY <1>1, <1>3, <2>1, <2>2 DEF None
<1>4. CASE n \notin DOMAIN dir
  <2>1. /\ file' = Append(file, <<>>)
        /\ dir' = [m \in DOMAIN dir \cup {n} |-> IF m = n THEN Len(file) + 1 ELSE dir[m]]
    BY <1>4 DEF OpenForWriting
  <2>2. dir'[n] = Len(file) + 1
    BY <2>1
  <2>3. file'[Len(file) + 1] = <<>> /\ file'[proc[p].in] = file[proc[p].in]
    BY <1>1, <2>1, Appending
  <2>4. Len(file) + 1 # proc[p].in /\ Len(file) + 1 # 0
    BY <1>1
  <2>5. QED
    BY <2>2, <2>3, <2>4 DEF None
<1>5. QED
  BY <1>3, <1>4

LEMMA AloneMeasures ==
  ASSUME AloneInv, NEW p \in Started, Moves(p), p \notin touched', MeasureInput(p)
  PROVE  Alone(p)'
<1> DEFINE n == Len(file[proc[p].in])
           change == [pc |-> "open_output", size |-> n]
<1>1. /\ WorkInv /\ plan' = plan /\ file' = file /\ plan[p].verb = "encode"
      /\ proc[p].pc = "measure"
  BY AloneMover DEF MeasureInput, FilesStay, At
<1>2. CASE Become(p, change)
  <2>1. /\ proc'[p].pc = "open_output" /\ proc'[p].size = n /\ proc'[p].pos = proc[p].pos
        /\ proc'[p].in = proc[p].in
    BY <1>1, <1>2, NewFields DEF Fields
  <2>2. proc[p].pos = 0
    BY <1>1, Mover DEF Typed
  <2>3. QED
    BY <1>1, <2>1, <2>2 DEF Alone, EncodesFrom
<1>3. QED
  BY <1>2, AloneEnds DEF MeasureInput, Measured

LEMMA AloneOpensSealed ==
  ASSUME AloneInv, NEW p \in Started, Moves(p), p \notin touched', OpenSealed(p)
  PROVE  Alone(p)'
<1> DEFINE n == OutputName(plan[p].file, "enc")
           head == Header(p, proc[p].size)
           i == dir'[n]
           made == <<head>>
           change == [pc |-> "seal", out |-> i, made |-> made]
<1>1. /\ WorkInv /\ Disk /\ p \in Procs /\ plan' = plan /\ proc[p].pc = "open_output"
      /\ OpenForWriting(n, Procs) /\ Become(p, change) /\ plan[p].verb = "encode" /\ Alone(p)
  BY AloneMover DEF OpenSealed, At
<1>2. proc[p].in \in 1 .. Len(file) /\ Len(file[proc[p].in]) \in Nat
  BY <1>1, MeasuredType DEF Outside, Measured
<1>3. i \notin {None, proc[p].in} /\ file'[i] = <<>> /\ file'[proc[p].in] = file[proc[p].in]
  <2> HIDE DEF n
  <2>1. QED
    BY <1>1, <1>2, AloneOpens
<1>4. proc[p].pos = 0 /\ proc[p].size = Len(file[proc[p].in]) /\ proc[p].flushed = 0
  BY <1>1, Mover DEF Alone, EncodesFrom, Typed
<1>5. Len(made) = 1 /\ made[1] = head
  OBVIOUS
<1> HIDE DEF made, i
<1>6. /\ proc'[p].pc = "seal" /\ proc'[p].made = made /\ proc'[p].pos = proc[p].pos
      /\ proc'[p].size = proc[p].size /\ proc'[p].in = proc[p].in /\ proc'[p].out = i
      /\ proc'[p].flushed = proc[p].flushed
  BY <1>1, NewFields DEF Fields
<1>7. PICK input, s : input = file[proc[p].in] /\ s = proc'[p]
  OBVIOUS
<1>8. EncodesFrom(p, KeyOf(p)', s, input)
  <2>1. PICK key : key = KeyOf(p)'
    OBVIOUS
  <2>2. /\ s.pc = "seal" /\ s.pos = 0 /\ s.size = Len(input) /\ Len(input) \in Nat
        /\ Len(s.made) = 1
    BY <1>2, <1>4, <1>5, <1>6, <1>7
  <2>3. s.made[1] = Header(p, s.size)
    BY <1>5, <1>6, <1>7
  <2>4. EncodesFrom(p, key, s, input)
    BY <2>2, <2>3 DEF EncodesFrom
  <2>5. QED
    BY <2>1, <2>4
<1>9. Writes(s, file'[i])
  BY <1>3, <1>4, <1>6, <1>7, EmptySequence DEF Writes
<1>10. QED
  BY <1>1, <1>3, <1>6, <1>7, <1>8, <1>9 DEF Alone

\* The output while more is made.
LEMMA WritesMore ==
  ASSUME NEW r, NEW s, NEW output, Writes(r, output), s.flushed = r.flushed,
         IsSequence(r.made), r.flushed \in 0 .. Len(r.made),
         \A k \in 1 .. Len(r.made) : s.made[k] = r.made[k]
  PROVE  Writes(s, output)
<1>1. Len(r.made) \in Nat
  BY DEF IsSequence
<1>2. \A k \in 1 .. r.flushed : k \in 1 .. Len(r.made)
  BY <1>1
<1>3. QED
  BY <1>2 DEF Writes

LEMMA AloneSealsBlock ==
  ASSUME AloneInv, NEW p \in Started, Moves(p), p \notin touched', SealBlock(p)
  PROVE  Alone(p)'
<1> DEFINE k == proc[p].pos + 1
           cell == Block(p, KeyOf(p), k, NextCell(p))
           longer == Append(proc[p].made, cell)
           change == [pos |-> k, made |-> longer]
<1>1. /\ WorkInv /\ plan' = plan /\ file' = file /\ plan[p].verb = "encode" /\ Alone(p)
      /\ proc[p].pc = "seal" /\ ~AtEnd(p) /\ KeyOf(p)' = KeyOf(p)
  BY AloneMover DEF SealBlock, FilesStay, At
<1>2. CASE Become(p, change)
  <2>1. PICK r, s, key, input :
          r = proc[p] /\ s = proc'[p] /\ key = KeyOf(p) /\ input = file[proc[p].in]
    OBVIOUS
  <2>2. /\ r.pos \in Nat /\ IsSequence(r.made) /\ r.flushed \in 0 .. Len(r.made)
        /\ k \in Nat
    <3>1. Typed(proc[p], Len(file))
      BY <1>1, Mover
    <3>2. /\ proc[p].pos \in Nat /\ IsSequence(proc[p].made)
          /\ proc[p].flushed \in 0 .. Len(proc[p].made)
      BY <3>1, Zenon DEF Typed
    <3>3. QED
      BY <2>1, <3>2
  <2>3. EncodesFrom(p, key, r, input)
    BY <1>1, <2>1 DEF Alone
  <2>4. r.out \notin {None, r.in} /\ Writes(r, file[r.out])
    BY <1>1, <2>1 DEF Alone
  <2>5. Len(input) \in Nat /\ ~(r.pos >= Len(input)) /\ cell = Block(p, key, k, input[k])
    BY <1>1, <2>1, MeasuredType DEF Outside, Measured, AtEnd, NextCell
  <2>6. /\ r.size = Len(input) /\ Len(r.made) = r.pos + 1 /\ r.made[1] = Header(p, r.size)
        /\ \A j \in 1 .. r.pos : r.made[j + 1] = Block(p, key, j, input[j])
    BY <1>1, <2>1, <2>3 DEF EncodesFrom
  <2>7. k = r.pos + 1 /\ longer = Append(r.made, cell)
    BY <2>1
  <2>8. /\ s.pc = "seal" /\ s.made = longer /\ s.pos = k /\ s.size = r.size /\ s.in = r.in
        /\ s.out = r.out /\ s.flushed = r.flushed
    <3>1. /\ DOMAIN change = {"pos", "made"} /\ change["made"] = longer /\ change["pos"] = k
      OBVIOUS
    <3> HIDE DEF change, longer, k
    <3>2. QED
      BY <1>1, <1>2, <2>1, <3>1, NewFields DEF Fields
  <2> HIDE DEF k, cell, longer
  <2>9. /\ Len(longer) = k + 1 /\ longer[k + 1] = cell
        /\ \A j \in 1 .. Len(r.made) : longer[j] = r.made[j]
    BY <2>2, <2>6, <2>7, Appending
  <2>10. ASSUME NEW j \in 1 .. k PROVE longer[j + 1] = Block(p, key, j, input[j])
    <3>1. CASE j = k
      BY <2>5, <2>9, <3>1
    <3>2. CASE j # k
      <4>1. j \in 1 .. r.pos /\ j + 1 \in 1 .. Len(r.made)
        BY <2>2, <2>6, <2>7, <3>2
      <4>2. QED
        BY <2>6, <2>9, <4>1
    <3>3. QED
      BY <3>1, <3>2
  <2>11. longer[1] = Header(p, r.size)
    <3>1. 1 \in 1 .. Len(r.made)
      BY <2>2, <2>6
    <3>2. QED
      BY <2>6, <2>9, <3>1
  <2>12. EncodesFrom(p, key, s, input)
    <3>1. s.pos <= Len(input)
      BY <2>2, <2>5, <2>7, <2>8
    <3>2. QED
      BY <2>6, <2>8, <2>9, <2>10, <2>11, <3>1 DEF EncodesFrom
  <2>13. Writes(s, file[r.out])
    BY <2>2, <2>4, <2>8, <2>9, WritesMore
  <2>14. QED
    BY <1>1, <2>1, <2>4, <2>8, <2>12, <2>13 DEF Alone
<1>3. QED
  BY <1>2, AloneEnds DEF SealBlock

LEMMA AloneSealsEnd ==
  ASSUME AloneInv, NEW p \in Started, Moves(p), p \notin touched', SealEnd(p)
  PROVE  Alone(p)'
<1> DEFINE k == proc[p].pos + 1
           cell == Block(p, KeyOf(p), k, Pad)
           data == Append(proc[p].made, cell)
           mac == Mac(KeyOf(p), p, data)
           longer == Append(data, mac)
           change == [pc |-> "close", result |-> "0", made |-> longer]
<1>1. /\ WorkInv /\ plan' = plan /\ file' = file /\ plan[p].verb = "encode" /\ Alone(p)
      /\ proc[p].pc = "seal" /\ AtEnd(p) /\ KeyOf(p)' = KeyOf(p) /\ Become(p, change)
  BY AloneMover DEF SealEnd, FilesStay, At
<1>2. PICK r, s, key, input :
        r = proc[p] /\ s = proc'[p] /\ key = KeyOf(p) /\ input = file[proc[p].in]
  OBVIOUS
<1>3. /\ r.pos \in Nat /\ IsSequence(r.made) /\ r.flushed \in 0 .. Len(r.made)
  <2>1. Typed(proc[p], Len(file))
    BY <1>1, Mover
  <2>2. /\ proc[p].pos \in Nat /\ IsSequence(proc[p].made)
        /\ proc[p].flushed \in 0 .. Len(proc[p].made)
    BY <2>1, Zenon DEF Typed
  <2>3. QED
    BY <1>2, <2>2
<1>4. EncodesFrom(p, key, r, input)
  BY <1>1, <1>2 DEF Alone
<1>5. r.out \notin {None, r.in} /\ Writes(r, file[r.out])
  BY <1>1, <1>2 DEF Alone
<1>6. /\ r.size = Len(input) /\ r.pos <= Len(input)
      /\ Len(r.made) = r.pos + 1 /\ r.made[1] = Header(p, r.size)
      /\ \A j \in 1 .. r.pos : r.made[j + 1] = Block(p, key, j, input[j])
  BY <1>1, <1>2, <1>4 DEF EncodesFrom
<1>7. Len(input) \in Nat /\ r.pos = Len(input)
  <2>1. Len(input) \in Nat /\ r.pos >= Len(input)
    BY <1>1, <1>2, MeasuredType DEF Outside, Measured, AtEnd
  <2>2. QED
    BY <1>3, <1>6, <2>1
<1>8. k = r.pos + 1 /\ cell = Block(p, key, k, Pad) /\ data = Append(r.made, cell)
      /\ mac = Mac(key, p, data) /\ longer = Append(data, mac)
  BY <1>2
<1>9. /\ s.pc = "close" /\ s.made = longer /\ s.in = r.in /\ s.out = r.out
      /\ s.flushed = r.flushed
  <2>1. /\ DOMAIN change = {"pc", "result", "made"} /\ change["made"] = longer
        /\ change["pc"] = "close"
    OBVIOUS
  <2> HIDE DEF change, longer
  <2>2. QED
    BY <1>1, <1>2, <2>1, NewFields DEF Fields
<1> HIDE DEF k, cell, data, mac, longer
<1>10. /\ IsSequence(data) /\ Len(data) = r.pos + 2 /\ data[r.pos + 2] = cell
       /\ \A j \in 1 .. r.pos + 1 : data[j] = r.made[j]
  <2>1. Len(r.made) + 1 = r.pos + 2
    BY <1>3, <1>6
  <2>2. /\ IsSequence(data) /\ Len(data) = Len(r.made) + 1 /\ data[Len(r.made) + 1] = cell
        /\ \A j \in 1 .. Len(r.made) : data[j] = r.made[j]
    BY <1>3, <1>8, Appending
  <2>3. QED
    BY <1>6, <2>1, <2>2
<1>11. data = DataOf(p, key, r.size, input)
  <2> DEFINE whole == DataOf(p, key, r.size, input)
             n == Len(input)
  <2>1. /\ IsSequence(whole) /\ Len(whole) = n + 2
        /\ whole[1] = Header(p, r.size)
        /\ \A j \in 1 .. n : whole[j + 1] = Block(p, key, j, input[j])
        /\ whole[n + 2] = Block(p, key, n + 1, Pad)
    BY <1>7, DataCells
  <2> HIDE DEF whole, n
  <2>2. n \in Nat /\ r.pos = n
    BY <1>7 DEF n
  <2>3. ASSUME NEW j \in 1 .. n + 2 PROVE data[j] = whole[j]
    <3>1. CASE j = 1
      BY <1>6, <1>10, <2>1, <2>2, <3>1
    <3>2. CASE j = n + 2
      BY <1>8, <1>10, <2>1, <2>2, <3>2
    <3>3. CASE j # 1 /\ j # n + 2
      <4>1. j - 1 \in 1 .. n /\ (j - 1) + 1 = j /\ j \in 1 .. n + 1
        BY <2>2, <3>3
      <4>2. whole[j] = Block(p, key, j - 1, input[j - 1])
        BY <2>1, <4>1
      <4>3. r.made[j] = Block(p, key, j - 1, input[j - 1])
        BY <1>6, <2>2, <4>1
      <4>4. data[j] = r.made[j]
        BY <1>10, <2>2, <4>1
      <4>5. QED
        BY <4>2, <4>3, <4>4
    <3>4. QED
      BY <3>1, <3>2, <3>3
  <2>4. data = [j \in 1 .. n + 2 |-> data[j]] /\ whole = [j \in 1 .. n + 2 |-> whole[j]]
    BY <1>10, <2>1, <2>2 DEF IsSequence
  <2>5. data = whole
    BY <2>3, <2>4
  <2>6. QED
    BY <2>5 DEF whole
<1>12. longer = Sealing(p, key, Len(input), input)
  BY <1>6, <1>8, <1>11, SealingIs
<1>13. EncodesFrom(p, key, s, input)
  BY <1>9, <1>12 DEF EncodesFrom
<1>14. Writes(s, file[r.out])
  <2>1. IsSequence(data) /\ \A j \in 1 .. Len(data) : longer[j] = data[j]
    BY <1>8, <1>10, Appending
  <2>2. \A j \in 1 .. Len(r.made) : j \in 1 .. Len(data) /\ data[j] = r.made[j]
    BY <1>3, <1>6, <1>10
  <2>3. \A j \in 1 .. Len(r.made) : s.made[j] = r.made[j]
    BY <1>9, <2>1, <2>2
  <2>4. QED
    BY <1>3, <1>5, <1>9, <2>3, WritesMore
<1>15. QED
  BY <1>1, <1>2, <1>5, <1>9, <1>13, <1>14 DEF Alone

\* A write to the output: it is behind what is there.
LEMMA AloneFlushes ==
  ASSUME AloneInv, NEW p \in Started, Moves(p), p \notin touched', Flush(p)
  PROVE  Alone(p)'
<1> DEFINE k == proc[p].flushed + 1
           cell == proc[p].made[k]
           change == [flushed |-> k]
<1>1. /\ WorkInv /\ Disk /\ plan' = plan /\ Alone(p) /\ KeyOf(p)' = KeyOf(p) /\ p \in Procs
      /\ proc[p].out # None /\ PutCell(p, proc[p].out, k, cell) /\ Become(p, change)
      /\ proc[p].flushed < Len(proc[p].made)
  BY AloneMover DEF Flush
<1>2. PICK r, s, key, input, output :
        /\ r = proc[p] /\ s = proc'[p] /\ key = KeyOf(p) /\ input = file[proc[p].in]
        /\ output = file[proc[p].out]
  OBVIOUS
<1>3. /\ r.out \in 1 .. Len(file) /\ r.flushed \in Nat /\ Len(r.made) \in Nat
      /\ r.pc \in {"seal", "unseal", "close"}
  <2>1. Typed(proc[p], Len(file)) /\ Len(file) \in Nat
    BY <1>1, Mover
  <2>2. /\ r.out \in 0 .. Len(file) /\ r.flushed \in 0 .. Len(r.made) /\ Len(r.made) \in Nat
    BY <1>2, <2>1, Zenon DEF Typed, IsSequence
  <2>3. r.pc \in {"seal", "unseal", "close"}
    BY <1>1, <1>2, <2>1, Zenon DEF Typed
  <2>4. QED
    BY <1>1, <1>2, <2>1, <2>2, <2>3 DEF None
<1>4. plan[p].verb # "shred" /\ r.out \notin {None, r.in} /\ Writes(r, output)
  BY <1>1, <1>2, <1>3 DEF Alone
<1>5. /\ k = r.flushed + 1 /\ cell = r.made[k] /\ k \in Nat \ {0}
  BY <1>2, <1>3
<1>6. /\ s.pc = r.pc /\ s.made = r.made /\ s.in = r.in /\ s.out = r.out /\ s.flushed = k
      /\ s.size = r.size /\ s.pos = r.pos /\ s.got = r.got /\ s.mac = r.mac
      /\ s.result = r.result
  <2>1. DOMAIN change = {"flushed"} /\ change["flushed"] = k
    OBVIOUS
  <2> HIDE DEF change, k
  <2>2. QED
    BY <1>1, <1>2, <2>1, NewFields DEF Fields
<1> HIDE DEF k, cell
<1>7. file' = [file EXCEPT ![r.out] = With(output, k, cell)] /\ DOMAIN file = 1 .. Len(file)
      /\ IsSequence(output)
  BY <1>1, <1>2, <1>3, OfSequence DEF PutCell, Disk
<1>8. file'[r.in] = input /\ file'[r.out] = With(output, k, cell)
  BY <1>2, <1>3, <1>4, <1>7
<1>9. Writes(s, With(output, k, cell))
  <2>1. Len(output) = r.flushed /\ \A j \in 1 .. r.flushed : output[j] = r.made[j]
    BY <1>4 DEF Writes
  <2>2. k > Len(output)
    BY <1>3, <1>5, <2>1
  <2>3. Len(With(output, k, cell)) = k
    BY <1>5, <1>7, <2>2, WithIsSequence
  <2>4. \A j \in 1 .. k : With(output, k, cell)[j] = IF j = k THEN cell ELSE
                            IF j <= Len(output) THEN output[j] ELSE Hole
    BY <1>5, <2>2 DEF With
  <2>5. ASSUME NEW j \in 1 .. k PROVE With(output, k, cell)[j] = r.made[j]
    <3>1. CASE j = k
      BY <1>5, <2>4, <3>1
    <3>2. CASE j # k
      <4>1. j \in 1 .. r.flushed /\ j <= Len(output)
        BY <1>3, <1>5, <2>1, <3>2
      <4>2. QED
        BY <2>1, <2>4, <3>2, <4>1
    <3>3. QED
      BY <3>1, <3>2
  <2>6. QED
    BY <1>6, <2>3, <2>5 DEF Writes
<1>10. /\ plan[p].verb = "encode" => EncodesFrom(p, key, s, input)
       /\ plan[p].verb = "decode" => DecodesFrom(key, s, input)
  <2>1. /\ plan[p].verb = "encode" => EncodesFrom(p, key, r, input)
        /\ plan[p].verb = "decode" => DecodesFrom(key, r, input)
    BY <1>1, <1>2 DEF Alone
  <2>2. EncodesFrom(p, key, r, input) => EncodesFrom(p, key, s, input)
    BY <1>6 DEF EncodesFrom
  <2>3. DecodesFrom(key, r, input) => DecodesFrom(key, s, input)
    BY <1>6, Zenon DEF DecodesFrom
  <2>4. QED
    BY <2>1, <2>2, <2>3
<1>11. QED
  BY <1>1, <1>2, <1>4, <1>6, <1>8, <1>9, <1>10 DEF Alone

\* What stands where in a sealed file.
LEMMA SealedCells ==
  ASSUME NEW key, NEW content, SealedUnder(key, content), Len(content) \in Nat
  PROVE  LET n == Len(content)
             run == content[1][2]
             text == TextIn(content)
         IN  /\ Len(text) = n - 3
             /\ content[1] = Header(run, content[1][3])
             /\ \A k \in 1 .. n - 3 : content[k + 1] = Block(run, key, k, text[k])
             /\ content[n - 1] = Block(run, key, n - 2, Pad)
<1> DEFINE n == Len(content)
           text == TextIn(content)
<1>1. n \in Nat /\ n >= 3 /\ n - 3 \in Nat
  BY DEF SealedUnder
<1>2. PICK run, size : run = content[1][2] /\ size = content[1][3]
  OBVIOUS
<1>3. content = Sealing(run, key, size, text)
  BY <1>2 DEF SealedUnder
<1>4. Len(text) = n - 3
  <2> DEFINE f == [k \in 1 .. n - 3 |-> Content(content[k + 1])]
  <2>1. f = [k \in 1 .. n - 3 |-> f[k]]
    OBVIOUS
  <2>2. f = text
    BY DEF TextIn
  <2> HIDE DEF f, text, n
  <2>3. QED
    BY <1>1, <2>1, <2>2, FunctionIs
<1> HIDE DEF n, text
<1> DEFINE data == DataOf(run, key, size, text)
           m == Len(text)
<1>5. /\ IsSequence(data) /\ Len(data) = m + 2
      /\ data[1] = Header(run, size)
      /\ \A k \in 1 .. m : data[k + 1] = Block(run, key, k, text[k])
      /\ data[m + 2] = Block(run, key, m + 1, Pad)
  BY <1>1, <1>4, DataCells
<1>6. content = Append(data, Mac(key, run, data))
  BY <1>3, SealingIs
<1> HIDE DEF data, m
<1>7. \A k \in 1 .. m + 2 : content[k] = data[k]
  BY <1>5, <1>6, Appending
<1>8. m \in Nat /\ m = n - 3 /\ m + 2 = n - 1 /\ m + 1 = n - 2
  BY <1>1, <1>4 DEF m
<1>9. content[1] = Header(run, size)
  <2>1. 1 \in 1 .. m + 2
    BY <1>8
  <2>2. QED
    BY <1>5, <1>7, <2>1
<1>10. ASSUME NEW k \in 1 .. m PROVE content[k + 1] = Block(run, key, k, text[k])
  <2>1. k + 1 \in 1 .. m + 2
    BY <1>8
  <2>2. QED
    BY <1>5, <1>7, <2>1
<1>11. content[m + 2] = Block(run, key, m + 1, Pad)
  <2>1. m + 2 \in 1 .. m + 2
    BY <1>8
  <2>2. QED
    BY <1>5, <1>7, <2>1
<1>12. QED
  BY <1>2, <1>4, <1>8, <1>9, <1>10, <1>11 DEF n, text

LEMMA BlockFields ==
  ASSUME NEW run, NEW key, NEW k, NEW x
  PROVE  LET cell == Block(run, key, k, x)
         IN  /\ Len(cell) = 5 /\ cell[1] = "block" /\ cell[2] = run /\ cell[3] = key
             /\ cell[4] = k /\ cell[5] = x
BY DEF Block

\* A sealed file is opened to its text, block by block.
LEMMA OpenedNext ==
  ASSUME NEW key, NEW content, SealedUnder(key, content), Len(content) \in Nat,
         NEW pos \in 1 .. Len(content) - 2
  PROVE  Opened(content[pos + 1], content[pos], key)
           = IF pos <= Len(content) - 3 THEN TextIn(content)[pos] ELSE Pad
<1>1. PICK n, run, text : n = Len(content) /\ run = content[1][2] /\ text = TextIn(content)
  OBVIOUS
<1>2. /\ content[1] = Header(run, content[1][3])
      /\ \A k \in 1 .. n - 3 : content[k + 1] = Block(run, key, k, text[k])
      /\ content[n - 1] = Block(run, key, n - 2, Pad)
  BY <1>1, SealedCells
<1>3. n \in Nat /\ n >= 3 /\ pos \in 1 .. n - 2
  BY <1>1 DEF SealedUnder
<1>4. PICK x : /\ content[pos + 1] = Block(run, key, pos, x)
               /\ x = IF pos <= n - 3 THEN text[pos] ELSE Pad
  <2>1. CASE pos <= n - 3
    BY <1>2, <1>3, <2>1
  <2>2. CASE ~(pos <= n - 3)
    <3>1. pos = n - 2 /\ pos + 1 = n - 1
      BY <1>3, <2>2
    <3>2. QED
      BY <1>2, <2>2, <3>1
  <2>3. QED
    BY <2>1, <2>2
<1>5. /\ Len(content[pos + 1]) = 5 /\ content[pos + 1][1] = "block"
      /\ content[pos + 1][2] = run /\ content[pos + 1][3] = key
      /\ content[pos + 1][4] = pos /\ content[pos + 1][5] = x
  BY <1>4, BlockFields
<1>6. CASE pos = 1
  <2>1. RunOf(content[1]) = run
    BY <1>2, CellKinds
  <2>2. QED
    BY <1>1, <1>4, <1>5, <1>6, <2>1 DEF Opened
<1>7. CASE pos # 1
  <2>1. pos - 1 \in 1 .. n - 3 /\ (pos - 1) + 1 = pos
    BY <1>3, <1>7
  <2>2. content[pos] = Block(run, key, pos - 1, text[pos - 1])
    BY <1>2, <2>1
  <2>3. Len(content[pos]) = 5 /\ content[pos][2] = run /\ content[pos][4] = pos - 1
    BY <2>2, BlockFields
  <2>4. QED
    BY <1>1, <1>4, <1>5, <1>7, <2>3 DEF Opened
<1>8. QED
  BY <1>6, <1>7

LEMMA AloneReadsHead ==
  ASSUME AloneInv, NEW p \in Started, Moves(p), p \notin touched', ReadHead(p)
  PROVE  Alone(p)'
<1> DEFINE got == <<NextCell(p)>>
           change == [pc |-> "measure", got |-> got]
<1>1. /\ WorkInv /\ plan' = plan /\ file' = file /\ plan[p].verb = "decode" /\ Alone(p)
      /\ proc[p].pc = "head"
  BY AloneMover DEF ReadHead, FilesStay, At
<1>2. CASE Become(p, change) /\ ~AtEnd(p)
  <2>1. PICK r, s, input : r = proc[p] /\ s = proc'[p] /\ input = file[proc[p].in]
    OBVIOUS
  <2>2. r.pos = 0 /\ r.made = <<>>
    BY <1>1, <2>1, Mover DEF Typed, Alone, DecodesFrom
  <2>3. Len(input) \in Nat /\ ~(r.pos >= Len(input)) /\ got = <<input[r.pos + 1]>>
    BY <1>1, <1>2, <2>1, MeasuredType DEF Outside, Measured, AtEnd, NextCell
  <2>4. Len(input) > 0 /\ got = <<input[1]>>
    BY <2>2, <2>3
  <2> HIDE DEF got
  <2>5. s.pc = "measure" /\ s.got = got /\ s.in = r.in /\ s.made = r.made
    BY <1>1, <1>2, <2>1, NewFields DEF Fields
  <2>6. PICK key : key = KeyOf(p)'
    OBVIOUS
  <2>7. DecodesFrom(key, s, input)
    BY <2>2, <2>4, <2>5 DEF DecodesFrom
  <2>8. QED
    BY <1>1, <2>1, <2>5, <2>6, <2>7 DEF Alone
<1>3. QED
  BY <1>2, AloneEnds DEF ReadHead

LEMMA AloneMeasuresSealed ==
  ASSUME AloneInv, NEW p \in Started, Moves(p), p \notin touched', MeasureSealed(p)
  PROVE  Alone(p)'
<1> DEFINE n == Len(file[proc[p].in])
           change == [pc |-> "mac", size |-> n - 2]
<1>1. /\ WorkInv /\ plan' = plan /\ file' = file /\ plan[p].verb = "decode" /\ Alone(p)
      /\ proc[p].pc = "measure"
  BY AloneMover DEF MeasureSealed, FilesStay, At
<1>2. CASE Become(p, change)
  <2>1. PICK r, s, input, key :
          r = proc[p] /\ s = proc'[p] /\ input = file[proc[p].in] /\ key = KeyOf(p)'
    OBVIOUS
  <2>2. r.made = <<>> /\ Len(input) > 0 /\ r.got = <<input[1]>>
    BY <1>1, <2>1 DEF Alone, DecodesFrom
  <2>3. /\ s.pc = "mac" /\ s.got = r.got /\ s.in = r.in /\ s.made = r.made
        /\ s.size = Len(input) - 2
    BY <1>1, <1>2, <2>1, NewFields DEF Fields
  <2>4. DecodesFrom(key, s, input)
    BY <2>2, <2>3 DEF DecodesFrom
  <2>5. QED
    BY <1>1, <2>1, <2>3, <2>4 DEF Alone
<1>3. QED
  BY <1>2, AloneEnds DEF MeasureSealed, Measured

LEMMA AloneReadsMac ==
  ASSUME AloneInv, NEW p \in Started, Moves(p), p \notin touched', ReadMac(p)
  PROVE  Alone(p)'
<1> DEFINE mac == Last(file[proc[p].in])
           change == [pc |-> "verify", mac |-> mac, pos |-> 1]
<1>1. /\ WorkInv /\ plan' = plan /\ file' = file /\ plan[p].verb = "decode" /\ Alone(p)
      /\ proc[p].pc = "mac"
  BY AloneMover DEF ReadMac, FilesStay, At
<1>2. CASE Become(p, change)
  <2>1. PICK r, s, input, key :
          r = proc[p] /\ s = proc'[p] /\ input = file[proc[p].in] /\ key = KeyOf(p)'
    OBVIOUS
  <2>2. /\ r.made = <<>> /\ Len(input) > 0 /\ r.got = <<input[1]>>
        /\ r.size = Len(input) - 2
    BY <1>1, <2>1 DEF Alone, DecodesFrom
  <2>3. /\ s.pc = "verify" /\ s.got = r.got /\ s.in = r.in /\ s.made = r.made
        /\ s.size = r.size /\ s.pos = 1 /\ s.mac = input[Len(input)]
    BY <1>1, <1>2, <2>1, NewFields DEF Fields, Last
  <2>4. IsSequence(r.got) /\ Len(r.got) = 1 /\ \A k \in 1 .. 1 : r.got[k] = input[k]
    BY <2>2 DEF IsSequence
  <2>5. DecodesFrom(key, s, input)
    BY <2>2, <2>3, <2>4 DEF DecodesFrom
  <2>6. QED
    BY <1>1, <2>1, <2>3, <2>5 DEF Alone
<1>3. QED
  BY <1>2, AloneEnds DEF ReadMac

LEMMA AloneReadsBlock ==
  ASSUME AloneInv, NEW p \in Started, Moves(p), p \notin touched', ReadBlock(p)
  PROVE  Alone(p)'
<1> DEFINE k == proc[p].pos + 1
           longer == Append(proc[p].got, NextCell(p))
           change == [pos |-> k, got |-> longer]
<1>1. /\ WorkInv /\ plan' = plan /\ file' = file /\ plan[p].verb = "decode" /\ Alone(p)
      /\ proc[p].pc = "verify" /\ Become(p, change)
  BY AloneMover DEF ReadBlock, FilesStay, At
<1>2. PICK r, s, input, key :
        r = proc[p] /\ s = proc'[p] /\ input = file[proc[p].in] /\ key = KeyOf(p)'
  OBVIOUS
<1>3. /\ r.pc = "verify" /\ r.made = <<>> /\ r.size = Len(input) - 2
      /\ r.mac = input[Len(input)]
      /\ IsSequence(r.got) /\ Len(r.got) = r.pos /\ \A j \in 1 .. r.pos : r.got[j] = input[j]
  BY <1>1, <1>2 DEF Alone, DecodesFrom
<1>4. k = r.pos + 1 /\ longer = Append(r.got, input[k]) /\ r.pos \in Nat
  BY <1>1, <1>2, Mover DEF Typed, NextCell
<1>5. /\ s.pc = r.pc /\ s.got = longer /\ s.in = r.in /\ s.made = r.made
      /\ s.size = r.size /\ s.pos = k /\ s.mac = r.mac
  <2>1. DOMAIN change = {"pos", "got"} /\ change["got"] = longer /\ change["pos"] = k
    OBVIOUS
  <2> HIDE DEF change, longer, k
  <2>2. QED
    BY <1>1, <1>2, <2>1, NewFields DEF Fields
<1> HIDE DEF k, longer
<1>6. /\ IsSequence(longer) /\ Len(longer) = k /\ longer[k] = input[k]
      /\ \A j \in 1 .. r.pos : longer[j] = r.got[j]
  <2>1. /\ IsSequence(longer) /\ Len(longer) = Len(r.got) + 1 /\ longer[Len(r.got) + 1] = input[k]
        /\ \A j \in 1 .. Len(r.got) : longer[j] = r.got[j]
    <3>1. PICK got, cell : got = r.got /\ cell = input[k]
      OBVIOUS
    <3>2. IsSequence(got) /\ longer = Append(got, cell)
      BY <1>3, <1>4, <3>1
    <3>3. QED
      BY <3>1, <3>2, Appending
  <2>2. QED
    BY <1>3, <1>4, <2>1
<1>7. \A j \in 1 .. k : longer[j] = input[j]
  <2>1. \A j \in 1 .. k : j = k \/ j \in 1 .. r.pos
    BY <1>4
  <2>2. QED
    BY <1>3, <1>6, <2>1
<1>8. DecodesFrom(key, s, input)
  BY <1>3, <1>5, <1>6, <1>7 DEF DecodesFrom
<1>9. QED
  BY <1>1, <1>2, <1>3, <1>5, <1>8 DEF Alone

LEMMA AloneVerifies ==
  ASSUME AloneInv, NEW p \in Started, Moves(p), p \notin touched', Verify(p)
  PROVE  Alone(p)'
<1> DEFINE change == [pc |-> "open_output"]
<1>1. /\ WorkInv /\ OriginInv /\ Disk /\ plan' = plan /\ file' = file
      /\ plan[p].verb = "decode" /\ Alone(p) /\ proc[p].pc = "verify"
  BY AloneMover DEF Verify, FilesStay, At
<1>2. CASE /\ Become(p, change) /\ Len(proc[p].got) = proc[p].size + 1
           /\ proc[p].mac = Mac(KeyOf(p), Salt(p), proc[p].got)
  <2>1. PICK r, s, input, key, run :
          /\ r = proc[p] /\ s = proc'[p] /\ input = file[proc[p].in] /\ key = KeyOf(p)
          /\ run = Salt(p)
    OBVIOUS
  <2>2. /\ r.made = <<>> /\ r.size = Len(input) - 2
        /\ r.mac = input[Len(input)]
        /\ IsSequence(r.got) /\ Len(r.got) = r.pos
        /\ \A j \in 1 .. r.pos : r.got[j] = input[j]
    BY <1>1, <2>1 DEF Alone, DecodesFrom
  <2>3. /\ Len(r.got) = r.size + 1 /\ r.mac = Mac(key, run, r.got)
    BY <1>2, <2>1
  <2>4. r.size \in Nat /\ r.size > 0
    BY <1>1, <2>1, Mover DEF Typed
  <2>5. Len(input) \in Nat /\ IsSequence(input) /\ r.in \in 1 .. Len(file)
    BY <1>1, <2>1, MeasuredType DEF Outside, Measured
  <2>6. Len(input) >= 3 /\ Len(input) > 0 /\ Len(r.got) = Len(input) - 1 /\ r.pos = Len(input) - 1
    BY <2>2, <2>3, <2>4, <2>5
  <2>7. r.got = Front(input)
    <3>1. /\ IsSequence(Front(input)) /\ Len(Front(input)) = Len(input) - 1
          /\ \A j \in 1 .. Len(input) - 1 : Front(input)[j] = input[j]
      BY <2>5, <2>6, FrontAndLast
    <3>2. PICK n, front : n = Len(input) - 1 /\ front = Front(input)
      OBVIOUS
    <3>3. front = [j \in 1 .. n |-> front[j]] /\ r.got = [j \in 1 .. n |-> r.got[j]]
      BY <2>2, <2>6, <3>1, <3>2 DEF IsSequence
    <3>4. \A j \in 1 .. n : front[j] = r.got[j]
      BY <2>2, <2>6, <3>1, <3>2
    <3>5. front = r.got
      BY <3>3, <3>4
    <3>6. QED
      BY <3>2, <3>5
  <2>8. input[Len(input)] = Mac(key, run, Front(input))
    BY <2>2, <2>3, <2>7
  <2>9. Legit(input[Len(input)])
    <3>1. Len(input[Len(input)]) = 4
      BY <2>8, CellKinds
    <3>2. QED
      BY <1>1, <2>1, <2>5, <2>6, <3>1, LastIsLegit
  <2>10. SealedUnder(key, input)
    BY <2>5, <2>6, <2>8, <2>9, AcceptedIsSealed
  <2>11. r.got[1] = input[1]
    BY <2>2, <2>5, <2>6
  <2>12. /\ s.pc = "open_output" /\ s.got = r.got /\ s.in = r.in /\ s.made = r.made
         /\ s.size = r.size
    BY <1>1, <1>2, <2>1, NewFields DEF Fields
  <2>13. DecodesFrom(key, s, input)
    BY <2>2, <2>10, <2>11, <2>12 DEF DecodesFrom
  <2>14. KeyOf(p)' = key
    BY <1>1, <2>1 DEF KeyOf
  <2>15. QED
    BY <1>1, <2>1, <2>12, <2>13, <2>14 DEF Alone
<1>3. QED
  BY <1>2, AloneEnds DEF Verify

LEMMA AloneOpensPlain ==
  ASSUME AloneInv, NEW p \in Started, Moves(p), p \notin touched', OpenPlain(p)
  PROVE  Alone(p)'
<1> DEFINE n == OutputName(plan[p].file, "dec")
           head == Header(Salt(p), proc[p].got[1][3])
           i == dir'[n]
           got == <<head>>
           change == [pc |-> "unseal", out |-> i, pos |-> 1, mac |-> <<>>, got |-> got]
<1>1. /\ WorkInv /\ Disk /\ p \in Procs /\ plan' = plan /\ proc[p].pc = "open_output"
      /\ OpenForWriting(n, Procs) /\ Become(p, change) /\ plan[p].verb = "decode" /\ Alone(p)
      /\ KeyOf(p)' = KeyOf(p)
  BY AloneMover DEF OpenPlain, At
<1>2. PICK r, s, input, key :
        r = proc[p] /\ s = proc'[p] /\ input = file[proc[p].in] /\ key = KeyOf(p)
  OBVIOUS
<1>3. r.in \in 1 .. Len(file) /\ Len(input) \in Nat
  BY <1>1, <1>2, MeasuredType DEF Outside, Measured
<1>4. i \notin {None, r.in} /\ file'[i] = <<>> /\ file'[r.in] = input
  <2> HIDE DEF n
  <2>1. QED
    BY <1>1, <1>2, <1>3, AloneOpens
<1>5. /\ r.made = <<>> /\ r.size = Len(input) - 2 /\ SealedUnder(key, input)
      /\ r.got[1] = input[1]
  BY <1>1, <1>2 DEF Alone, DecodesFrom
<1>6. r.flushed = 0
  BY <1>1, <1>2, Mover DEF Typed
<1>7. got[1] = input[1]
  <2>1. PICK run, size : input[1] = Header(run, size)
    BY <1>3, <1>5, SealedCells
  <2>2. RunOf(input[1]) = run /\ input[1][3] = size
    BY <2>1, CellKinds
  <2>3. head = Header(RunOf(input[1]), input[1][3])
    BY <1>2, <1>5 DEF Salt
  <2>4. QED
    BY <2>1, <2>2, <2>3
<1> HIDE DEF got, i
<1>8. /\ s.pc = "unseal" /\ s.made = r.made /\ s.pos = 1 /\ s.size = r.size /\ s.in = r.in
      /\ s.out = i /\ s.flushed = r.flushed /\ s.got = got
  BY <1>1, <1>2, NewFields DEF Fields
<1>9. DecodesFrom(key, s, input)
  <2>1. Len(s.made) = 0 /\ s.pos - 1 = 0 /\ s.pos = 1
    BY <1>5, <1>8, EmptySequence
  <2>2. \A k \in 1 .. 0 : s.made[k] = TextIn(input)[k]
    OBVIOUS
  <2>3. QED
    BY <1>5, <1>7, <1>8, <2>1, <2>2 DEF DecodesFrom
<1>10. Writes(s, file'[i])
  BY <1>4, <1>6, <1>8, EmptySequence DEF Writes
<1>11. QED
  BY <1>1, <1>2, <1>4, <1>8, <1>9, <1>10 DEF Alone
LEMMA AloneUnsealsBlock ==
  ASSUME AloneInv, NEW p \in Started, Moves(p), p \notin touched', UnsealBlock(p)
  PROVE  Alone(p)'
<1> DEFINE k == proc[p].pos + 1
           next == NextCell(p)
           opened == Opened(next, proc[p].got[1], KeyOf(p))
           longer == Append(proc[p].made, opened)
           got == <<next>>
           change == [pos |-> k, got |-> got, made |-> longer]
<1>1. /\ WorkInv /\ plan' = plan /\ file' = file /\ plan[p].verb = "decode" /\ Alone(p)
      /\ proc[p].pc = "unseal" /\ Become(p, change) /\ proc[p].pos < proc[p].size
      /\ KeyOf(p)' = KeyOf(p)
  BY AloneMover DEF UnsealBlock, FilesStay, At
<1>2. PICK r, s, input, key :
        r = proc[p] /\ s = proc'[p] /\ input = file[proc[p].in] /\ key = KeyOf(p)
  OBVIOUS
<1>3. /\ r.pc = "unseal" /\ r.size = Len(input) - 2 /\ SealedUnder(key, input)
      /\ r.got[1] = input[r.pos] /\ Len(r.made) = r.pos - 1
      /\ \A j \in 1 .. r.pos - 1 : r.made[j] = TextIn(input)[j]
  BY <1>1, <1>2 DEF Alone, DecodesFrom
<1>4. /\ r.pos \in 1 .. r.size /\ r.size \in Nat /\ IsSequence(r.made)
      /\ r.flushed \in 0 .. Len(r.made)
  <2>1. Typed(proc[p], Len(file))
    BY <1>1, Mover
  <2>2. /\ proc[p].pos \in 1 .. proc[p].size /\ proc[p].size \in Nat /\ IsSequence(proc[p].made)
        /\ proc[p].flushed \in 0 .. Len(proc[p].made)
    BY <1>1, <2>1 DEF Typed
  <2>3. QED
    BY <1>2, <2>2
<1>5. r.out \notin {None, r.in} /\ Writes(r, file[r.out])
  BY <1>1, <1>2, <1>3 DEF Alone
<1>6. Len(input) \in Nat /\ r.pos < r.size
  BY <1>1, <1>2, MeasuredType DEF Outside, Measured
<1>7. k = r.pos + 1 /\ next = input[k] /\ got = <<next>> /\ longer = Append(r.made, opened)
      /\ opened = Opened(next, r.got[1], key)
  BY <1>2 DEF NextCell
<1>8. got[1] = next
  OBVIOUS
<1>9. /\ s.pc = r.pc /\ s.got = got /\ s.in = r.in /\ s.made = longer /\ s.out = r.out
      /\ s.size = r.size /\ s.pos = k /\ s.flushed = r.flushed
  <2>1. /\ DOMAIN change = {"pos", "got", "made"} /\ change["got"] = got /\ change["pos"] = k
        /\ change["made"] = longer
    OBVIOUS
  <2> HIDE DEF change, longer, k, got
  <2>2. QED
    BY <1>1, <1>2, <2>1, NewFields DEF Fields
<1> HIDE DEF k, next, opened, longer, got
<1>10. opened = TextIn(input)[r.pos]
  <2>1. r.pos \in 1 .. Len(input) - 2 /\ r.pos <= Len(input) - 3
    BY <1>3, <1>4, <1>6
  <2>2. opened = Opened(input[r.pos + 1], input[r.pos], key)
    BY <1>3, <1>7
  <2>3. QED
    BY <1>3, <1>6, <2>1, <2>2, OpenedNext
<1>11. /\ Len(longer) = r.pos /\ longer[r.pos] = opened
       /\ \A j \in 1 .. Len(r.made) : longer[j] = r.made[j]
  <2>1. /\ Len(longer) = Len(r.made) + 1 /\ longer[Len(r.made) + 1] = opened
        /\ \A j \in 1 .. Len(r.made) : longer[j] = r.made[j]
    BY <1>4, <1>7, Appending
  <2>2. Len(r.made) + 1 = r.pos
    BY <1>3, <1>4
  <2>3. QED
    BY <2>1, <2>2
<1>12. \A j \in 1 .. r.pos : longer[j] = TextIn(input)[j]
  <2>1. \A j \in 1 .. r.pos : j = r.pos \/ (j \in 1 .. r.pos - 1 /\ j \in 1 .. Len(r.made))
    BY <1>3, <1>4
  <2>2. QED
    BY <1>3, <1>10, <1>11, <2>1
<1>13. DecodesFrom(key, s, input)
  <2>1. k - 1 = r.pos
    BY <1>4, <1>7
  <2>2. /\ s.pc = "unseal" /\ s.size = Len(input) - 2 /\ s.got[1] = input[s.pos]
        /\ Len(s.made) = s.pos - 1 /\ \A j \in 1 .. s.pos - 1 : s.made[j] = TextIn(input)[j]
    BY <1>3, <1>7, <1>8, <1>9, <1>11, <1>12, <2>1
  <2>3. QED
    BY <1>3, <2>2 DEF DecodesFrom
<1>14. Writes(s, file[r.out])
  BY <1>4, <1>5, <1>9, <1>11, WritesMore
<1>15. QED
  BY <1>1, <1>2, <1>5, <1>9, <1>13, <1>14 DEF Alone

\* The last block opens to the padding, and the text is complete.
LEMMA AloneUnsealsLast ==
  ASSUME AloneInv, NEW p \in Started, Moves(p), p \notin touched', UnsealLast(p)
  PROVE  Alone(p)'
<1> DEFINE last == IF AtEnd(p) THEN Pad ELSE Opened(NextCell(p), proc[p].got[1], KeyOf(p))
           change == [pc |-> "close", result |-> "0"]
<1>1. /\ WorkInv /\ plan' = plan /\ file' = file /\ plan[p].verb = "decode" /\ Alone(p)
      /\ proc[p].pc = "unseal" /\ (proc[p].pos >= proc[p].size \/ AtEnd(p))
      /\ KeyOf(p)' = KeyOf(p)
  BY AloneMover DEF UnsealLast, FilesStay, At
<1>2. PICK r, s, input, key :
        r = proc[p] /\ s = proc'[p] /\ input = file[proc[p].in] /\ key = KeyOf(p)
  OBVIOUS
<1>3. /\ r.size = Len(input) - 2 /\ SealedUnder(key, input)
      /\ r.got[1] = input[r.pos] /\ Len(r.made) = r.pos - 1
      /\ \A j \in 1 .. r.pos - 1 : r.made[j] = TextIn(input)[j]
  BY <1>1, <1>2 DEF Alone, DecodesFrom
<1>4. r.pos \in 1 .. r.size /\ r.size \in Nat /\ IsSequence(r.made)
  <2>1. Typed(proc[p], Len(file))
    BY <1>1, Mover
  <2>2. proc[p].pos \in 1 .. proc[p].size /\ proc[p].size \in Nat /\ IsSequence(proc[p].made)
    BY <1>1, <2>1 DEF Typed
  <2>3. QED
    BY <1>2, <2>2
<1>5. r.out \notin {None, r.in} /\ Writes(r, file[r.out])
  BY <1>1, <1>2 DEF Alone
<1>6. /\ Len(input) \in Nat /\ ~AtEnd(p) /\ r.pos = Len(input) - 2
  <2>1. Len(input) \in Nat
    BY <1>1, <1>2, MeasuredType DEF Outside, Measured
  <2>2. ~AtEnd(p)
    BY <1>2, <1>3, <1>4, <2>1 DEF AtEnd
  <2>3. QED
    BY <1>1, <1>2, <1>3, <1>4, <2>1, <2>2
<1>7. last = Pad
  <2>1. r.pos \in 1 .. Len(input) - 2 /\ ~(r.pos <= Len(input) - 3)
    BY <1>4, <1>3, <1>6
  <2>2. Opened(input[r.pos + 1], input[r.pos], key) = Pad
    BY <1>3, <1>6, <2>1, OpenedNext
  <2>3. last = Opened(input[r.pos + 1], input[r.pos], key)
    BY <1>2, <1>3, <1>6 DEF NextCell
  <2>4. QED
    BY <2>2, <2>3
<1>8. Become(p, change)
  <2>1. UnsealLast(p)
    OBVIOUS
  <2>2. /\ (\/ last = Pad /\ Become(p, change)
            \/ last # Pad /\ (Become(p, change) \/ Become(p, [pc |-> "close", result |-> "-1"]))
            \/ last # Pad /\ Become(p, [pc |-> "close", result |-> "0",
                                        made |-> Append(proc[p].made, Junk)]))
    BY <2>1, Zenon DEF UnsealLast
  <2> HIDE DEF last, change
  <2>3. QED
    BY <1>7, <2>2
<1>9. /\ s.pc = "close" /\ s.in = r.in /\ s.made = r.made /\ s.out = r.out
      /\ s.flushed = r.flushed
  <2>1. DOMAIN change = {"pc", "result"} /\ change["pc"] = "close"
    OBVIOUS
  <2> HIDE DEF change, last
  <2>2. QED
    BY <1>1, <1>2, <1>8, <2>1, NewFields DEF Fields
<1>10. r.made = TextIn(input)
  <2>1. PICK n, text : n = Len(input) - 3 /\ text = TextIn(input)
    OBVIOUS
  <2>2. n = r.pos - 1 /\ n = Len(r.made)
    BY <1>3, <1>4, <1>6, <2>1
  <2>3. text = [j \in 1 .. n |-> text[j]]
    BY <2>1 DEF TextIn
  <2>4. r.made = [j \in 1 .. n |-> r.made[j]]
    BY <1>4, <2>2 DEF IsSequence
  <2>5. \A j \in 1 .. n : r.made[j] = text[j]
    BY <1>3, <2>1, <2>2
  <2>6. r.made = text
    BY <2>3, <2>4, <2>5
  <2>7. QED
    BY <2>1, <2>6
<1>11. DecodesFrom(key, s, input)
  BY <1>3, <1>9, <1>10 DEF DecodesFrom
<1>12. Writes(s, file[r.out])
  BY <1>5, <1>9 DEF Writes
<1>13. QED
  BY <1>1, <1>2, <1>5, <1>9, <1>11, <1>12 DEF Alone
-----------------------------------------------------------------------------
\* Nothing has been made before a process is dispatched.
LEMMA InitAlone == ASSUME Init PROVE AloneInv
<1>1. OriginInv
  BY InitOrigin
<1>2. ASSUME NEW p \in Started PROVE Alone(p)
  <2>1. proc[p].pc = "start" /\ proc[p].made = <<>>
    BY DEF Init, Fresh, Started
  <2>2. PICK r, key, input : r = proc[p] /\ key = KeyOf(p) /\ input = file[proc[p].in]
    OBVIOUS
  <2>3. EncodesFrom(p, key, r, input) /\ DecodesFrom(key, r, input)
    BY <2>1, <2>2 DEF EncodesFrom, DecodesFrom
  <2>4. QED
    BY <2>1, <2>2, <2>3 DEF Alone
<1>3. QED
  BY <1>1, <1>2 DEF AloneInv

LEMMA NextAlone == ASSUME AloneInv, [Next]_vars PROVE AloneInv'
<1>1. ASSUME NEW p \in Procs, Moves(p) PROVE AloneInv'
  <2>1. p \in Started
    BY <1>1, OthersLeft DEF AloneInv, OriginInv
  <2>2. ASSUME p \notin touched' PROVE Alone(p)'
    <3>1. CASE \/ Dispatch(p) \/ Check(p) \/ Open(p) \/ Close(p) \/ Kill(p) \/ Unlink(p)
               \/ MeasureFile(p) \/ Wipe(p) \/ Truncate(p)
      BY <1>1, <2>1, <2>2, <3>1, AloneBegins, AloneShreds
    <3>2. CASE \/ MeasureInput(p) \/ OpenSealed(p) \/ SealBlock(p) \/ SealEnd(p) \/ Flush(p)
      BY <1>1, <2>1, <2>2, <3>2, AloneMeasures, AloneOpensSealed, AloneSealsBlock,
         AloneSealsEnd, AloneFlushes
    <3>3. CASE \/ ReadHead(p) \/ MeasureSealed(p) \/ ReadMac(p) \/ ReadBlock(p) \/ Verify(p)
      BY <1>1, <2>1, <2>2, <3>3, AloneReadsHead, AloneMeasuresSealed, AloneReadsMac,
         AloneReadsBlock, AloneVerifies
    <3>4. CASE OpenPlain(p) \/ UnsealBlock(p) \/ UnsealLast(p)
      BY <1>1, <2>1, <2>2, <3>4, AloneOpensPlain, AloneUnsealsBlock, AloneUnsealsLast
    <3>5. QED
      BY <1>1, <3>1, <3>2, <3>3, <3>4 DEF Moves, Step
  <2>3. QED
    BY <1>1, <2>2, AloneKept
<1>2. CASE UNCHANGED vars
  <2>1. proc' = proc /\ file' = file /\ plan' = plan /\ touched' = touched
    BY <1>2 DEF vars
  <2>2. OriginInv'
    BY NextOrigin DEF AloneInv
  <2>3. \A p \in (Started \ touched)' : Alone(p)'
    BY <2>1 DEF AloneInv, Alone, KeyOf, Started
  <2>4. QED
    BY <2>2, <2>3 DEF AloneInv
<1>3. QED
  BY <1>1, <1>2 DEF Next, Finished, Moves

LEMMA AlwaysAlone == Spec => []AloneInv
BY InitAlone, NextAlone, PTL DEF Spec

\* Only the end of a command makes it succeed.
LEMMA WhoSucceeds ==
  ASSUME WorkInv, [Next]_vars, NEW p \in Started, Succeeds(p)
  PROVE  Moves(p) /\ Close(p)
<1>1. proc[p].pc = "close" /\ proc'[p].pc = "done" /\ proc'[p].result = "0"
  BY DEF Succeeds
<1>2. ~UNCHANGED vars
  BY <1>1 DEF vars
<1>3. PICK q \in Procs : Moves(q)
  BY <1>2 DEF Next, Finished, Moves
<1>4. q = p
  <2>1. p \in Procs
    BY DEF Started
  <2>2. q # p => proc'[p] = proc[p]
    BY <1>3, <2>1, OthersLeft
  <2>3. QED
    BY <1>1, <2>2
<1>5. ~Flush(p)
  <2>1. ASSUME Flush(p) PROVE proc'[p].pc = proc[p].pc
    <3> DEFINE change == [flushed |-> proc[p].flushed + 1]
    <3>1. Become(p, change) /\ "pc" \notin DOMAIN change
      BY <2>1 DEF Flush
    <3> HIDE DEF change
    <3>2. QED
      BY <3>1, NewPlace
  <2>2. QED
    BY <1>1, <2>1
<1>6. ~Kill(p)
  BY <1>1, EndFields DEF Kill
<1>7. /\ ~Dispatch(p) /\ ~Check(p) /\ ~Open(p) /\ ~MeasureInput(p) /\ ~OpenSealed(p)
      /\ ~SealBlock(p) /\ ~SealEnd(p) /\ ~ReadHead(p) /\ ~MeasureSealed(p) /\ ~ReadMac(p)
      /\ ~ReadBlock(p) /\ ~Verify(p)
  BY <1>1 DEF Dispatch, Check, Open, MeasureInput, OpenSealed, SealBlock, SealEnd, ReadHead,
              MeasureSealed, ReadMac, ReadBlock, Verify, At
<1>8. /\ ~OpenPlain(p) /\ ~UnsealBlock(p) /\ ~UnsealLast(p) /\ ~MeasureFile(p) /\ ~Wipe(p)
      /\ ~Truncate(p) /\ ~Unlink(p)
  BY <1>1 DEF OpenPlain, UnsealBlock, UnsealLast, MeasureFile, Wipe, Truncate, Unlink, At
<1>9. QED
  BY <1>3, <1>4, <1>5, <1>6, <1>7, <1>8 DEF Moves, Step

\* A command that succeeds, and whose open files no other hand has written to, has
\* done what it says (AloneDelivers), whatever the others did to the names in between:
\* encode leaves the sealed form of its input, and decode the text that its input is
\* the sealed form of (args.c:139-179, 185-250; cipher.h:28, 43).
THEOREM UndisturbedDelivers == Spec => AloneDelivers
<1>1. ASSUME AloneInv, [Next]_vars, NEW p \in Started, Succeeds(p), p \notin touched
      PROVE  Delivered(p)
  <2>1. Close(p) /\ Moves(p) /\ WorkInv
    BY <1>1, WhoSucceeds DEF AloneInv, OriginInv
  <2>2. PICK r, key, input, output :
          /\ r = proc[p] /\ key = KeyOf(p) /\ input = file[proc[p].in]
          /\ output = file[proc[p].out]
    OBVIOUS
  <2>3. r.pc = "close" /\ r.flushed = Len(r.made) /\ file' = file
    BY <2>1, <2>2 DEF Close, FilesStay
  <2>4. /\ plan[p].verb = "encode" => EncodesFrom(p, key, r, input)
        /\ plan[p].verb = "decode" => DecodesFrom(key, r, input)
        /\ Writes(r, output)
    BY <1>1, <2>2, <2>3 DEF AloneInv, Alone
  <2>5. Typed(proc[p], Len(file)) /\ Disk /\ plan[p].verb \in Verbs
    BY <2>1, Mover
  <2>6. /\ IsSequence(r.made) /\ r.out \in 1 .. Len(file) /\ plan[p].verb \in {"encode", "decode"}
    <3>1. IsSequence(proc[p].made) /\ proc[p].out \in 0 .. Len(file) /\ Len(file) \in Nat
      BY <2>1, <2>5, Mover, Zenon DEF Typed
    <3>2. plan[p].verb # "shred" /\ r.out # 0
      BY <1>1, <2>2, <2>3 DEF AloneInv, Alone, None
    <3>3. QED
      BY <2>2, <2>5, <3>1, <3>2 DEF Verbs
  <2>7. output = r.made
    <3>1. IsSequence(output)
      BY <2>2, <2>5, <2>6 DEF Disk
    <3>2. PICK n, made : n = Len(r.made) /\ made = r.made
      OBVIOUS
    <3>3. output = [k \in 1 .. n |-> output[k]] /\ made = [k \in 1 .. n |-> made[k]]
      BY <2>3, <2>4, <2>6, <3>1, <3>2 DEF IsSequence, Writes
    <3>4. \A k \in 1 .. n : output[k] = made[k]
      BY <2>3, <2>4, <3>2 DEF Writes
    <3>5. output = made
      BY <3>3, <3>4
    <3>6. QED
      BY <3>2, <3>5
  <2>8. CASE plan[p].verb = "encode"
    <3>1. output = Sealing(p, key, Len(input), input)
      BY <2>3, <2>4, <2>7, <2>8 DEF EncodesFrom
    <3>2. QED
      BY <2>2, <2>3, <2>8, <3>1 DEF Delivered
  <2>9. CASE plan[p].verb = "decode"
    <3>1. SealedUnder(key, input) /\ output = TextIn(input)
      BY <2>3, <2>4, <2>7, <2>9 DEF DecodesFrom
    <3>2. input = Sealing(input[1][2], key, input[1][3], output)
      BY <3>1 DEF SealedUnder
    <3>3. QED
      BY <2>2, <2>3, <2>9, <3>2 DEF Delivered
  <2>10. QED
    BY <2>6, <2>8, <2>9
<1>2. ASSUME AloneInv, [Next]_vars
      PROVE  [\A p \in Started : Succeeds(p) /\ p \notin touched => Delivered(p)]_vars
  BY <1>1, <1>2
<1>3. QED
  BY <1>2, AlwaysAlone, PTL DEF Spec, AloneDelivers

-----------------------------------------------------------------------------
(* The way to the end *)

\* What lies ahead of each place of a command.
Ahead ==
  [stop \in Stops |->
     CASE stop = "start"       -> 10
       [] stop = "check"       -> 9
       [] stop = "open"        -> 8
       [] stop = "head"        -> 7
       [] stop = "measure"     -> 6
       [] stop = "mac"         -> 5
       [] stop = "verify"      -> 4
       [] stop = "open_output" -> 3
       [] stop \in {"seal", "unseal", "wipe"} -> 2
       [] stop \in {"close", "unlink"}        -> 1
       [] OTHER                -> 0]

Unwritten(r) == Len(r.made) - r.flushed

\* The cells a process has still to read and write where it is, when the file it
\* reads has n: what it reads it has to write.
Cells(r, n) ==
  CASE r.pc = "verify" -> r.size + 1 - r.pos
    [] r.pc = "seal"   -> (IF r.pos < n THEN (n - r.pos) + (n - r.pos) ELSE 0) + Unwritten(r)
    [] r.pc = "unseal" -> (r.size - r.pos) + (r.size - r.pos) + Unwritten(r)
    [] r.pc = "wipe"   -> Passes * r.size - r.pos
    [] r.pc = "close"  -> Unwritten(r)
    [] OTHER           -> 0

InputLength(p) == IF proc[p].in = None THEN 0 ELSE Len(file[proc[p].in])

StepsLeft(p) == <<Ahead[proc[p].pc], Cells(proc[p], InputLength(p))>>

\* A place nearer to the end outweighs all the cells to be read and written there.
Less  == OpToRel(<, Nat)
Fewer == LexPairOrdering(Less, Less, Nat, Nat)

\* Somebody writes behind the end of what an encode is reading.
InputGrows(p) ==
  proc[p].pc = "seal" /\ Len(file'[proc[p].in]) > Len(file[proc[p].in])

Descends ==
  [][\A p \in Procs :
       ~InputGrows(p) =>
         \/ <<StepsLeft(p)', StepsLeft(p)>> \in Fewer
         \/ ~Moves(p) /\ StepsLeft(p)' = StepsLeft(p)]_vars

LEMMA NoEndlessDescent == IsWellFoundedOn(Fewer, Nat \X Nat)
<1>1. IsWellFoundedOn(Less, Nat)
  BY NatLessThanWellFounded DEF Less
<1>2. QED
  BY <1>1, WFLexPairOrdering DEF Fewer

LEMMA FewerIs ==
  ASSUME NEW a \in Nat, NEW b \in Nat, NEW c \in Nat, NEW d \in Nat,
         a < c \/ (a = c /\ b < d)
  PROVE  <<<<a, b>>, <<c, d>>>> \in Fewer
<1>1. <<<<a, b>>, <<c, d>>>> \in (Nat \X Nat) \X (Nat \X Nat)
  OBVIOUS
<1>2. a < c => <<a, c>> \in Less
  BY DEF Less, OpToRel
<1>3. b < d => <<b, d>> \in Less
  BY DEF Less, OpToRel
<1>4. QED
  BY <1>1, <1>2, <1>3 DEF Fewer, LexPairOrdering

LEMMA CellsType ==
  ASSUME NEW r, NEW m \in Nat, Typed(r, m), NEW n \in Nat
  PROVE  Ahead[r.pc] \in Nat /\ Cells(r, n) \in Nat
<1>1. r.pc \in Stops /\ r.size \in Nat /\ r.pos \in Nat /\ r.flushed \in 0 .. Len(r.made)
  BY DEF Typed
<1>2. Len(r.made) \in Nat
  BY DEF Typed, IsSequence
<1>3. Ahead[r.pc] \in Nat
  BY <1>1 DEF Ahead
<1>4. Unwritten(r) \in Nat
  BY <1>1, <1>2 DEF Unwritten
<1>5. r.pc = "verify" => r.pos \in 1 .. r.size + 1
  BY DEF Typed
<1>6. r.pc = "unseal" => r.pos \in 1 .. r.size
  BY DEF Typed
<1>7. r.pc = "wipe" => Passes * r.size - r.pos \in Nat
  <2>1. PICK all \in Nat : all = Passes * r.size
    BY <1>1, WorkspaceAssumption
  <2>2. r.pc = "wipe" => r.pos \in 0 .. all
    BY <2>1 DEF Typed
  <2>3. r.pc = "wipe" => all - r.pos \in Nat
    BY <2>2
  <2>4. QED
    BY <2>1, <2>3
<1>8. Cells(r, n) \in Nat
  <2>1. CASE r.pc = "verify"
    BY <1>1, <1>5, <2>1 DEF Cells
  <2>2. CASE r.pc = "seal"
    BY <1>1, <1>4, <2>2 DEF Cells
  <2>3. CASE r.pc = "unseal"
    BY <1>1, <1>4, <1>6, <2>3 DEF Cells
  <2>4. CASE r.pc = "wipe"
    BY <1>7, <2>4 DEF Cells
  <2>5. CASE r.pc \notin {"verify", "seal", "unseal", "wipe"}
    BY <1>4, <2>5 DEF Cells
  <2>6. QED
    BY <2>1, <2>2, <2>3, <2>4, <2>5
<1>9. QED
  BY <1>3, <1>8

LEMMA StepsLeftTypes ==
  WorkInv => \A q \in Procs : InputLength(q) \in Nat /\ StepsLeft(q) \in Nat \X Nat
<1> SUFFICES ASSUME WorkInv, NEW p \in Procs
             PROVE  InputLength(p) \in Nat /\ StepsLeft(p) \in Nat \X Nat
  OBVIOUS
<1>1. Len(file) \in Nat /\ Typed(proc[p], Len(file))
  BY DEF WorkInv, Disk, IsSequence
<1>2. InputLength(p) \in Nat
  <2>1. proc[p].in \in 0 .. Len(file)
    BY <1>1 DEF Typed
  <2>2. \A k \in 1 .. Len(file) : Len(file[k]) \in Nat
    BY DEF WorkInv, Disk, IsSequence
  <2>3. QED
    BY <1>1, <2>1, <2>2 DEF InputLength, None
<1>3. QED
  BY <1>1, <1>2, CellsType DEF StepsLeft

LEMMA StepsLeftStayTyped ==
  WorkInv' => \A q \in Procs : InputLength(q)' \in Nat /\ StepsLeft(q)' \in Nat \X Nat
<1>1. (WorkInv => \A q \in Procs : InputLength(q) \in Nat /\ StepsLeft(q) \in Nat \X Nat)'
  BY StepsLeftTypes, PTL
<1>2. QED
  BY <1>1

\* What a step has to do: bring the process nearer to its end, or have it read or
\* write where it is.
LEMMA NearerDescends ==
  ASSUME WorkInv, WorkInv', NEW p \in Procs,
         \/ Ahead[proc'[p].pc] < Ahead[proc[p].pc]
         \/ /\ proc'[p].pc = proc[p].pc
            /\ Cells(proc'[p], InputLength(p)') < Cells(proc[p], InputLength(p))
  PROVE  <<StepsLeft(p)', StepsLeft(p)>> \in Fewer
<1>1. Ahead' = Ahead
  BY DEF Ahead, Stops
<1>2. /\ StepsLeft(p) = <<Ahead[proc[p].pc], Cells(proc[p], InputLength(p))>>
      /\ StepsLeft(p)' = <<Ahead[proc'[p].pc], Cells(proc'[p], InputLength(p)')>>
  BY <1>1 DEF StepsLeft, Cells, Unwritten
<1>3. StepsLeft(p) \in Nat \X Nat
  BY StepsLeftTypes
<1>4. StepsLeft(p)' \in Nat \X Nat
  BY StepsLeftStayTyped
<1>5. QED
  BY <1>2, <1>3, <1>4, FewerIs

\* The turns of the loops.
Turn(p) == ReadBlock(p) \/ SealBlock(p) \/ UnsealBlock(p) \/ Flush(p) \/ Wipe(p)

LEMMA PlaceOrTurn ==
  ASSUME WorkInv, NEW p \in Started, Moves(p)
  PROVE  \/ Ahead[proc'[p].pc] < Ahead[proc[p].pc]
         \/ Turn(p) /\ proc'[p].pc = proc[p].pc
<1> USE DEF At, Ahead, Stops
<1>1. CASE Dispatch(p)
  BY <1>1, NewPlace, EndFields DEF Dispatch
<1>2. CASE Check(p)
  BY <1>2, NewPlace, EndFields DEF Check
<1>3. CASE Open(p)
  BY <1>3, NewPlace, EndFields DEF Open
<1>4. CASE Close(p)
  BY <1>4, NewPlace, EndFields DEF Close
<1>5. CASE MeasureInput(p)
  BY <1>5, NewPlace, EndFields DEF MeasureInput
<1>6. CASE OpenSealed(p)
  BY <1>6, NewPlace, EndFields DEF OpenSealed
<1>7. CASE SealEnd(p)
  BY <1>7, NewPlace, EndFields DEF SealEnd
<1>8. CASE ReadHead(p)
  BY <1>8, NewPlace, EndFields DEF ReadHead
<1>9. CASE MeasureSealed(p)
  BY <1>9, NewPlace, EndFields DEF MeasureSealed
<1>10. CASE ReadMac(p)
  BY <1>10, NewPlace, EndFields DEF ReadMac
<1>11. CASE Verify(p)
  BY <1>11, NewPlace, EndFields DEF Verify
<1>12. CASE OpenPlain(p)
  BY <1>12, NewPlace, EndFields DEF OpenPlain
<1>13. CASE UnsealLast(p)
  BY <1>13, NewPlace, EndFields DEF UnsealLast
<1>14. CASE MeasureFile(p)
  BY <1>14, NewPlace, EndFields DEF MeasureFile
<1>15. CASE Truncate(p)
  BY <1>15, NewPlace, EndFields DEF Truncate
<1>16. CASE Unlink(p)
  BY <1>16, NewPlace, EndFields DEF Unlink
<1>17. CASE Kill(p)
  BY <1>17, EndFields, Mover DEF Kill, Ended, Typed
<1>18. CASE Turn(p)
  <2>1. CASE SealBlock(p)
    BY <2>1, NewPlace, EndFields DEF SealBlock, Turn
  <2>2. CASE ReadBlock(p) \/ UnsealBlock(p) \/ Flush(p) \/ Wipe(p)
    BY <2>2, NewPlace DEF ReadBlock, UnsealBlock, Flush, Wipe, Turn
  <2>3. QED
    BY <1>18, <2>1, <2>2 DEF Turn
<1>19. QED
  BY <1>1, <1>2, <1>3, <1>4, <1>5, <1>6, <1>7, <1>8, <1>9, <1>10, <1>11, <1>12, <1>13, <1>14,
     <1>15, <1>16, <1>17, <1>18, Zenon DEF Moves, Step, Turn

\* A turn of a loop leaves fewer cells to read and to write.
LEMMA TurnDescends ==
  ASSUME WorkInv, WorkInv', NEW p \in Started, Turn(p), proc'[p].pc = proc[p].pc,
         ~InputGrows(p)
  PROVE  Cells(proc'[p], InputLength(p)') < Cells(proc[p], InputLength(p))
<1>1. p \in Procs /\ Typed(proc[p], Len(file))
  BY Mover
<1>2. /\ proc[p].size \in Nat /\ proc[p].pos \in Nat /\ IsSequence(proc[p].made)
      /\ Len(proc[p].made) \in Nat /\ proc[p].flushed \in 0 .. Len(proc[p].made)
      /\ proc[p].pc \in Outside <=> proc[p].in = None
      /\ proc[p].pc \notin {"seal", "unseal", "close"} => proc[p].out = None
  BY <1>1 DEF Typed, IsSequence
<1>3. InputLength(p) \in Nat
  BY <1>1, StepsLeftTypes
<1>4. InputLength(p)' \in Nat
  BY <1>1, StepsLeftStayTyped
<1>5. CASE ReadBlock(p)
  <2>1. /\ proc[p].pc = "verify" /\ proc[p].pos <= proc[p].size
        /\ proc'[p].pos = proc[p].pos + 1 /\ proc'[p].size = proc[p].size
    BY <1>5, NewFields DEF ReadBlock, At, Fields
  <2>2. QED
    BY <1>2, <2>1 DEF Cells
<1>6. CASE SealBlock(p)
  <2>1. proc[p].pc = "seal" /\ ~AtEnd(p) /\ file' = file
    BY <1>6 DEF SealBlock, At, FilesStay
  <2>2. PICK cell : Become(p, [pos |-> proc[p].pos + 1, made |-> Append(proc[p].made, cell)])
    <3>1. ~Return(p, "died")
      BY <2>1, EndFields
    <3>2. QED
      BY <1>6, <3>1 DEF SealBlock
  <2>3. /\ proc'[p].pos = proc[p].pos + 1 /\ proc'[p].in = proc[p].in
        /\ proc'[p].made = Append(proc[p].made, cell) /\ proc'[p].flushed = proc[p].flushed
    BY <2>2, NewFields DEF Fields
  <2>4. Len(proc'[p].made) = Len(proc[p].made) + 1
    BY <1>2, <2>3, Appending
  <2>5. InputLength(p)' = InputLength(p) /\ proc[p].pos < InputLength(p)
    BY <1>2, <1>3, <2>1, <2>3 DEF InputLength, AtEnd, Outside
  <2>6. PICK left \in Nat : left = Unwritten(proc[p]) /\ Unwritten(proc'[p]) = left + 1
    BY <1>2, <2>3, <2>4 DEF Unwritten
  <2>7. PICK n \in Nat : n = InputLength(p) /\ n = InputLength(p)' /\ proc[p].pos < n
    BY <1>3, <2>5
  <2>8. PICK k \in Nat : k = proc[p].pos /\ k < n /\ proc'[p].pos = k + 1
    BY <1>2, <2>3, <2>7
  <2>9. /\ Cells(proc[p], n) = ((n - k) + (n - k)) + left
        /\ Cells(proc'[p], n) =
             (IF k + 1 < n THEN (n - (k + 1)) + (n - (k + 1)) ELSE 0) + (left + 1)
    BY <2>1, <2>6, <2>8 DEF Cells
  <2>10. QED
    BY <2>7, <2>8, <2>9
<1>7. CASE UnsealBlock(p)
  <2>1. PICK cells, cell : /\ proc[p].pc = "unseal" /\ proc[p].pos < proc[p].size
                           /\ Become(p, [pos |-> proc[p].pos + 1, got |-> cells,
                                         made |-> Append(proc[p].made, cell)])
    BY <1>7 DEF UnsealBlock, At
  <2>2. /\ proc'[p].pos = proc[p].pos + 1 /\ proc'[p].size = proc[p].size
        /\ proc'[p].made = Append(proc[p].made, cell) /\ proc'[p].flushed = proc[p].flushed
    BY <2>1, NewFields DEF Fields
  <2>3. Len(proc'[p].made) = Len(proc[p].made) + 1
    BY <1>2, <2>2, Appending
  <2>4. PICK left \in Nat : left = Unwritten(proc[p]) /\ Unwritten(proc'[p]) = left + 1
    BY <1>2, <2>2, <2>3 DEF Unwritten
  <2>5. PICK n \in Nat, k \in Nat : /\ n = proc[p].size /\ k = proc[p].pos /\ k < n
                                  /\ n = proc'[p].size /\ k + 1 = proc'[p].pos
    BY <1>2, <2>1, <2>2
  <2>6. /\ Cells(proc[p], InputLength(p)) = ((n - k) + (n - k)) + left
        /\ Cells(proc'[p], InputLength(p)') = ((n - (k + 1)) + (n - (k + 1))) + (left + 1)
    BY <2>1, <2>4, <2>5 DEF Cells
  <2>7. QED
    BY <2>5, <2>6
<1>8. CASE Flush(p)
  <2>1. /\ proc[p].out # None /\ proc[p].flushed < Len(proc[p].made)
        /\ Become(p, [flushed |-> proc[p].flushed + 1])
    BY <1>8 DEF Flush
  <2>2. /\ proc'[p].pos = proc[p].pos /\ proc'[p].size = proc[p].size
        /\ proc'[p].in = proc[p].in /\ proc'[p].made = proc[p].made
        /\ proc'[p].flushed = proc[p].flushed + 1
    BY <2>1, NewFields DEF Fields
  <2>3. proc[p].pc = "seal" => InputLength(p)' <= InputLength(p)
    BY <1>2, <1>3, <1>4, <2>2 DEF InputGrows, InputLength, Outside
  <2>4. PICK left \in Nat : Unwritten(proc[p]) = left + 1 /\ left = Unwritten(proc'[p])
    <3>1. PICK m \in Nat, f \in Nat : m = Len(proc[p].made) /\ f = proc[p].flushed /\ f < m
      BY <1>2, <2>1
    <3>2. Unwritten(proc[p]) = m - f /\ Unwritten(proc'[p]) = m - (f + 1)
      BY <2>2, <3>1 DEF Unwritten
    <3>3. QED
      BY <3>1, <3>2
  <2>5. CASE proc[p].pc = "seal"
    <3>1. PICK n \in Nat, m \in Nat, k \in Nat :
            /\ n = InputLength(p) /\ m = InputLength(p)' /\ m <= n
            /\ k = proc[p].pos /\ k = proc'[p].pos
      BY <1>2, <1>3, <1>4, <2>2, <2>3, <2>5
    <3>2. /\ Cells(proc[p], n) = (IF k < n THEN (n - k) + (n - k) ELSE 0) + (left + 1)
          /\ Cells(proc'[p], m) = (IF k < m THEN (m - k) + (m - k) ELSE 0) + left
      BY <2>4, <2>5, <3>1 DEF Cells
    <3>3. QED
      BY <3>1, <3>2
  <2>6. CASE proc[p].pc = "unseal"
    <3>1. PICK n \in Int : n = proc[p].size - proc[p].pos /\ n = proc'[p].size - proc'[p].pos
      BY <1>2, <2>2
    <3>2. /\ Cells(proc[p], InputLength(p)) = (n + n) + (left + 1)
          /\ Cells(proc'[p], InputLength(p)') = (n + n) + left
      BY <2>4, <2>6, <3>1 DEF Cells
    <3>3. QED
      BY <3>2
  <2>7. CASE proc[p].pc = "close"
    BY <2>4, <2>7 DEF Cells
  <2>8. QED
    BY <1>2, <2>1, <2>5, <2>6, <2>7
<1>9. CASE Wipe(p)
  <2>1. PICK all \in Nat : all = Passes * proc[p].size
    BY <1>2, WorkspaceAssumption
  <2>2. /\ proc[p].pc = "wipe" /\ proc[p].pos < all
        /\ proc'[p].pos = proc[p].pos + 1 /\ proc'[p].size = proc[p].size
    BY <1>9, <2>1, NewFields DEF Wipe, At, Fields
  <2>3. Cells(proc[p], InputLength(p)) = all - proc[p].pos
        /\ Cells(proc'[p], InputLength(p)') = all - (proc[p].pos + 1)
    BY <2>1, <2>2 DEF Cells
  <2>4. QED
    BY <1>2, <2>2, <2>3
<1>10. QED
  BY <1>5, <1>6, <1>7, <1>8, <1>9 DEF Turn

\* The steps of another process, and none.
LEMMA OthersDescend ==
  ASSUME WorkInv, WorkInv', NEW p \in Procs, proc'[p] = proc[p], ~InputGrows(p)
  PROVE  StepsLeft(p)' = StepsLeft(p) \/ <<StepsLeft(p)', StepsLeft(p)>> \in Fewer
<1>1. Typed(proc[p], Len(file))
  BY DEF WorkInv
<1>2. proc[p].pos \in Nat /\ (proc[p].pc \in Outside <=> proc[p].in = None)
  BY <1>1 DEF Typed
<1>3. /\ IsSequence(proc[p].made) /\ Len(proc[p].made) \in Nat
      /\ proc[p].flushed \in 0 .. Len(proc[p].made)
  BY <1>1 DEF Typed, IsSequence
<1>4. InputLength(p) \in Nat
  BY StepsLeftTypes
<1>5. InputLength(p)' \in Nat
  BY StepsLeftStayTyped
<1>6. CASE Cells(proc[p], InputLength(p)') = Cells(proc[p], InputLength(p))
  BY <1>6 DEF StepsLeft, Cells, Unwritten, Ahead, Stops
<1>7. CASE Cells(proc[p], InputLength(p)') # Cells(proc[p], InputLength(p))
  <2>1. proc[p].pc = "seal"
    BY <1>7 DEF Cells
  <2>2. InputLength(p)' <= InputLength(p)
    BY <1>2, <1>4, <1>5, <2>1 DEF InputGrows, InputLength, Outside
  <2>3. Cells(proc[p], InputLength(p)') < Cells(proc[p], InputLength(p))
    BY <1>2, <1>3, <1>4, <1>5, <1>7, <2>1, <2>2 DEF Cells, Unwritten
  <2>4. QED
    BY <2>3, NearerDescends
<1>8. QED
  BY <1>6, <1>7

\* No command can go on for ever, and none keeps another from its end: each of its
\* steps leaves fewer in an order in which nothing gets fewer without end, and no step
\* of another adds to what is left, unless cells are written behind the end of what an
\* encode is still reading (cipher.c:133-191, 344-420, shred.c:194-225).
THEOREM CommandsDescend ==
  /\ IsWellFoundedOn(Fewer, Nat \X Nat)
  /\ Spec => [](\A p \in Procs : StepsLeft(p) \in Nat \X Nat) /\ Descends
<1> SUFFICES Spec => [](\A p \in Procs : StepsLeft(p) \in Nat \X Nat) /\ Descends
  BY NoEndlessDescent
<1> DEFINE Lower(p) == ~InputGrows(p) =>
                         \/ <<StepsLeft(p)', StepsLeft(p)>> \in Fewer
                         \/ ~Moves(p) /\ StepsLeft(p)' = StepsLeft(p)
<1>1. WorkInv => \A p \in Procs : StepsLeft(p) \in Nat \X Nat
  BY StepsLeftTypes
<1>2. ASSUME WorkInv, Next PROVE \A p \in Procs : Lower(p)
  <2>1. WorkInv'
    BY <1>2, NextWork
  <2>2. ASSUME NEW p \in Procs, ~InputGrows(p), Moves(p)
        PROVE  <<StepsLeft(p)', StepsLeft(p)>> \in Fewer
    <3>1. p \in Started
      BY <1>2, <2>2, OthersLeft
    <3>2. CASE Ahead[proc'[p].pc] < Ahead[proc[p].pc]
      BY <1>2, <2>1, <3>2, NearerDescends
    <3>3. CASE Turn(p) /\ proc'[p].pc = proc[p].pc
      <4>1. Cells(proc'[p], InputLength(p)') < Cells(proc[p], InputLength(p))
        BY <1>2, <2>1, <2>2, <3>1, <3>3, TurnDescends
      <4>2. QED
        BY <1>2, <2>1, <3>3, <4>1, NearerDescends
    <3>4. QED
      BY <1>2, <2>2, <3>1, <3>2, <3>3, PlaceOrTurn
  <2>3. ASSUME NEW p \in Procs, ~InputGrows(p), ~Moves(p)
        PROVE  StepsLeft(p)' = StepsLeft(p) \/ <<StepsLeft(p)', StepsLeft(p)>> \in Fewer
    <3>1. proc'[p] = proc[p]
      <4>1. CASE Finished
        BY <4>1 DEF Finished, vars
      <4>2. CASE \E q \in Procs : Moves(q)
        <5>1. PICK q \in Procs : Moves(q)
          BY <4>2
        <5>2. p # q
          BY <2>3, <5>1
        <5>3. QED
          BY <1>2, <5>1, <5>2, OthersLeft
      <4>3. QED
        BY <1>2, <4>1, <4>2 DEF Next, Moves
    <3>2. QED
      BY <1>2, <2>1, <2>3, <3>1, OthersDescend
  <2>4. QED
    BY <2>2, <2>3
<1>3. WorkInv /\ [Next]_vars => [\A p \in Procs : Lower(p)]_vars
  BY <1>2
<1>4. QED
  BY <1>1, <1>3, AlwaysWork, PTL DEF Spec, Descends
===============================================================================
