-------------------------- MODULE ShredFile_proofs --------------------------
(***************************************************************************)
(* For every file length, chunk size and number of passes: the types of    *)
(* ShredFile, and, until an fsync fails, that each cell of the medium goes *)
(* through the passes in order and that the file gives up nothing before   *)
(* the last pass has reached all of it.                                    *)
(***************************************************************************)
EXTENDS ShredFile, TLAPS

\* Handing cells to the system keeps the cached content and the count in their
\* types.
LEMMA FlushTypes ==
  ASSUME TypeOK, NEW n \in 0 .. fileSize, FlushUpTo(n), fileSize' = fileSize
  PROVE  cache' \in [Cell' -> 0 .. Passes] /\ flushed' \in 0 .. fileSize'
BY ShredAssumption DEF TypeOK, FlushUpTo, Cell

\* The variables start in their types.
LEMMA InitTypes == Init => TypeOK
<1> SUFFICES ASSUME Init PROVE TypeOK
  OBVIOUS
<1>1. allocated \in BOOLEAN /\ linked \in BOOLEAN /\ unsynced \in BOOLEAN
  BY DEF Init
<1>2. cache \in [Cell -> 0 .. Passes] /\ media \in [Cell -> 0 .. Passes]
  BY ShredAssumption DEF Init
<1>3. QED
  BY <1>1, <1>2, ShredAssumption DEF Init, TypeOK, Places

\* Type correctness, for every instance (shred.c:166-226).
THEOREM TypeCorrect == Spec => []TypeOK
<1>1. TypeOK /\ [Next]_vars => TypeOK'
  <2> SUFFICES ASSUME TypeOK, [Next]_vars PROVE TypeOK'
    OBVIOUS
  <2> USE ShredAssumption DEF TypeOK, Places, Cell, exitVars, passVars, dataVars, nameVars
  <2>1. CASE Open
    <3>1. allocated' \in BOOLEAN /\ linked' \in BOOLEAN /\ unsynced' \in BOOLEAN
      BY <2>1 DEF Open
    <3>2. cache' \in [Cell' -> 0 .. Passes] /\ media' \in [Cell' -> 0 .. Passes]
      BY <2>1 DEF Open
    <3>3. QED
      BY <2>1, <3>1, <3>2 DEF Open, Return
  <2>2. CASE Measure
    BY <2>2 DEF Measure, Return, Continue
  <2>3. CASE Seek
    <3>1. allocated' \in BOOLEAN /\ linked' \in BOOLEAN /\ unsynced' \in BOOLEAN
      BY <2>3 DEF Seek
    <3>2. cache' \in [Cell' -> 0 .. Passes] /\ media' \in [Cell' -> 0 .. Passes]
      BY <2>3 DEF Seek
    <3>3. accepted' \in 0 .. fileSize' /\ flushed' \in 0 .. fileSize'
      BY <2>3 DEF Seek
    <3>4. /\ pc' \in Places /\ result' \in {"none", "0", "-1"}
          /\ held' \subseteq {"file", "buffer"}
      BY <2>3 DEF Seek, Return, Continue
    <3>5. QED
      BY <2>3, <3>1, <3>2, <3>3, <3>4 DEF Seek
  <2>4. CASE Alloc
    <3>1. allocated' \in BOOLEAN /\ linked' \in BOOLEAN /\ unsynced' \in BOOLEAN
      BY <2>4 DEF Alloc
    <3>2. cache' \in [Cell' -> 0 .. Passes] /\ media' \in [Cell' -> 0 .. Passes]
      BY <2>4 DEF Alloc
    <3>3. QED
      BY <2>4, <3>1, <3>2 DEF Alloc, Return
  <2>5. CASE WriteChunk
    <3> DEFINE chunk == IF fileSize - accepted < ShredChunk THEN fileSize - accepted
                                                            ELSE ShredChunk
    <3>1. accepted + chunk \in 0 .. fileSize
      BY <2>5 DEF WriteChunk
    <3>2. PICK n \in flushed .. accepted + chunk : FlushUpTo(n)
      BY <2>5 DEF WriteChunk, FailFlushing
    <3>3. cache' \in [Cell' -> 0 .. Passes] /\ flushed' \in 0 .. fileSize'
      BY <2>5, <3>1, <3>2, FlushTypes DEF WriteChunk
    <3>4. accepted' \in 0 .. fileSize'
      BY <2>5, <3>1 DEF WriteChunk
    <3>5. /\ pc' \in Places /\ result' \in {"none", "0", "-1"}
          /\ held' \subseteq {"file", "buffer"}
      BY <2>5 DEF WriteChunk, FailFlushing, Return, Continue
    <3>6. UNCHANGED <<fileSize, pass, unsynced, media, allocated, linked>>
      BY <2>5 DEF WriteChunk
    <3>7. QED
      BY <3>3, <3>4, <3>5, <3>6
  <2>6. CASE Flush
    <3>1. PICK n \in flushed .. accepted : FlushUpTo(n)
      BY <2>6 DEF Flush, FailFlushing, FlushUpTo
    <3>2. cache' \in [Cell' -> 0 .. Passes] /\ flushed' \in 0 .. fileSize'
      BY <2>6, <3>1, FlushTypes DEF Flush
    <3>3. /\ pc' \in Places /\ result' \in {"none", "0", "-1"}
          /\ held' \subseteq {"file", "buffer"}
      BY <2>6 DEF Flush, FailFlushing, Return, Continue
    <3>4. UNCHANGED <<fileSize, pass, unsynced, accepted, media, allocated,
                     linked>>
      BY <2>6 DEF Flush
    <3>5. QED
      BY <3>2, <3>3, <3>4
  <2>7. CASE Sync
    <3>1. unsynced' \in BOOLEAN
      BY <2>7 DEF Sync, Persist
    <3>2. cache' \in [Cell' -> 0 .. Passes] /\ media' \in [Cell' -> 0 .. Passes]
      BY <2>7 DEF Sync, Persist
    <3>3. allocated' \in BOOLEAN /\ linked' \in BOOLEAN
      BY <2>7 DEF Sync
    <3>4. pc' \in Places /\ pass' \in 1 .. Passes
      BY <2>7 DEF Sync, NextPass
    <3>5. /\ result' = result /\ held' \subseteq held /\ fileSize' = fileSize
          /\ accepted' = accepted /\ flushed' = flushed
      BY <2>7 DEF Sync
    <3>6. QED
      BY <3>1, <3>2, <3>3, <3>4, <3>5
  <2>8. CASE Truncate
    BY <2>8 DEF Truncate
  <2>9. CASE Unlink
    BY <2>9 DEF Unlink, Return
  <2>10. CASE WriteBack
    BY <2>10 DEF WriteBack
  <2>11. CASE Crash
    BY <2>11 DEF Crash
  <2>12. CASE PowerLoss
    BY <2>12 DEF PowerLoss
  <2>13. CASE UNCHANGED vars
    BY <2>13 DEF vars
  <2>14. QED
    BY <2>1, <2>2, <2>3, <2>4, <2>5, <2>6, <2>7, <2>8, <2>9, <2>10, <2>11, <2>12, <2>13
       DEF Next, Step, Ended
<1>2. QED
  BY <1>1, InitTypes, PTL DEF Spec

-----------------------------------------------------------------------------
(* The order of the passes, and what is left on the medium *)

\* A cached cell is at this pass or the one before, and the medium is at most
\* one pass behind the cache.
OnePassApart ==
  \A i \in Cell :
    /\ cache[i] \in {pass - 1, pass}
    /\ media[i] \in {pass - 1, cache[i]}

\* How far the pass under way has come, place by place.
PassProgress ==
  /\ pc \in {"open", "measure", "seek", "alloc"} => \A i \in Cell : cache[i] = pass - 1
  /\ pc = "alloc" => flushed = 0
  /\ pc = "write" =>
       \A i \in Cell : cache[i] = IF i <= flushed THEN pass ELSE pass - 1
  /\ pc = "sync" => \A i \in Cell : cache[i] = pass
  /\ pc \in {"truncate", "unlink"} =>
       \A i \in Cell : cache[i] = Passes /\ media[i] = Passes

\* Cells and name are given up only at the end, and what was wiped stays wiped.
GivenUpLast ==
  (~allocated \/ ~linked) =>
    /\ pc \in {"unlink", "done", "crashed"}
    /\ \A i \in Cell : cache[i] = Passes /\ media[i] = Passes

\* All of it, until an fsync fails.
Ordered == OnePassApart /\ PassProgress /\ GivenUpLast

IInv == TypeOK /\ (~unsynced => Ordered)

\* The invariant holds at the call.
LEMMA IInvInit == Init => IInv
<1>1. Init => Ordered
  BY DEF Init, Ordered, OnePassApart, PassProgress, GivenUpLast
<1>2. QED
  BY <1>1, InitTypes DEF IInv

\* Each step keeps the passes in order, if no fsync has failed.
LEMMA OrderedStep ==
  ASSUME TypeOK, Ordered, ~unsynced, [Next]_vars, ~unsynced'
  PROVE  Ordered'
<1> USE DEF Ordered, OnePassApart, PassProgress, GivenUpLast, exitVars, passVars, dataVars,
            nameVars
<1>a. /\ fileSize \in Nat /\ pass \in 1 .. Passes /\ accepted \in 0 .. fileSize
      /\ flushed \in 0 .. fileSize
      /\ DOMAIN cache = Cell /\ DOMAIN media = Cell
      /\ \A i \in Cell : cache[i] \in 0 .. Passes /\ media[i] \in 0 .. Passes
      /\ Passes \in Nat /\ ShredChunk \in Nat \ {0}
  BY ShredAssumption DEF TypeOK
<1>1. CASE Open
  BY <1>a, <1>1 DEF Open, Return, Cell
<1>2. CASE Measure
  BY <1>a, <1>2 DEF Measure, Return, Continue, Cell
<1>3. CASE Seek
  BY <1>a, <1>3 DEF Seek, Return, Continue, Cell
<1>4. CASE Alloc
  BY <1>a, <1>4 DEF Alloc, Return, Cell
<1>5. CASE WriteChunk
  BY <1>a, <1>5 DEF WriteChunk, Return, Continue, FlushUpTo, FailFlushing, Cell
<1>6. CASE Flush
  BY <1>a, <1>6 DEF Flush, Return, Continue, FlushUpTo, FailFlushing, Cell
<1>7. CASE Sync
  BY <1>a, <1>7 DEF Sync, Persist, NextPass, Cell
<1>8. CASE Truncate
  BY <1>a, <1>8 DEF Truncate, Cell
<1>9. CASE Unlink
  BY <1>a, <1>9 DEF Unlink, Return, Cell
<1>10. CASE WriteBack
  BY <1>a, <1>10 DEF WriteBack, Cell
<1>11. CASE Crash
  BY <1>a, <1>11 DEF Crash, Cell
<1>12. CASE PowerLoss
  BY <1>a, <1>12 DEF PowerLoss, Cell
<1>13. CASE UNCHANGED vars
  BY <1>a, <1>13 DEF vars, Cell
<1>14. QED
  BY <1>1, <1>2, <1>3, <1>4, <1>5, <1>6, <1>7, <1>8, <1>9, <1>10, <1>11, <1>12, <1>13
     DEF Next, Step, Ended

\* The invariant holds throughout, whatever fails.
LEMMA IInvAlways == Spec => []IInv
<1>1. IInv /\ TypeOK' /\ [Next]_vars => IInv'
  <2> SUFFICES ASSUME IInv, TypeOK', [Next]_vars, ~unsynced' PROVE Ordered'
    BY DEF IInv
  <2>1. ~unsynced
    BY DEF IInv, Next, Step, Ended, Open, Measure, Seek, Alloc, WriteChunk, Flush, Sync,
           Persist, Truncate, Unlink, WriteBack, Crash, PowerLoss, vars
  <2>2. QED
    BY <2>1, OrderedStep DEF IInv
<1>2. QED
  BY <1>1, IInvInit, TypeCorrect, PTL DEF Spec

\* The file gives up neither its cells nor its name before every cell of the
\* medium holds the last pass, unless an fsync failed (shred.c:76-90, 197-223).
THEOREM WipedFirst == Spec => []WipedBeforeGone
<1>1. IInv => WipedBeforeGone
  BY DEF IInv, Ordered, GivenUpLast, WipedBeforeGone
<1>2. QED
  BY <1>1, IInvAlways, PTL

\* Every cell of the medium goes through the passes one by one, until an fsync
\* fails (shred.c:197-210).
THEOREM EveryPassReachesTheMedium == Spec => MediumSeesEveryPass
<1>1. ASSUME IInv, [Next]_vars PROVE [NextPassOnly]_vars
  <2>1. /\ pass \in Nat
        /\ DOMAIN media = Cell
        /\ \A i \in Cell : cache[i] \in Nat /\ media[i] \in Nat
    BY <1>1, ShredAssumption DEF IInv, TypeOK
  <2>2. CASE UNCHANGED media
    BY <2>1, <2>2 DEF NextPassOnly
  <2>3. CASE Sync
    <3>1. ASSUME ~unsynced PROVE OnePassApart /\ PassProgress
      BY <1>1, <3>1 DEF IInv, Ordered
    <3>2. pc = "sync" /\ (media' = cache \/ media' = media)
      BY <2>3 DEF Sync, Persist
    <3>3. ASSUME ~unsynced, NEW i \in Cell PROVE media'[i] \in {media[i], media[i] + 1}
      BY <2>1, <3>1, <3>2, <3>3 DEF OnePassApart, PassProgress
    <3>4. QED
      BY <3>3 DEF NextPassOnly
  <2>4. CASE WriteBack
    BY <1>1, <2>1, <2>4 DEF WriteBack, NextPassOnly, IInv, Ordered, OnePassApart, Cell
  <2>5. UNCHANGED media \/ Sync \/ WriteBack
    BY <1>1
       DEF Next, Step, Ended, Open, Measure, Seek, Alloc, WriteChunk, Flush, Truncate,
           Unlink, Crash, PowerLoss, vars, dataVars
  <2>6. QED
    BY <2>2, <2>3, <2>4, <2>5
<1>2. QED
  BY <1>1, IInvAlways, PTL DEF Spec, MediumSeesEveryPass
-----------------------------------------------------------------------------
(* The way to the end *)

Ahead ==
  [open |-> 8, measure |-> 7, seek |-> 6, alloc |-> 5, write |-> 4, sync |-> 3,
   truncate |-> 2, unlink |-> 1]

\* What the pass under way has still to write.
Unwritten ==
  IF pc \in {"open", "measure", "seek", "alloc"} THEN fileSize
  ELSE IF pc = "write" THEN fileSize - accepted ELSE 0

\* A bound on the steps the function has before it: four of each later pass and one
\* for each of its cells, and those of this one.
StepsLeft ==
  IF Running THEN ((Passes - pass) * (fileSize + 4) + Unwritten) + Ahead[pc] ELSE 0

Descends == [][Step \/ Crash => StepsLeft' < StepsLeft]_vars

\* The parts of the bound.
LEMMA StepsLeftParts ==
  ASSUME TypeOK
  PROVE  /\ (Passes - pass) * (fileSize + 4) \in Nat
         /\ Unwritten \in Nat
         /\ Running => Ahead[pc] \in 1 .. 8
         /\ StepsLeft \in Nat /\ (Running => StepsLeft > 0)
<1>1. (Passes - pass) * (fileSize + 4) \in Nat
  <2>1. Passes - pass \in Nat /\ fileSize + 4 \in Nat
    BY ShredAssumption DEF TypeOK
  <2>2. \A m, n \in Nat : m * n \in Nat
    OBVIOUS
  <2>3. QED
    BY <2>1, <2>2
<1>2. Unwritten \in Nat
  BY DEF TypeOK, Unwritten
<1>3. Running => Ahead[pc] \in 1 .. 8
  BY DEF TypeOK, Places, Running, Ahead
<1>4. QED
  BY <1>1, <1>2, <1>3 DEF StepsLeft

\* A return or a crash leaves nothing to do.
LEMMA EndDescends == ASSUME TypeOK, Running, ~Running' PROVE StepsLeft' < StepsLeft
BY StepsLeftParts DEF StepsLeft

\* The steps of one pass, and those around them, which change neither the pass nor
\* the length of the file.
LEMMA PlaceDescends ==
  ASSUME TypeOK, UNCHANGED <<pass, fileSize>>, Running, Running',
         Unwritten \in Nat, Unwritten' \in Nat, Ahead[pc] \in Nat, Ahead[pc'] \in Nat,
         Unwritten' + Ahead[pc'] < Unwritten + Ahead[pc]
  PROVE  StepsLeft' < StepsLeft
<1>1. PICK rest \in Nat : rest = (Passes - pass) * (fileSize + 4)
  BY StepsLeftParts
<1>2. StepsLeft = (rest + Unwritten) + Ahead[pc] /\ StepsLeft' = (rest + Unwritten') + Ahead[pc']
  BY <1>1 DEF StepsLeft
<1>3. QED
  BY <1>2

LEMMA SyncDescends == ASSUME TypeOK, Sync PROVE StepsLeft' < StepsLeft
<1>1. /\ pc = "sync" /\ fileSize' = fileSize /\ Running
      /\ \/ pass < Passes /\ pass' = pass + 1 /\ pc' = "seek"
         \/ pass' = pass /\ pc' = "truncate"
  BY DEF Sync, NextPass, Running
<1>2. CASE pass < Passes /\ pass' = pass + 1 /\ pc' = "seek"
  <2>1. PICK later \in Nat : later = Passes - (pass + 1)
    BY <1>2, ShredAssumption DEF TypeOK
  <2>2. PICK w \in Nat : w = fileSize + 4
    BY DEF TypeOK
  <2>3. (later + 1) * w = later * w + w /\ later * w \in Nat
    OBVIOUS
  <2>4. Passes - pass = later + 1 /\ Passes - pass' = later
    BY <1>2, <2>1, ShredAssumption DEF TypeOK
  <2>5. StepsLeft = ((later + 1) * w + 0) + 3
    BY <1>1, <2>2, <2>4 DEF StepsLeft, Unwritten, Ahead, Running
  <2>6. StepsLeft' = (later * w + fileSize) + 6
    BY <1>1, <1>2, <2>2, <2>4 DEF StepsLeft, Unwritten, Ahead, Running
  <2>7. QED
    BY <2>2, <2>3, <2>5, <2>6 DEF TypeOK
<1>3. CASE pass' = pass /\ pc' = "truncate"
  BY <1>1, <1>3, PlaceDescends DEF Unwritten, Ahead, Running
<1>4. QED
  BY <1>1, <1>2, <1>3

\* Every step of the function and every crash leaves fewer steps to do.
LEMMA StepDescends == ASSUME TypeOK, Step \/ Crash PROVE StepsLeft' < StepsLeft
<1> USE DEF exitVars, passVars, dataVars, nameVars, Return, Continue
<1>1. CASE Open
  BY <1>1, EndDescends, PlaceDescends DEF Open, Running, Unwritten, Ahead, TypeOK
<1>2. CASE Measure
  BY <1>2, EndDescends, PlaceDescends DEF Measure, Running, Unwritten, Ahead, TypeOK
<1>3. CASE Seek
  BY <1>3, EndDescends, PlaceDescends DEF Seek, Running, Unwritten, Ahead, TypeOK
<1>4. CASE Alloc
  BY <1>4, EndDescends, PlaceDescends DEF Alloc, Running, Unwritten, Ahead, TypeOK
<1>5. CASE WriteChunk
  BY <1>5, EndDescends, PlaceDescends, ShredAssumption
     DEF WriteChunk, FailFlushing, Running, Unwritten, Ahead, TypeOK
<1>6. CASE Flush
  BY <1>6, EndDescends, PlaceDescends DEF Flush, FailFlushing, Running, Unwritten, Ahead, TypeOK
<1>7. CASE Sync
  BY <1>7, SyncDescends
<1>8. CASE Truncate
  BY <1>8, PlaceDescends DEF Truncate, Running, Unwritten, Ahead
<1>9. CASE Unlink \/ Crash
  BY <1>9, EndDescends DEF Unlink, Crash, Running
<1>10. QED
  BY <1>1, <1>2, <1>3, <1>4, <1>5, <1>6, <1>7, <1>8, <1>9 DEF Step

\* The deletion cannot go on for ever: each of its steps, each turn of a loop
\* included, lowers a number that starts at the length of all passes together and
\* never goes below zero (shred.c:62-74, 117-133, 197-202).
THEOREM DeletionDescends == Spec => [](StepsLeft \in Nat) /\ Descends
<1>1. TypeOK => StepsLeft \in Nat
  BY StepsLeftParts
<1>2. TypeOK /\ [Next]_vars => [Step \/ Crash => StepsLeft' < StepsLeft]_vars
  BY StepDescends
<1>3. QED
  BY <1>1, <1>2, TypeCorrect, PTL DEF Spec, Descends
=============================================================================
