------------------------------ MODULE ShredFile ------------------------------
(***************************************************************************)
(* shred_file: six pattern passes and a random one over the file, each     *)
(* written through the stream, flushed to the system and synced to the     *)
(* medium, then the truncation and the unlink.                             *)
(*                                                                         *)
(* A cell of the file holds the number of the last pass that reached it,   *)
(* 0 for the original content.  What fwrite accepted, what the system      *)
(* caches and what the medium holds are three different things; the system *)
(* may write a cached cell back at any time and must do so only for fsync. *)
(* Cells are overwritten in place: a file system that copies on write and  *)
(* a drive that remaps are outside the model, as they are outside the code.*)
(*                                                                         *)
(* Faults names what may go wrong in a run:                                *)
(*   "open", "seek", "malloc", "write", "unlink"  a call the code checks   *)
(*   "fsync"     fsync fails; the code does not look                       *)
(*   "truncate"  the fopen that truncates fails; the code goes on          *)
(*   "crash"     the process dies (Ctrl+C, abort() on a failed RNG)        *)
(*   "power"     the machine loses what it caches                          *)
(***************************************************************************)
EXTENDS Integers

CONSTANTS
  Sizes,       \* possible lengths of the file, in cells
  ShredChunk,  \* SHRED_CHUNK
  Passes,      \* SHRED_PASSES (7): the last one writes random bytes
  Faults       \* see above

AllFaults == {"open", "seek", "malloc", "write", "unlink", "fsync", "truncate", "crash",
              "power"}

ASSUME FaultsAssumption == Faults \subseteq AllFaults

ASSUME ShredAssumption ==
  /\ Sizes \subseteq Nat
  /\ ShredChunk \in Nat \ {0}
  /\ Passes \in Nat \ {0}

VARIABLES
  pc,         \* the next call of the function, "done" or "crashed"
  result,     \* its return value
  held,       \* the stream and the buffer, while held
  fileSize,   \* file_size, the length of the file
  pass,       \* the pass under way
  accepted,   \* file_size - remaining: cells fwrite took in this pass
  flushed,    \* cells of this pass the stream has given to the system
  cache,      \* content of the file as the system sees it
  media,      \* content of the file's cells on the medium
  allocated,  \* the cells still belong to the file
  linked,     \* the name still exists
  unsynced    \* history: an fsync has failed, unnoticed

exitVars == <<result, held>>
passVars == <<accepted, flushed>>
dataVars == <<cache, media>>
nameVars == <<allocated, linked>>
vars == <<pc, exitVars, fileSize, pass, unsynced, passVars, dataVars, nameVars>>

Cell == 1 .. fileSize

Init ==
  /\ pc = "open"
  /\ result = "none"
  /\ held = {}
  /\ fileSize \in Sizes
  /\ pass = 1
  /\ accepted = 0
  /\ flushed = 0
  /\ cache = [i \in Cell |-> 0]
  /\ media = [i \in Cell |-> 0]
  /\ allocated = TRUE
  /\ linked = TRUE
  /\ unsynced = FALSE

-----------------------------------------------------------------------------
Return(value) ==
  /\ pc' = "done"
  /\ result' = value
  /\ held' = {}

Continue(next) == pc' = next /\ UNCHANGED exitVars

\* The stream hands the cells it took to the system in order, up to n.
FlushUpTo(n) ==
  /\ flushed' = n
  /\ cache' = [i \in Cell |-> IF i <= n THEN pass ELSE cache[i]]

\* An error exit: the fclose on the way out may hand over some more cells.
FailFlushing(most) ==
  /\ Return("-1")
  /\ \E n \in flushed .. most : FlushUpTo(n)

Open ==
  /\ pc = "open"
  /\ \/ /\ pc' = "measure"
        /\ held' = {"file"}
        /\ UNCHANGED result
     \/ /\ "open" \in Faults
        /\ Return("-1")
  /\ UNCHANGED <<fileSize, pass, unsynced, passVars, dataVars, nameVars>>

\* An empty file is closed and unlinked at once.
Measure ==
  /\ pc = "measure"
  /\ \/ /\ fileSize > 0
        /\ Continue("seek")
     \/ /\ fileSize = 0
        /\ pc' = "unlink"
        /\ held' = {}
        /\ UNCHANGED result
     \/ /\ "seek" \in Faults
        /\ Return("-1")
  /\ UNCHANGED <<fileSize, pass, unsynced, passVars, dataVars, nameVars>>

Seek ==
  /\ pc = "seek"
  /\ \/ /\ Continue("alloc")
        /\ accepted' = 0
        /\ flushed' = 0
     \/ /\ "seek" \in Faults
        /\ Return("-1")
        /\ UNCHANGED passVars
  /\ UNCHANGED <<fileSize, pass, unsynced, dataVars, nameVars>>

Alloc ==
  /\ pc = "alloc"
  /\ \/ /\ pc' = "write"
        /\ held' = held \cup {"buffer"}
        /\ UNCHANGED result
     \/ /\ "malloc" \in Faults
        /\ Return("-1")
  /\ UNCHANGED <<fileSize, pass, unsynced, passVars, dataVars, nameVars>>

\* One fwrite of the pattern, or of fresh random bytes in the last pass.
WriteChunk ==
  /\ pc = "write"
  /\ accepted < fileSize
  /\ LET remaining == fileSize - accepted
         chunk     == IF remaining < ShredChunk THEN remaining ELSE ShredChunk
     IN  \/ /\ accepted' = accepted + chunk
            /\ \E n \in flushed .. accepted + chunk : FlushUpTo(n)
            /\ Continue("write")
         \/ /\ "write" \in Faults
            /\ FailFlushing(accepted + chunk - 1)
            /\ UNCHANGED accepted
  /\ UNCHANGED <<fileSize, pass, unsynced, media, nameVars>>

Flush ==
  /\ pc = "write"
  /\ accepted = fileSize
  /\ \/ /\ FlushUpTo(accepted)
        /\ Continue("sync")
     \/ /\ "write" \in Faults
        /\ FailFlushing(accepted)
  /\ UNCHANGED <<fileSize, pass, unsynced, accepted, media, nameVars>>

\* Mutant of Persist: no fsync at all.
PersistNothing == UNCHANGED <<media, unsynced>>

\* fsync, whose result nobody looks at.
Persist ==
  \/ /\ media' = cache
     /\ UNCHANGED unsynced
  \/ /\ "fsync" \in Faults
     /\ unsynced' = TRUE
     /\ UNCHANGED media

\* Mutants of NextPass: one pass too many, and a pass repeated for ever.
NextPassTooMany == pass' = pass + 1 /\ pc' = IF pass <= Passes THEN "seek" ELSE "truncate"
NextPassStuck   == pass' = pass /\ pc' = "seek"

\* The loop over the patterns, then the random pass, then the truncation.
NextPass ==
  IF pass < Passes
  THEN /\ pass' = pass + 1
       /\ pc' = "seek"
  ELSE /\ pc' = "truncate"
       /\ UNCHANGED pass

\* A pass ends and frees its buffer.
Sync ==
  /\ pc = "sync"
  /\ Persist
  /\ NextPass
  /\ held' = held \ {"buffer"}
  /\ UNCHANGED <<result, fileSize, passVars, cache, nameVars>>

\* The stream is closed and the name opened again with "wb".
Truncate ==
  /\ pc = "truncate"
  /\ pc' = "unlink"
  /\ held' = {}
  /\ \/ allocated' = FALSE
     \/ /\ "truncate" \in Faults
        /\ UNCHANGED allocated
  /\ UNCHANGED <<result, fileSize, pass, unsynced, passVars, dataVars, linked>>

Unlink ==
  /\ pc = "unlink"
  /\ \/ /\ Return("0")
        /\ linked' = FALSE
        /\ allocated' = FALSE
     \/ /\ "unlink" \in Faults
        /\ Return("-1")
        /\ UNCHANGED nameVars
  /\ UNCHANGED <<fileSize, pass, unsynced, passVars, dataVars>>

-----------------------------------------------------------------------------
(* The environment *)

Running == pc \notin {"done", "crashed"}

\* The system writes a cached cell back when it likes.
WriteBack ==
  /\ allocated
  /\ \E i \in Cell :
       /\ media[i] # cache[i]
       /\ media' = [media EXCEPT ![i] = cache[i]]
  /\ UNCHANGED <<pc, exitVars, fileSize, pass, unsynced, passVars, cache, nameVars>>

Crash ==
  /\ "crash" \in Faults
  /\ Running
  /\ pc' = "crashed"
  /\ held' = {}
  /\ UNCHANGED <<result, fileSize, pass, unsynced, passVars, dataVars, nameVars>>

PowerLoss ==
  /\ "power" \in Faults
  /\ pc # "crashed"
  /\ pc' = "crashed"
  /\ held' = {}
  /\ cache' = media
  /\ UNCHANGED <<result, fileSize, pass, unsynced, passVars, media, nameVars>>

Step ==
  \/ Open \/ Measure \/ Seek \/ Alloc \/ WriteChunk \/ Flush \/ Sync \/ Truncate \/ Unlink

Ended == ~Running /\ UNCHANGED vars

Next == Step \/ WriteBack \/ Crash \/ PowerLoss \/ Ended

Fairness == WF_vars(Step)

Spec == Init /\ [][Next]_vars /\ Fairness

-----------------------------------------------------------------------------
(* Properties *)

Places ==
  {"open", "measure", "seek", "alloc", "write", "sync", "truncate", "unlink", "done",
   "crashed"}

\* The variables stay in their types.
TypeOK ==
  /\ pc \in Places
  /\ result \in {"none", "0", "-1"}
  /\ held \subseteq {"file", "buffer"}
  /\ fileSize \in Nat
  /\ pass \in 1 .. Passes
  /\ accepted \in 0 .. fileSize
  /\ flushed \in 0 .. fileSize
  /\ cache \in [Cell -> 0 .. Passes]
  /\ media \in [Cell -> 0 .. Passes]
  /\ allocated \in BOOLEAN
  /\ linked \in BOOLEAN
  /\ unsynced \in BOOLEAN

\* Once the file gives up its cells or its name, every one of its cells on the
\* medium holds the random bytes of the last pass, whatever failed, died or lost
\* power on the way, fsync apart (shred.c:76-90, 197-223).
WipedBeforeGone ==
  ((~allocated \/ ~linked) /\ ~unsynced) => \A i \in Cell : media[i] = Passes

\* Every pattern reaches every cell of the medium: a cell never skips a pass and
\* never goes back, fsync apart (shred.c:43, 76, 85, 197-202).
NextPassOnly ==
  unsynced \/ \A i \in Cell : media'[i] \in {media[i], media[i] + 1}
MediumSeesEveryPass == [][NextPassOnly]_vars

\* Returning 0 means the medium has been overwritten (shred.c:43, shred.h:25).
ZeroIsWiped == result = "0" => \A i \in Cell : media[i] = Passes

\* The function returns: every pass consumes the file (shred.c:62-74, 117-133).
EventuallyEnds == <>(~Running)
=============================================================================
