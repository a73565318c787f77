------------------------------ MODULE RoundTrip ------------------------------
(***************************************************************************)
(* A file encoded by one process and decoded by later ones: EncryptFile    *)
(* composed with DecryptFile over the file the first leaves on disk,       *)
(* whether it returned, failed or died half-way.  A decoding may be run    *)
(* again, after a failure or a crash, with any key.  The implementation    *)
(* of SealedBox.  A decoding may be calm: no call of it fails.             *)
(***************************************************************************)
EXTENDS Container

CONSTANTS
  Texts, Passwords, Randoms, NoFile,
  EncryptFaults, DecryptFaults,
  MaxAttempts   \* bound: decodings that are run

VARIABLES
  \* the encoding process, see EncryptFile
  ePc, eResult, eHeld, src, ePassword, fileSize, eSalt, eIv, totalRead, chunk, processed,
  pending, ePrev, enc, eOut, eDisk, eUnnoticed,
  \* the decoding process, see DecryptFile
  dPc, dResult, dHeld, dFile, dPassword, pos, sizeBytes, dSalt, dIv, storedMac, hmacData,
  remaining, dPrev, dOut, dDisk, dUnnoticed,
  attempts,     \* decodings started
  calm          \* no call of the decoding under way fails

Encoding == INSTANCE EncryptFile
  WITH pc <- ePc, result <- eResult, held <- eHeld, password <- ePassword,
       salt <- eSalt, iv <- eIv, prev <- ePrev, out <- eOut, disk <- eDisk,
       unnoticed <- eUnnoticed,
       Faults <- EncryptFaults, MaxGrowth <- 0

Decoding == INSTANCE DecryptFile
  WITH pc <- dPc, result <- dResult, held <- dHeld, file <- dFile, password <- dPassword,
       salt <- dSalt, iv <- dIv, prev <- dPrev, out <- dOut, disk <- dDisk,
       unnoticed <- dUnnoticed, Faults <- DecryptFaults, Files <- {}

CalmDecoding == INSTANCE DecryptFile
  WITH pc <- dPc, result <- dResult, held <- dHeld, file <- dFile, password <- dPassword,
       salt <- dSalt, iv <- dIv, prev <- dPrev, out <- dOut, disk <- dDisk,
       unnoticed <- dUnnoticed, Faults <- {}, Files <- {}

encodingVars ==
  <<ePc, eResult, eHeld, src, ePassword, fileSize, eSalt, eIv, totalRead, chunk, processed,
    pending, ePrev, enc, eOut, eDisk, eUnnoticed>>
decodingVars ==
  <<dPc, dResult, dHeld, dFile, dPassword, pos, sizeBytes, dSalt, dIv, storedMac, hmacData,
    remaining, dPrev, dOut, dDisk, dUnnoticed>>
vars == <<encodingVars, decodingVars, attempts, calm>>

ASSUME FaultsAssumption ==
  /\ EncryptFaults \subseteq Encoding!AllFaults
  /\ DecryptFaults \subseteq Decoding!AllFaults

\* A length is read back from the size field it is written in.
ASSUME TextsAssumption ==
  \A text \in Texts : text \in Seq(Byte) /\ SizeOf(SizeCells(Len(text))) = Len(text)

ASSUME ChunkAssumption == StreamChunk % BlockSize = 0

Idle == attempts = 0

Init ==
  /\ Encoding!Init
  /\ dFile = NoFile
  /\ dPassword \in Passwords
  /\ Decoding!Ready
  /\ attempts = 0
  /\ calm = FALSE

Encode ==
  /\ Encoding!Step \/ Encoding!Crash
  /\ UNCHANGED <<decodingVars, attempts, calm>>

\* A decoding of what the encoding left, with whatever key its caller has.  dDisk
\* is what this decoding has put in its output file: an earlier one's is cut off
\* when the file is opened.
StartDecode ==
  /\ ~Encoding!Running
  /\ eDisk # NoFile
  /\ Idle \/ ~Decoding!Running
  /\ attempts < MaxAttempts
  /\ attempts' = attempts + 1
  /\ dFile' = eDisk
  /\ dPassword' \in Passwords
  /\ dPc' = "open_input" /\ dResult' = "none" /\ dHeld' = {}
  /\ pos' = 0 /\ remaining' = 0
  /\ sizeBytes' = <<>> /\ dSalt' = <<>> /\ dIv' = <<>> /\ storedMac' = <<>>
  /\ hmacData' = <<>> /\ dOut' = <<>>
  /\ dPrev' = ChainStart(DerivedKey(dPassword', <<>>, "ENC"), <<>>)
  /\ dDisk' = NoFile
  /\ dUnnoticed' = FALSE
  /\ calm' \in BOOLEAN
  /\ UNCHANGED encodingVars

Decode ==
  /\ ~Idle
  /\ \/ calm /\ CalmDecoding!Step
     \/ ~calm /\ (Decoding!Step \/ Decoding!Crash)
  /\ UNCHANGED <<encodingVars, attempts, calm>>

AllOver ==
  /\ ~Encoding!Running
  /\ eDisk = NoFile \/ (attempts = MaxAttempts /\ ~Decoding!Running)

Ended == AllOver /\ UNCHANGED vars

Next == Encode \/ StartDecode \/ Decode \/ Ended

Fairness ==
  /\ WF_vars(Encode)
  /\ WF_vars(StartDecode)
  /\ WF_vars(Decode)

Spec == Init /\ [][Next]_vars /\ Fairness

-----------------------------------------------------------------------------
(* Refinement of SealedBox *)

Box ==
  IF Encoding!Running THEN "open"
  ELSE IF eDisk # NoFile /\ Verifies(eDisk, ePassword) THEN "sealed" ELSE "useless"

Promise == INSTANCE SealedBox
  WITH text <- src, password <- ePassword, box <- Box, attempt <- dPassword,
       delivered <- dDisk, answer <- dResult, Nothing <- NoFile

\* The two functions and the file between them implement SealedBox, whatever
\* call fails and wherever either process dies (cipher.c:30-468).
ImplementsSealedBox == Promise!Spec

\* Once an encoding has returned 0 with nothing unnoticed, a decoding with its key
\* whose calls do not fail gets the text back whole, also after decodings that
\* failed or died (cipher.h:28, 43).
RightKeyDelivers ==
  (eResult = "0" /\ ~eUnnoticed /\ ~Idle /\ calm /\ dPassword = ePassword)
    ~> (dResult = "0" /\ dDisk = src)

\* Once an encoding has returned 0 with nothing unnoticed, a decoding with its key
\* whose calls do not fail can only end with 0, and then it has put the text back
\* whole, however the decodings before it ended (cipher.h:28, 43).
RightKeyOpens ==
  (/\ eResult = "0" /\ ~eUnnoticed
   /\ ~Idle /\ ~Decoding!Running
   /\ calm /\ dPassword = ePassword)
    => (dResult = "0" /\ dDisk = src)
=============================================================================
