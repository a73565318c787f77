--------------------------- MODULE RoundTrip_proofs ---------------------------
(***************************************************************************)
(* The encoding and the decodings of its file implement SealedBox, for     *)
(* every block and chunk size, text, key and number of attempts.  The      *)
(* invariants of the two functions are those of EncryptFile_proofs and     *)
(* DecryptFile_proofs, instantiated as RoundTrip instantiates the          *)
(* functions.                                                              *)
(***************************************************************************)
EXTENDS RoundTrip, TLAPS

EncP == INSTANCE EncryptFile_proofs
  WITH pc <- ePc, result <- eResult, held <- eHeld, password <- ePassword,
       salt <- eSalt, iv <- eIv, prev <- ePrev, out <- eOut, disk <- eDisk,
       unnoticed <- eUnnoticed,
       Faults <- EncryptFaults, MaxGrowth <- 0

DecP == INSTANCE DecryptFile_proofs
  WITH pc <- dPc, result <- dResult, held <- dHeld, file <- dFile, password <- dPassword,
       salt <- dSalt, iv <- dIv, prev <- dPrev, out <- dOut, disk <- dDisk,
       unnoticed <- dUnnoticed, Faults <- DecryptFaults, Files <- {}

CalmP == INSTANCE DecryptFile_proofs
  WITH pc <- dPc, result <- dResult, held <- dHeld, file <- dFile, password <- dPassword,
       salt <- dSalt, iv <- dIv, prev <- dPrev, out <- dOut, disk <- dDisk,
       unnoticed <- dUnnoticed, Faults <- {}, Files <- {}

-----------------------------------------------------------------------------
(* The steps of the two functions are those the lemmas are about: one text, two
   instances of it. *)

LEMMA EncodingStepIs == ASSUME Encoding!Step \/ Encoding!Crash PROVE EncP!Step \/ EncP!Crash
<1>1. \A p, x : Encoding!CbcEncryptBlock(p, x) = EncP!CbcEncryptBlock(p, x)
  BY DEF Encoding!CbcEncryptBlock, EncP!CbcEncryptBlock
<1>2. Encoding!AuthenticatedCells = EncP!AuthenticatedCells
  BY DEF Encoding!AuthenticatedCells, Encoding!SizeCells, Encoding!CiphertextCells,
         EncP!AuthenticatedCells, EncP!SizeCells, EncP!CiphertextCells
<1>3. \A x : Encoding!Prefixes(x) = EncP!Prefixes(x)
  BY DEF Encoding!Prefixes, EncP!Prefixes
<1>a. ASSUME Encoding!OpenInput PROVE EncP!OpenInput
  BY <1>a
     DEF Encoding!OpenInput, Encoding!FailEarly, Encoding!inputVars, Encoding!headerVars,
         Encoding!streamVars, Encoding!chainVars, Encoding!Return,
         EncP!OpenInput, EncP!FailEarly, EncP!inputVars, EncP!headerVars, EncP!streamVars,
         EncP!chainVars, EncP!Return
<1>4. ASSUME Encoding!MeasureInput PROVE EncP!MeasureInput
  BY <1>4
     DEF Encoding!MeasureInput, Encoding!FailEarly, Encoding!headerVars, Encoding!streamVars,
         Encoding!chainVars, Encoding!exitVars, Encoding!Return,
         EncP!MeasureInput, EncP!FailEarly, EncP!headerVars, EncP!streamVars, EncP!chainVars,
         EncP!exitVars, EncP!Return
<1>5. ASSUME Encoding!OpenOutput PROVE EncP!OpenOutput
  BY <1>5
     DEF Encoding!OpenOutput, Encoding!FailEarly, Encoding!inputVars, Encoding!headerVars,
         Encoding!streamVars, Encoding!chainVars, Encoding!Return,
         EncP!OpenOutput, EncP!FailEarly, EncP!inputVars, EncP!headerVars, EncP!streamVars,
         EncP!chainVars, EncP!Return
<1>6. ASSUME Encoding!WriteSize PROVE EncP!WriteSize
  BY <1>6, <1>3
     DEF Encoding!WriteSize, Encoding!WriteOrFail, Encoding!SizeCells, Encoding!inputVars,
         Encoding!headerVars, Encoding!streamVars, Encoding!chainVars, Encoding!exitVars,
         Encoding!FailAfterWrites, Encoding!Return,
         EncP!WriteSize, EncP!WriteOrFail, EncP!SizeCells, EncP!inputVars, EncP!headerVars,
         EncP!streamVars, EncP!chainVars, EncP!exitVars, EncP!FailAfterWrites, EncP!Return
<1>7. ASSUME Encoding!WriteSalt PROVE EncP!WriteSalt
  BY <1>7, <1>3
     DEF Encoding!WriteSalt, Encoding!Cells, Encoding!WriteOrFail, Encoding!inputVars,
         Encoding!streamVars, Encoding!chainVars, Encoding!exitVars,
         Encoding!FailAfterWrites, Encoding!Return,
         EncP!WriteSalt, EncP!Cells, EncP!WriteOrFail, EncP!inputVars, EncP!streamVars,
         EncP!chainVars, EncP!exitVars, EncP!FailAfterWrites, EncP!Return
<1>8. ASSUME Encoding!InitCtx PROVE EncP!InitCtx
  BY <1>8
     DEF Encoding!InitCtx, Encoding!inputVars, Encoding!headerVars, Encoding!streamVars,
         Encoding!chainVars,
         EncP!InitCtx, EncP!inputVars, EncP!headerVars, EncP!streamVars, EncP!chainVars
<1>9. ASSUME Encoding!WriteIv PROVE EncP!WriteIv
  BY <1>9, <1>3
     DEF Encoding!WriteIv, Encoding!Cells, Encoding!WriteOrFail, Encoding!inputVars,
         Encoding!streamVars, Encoding!chainVars, Encoding!exitVars,
         Encoding!FailAfterWrites, Encoding!Return,
         EncP!WriteIv, EncP!Cells, EncP!WriteOrFail, EncP!inputVars, EncP!streamVars,
         EncP!chainVars, EncP!exitVars, EncP!FailAfterWrites, EncP!Return
<1>10. ASSUME Encoding!AllocEncrypted PROVE EncP!AllocEncrypted
  BY <1>10, <1>3
     DEF Encoding!AllocEncrypted, Encoding!ChainStart, Encoding!EncKey,
         Encoding!FailAfterWrites, Encoding!inputVars, Encoding!headerVars,
         Encoding!streamVars, Encoding!DerivedKey, Encoding!Return,
         EncP!AllocEncrypted, EncP!ChainStart, EncP!EncKey, EncP!FailAfterWrites,
         EncP!inputVars, EncP!headerVars, EncP!streamVars, EncP!DerivedKey, EncP!Return
<1>11. ASSUME Encoding!AllocBuffer PROVE EncP!AllocBuffer
  BY <1>11, <1>3
     DEF Encoding!AllocBuffer, Encoding!FailAfterWrites, Encoding!inputVars,
         Encoding!headerVars, Encoding!streamVars, Encoding!chainVars, Encoding!Return,
         EncP!AllocBuffer, EncP!FailAfterWrites, EncP!inputVars, EncP!headerVars,
         EncP!streamVars, EncP!chainVars, EncP!Return
<1>12. ASSUME Encoding!ReadChunk PROVE EncP!ReadChunk
  BY <1>12
     DEF Encoding!ReadChunk, Encoding!Smaller, Encoding!inputVars, Encoding!headerVars,
         Encoding!chainVars, Encoding!exitVars,
         EncP!ReadChunk, EncP!Smaller, EncP!inputVars, EncP!headerVars, EncP!chainVars,
         EncP!exitVars
<1>13. ASSUME Encoding!TopUpPending PROVE EncP!TopUpPending
  BY <1>13, <1>1, <1>3
     DEF Encoding!TopUpPending, Encoding!Smaller, Encoding!chainVars, Encoding!exitVars,
         Encoding!EmitBlock, Encoding!inputVars, Encoding!headerVars, Encoding!WriteOrFail,
         Encoding!BlockCells, Encoding!Resources, Encoding!FailAfterWrites, Encoding!Cells,
         Encoding!Return,
         EncP!TopUpPending, EncP!Smaller, EncP!chainVars, EncP!exitVars, EncP!EmitBlock,
         EncP!inputVars, EncP!headerVars, EncP!WriteOrFail, EncP!BlockCells, EncP!Resources,
         EncP!FailAfterWrites, EncP!Cells, EncP!Return
<1>14. ASSUME Encoding!EncryptBlock PROVE EncP!EncryptBlock
  BY <1>14, <1>1, <1>3
     DEF Encoding!EncryptBlock, Encoding!EmitBlock, Encoding!inputVars, Encoding!headerVars,
         Encoding!WriteOrFail, Encoding!BlockCells, Encoding!Resources, Encoding!exitVars,
         Encoding!FailAfterWrites, Encoding!Cells, Encoding!Return,
         EncP!EncryptBlock, EncP!EmitBlock, EncP!inputVars, EncP!headerVars,
         EncP!WriteOrFail, EncP!BlockCells, EncP!Resources, EncP!exitVars,
         EncP!FailAfterWrites, EncP!Cells, EncP!Return
<1>15. ASSUME Encoding!SaveLeftover PROVE EncP!SaveLeftover
  BY <1>15
     DEF Encoding!SaveLeftover, Encoding!inputVars, Encoding!headerVars, Encoding!chainVars,
         Encoding!exitVars,
         EncP!SaveLeftover, EncP!inputVars, EncP!headerVars, EncP!chainVars, EncP!exitVars
<1>16. ASSUME Encoding!FinalBlock PROVE EncP!FinalBlock
  BY <1>16, <1>1, <1>3
     DEF Encoding!FinalBlock, Encoding!EmitBlock, Encoding!AddPadding, Encoding!inputVars,
         Encoding!headerVars, Encoding!streamVars, Encoding!WriteOrFail,
         Encoding!BlockCells, Encoding!Resources, Encoding!Padding, Encoding!exitVars,
         Encoding!FailAfterWrites, Encoding!Cells, Encoding!Return,
         EncP!FinalBlock, EncP!EmitBlock, EncP!AddPadding, EncP!inputVars, EncP!headerVars,
         EncP!streamVars, EncP!WriteOrFail, EncP!BlockCells, EncP!Resources, EncP!Padding,
         EncP!exitVars, EncP!FailAfterWrites, EncP!Cells, EncP!Return
<1>b. ASSUME Encoding!AllocMac PROVE EncP!AllocMac
  BY <1>b
     DEF Encoding!AllocMac, Encoding!inputVars, Encoding!headerVars, Encoding!streamVars,
         Encoding!chainVars, Encoding!exitVars,
         EncP!AllocMac, EncP!inputVars, EncP!headerVars, EncP!streamVars, EncP!chainVars,
         EncP!exitVars
<1>17. ASSUME Encoding!WriteMac PROVE EncP!WriteMac
  BY <1>17, <1>2
     DEF Encoding!WriteMac, Encoding!MacCells, Encoding!MacKey, Encoding!inputVars,
         Encoding!headerVars, Encoding!streamVars, Encoding!chainVars, Encoding!exitVars,
         Encoding!Cells, Encoding!DerivedKey,
         EncP!WriteMac, EncP!MacCells, EncP!MacKey, EncP!inputVars, EncP!headerVars,
         EncP!streamVars, EncP!chainVars, EncP!exitVars, EncP!Cells, EncP!DerivedKey
<1>18. ASSUME Encoding!CloseAndReturn PROVE EncP!CloseAndReturn
  BY <1>18, <1>3
     DEF Encoding!CloseAndReturn, Encoding!Return, Encoding!Resources, Encoding!inputVars,
         Encoding!headerVars, Encoding!streamVars, Encoding!chainVars,
         EncP!CloseAndReturn, EncP!Return, EncP!Resources, EncP!inputVars, EncP!headerVars,
         EncP!streamVars, EncP!chainVars
<1>19. ASSUME Encoding!Crash PROVE EncP!Crash
  BY <1>19, <1>3
     DEF Encoding!Crash, Encoding!Running, Encoding!inputVars, Encoding!headerVars,
         Encoding!streamVars, Encoding!chainVars,
         EncP!Crash, EncP!Running, EncP!inputVars, EncP!headerVars, EncP!streamVars,
         EncP!chainVars
<1>20. QED
  BY <1>4, <1>5, <1>6, <1>7, <1>8, <1>9, <1>10, <1>11, <1>12, <1>13, <1>14, <1>15, <1>16,
     <1>17, <1>18, <1>19, <1>a, <1>b DEF Encoding!Step, EncP!Step

LEMMA DecodingStepIs == ASSUME Decoding!Step \/ Decoding!Crash PROVE DecP!Step \/ DecP!Crash
<1>1. \A x : Decoding!Prefixes(x) = DecP!Prefixes(x)
  BY DEF Decoding!Prefixes, DecP!Prefixes
<1>2. \A n, e : Decoding!Fread(n, e) = DecP!Fread(n, e)
  BY DEF Decoding!Fread, Decoding!Smaller, DecP!Fread, DecP!Smaller
<1>3. \A x, i : Decoding!ChainAfter(x, i) = DecP!ChainAfter(x, i)
  BY DEF Decoding!ChainAfter, Decoding!BlockAt, Decoding!IsBlock, Decoding!ChainStart,
         Decoding!NoKey, Decoding!BlockCells, Decoding!DerivedKey, Decoding!Cells,
         DecP!ChainAfter, DecP!BlockAt, DecP!IsBlock, DecP!ChainStart, DecP!NoKey,
         DecP!BlockCells, DecP!DerivedKey, DecP!Cells
<1>4. \A k, p, x : Decoding!CbcDecryptBlock(k, p, x) = DecP!CbcDecryptBlock(k, p, x)
  BY DEF Decoding!CbcDecryptBlock, Decoding!CbcEncryptBlock, Decoding!Junk,
         DecP!CbcDecryptBlock, DecP!CbcEncryptBlock, DecP!Junk
<1>5. \A x, i : Decoding!PlainAt(x, i) = DecP!PlainAt(x, i)
  BY <1>3, <1>4
     DEF Decoding!PlainAt, Decoding!EncKey, Decoding!DerivedKey,
         DecP!PlainAt, DecP!EncKey, DecP!DerivedKey
<1>6. \A x : Decoding!PlainOf(x) = DecP!PlainOf(x)
  BY <1>5 DEF Decoding!PlainOf, DecP!PlainOf
<1>7. Decoding!HashedData = DecP!HashedData
  BY DEF Decoding!HashedData, Decoding!Cells, Decoding!HeaderWidth, Decoding!EncryptedSize,
         DecP!HashedData, DecP!Cells, DecP!HeaderWidth, DecP!EncryptedSize
<1>8. Decoding!Junk = DecP!Junk
  BY DEF Decoding!Junk, DecP!Junk
<1>9. \A x : Decoding!PaddingIsValid(x) <=> DecP!PaddingIsValid(x)
  BY DEF Decoding!PaddingIsValid, DecP!PaddingIsValid
<1>10. \A x : Decoding!RemovePadding(x) = DecP!RemovePadding(x)
  BY DEF Decoding!RemovePadding, DecP!RemovePadding
<1>11. \A n : Decoding!Clamp(n) = DecP!Clamp(n)
  BY DEF Decoding!Clamp, Decoding!OriginalSize, Decoding!Smaller, Decoding!SizeOf,
         DecP!Clamp, DecP!OriginalSize, DecP!Smaller, DecP!SizeOf
<1>12. \A x : Decoding!AllButLast(x) = DecP!AllButLast(x)
  BY DEF Decoding!AllButLast, DecP!AllButLast
<1>13. ASSUME Decoding!OpenInput PROVE DecP!OpenInput
  BY <1>13, <1>1
     DEF Decoding!OpenInput, Decoding!Fail, Decoding!inputVars, Decoding!headerVars,
         Decoding!verifyVars, Decoding!Return,
         DecP!OpenInput, DecP!Fail, DecP!inputVars, DecP!headerVars, DecP!verifyVars,
         DecP!Return
<1>14. ASSUME Decoding!ReadSize PROVE DecP!ReadSize
  BY <1>14, <1>1, <1>2
     DEF Decoding!ReadSize, Decoding!Continue, Decoding!Fail, Decoding!inputVars,
         Decoding!verifyVars, Decoding!exitVars, Decoding!Return,
         DecP!ReadSize, DecP!Continue, DecP!Fail, DecP!inputVars, DecP!verifyVars,
         DecP!exitVars, DecP!Return
<1>15. ASSUME Decoding!ReadSalt PROVE DecP!ReadSalt
  BY <1>15, <1>1, <1>2
     DEF Decoding!ReadSalt, Decoding!Fail, Decoding!inputVars, Decoding!verifyVars,
         Decoding!Return,
         DecP!ReadSalt, DecP!Fail, DecP!inputVars, DecP!verifyVars, DecP!Return
<1>16. ASSUME Decoding!ReadIv PROVE DecP!ReadIv
  BY <1>16, <1>1, <1>2
     DEF Decoding!ReadIv, Decoding!Continue, Decoding!Fail, Decoding!inputVars,
         Decoding!verifyVars, Decoding!exitVars, Decoding!Return,
         DecP!ReadIv, DecP!Continue, DecP!Fail, DecP!inputVars, DecP!verifyVars,
         DecP!exitVars, DecP!Return
<1>17. ASSUME Decoding!Measure PROVE DecP!Measure
  BY <1>17, <1>1
     DEF Decoding!Measure, Decoding!EncryptedSize, Decoding!Continue, Decoding!Fail,
         Decoding!inputVars, Decoding!headerVars, Decoding!verifyVars, Decoding!HeaderWidth,
         Decoding!exitVars, Decoding!Return,
         DecP!Measure, DecP!EncryptedSize, DecP!Continue, DecP!Fail, DecP!inputVars,
         DecP!headerVars, DecP!verifyVars, DecP!HeaderWidth, DecP!exitVars, DecP!Return
<1>18. ASSUME Decoding!ReadMac PROVE DecP!ReadMac
  BY <1>18, <1>1
     DEF Decoding!ReadMac, Decoding!HeaderWidth, Decoding!Continue, Decoding!Fail,
         Decoding!inputVars, Decoding!verifyVars, Decoding!exitVars, Decoding!Return,
         DecP!ReadMac, DecP!HeaderWidth, DecP!Continue, DecP!Fail, DecP!inputVars,
         DecP!verifyVars, DecP!exitVars, DecP!Return
<1>19. ASSUME Decoding!AllocChunk PROVE DecP!AllocChunk
  BY <1>19, <1>1
     DEF Decoding!AllocChunk, Decoding!Fail, Decoding!inputVars, Decoding!headerVars,
         Decoding!verifyVars, Decoding!Return,
         DecP!AllocChunk, DecP!Fail, DecP!inputVars, DecP!headerVars, DecP!verifyVars,
         DecP!Return
<1>20. ASSUME Decoding!AllocHmacData PROVE DecP!AllocHmacData
  BY <1>20, <1>1
     DEF Decoding!AllocHmacData, Decoding!EncryptedSize, Decoding!Fail, Decoding!inputVars,
         Decoding!headerVars, Decoding!HeaderWidth, Decoding!Return,
         DecP!AllocHmacData, DecP!EncryptedSize, DecP!Fail, DecP!inputVars, DecP!headerVars,
         DecP!HeaderWidth, DecP!Return
<1>21. ASSUME Decoding!VerifyRead PROVE DecP!VerifyRead
  BY <1>21, <1>2
     DEF Decoding!VerifyRead, Decoding!Smaller, Decoding!inputVars, Decoding!headerVars,
         Decoding!exitVars,
         DecP!VerifyRead, DecP!Smaller, DecP!inputVars, DecP!headerVars, DecP!exitVars
<1>22. ASSUME Decoding!CheckMac PROVE DecP!CheckMac
  BY <1>22, <1>1, <1>7
     DEF Decoding!CheckMac, Decoding!MacCells, Decoding!MacKey, Decoding!Fail,
         Decoding!inputVars, Decoding!headerVars, Decoding!verifyVars, Decoding!Cells,
         Decoding!DerivedKey, Decoding!Return,
         DecP!CheckMac, DecP!MacCells, DecP!MacKey, DecP!Fail, DecP!inputVars,
         DecP!headerVars, DecP!verifyVars, DecP!Cells, DecP!DerivedKey, DecP!Return
<1>23. ASSUME Decoding!OpenOutput PROVE DecP!OpenOutput
  BY <1>23, <1>1
     DEF Decoding!OpenOutput, Decoding!ChainStart, Decoding!EncKey, Decoding!HeaderWidth,
         Decoding!EncryptedSize, Decoding!Fail, Decoding!inputVars, Decoding!headerVars,
         Decoding!verifyVars, Decoding!DerivedKey, Decoding!Return,
         DecP!OpenOutput, DecP!ChainStart, DecP!EncKey, DecP!HeaderWidth,
         DecP!EncryptedSize, DecP!Fail, DecP!inputVars, DecP!headerVars, DecP!verifyVars,
         DecP!DerivedKey, DecP!Return
<1>24. ASSUME Decoding!DecryptChunk PROVE DecP!DecryptChunk
  BY <1>24, <1>1, <1>2, <1>3, <1>6, <1>12
     DEF Decoding!DecryptChunk, Decoding!Smaller, Decoding!Continue, Decoding!Fail,
         Decoding!inputVars, Decoding!headerVars, Decoding!verifyVars, Decoding!exitVars,
         Decoding!Return,
         DecP!DecryptChunk, DecP!Smaller, DecP!Continue, DecP!Fail, DecP!inputVars,
         DecP!headerVars, DecP!verifyVars, DecP!exitVars, DecP!Return
<1>25. ASSUME Decoding!DecryptEnd PROVE DecP!DecryptEnd
  BY <1>25
     DEF Decoding!DecryptEnd, Decoding!Continue, Decoding!inputVars, Decoding!headerVars,
         Decoding!verifyVars, Decoding!exitVars,
         DecP!DecryptEnd, DecP!Continue, DecP!inputVars, DecP!headerVars, DecP!verifyVars,
         DecP!exitVars
<1>26. ASSUME Decoding!LastBlock PROVE DecP!LastBlock
  BY <1>26, <1>1, <1>2, <1>3, <1>6, <1>8, <1>9, <1>10, <1>11, <1>12
     DEF Decoding!LastBlock, Decoding!NoLastBlock, Decoding!WriteLast, Decoding!Fail,
         Decoding!inputVars, Decoding!headerVars, Decoding!verifyVars, Decoding!Continue,
         Decoding!Return, Decoding!exitVars,
         DecP!LastBlock, DecP!NoLastBlock, DecP!WriteLast, DecP!Fail, DecP!inputVars,
         DecP!headerVars, DecP!verifyVars, DecP!Continue, DecP!Return, DecP!exitVars
<1>27. ASSUME Decoding!CloseAndReturn PROVE DecP!CloseAndReturn
  BY <1>27, <1>1
     DEF Decoding!CloseAndReturn, Decoding!Return, Decoding!inputVars, Decoding!headerVars,
         Decoding!verifyVars,
         DecP!CloseAndReturn, DecP!Return, DecP!inputVars, DecP!headerVars, DecP!verifyVars
<1>28. ASSUME Decoding!Crash PROVE DecP!Crash
  BY <1>28, <1>1
     DEF Decoding!Crash, Decoding!Running, Decoding!inputVars, Decoding!headerVars,
         Decoding!verifyVars,
         DecP!Crash, DecP!Running, DecP!inputVars, DecP!headerVars, DecP!verifyVars
<1>29. QED
  BY <1>13, <1>14, <1>15, <1>16, <1>17, <1>18, <1>19, <1>20, <1>21, <1>22, <1>23, <1>24,
     <1>25, <1>26, <1>27, <1>28 DEF Decoding!Step, DecP!Step

LEMMA CalmStepIs == ASSUME CalmDecoding!Step PROVE CalmP!Step
<1>1. \A x : CalmDecoding!Prefixes(x) = CalmP!Prefixes(x)
  BY DEF CalmDecoding!Prefixes, CalmP!Prefixes
<1>2. \A n, e : CalmDecoding!Fread(n, e) = CalmP!Fread(n, e)
  BY DEF CalmDecoding!Fread, CalmDecoding!Smaller, CalmP!Fread, CalmP!Smaller
<1>3. \A x, i : CalmDecoding!ChainAfter(x, i) = CalmP!ChainAfter(x, i)
  BY DEF CalmDecoding!ChainAfter, CalmDecoding!BlockAt, CalmDecoding!IsBlock,
         CalmDecoding!ChainStart, CalmDecoding!NoKey, CalmDecoding!BlockCells,
         CalmDecoding!DerivedKey, CalmDecoding!Cells,
         CalmP!ChainAfter, CalmP!BlockAt, CalmP!IsBlock, CalmP!ChainStart, CalmP!NoKey,
         CalmP!BlockCells, CalmP!DerivedKey, CalmP!Cells
<1>4. \A k, p, x : CalmDecoding!CbcDecryptBlock(k, p, x) = CalmP!CbcDecryptBlock(k, p, x)
  BY DEF CalmDecoding!CbcDecryptBlock, CalmDecoding!CbcEncryptBlock, CalmDecoding!Junk,
         CalmP!CbcDecryptBlock, CalmP!CbcEncryptBlock, CalmP!Junk
<1>5. \A x, i : CalmDecoding!PlainAt(x, i) = CalmP!PlainAt(x, i)
  BY <1>3, <1>4
     DEF CalmDecoding!PlainAt, CalmDecoding!EncKey, CalmDecoding!DerivedKey,
         CalmP!PlainAt, CalmP!EncKey, CalmP!DerivedKey
<1>6. \A x : CalmDecoding!PlainOf(x) = CalmP!PlainOf(x)
  BY <1>5 DEF CalmDecoding!PlainOf, CalmP!PlainOf
<1>7. CalmDecoding!HashedData = CalmP!HashedData
  BY DEF CalmDecoding!HashedData, CalmDecoding!Cells, CalmDecoding!HeaderWidth,
         CalmDecoding!EncryptedSize,
         CalmP!HashedData, CalmP!Cells, CalmP!HeaderWidth, CalmP!EncryptedSize
<1>8. CalmDecoding!Junk = CalmP!Junk
  BY DEF CalmDecoding!Junk, CalmP!Junk
<1>9. \A x : CalmDecoding!PaddingIsValid(x) <=> CalmP!PaddingIsValid(x)
  BY DEF CalmDecoding!PaddingIsValid, CalmP!PaddingIsValid
<1>10. \A x : CalmDecoding!RemovePadding(x) = CalmP!RemovePadding(x)
  BY DEF CalmDecoding!RemovePadding, CalmP!RemovePadding
<1>11. \A n : CalmDecoding!Clamp(n) = CalmP!Clamp(n)
  BY DEF CalmDecoding!Clamp, CalmDecoding!OriginalSize, CalmDecoding!Smaller,
         CalmDecoding!SizeOf,
         CalmP!Clamp, CalmP!OriginalSize, CalmP!Smaller, CalmP!SizeOf
<1>12. \A x : CalmDecoding!AllButLast(x) = CalmP!AllButLast(x)
  BY DEF CalmDecoding!AllButLast, CalmP!AllButLast
<1>13. ASSUME CalmDecoding!OpenInput PROVE CalmP!OpenInput
  BY <1>13, <1>1
     DEF CalmDecoding!OpenInput, CalmDecoding!Fail, CalmDecoding!inputVars,
         CalmDecoding!headerVars, CalmDecoding!verifyVars, CalmDecoding!Return,
         CalmP!OpenInput, CalmP!Fail, CalmP!inputVars, CalmP!headerVars, CalmP!verifyVars,
         CalmP!Return
<1>14. ASSUME CalmDecoding!ReadSize PROVE CalmP!ReadSize
  BY <1>14, <1>1, <1>2
     DEF CalmDecoding!ReadSize, CalmDecoding!Continue, CalmDecoding!Fail,
         CalmDecoding!inputVars, CalmDecoding!verifyVars, CalmDecoding!exitVars,
         CalmDecoding!Return,
         CalmP!ReadSize, CalmP!Continue, CalmP!Fail, CalmP!inputVars, CalmP!verifyVars,
         CalmP!exitVars, CalmP!Return
<1>15. ASSUME CalmDecoding!ReadSalt PROVE CalmP!ReadSalt
  BY <1>15, <1>1, <1>2
     DEF CalmDecoding!ReadSalt, CalmDecoding!Fail, CalmDecoding!inputVars,
         CalmDecoding!verifyVars, CalmDecoding!Return,
         CalmP!ReadSalt, CalmP!Fail, CalmP!inputVars, CalmP!verifyVars, CalmP!Return
<1>16. ASSUME CalmDecoding!ReadIv PROVE CalmP!ReadIv
  BY <1>16, <1>1, <1>2
     DEF CalmDecoding!ReadIv, CalmDecoding!Continue, CalmDecoding!Fail,
         CalmDecoding!inputVars, CalmDecoding!verifyVars, CalmDecoding!exitVars,
         CalmDecoding!Return,
         CalmP!ReadIv, CalmP!Continue, CalmP!Fail, CalmP!inputVars, CalmP!verifyVars,
         CalmP!exitVars, CalmP!Return
<1>17. ASSUME CalmDecoding!Measure PROVE CalmP!Measure
  BY <1>17, <1>1
     DEF CalmDecoding!Measure, CalmDecoding!EncryptedSize, CalmDecoding!Continue,
         CalmDecoding!Fail, CalmDecoding!inputVars, CalmDecoding!headerVars,
         CalmDecoding!verifyVars, CalmDecoding!HeaderWidth, CalmDecoding!exitVars,
         CalmDecoding!Return,
         CalmP!Measure, CalmP!EncryptedSize, CalmP!Continue, CalmP!Fail, CalmP!inputVars,
         CalmP!headerVars, CalmP!verifyVars, CalmP!HeaderWidth, CalmP!exitVars, CalmP!Return
<1>18. ASSUME CalmDecoding!ReadMac PROVE CalmP!ReadMac
  BY <1>18, <1>1
     DEF CalmDecoding!ReadMac, CalmDecoding!HeaderWidth, CalmDecoding!Continue,
         CalmDecoding!Fail, CalmDecoding!inputVars, CalmDecoding!verifyVars,
         CalmDecoding!exitVars, CalmDecoding!Return,
         CalmP!ReadMac, CalmP!HeaderWidth, CalmP!Continue, CalmP!Fail, CalmP!inputVars,
         CalmP!verifyVars, CalmP!exitVars, CalmP!Return
<1>19. ASSUME CalmDecoding!AllocChunk PROVE CalmP!AllocChunk
  BY <1>19, <1>1
     DEF CalmDecoding!AllocChunk, CalmDecoding!Fail, CalmDecoding!inputVars,
         CalmDecoding!headerVars, CalmDecoding!verifyVars, CalmDecoding!Return,
         CalmP!AllocChunk, CalmP!Fail, CalmP!inputVars, CalmP!headerVars, CalmP!verifyVars,
         CalmP!Return
<1>20. ASSUME CalmDecoding!AllocHmacData PROVE CalmP!AllocHmacData
  BY <1>20, <1>1
     DEF CalmDecoding!AllocHmacData, CalmDecoding!EncryptedSize, CalmDecoding!Fail,
         CalmDecoding!inputVars, CalmDecoding!headerVars, CalmDecoding!HeaderWidth,
         CalmDecoding!Return,
         CalmP!AllocHmacData, CalmP!EncryptedSize, CalmP!Fail, CalmP!inputVars,
         CalmP!headerVars, CalmP!HeaderWidth, CalmP!Return
<1>21. ASSUME CalmDecoding!VerifyRead PROVE CalmP!VerifyRead
  BY <1>21, <1>2
     DEF CalmDecoding!VerifyRead, CalmDecoding!Smaller, CalmDecoding!inputVars,
         CalmDecoding!headerVars, CalmDecoding!exitVars,
         CalmP!VerifyRead, CalmP!Smaller, CalmP!inputVars, CalmP!headerVars, CalmP!exitVars
<1>22. ASSUME CalmDecoding!CheckMac PROVE CalmP!CheckMac
  BY <1>22, <1>1, <1>7
     DEF CalmDecoding!CheckMac, CalmDecoding!MacCells, CalmDecoding!MacKey,
         CalmDecoding!Fail, CalmDecoding!inputVars, CalmDecoding!headerVars,
         CalmDecoding!verifyVars, CalmDecoding!Cells, CalmDecoding!DerivedKey,
         CalmDecoding!Return,
         CalmP!CheckMac, CalmP!MacCells, CalmP!MacKey, CalmP!Fail, CalmP!inputVars,
         CalmP!headerVars, CalmP!verifyVars, CalmP!Cells, CalmP!DerivedKey, CalmP!Return
<1>23. ASSUME CalmDecoding!OpenOutput PROVE CalmP!OpenOutput
  BY <1>23, <1>1
     DEF CalmDecoding!OpenOutput, CalmDecoding!ChainStart, CalmDecoding!EncKey,
         CalmDecoding!HeaderWidth, CalmDecoding!EncryptedSize, CalmDecoding!Fail,
         CalmDecoding!inputVars, CalmDecoding!headerVars, CalmDecoding!verifyVars,
         CalmDecoding!DerivedKey, CalmDecoding!Return,
         CalmP!OpenOutput, CalmP!ChainStart, CalmP!EncKey, CalmP!HeaderWidth,
         CalmP!EncryptedSize, CalmP!Fail, CalmP!inputVars, CalmP!headerVars,
         CalmP!verifyVars, CalmP!DerivedKey, CalmP!Return
<1>24. ASSUME CalmDecoding!DecryptChunk PROVE CalmP!DecryptChunk
  BY <1>24, <1>1, <1>2, <1>3, <1>6, <1>12
     DEF CalmDecoding!DecryptChunk, CalmDecoding!Smaller, CalmDecoding!Continue,
         CalmDecoding!Fail, CalmDecoding!inputVars, CalmDecoding!headerVars,
         CalmDecoding!verifyVars, CalmDecoding!exitVars, CalmDecoding!Return,
         CalmP!DecryptChunk, CalmP!Smaller, CalmP!Continue, CalmP!Fail, CalmP!inputVars,
         CalmP!headerVars, CalmP!verifyVars, CalmP!exitVars, CalmP!Return
<1>25. ASSUME CalmDecoding!DecryptEnd PROVE CalmP!DecryptEnd
  BY <1>25
     DEF CalmDecoding!DecryptEnd, CalmDecoding!Continue, CalmDecoding!inputVars,
         CalmDecoding!headerVars, CalmDecoding!verifyVars, CalmDecoding!exitVars,
         CalmP!DecryptEnd, CalmP!Continue, CalmP!inputVars, CalmP!headerVars,
         CalmP!verifyVars, CalmP!exitVars
<1>26. ASSUME CalmDecoding!LastBlock PROVE CalmP!LastBlock
  BY <1>26, <1>1, <1>2, <1>3, <1>6, <1>8, <1>9, <1>10, <1>11, <1>12
     DEF CalmDecoding!LastBlock, CalmDecoding!NoLastBlock, CalmDecoding!WriteLast,
         CalmDecoding!Fail, CalmDecoding!inputVars, CalmDecoding!headerVars,
         CalmDecoding!verifyVars, CalmDecoding!Continue, CalmDecoding!Return,
         CalmDecoding!exitVars,
         CalmP!LastBlock, CalmP!NoLastBlock, CalmP!WriteLast, CalmP!Fail, CalmP!inputVars,
         CalmP!headerVars, CalmP!verifyVars, CalmP!Continue, CalmP!Return, CalmP!exitVars
<1>27. ASSUME CalmDecoding!CloseAndReturn PROVE CalmP!CloseAndReturn
  BY <1>27, <1>1
     DEF CalmDecoding!CloseAndReturn, CalmDecoding!Return, CalmDecoding!inputVars,
         CalmDecoding!headerVars, CalmDecoding!verifyVars,
         CalmP!CloseAndReturn, CalmP!Return, CalmP!inputVars, CalmP!headerVars,
         CalmP!verifyVars
<1>28. QED
  BY <1>13, <1>14, <1>15, <1>16, <1>17, <1>18, <1>19, <1>20, <1>21, <1>22, <1>23, <1>24,
     <1>25, <1>26, <1>27 DEF CalmDecoding!Step, CalmP!Step

-----------------------------------------------------------------------------
(* What the lemmas of the two functions say here *)

\* The assumptions of EncryptFile and of DecryptFile hold of the instances.
LEMMA EncodingAssumed ==
  EncryptFaults \subseteq EncP!AllFaults /\ (\A text \in Texts : text \in Seq(Byte)) /\ 0 \in Nat
BY FaultsAssumption, TextsAssumption DEF Encoding!AllFaults, EncP!AllFaults

LEMMA DecodingAssumed ==
  /\ DecryptFaults \subseteq DecP!AllFaults
  /\ {} \subseteq CalmP!AllFaults
  /\ \A f \in {} : DecP!IsFile(f)
  /\ \A f \in {} : CalmP!IsFile(f)
  /\ \A f \in {}, p \in Passwords : DecP!Verifies(f, p) => DecP!IsSealed(f, p)
  /\ \A f \in {}, p \in Passwords : CalmP!Verifies(f, p) => CalmP!IsSealed(f, p)
<1>1. DecryptFaults \subseteq DecP!AllFaults
  BY FaultsAssumption DEF Decoding!AllFaults, DecP!AllFaults
<1>2. QED
  BY <1>1

LEMMA EncodingStarts == ASSUME Encoding!Init PROVE EncP!SealInv /\ EncP!LeftInv
<1>1. EncP!Init
  BY DEF Encoding!Init, EncP!Init, Encoding!ChainStart, EncP!ChainStart, Encoding!EncKey,
         EncP!EncKey, Encoding!DerivedKey, EncP!DerivedKey
<1>2. EncP!SealInv
  BY <1>1, EncodingAssumed, SizesAssumption, ByteAssumption, EncP!SealStart
<1>3. EncP!LeftInv
  BY <1>1, EncodingAssumed, SizesAssumption, ByteAssumption, EncP!LeftStart
<1>4. QED
  BY <1>2, <1>3

LEMMA EncodingMoves ==
  ASSUME EncP!SealInv, Encoding!Step \/ Encoding!Crash
  PROVE  /\ EncP!SealInv'
         /\ UNCHANGED <<src, ePassword>>
         /\ eUnnoticed => eUnnoticed'
         /\ (EncP!LeftInv /\ ("read" \notin EncryptFaults \/ ~eUnnoticed')) => EncP!LeftInv'
<1>1. EncP!Step \/ EncP!Crash
  BY EncodingStepIs
<1>2. [EncP!Next]_(EncP!vars)
  BY <1>1 DEF EncP!Next
<1>3. EncP!SealInv'
  BY <1>2, EncodingAssumed, SizesAssumption, ByteAssumption, EncP!SealStep
<1>4. UNCHANGED <<src, ePassword>> /\ (eUnnoticed => eUnnoticed')
  BY <1>1, EncodingAssumed, SizesAssumption, ByteAssumption, EncP!InputStays
<1>5. ASSUME EncP!LeftInv, "read" \notin EncryptFaults \/ ~eUnnoticed' PROVE EncP!LeftInv'
  BY <1>1, <1>5, EncodingAssumed, SizesAssumption, ByteAssumption, EncP!LeftStep
<1>6. QED
  BY <1>3, <1>4, <1>5

LEMMA EncodingStays ==
  ASSUME EncP!SealInv, UNCHANGED encodingVars
  PROVE  EncP!SealInv' /\ (EncP!LeftInv => EncP!LeftInv')
<1>1. UNCHANGED EncP!vars
  BY DEF encodingVars, EncP!vars, EncP!inputVars, EncP!headerVars, EncP!streamVars,
         EncP!chainVars, EncP!exitVars
<1>2. EncP!SealInv'
  BY <1>1, EncodingAssumed, SizesAssumption, ByteAssumption, EncP!SealStep
<1>3. EncP!LeftInv => EncP!LeftInv'
  BY <1>1, EncodingAssumed, SizesAssumption, ByteAssumption, EncP!LeftStutter
<1>4. QED
  BY <1>2, <1>3

\* What is read off a file is the same for both functions.
LEMMA DecodingSealsText ==
  ASSUME NEW f, NEW p, NEW t, EncP!SealsText(f, p, t) PROVE DecP!SealsText(f, p, t)
<1>1. \A k, x, y : EncP!DerivedKey(k, x, y) = DecP!DerivedKey(k, x, y)
  BY DEF EncP!DerivedKey, DecP!DerivedKey
<1>2. \A k, x : EncP!MacCells(k, x) = DecP!MacCells(k, x)
  BY DEF EncP!MacCells, EncP!Cells, DecP!MacCells, DecP!Cells
<1>3. \A n : EncP!SizeCells(n) = DecP!SizeCells(n)
  BY DEF EncP!SizeCells, DecP!SizeCells
<1>4. \A x : EncP!SizeOf(x) = DecP!SizeOf(x)
  BY DEF EncP!SizeOf, DecP!SizeOf
<1>5. \A x : EncP!CiphertextCells(x) = DecP!CiphertextCells(x)
  BY DEF EncP!CiphertextCells, DecP!CiphertextCells
<1>6. \A x, k, i : EncP!Chain(x, k, i) = DecP!Chain(x, k, i)
  BY DEF EncP!Chain, EncP!ChainStart, EncP!Padded, EncP!Padding,
         DecP!Chain, DecP!ChainStart, DecP!Padded, DecP!Padding
<1>7. ASSUME NEW x, NEW n, NEW k, NEW s, NEW i
      PROVE  EncP!Sealed(x, n, k, s, i) = DecP!Sealed(x, n, k, s, i)
  <2> DEFINE cells     == EncP!CiphertextCells(EncP!Chain(x, EncP!DerivedKey(k, s, "ENC"), i))
             sameCells == DecP!CiphertextCells(DecP!Chain(x, DecP!DerivedKey(k, s, "ENC"), i))
             body      == EncP!SizeCells(n) \o s \o i \o cells
             sameBody  == DecP!SizeCells(n) \o s \o i \o sameCells
             mac       == EncP!MacCells(EncP!DerivedKey(k, s, "MAC"), body)
             sameMac   == DecP!MacCells(DecP!DerivedKey(k, s, "MAC"), sameBody)
  <2>1. cells = sameCells
    BY <1>1, <1>5, <1>6
  <2>2. EncP!SizeCells(n) = DecP!SizeCells(n)
    BY <1>3
  <2>3. body = sameBody
    <3> HIDE DEF cells, sameCells
    <3>1. QED
      BY <2>1, <2>2, Zenon
  <2>4. mac = sameMac
    <3> HIDE DEF body, sameBody
    <3>1. QED
      BY <1>1, <1>2, <2>3
  <2>5. EncP!Sealed(x, n, k, s, i) = body \o mac
    BY Zenon DEF EncP!Sealed
  <2>6. DecP!Sealed(x, n, k, s, i) = sameBody \o sameMac
    BY Zenon DEF DecP!Sealed
  <2> HIDE DEF body, sameBody, mac, sameMac
  <2>7. QED
    BY <2>3, <2>4, <2>5, <2>6, Zenon
<1>8. \A x : EncP!TextUnder(x) = DecP!TextUnder(x)
  BY DEF EncP!TextUnder, DecP!TextUnder
<1>9. QED
  BY <1>1, <1>2, <1>3, <1>4, <1>5, <1>6, <1>7, <1>8
     DEF EncP!SealsText, EncP!IsSealed, EncP!Padded, EncP!HeaderWidth, EncP!Padding,
         DecP!SealsText, DecP!IsSealed, DecP!Padded, DecP!HeaderWidth, DecP!Padding

LEMMA CalmSealsText ==
  ASSUME NEW f, NEW p, NEW t, EncP!SealsText(f, p, t) PROVE CalmP!SealsText(f, p, t)
<1>1. \A k, x, y : EncP!DerivedKey(k, x, y) = CalmP!DerivedKey(k, x, y)
  BY DEF EncP!DerivedKey, CalmP!DerivedKey
<1>2. \A k, x : EncP!MacCells(k, x) = CalmP!MacCells(k, x)
  BY DEF EncP!MacCells, EncP!Cells, CalmP!MacCells, CalmP!Cells
<1>3. \A n : EncP!SizeCells(n) = CalmP!SizeCells(n)
  BY DEF EncP!SizeCells, CalmP!SizeCells
<1>4. \A x : EncP!SizeOf(x) = CalmP!SizeOf(x)
  BY DEF EncP!SizeOf, CalmP!SizeOf
<1>5. \A x : EncP!CiphertextCells(x) = CalmP!CiphertextCells(x)
  BY DEF EncP!CiphertextCells, CalmP!CiphertextCells
<1>6. \A x, k, i : EncP!Chain(x, k, i) = CalmP!Chain(x, k, i)
  BY DEF EncP!Chain, EncP!ChainStart, EncP!Padded, EncP!Padding,
         CalmP!Chain, CalmP!ChainStart, CalmP!Padded, CalmP!Padding
<1>7. ASSUME NEW x, NEW n, NEW k, NEW s, NEW i
      PROVE  EncP!Sealed(x, n, k, s, i) = CalmP!Sealed(x, n, k, s, i)
  <2> DEFINE cells     == EncP!CiphertextCells(EncP!Chain(x, EncP!DerivedKey(k, s, "ENC"), i))
             sameCells == CalmP!CiphertextCells(CalmP!Chain(x, CalmP!DerivedKey(k, s, "ENC"), i))
             body      == EncP!SizeCells(n) \o s \o i \o cells
             sameBody  == CalmP!SizeCells(n) \o s \o i \o sameCells
             mac       == EncP!MacCells(EncP!DerivedKey(k, s, "MAC"), body)
             sameMac   == CalmP!MacCells(CalmP!DerivedKey(k, s, "MAC"), sameBody)
  <2>1. cells = sameCells
    BY <1>1, <1>5, <1>6
  <2>2. EncP!SizeCells(n) = CalmP!SizeCells(n)
    BY <1>3
  <2>3. body = sameBody
    <3> HIDE DEF cells, sameCells
    <3>1. QED
      BY <2>1, <2>2, Zenon
  <2>4. mac = sameMac
    <3> HIDE DEF body, sameBody
    <3>1. QED
      BY <1>1, <1>2, <2>3
  <2>5. EncP!Sealed(x, n, k, s, i) = body \o mac
    BY Zenon DEF EncP!Sealed
  <2>6. CalmP!Sealed(x, n, k, s, i) = sameBody \o sameMac
    BY Zenon DEF CalmP!Sealed
  <2> HIDE DEF body, sameBody, mac, sameMac
  <2>7. QED
    BY <2>3, <2>4, <2>5, <2>6, Zenon
<1>8. \A x : EncP!TextUnder(x) = CalmP!TextUnder(x)
  BY DEF EncP!TextUnder, CalmP!TextUnder
<1>9. QED
  BY <1>1, <1>2, <1>3, <1>4, <1>5, <1>6, <1>7, <1>8
     DEF EncP!SealsText, EncP!IsSealed, EncP!Padded, EncP!HeaderWidth, EncP!Padding,
         CalmP!SealsText, CalmP!IsSealed, CalmP!Padded, CalmP!HeaderWidth, CalmP!Padding

LEMMA VerifiesIs ==
  ASSUME NEW f, NEW p
  PROVE  /\ EncP!Verifies(f, p) <=> Verifies(f, p)
         /\ DecP!Verifies(f, p) <=> Verifies(f, p)
         /\ CalmP!Verifies(f, p) <=> Verifies(f, p)
BY DEF Verifies, HeaderWidth, DerivedKey, MacCells, Cells,
       EncP!Verifies, EncP!HeaderWidth, EncP!DerivedKey, EncP!MacCells, EncP!Cells,
       DecP!Verifies, DecP!HeaderWidth, DecP!DerivedKey, DecP!MacCells, DecP!Cells,
       CalmP!Verifies, CalmP!HeaderWidth, CalmP!DerivedKey, CalmP!MacCells, CalmP!Cells

LEMMA IsFileIs ==
  ASSUME NEW f
  PROVE  (EncP!IsFile(f) <=> DecP!IsFile(f)) /\ (EncP!IsFile(f) <=> CalmP!IsFile(f))
BY DEF EncP!IsFile, EncP!SizeOf, DecP!IsFile, DecP!SizeOf, CalmP!IsFile, CalmP!SizeOf

\* Calls whose failure neither function can notice do not fail.
FaultsAreNoticed == "read" \notin EncryptFaults /\ DecryptFaults \cap {"reread", "close"} = {}

\* What a step of a decoding does to its caller's side.
HandsOver ==
  /\ dResult = "none" /\ dResult' \in {"none", "0", "-1"}
  /\ UNCHANGED <<dFile, dPassword>>
  /\ dDisk' # dDisk =>
       Verifies(dFile, dPassword) /\ dDisk' \in {SubSeq(src, 1, n) : n \in 0 .. Len(src)}
  /\ dResult' = "0" => Verifies(dFile, dPassword) /\ dDisk' = src

LEMMA DecodingMoves ==
  ASSUME DecP!PlainInv, ~dUnnoticed, FaultsAreNoticed,
         Decoding!Step \/ Decoding!Crash,
         Verifies(dFile, dPassword) => EncP!SealsText(dFile, dPassword, src)
  PROVE  DecP!PlainInv' /\ ~dUnnoticed' /\ HandsOver
<1>1. DecP!Step \/ DecP!Crash
  BY DecodingStepIs
<1>2. ~dUnnoticed'
  BY <1>1, DecodingAssumed, ChunkAssumption, SizesAssumption, ByteAssumption,
     DecP!AllIsNoticed DEF FaultsAreNoticed
<1>3. DecP!PlainStep
  <2>1. [DecP!Next]_(DecP!vars)
    BY <1>1 DEF DecP!Next
  <2>2. QED
    BY <2>1, DecodingAssumed, ChunkAssumption, SizesAssumption, ByteAssumption, DecP!StepPlain
<1>4. DecP!Verifies(dFile, dPassword) => DecP!SealsText(dFile, dPassword, src)
  BY VerifiesIs, DecodingSealsText
<1>5. /\ dResult = "none" /\ dResult' \in {"none", "0", "-1"}
      /\ UNCHANGED <<dFile, dPassword>>
      /\ dDisk' # dDisk => DecP!Verifies(dFile, dPassword) /\ dDisk' \in DecP!Prefixes(src)
      /\ dResult' = "0" => DecP!Verifies(dFile, dPassword) /\ dDisk' = src
  BY <1>1, <1>2, <1>4, DecodingAssumed, ChunkAssumption, SizesAssumption, ByteAssumption,
     DecP!DecodingStep
<1>6. HandsOver
  BY <1>5, VerifiesIs DEF HandsOver, DecP!Prefixes
<1>7. QED
  BY <1>2, <1>3, <1>6 DEF DecP!PlainStep

LEMMA CalmMoves ==
  ASSUME CalmP!PlainInv, CalmP!CalmInv, ~dUnnoticed, CalmDecoding!Step,
         Verifies(dFile, dPassword) => EncP!SealsText(dFile, dPassword, src)
  PROVE  CalmP!PlainInv' /\ CalmP!CalmInv' /\ ~dUnnoticed' /\ HandsOver
<1>1. CalmP!Step
  BY CalmStepIs
<1>2. ~dUnnoticed'
  BY <1>1, DecodingAssumed, ChunkAssumption, SizesAssumption, ByteAssumption,
     CalmP!AllIsNoticed
<1>3. CalmP!PlainStep
  <2>1. [CalmP!Next]_(CalmP!vars)
    BY <1>1 DEF CalmP!Next
  <2>2. QED
    BY <2>1, DecodingAssumed, ChunkAssumption, SizesAssumption, ByteAssumption, CalmP!StepPlain
<1>4. CalmP!Verifies(dFile, dPassword) => CalmP!SealsText(dFile, dPassword, src)
  BY VerifiesIs, CalmSealsText
<1>5. /\ dResult = "none" /\ dResult' \in {"none", "0", "-1"}
      /\ UNCHANGED <<dFile, dPassword>>
      /\ dDisk' # dDisk => CalmP!Verifies(dFile, dPassword) /\ dDisk' \in CalmP!Prefixes(src)
      /\ dResult' = "0" => CalmP!Verifies(dFile, dPassword) /\ dDisk' = src
  BY <1>1, <1>2, <1>4, DecodingAssumed, ChunkAssumption, SizesAssumption, ByteAssumption,
     CalmP!DecodingStep
<1>6. HandsOver
  BY <1>5, VerifiesIs DEF HandsOver, CalmP!Prefixes
<1>7. CalmP!CalmInv'
  BY <1>1, DecodingAssumed, ChunkAssumption, SizesAssumption, ByteAssumption, CalmP!CalmStep
<1>8. QED
  BY <1>2, <1>3, <1>6, <1>7 DEF CalmP!PlainStep

LEMMA DecodingStays ==
  ASSUME DecP!PlainInv, UNCHANGED decodingVars
  PROVE  DecP!PlainInv'
<1>1. UNCHANGED DecP!vars
  BY DEF decodingVars, DecP!vars, DecP!inputVars, DecP!headerVars, DecP!verifyVars, DecP!exitVars
<1>2. DecP!PlainStep
  BY <1>1, DecodingAssumed, ChunkAssumption, SizesAssumption, ByteAssumption, DecP!StepPlain
<1>3. QED
  BY <1>2 DEF DecP!PlainStep

LEMMA CalmStays ==
  ASSUME CalmP!PlainInv, UNCHANGED decodingVars
  PROVE  CalmP!PlainInv' /\ (CalmP!CalmInv => CalmP!CalmInv')
<1>1. UNCHANGED CalmP!vars
  BY DEF decodingVars, CalmP!vars, CalmP!inputVars, CalmP!headerVars, CalmP!verifyVars, CalmP!exitVars
<1>2. CalmP!PlainStep
  BY <1>1, DecodingAssumed, ChunkAssumption, SizesAssumption, ByteAssumption, CalmP!StepPlain
<1>3. CalmP!CalmInv => CalmP!CalmInv'
  BY <1>1, DecodingAssumed, ChunkAssumption, SizesAssumption, ByteAssumption, CalmP!CalmStutter
<1>4. QED
  BY <1>2, <1>3 DEF CalmP!PlainStep

LEMMA DecodingStartsReady ==
  DecP!Ready /\ dPassword \in Passwords /\ DecP!Legitimate(dFile) => DecP!PlainInv
BY DecodingAssumed, ChunkAssumption, SizesAssumption, ByteAssumption, DecP!ReadyPlain

LEMMA DecodingStarts ==
  ASSUME StartDecode, DecP!Legitimate(eDisk)
  PROVE  DecP!PlainInv'
<1>1. DecP!Ready' /\ dPassword' \in Passwords /\ DecP!Legitimate(dFile)'
  BY DEF StartDecode, DecP!Ready, DecP!EncKey, DecP!Legitimate, ChainStart, DerivedKey,
         DecP!ChainStart, DecP!DerivedKey
<1>2. (DecP!Ready /\ dPassword \in Passwords /\ DecP!Legitimate(dFile) => DecP!PlainInv)'
  BY DecodingStartsReady, PTL
<1>3. QED
  BY <1>1, <1>2

LEMMA CalmStartsReady ==
  CalmP!Ready /\ dPassword \in Passwords /\ CalmP!Legitimate(dFile)
    => CalmP!PlainInv /\ CalmP!CalmInv
<1>1. CalmP!Ready /\ dPassword \in Passwords /\ CalmP!Legitimate(dFile) => CalmP!PlainInv
  BY DecodingAssumed, ChunkAssumption, SizesAssumption, ByteAssumption, CalmP!ReadyPlain
<1>2. CalmP!Ready => CalmP!CalmInv
  BY DecodingAssumed, ChunkAssumption, SizesAssumption, ByteAssumption, CalmP!CalmReady
<1>3. QED
  BY <1>1, <1>2

LEMMA CalmStarts ==
  ASSUME StartDecode, CalmP!Legitimate(eDisk)
  PROVE  CalmP!PlainInv' /\ CalmP!CalmInv'
<1>1. CalmP!Ready' /\ dPassword' \in Passwords /\ CalmP!Legitimate(dFile)'
  BY DEF StartDecode, CalmP!Ready, CalmP!EncKey, CalmP!Legitimate, ChainStart, DerivedKey,
         CalmP!ChainStart, CalmP!DerivedKey
<1>2. (CalmP!Ready /\ dPassword \in Passwords /\ CalmP!Legitimate(dFile)
        => CalmP!PlainInv /\ CalmP!CalmInv)'
  BY CalmStartsReady, PTL
<1>3. QED
  BY <1>1, <1>2

-----------------------------------------------------------------------------
(* The invariant of the two together *)

EncodingInv == src \in Texts /\ EncP!SealInv /\ EncP!LeftInv

\* Before the first decoding nothing has been handed over.  Then the encoding is
\* over, and the file being decoded is the one it left.
RoundTripInv ==
  /\ EncodingInv
  /\ attempts \in Nat
  /\ dPassword \in Passwords
  /\ Idle => dDisk = NoFile /\ dResult = "none"
  /\ ~Idle => /\ ~Encoding!Running
              /\ eDisk # NoFile
              /\ dFile = eDisk
              /\ ~dUnnoticed
              /\ IF calm THEN CalmP!PlainInv /\ CalmP!CalmInv ELSE DecP!PlainInv

\* What the encoding left can be decoded with its password alone, and is its input.
LEMMA WhatIsLeft ==
  ASSUME EncodingInv, ~Encoding!Running, eDisk # NoFile
  PROVE  /\ DecP!Legitimate(eDisk) /\ CalmP!Legitimate(eDisk)
         /\ \A p : Verifies(eDisk, p) => p = ePassword /\ EncP!SealsText(eDisk, p, src)
<1>1. ePc \in {"done", "crashed"}
  BY DEF Encoding!Running
<1>2. SizeOf(SizeCells(Len(src))) = Len(src)
  BY TextsAssumption DEF EncodingInv
<1>3. EncP!SizeOf(EncP!SizeCells(Len(src))) = Len(src)
  BY <1>2 DEF SizeOf, SizeCells, EncP!SizeOf, EncP!SizeCells
<1>4. /\ EncP!IsFile(eDisk)
      /\ \A p : EncP!Verifies(eDisk, p) => p = ePassword /\ EncP!SealsText(eDisk, p, src)
  BY <1>1, <1>3, EncodingAssumed, SizesAssumption, ByteAssumption, EncP!LeftIsLegitimate
     DEF EncodingInv
<1>5. \A p : Verifies(eDisk, p) => p = ePassword /\ EncP!SealsText(eDisk, p, src)
  BY <1>4, VerifiesIs
<1>6. DecP!Legitimate(eDisk)
  <2>1. ASSUME NEW p \in Passwords, DecP!Verifies(eDisk, p) PROVE DecP!IsSealed(eDisk, p)
    <3>1. EncP!SealsText(eDisk, p, src)
      BY <1>4, <2>1, VerifiesIs
    <3>2. DecP!SealsText(eDisk, p, src)
      BY <3>1, DecodingSealsText
    <3>3. QED
      BY <3>2 DEF DecP!SealsText
  <2>2. QED
    BY <1>4, <2>1, IsFileIs DEF DecP!Legitimate
<1>7. CalmP!Legitimate(eDisk)
  <2>1. ASSUME NEW p \in Passwords, CalmP!Verifies(eDisk, p) PROVE CalmP!IsSealed(eDisk, p)
    <3>1. EncP!SealsText(eDisk, p, src)
      BY <1>4, <2>1, VerifiesIs
    <3>2. CalmP!SealsText(eDisk, p, src)
      BY <3>1, CalmSealsText
    <3>3. QED
      BY <3>2 DEF CalmP!SealsText
  <2>2. QED
    BY <1>4, <2>1, IsFileIs DEF CalmP!Legitimate
<1>8. QED
  BY <1>5, <1>6, <1>7

LEMMA RoundTripStarts == ASSUME Init PROVE RoundTripInv /\ Promise!Init
<1>1. EncodingInv /\ dDisk = NoFile /\ dResult = "none" /\ Idle /\ dPassword \in Passwords
  BY EncodingStarts DEF Init, Encoding!Init, EncodingInv, Decoding!Ready, Idle
<1>2. RoundTripInv
  BY <1>1 DEF RoundTripInv, Idle
<1>3. src \in Texts /\ ePassword \in Passwords /\ Box = "open"
  BY DEF Init, Encoding!Init, Box, Encoding!Running
<1>4. QED
  BY <1>1, <1>2, <1>3 DEF Promise!Init

-----------------------------------------------------------------------------
(* Each step, as a step of the promise *)

\* The encoding moves only while it runs.
LEMMA EncodingRuns == ASSUME Encoding!Step \/ Encoding!Crash PROVE Encoding!Running
BY DEF Encoding!Step, Encoding!OpenInput, Encoding!MeasureInput, Encoding!OpenOutput,
   Encoding!WriteSize, Encoding!WriteSalt, Encoding!InitCtx, Encoding!WriteIv,
   Encoding!AllocEncrypted, Encoding!AllocBuffer, Encoding!ReadChunk, Encoding!TopUpPending,
   Encoding!EncryptBlock, Encoding!SaveLeftover, Encoding!FinalBlock, Encoding!AllocMac,
   Encoding!WriteMac, Encoding!CloseAndReturn, Encoding!Crash, Encoding!Running

\* An encoding step closes the box or shows nothing.
LEMMA EncodeKeeps ==
  ASSUME FaultsAreNoticed, RoundTripInv, Encode
  PROVE  RoundTripInv' /\ [Promise!Next]_(Promise!vars)
<1>1. Encoding!Step \/ Encoding!Crash
  BY DEF Encode
<1>2. UNCHANGED <<dFile, dPassword, dDisk, dResult, attempts>>
  BY DEF Encode, decodingVars
<1>3. Encoding!Running
  BY <1>1, EncodingRuns
<1>4. Idle
  BY <1>3 DEF RoundTripInv
<1>5. EncodingInv' /\ UNCHANGED <<src, ePassword>>
  BY <1>1, EncodingMoves DEF FaultsAreNoticed, RoundTripInv, EncodingInv
<1>6. RoundTripInv'
  BY <1>2, <1>4, <1>5 DEF RoundTripInv, Idle
<1>7. Box = "open" /\ Box' \in {"open", "sealed", "useless"}
  BY <1>3 DEF Box
<1>8. QED
  BY <1>2, <1>5, <1>6, <1>7 DEF Promise!Next, Promise!Close, Promise!vars

\* A decoding that starts is a new attempt.
LEMMA StartDecodeKeeps ==
  ASSUME RoundTripInv, StartDecode
  PROVE  RoundTripInv' /\ [Promise!Next]_(Promise!vars)
<1>1. /\ ~Encoding!Running /\ eDisk # NoFile /\ UNCHANGED encodingVars
      /\ attempts' = attempts + 1 /\ dFile' = eDisk /\ dPassword' \in Passwords
      /\ dDisk' = NoFile /\ dResult' = "none" /\ dUnnoticed' = FALSE
  BY DEF StartDecode
<1>2. UNCHANGED <<ePc, src, ePassword, eDisk>>
  BY <1>1 DEF encodingVars
<1>3. EncodingInv'
  BY <1>1, <1>2, EncodingStays DEF RoundTripInv, EncodingInv
<1>4. CalmP!PlainInv' /\ CalmP!CalmInv' /\ DecP!PlainInv'
  BY <1>1, WhatIsLeft, DecodingStarts, CalmStarts DEF RoundTripInv
<1>5. attempts' \in Nat /\ ~Idle'
  BY <1>1 DEF RoundTripInv, Idle
<1>6. ~Encoding!Running' /\ Box' = Box /\ Box # "open"
  BY <1>1, <1>2 DEF Encoding!Running, Box
<1>7. RoundTripInv'
  BY <1>1, <1>2, <1>3, <1>4, <1>5, <1>6 DEF RoundTripInv
<1>8. QED
  BY <1>1, <1>2, <1>6, <1>7 DEF Promise!Next, Promise!Retry

\* A decoding step hands over nothing, a beginning of the text or all of it, and the
\* two last only to who has the password.
LEMMA DecodeKeeps ==
  ASSUME FaultsAreNoticed, RoundTripInv, Decode
  PROVE  RoundTripInv' /\ [Promise!Next]_(Promise!vars)
<1>1. /\ ~Idle /\ ~Encoding!Running /\ eDisk # NoFile /\ dFile = eDisk /\ ~dUnnoticed
      /\ UNCHANGED <<attempts, calm>> /\ UNCHANGED encodingVars
  BY DEF Decode, RoundTripInv
<1>2. UNCHANGED <<ePc, src, ePassword, eDisk>>
  BY <1>1 DEF encodingVars
<1>3. \A p : Verifies(eDisk, p) => p = ePassword /\ EncP!SealsText(eDisk, p, src)
  BY <1>1, WhatIsLeft DEF RoundTripInv
<1>4. /\ ~dUnnoticed' /\ HandsOver
      /\ IF calm THEN CalmP!PlainInv' /\ CalmP!CalmInv' ELSE DecP!PlainInv'
  <2>1. Verifies(dFile, dPassword) => EncP!SealsText(dFile, dPassword, src)
    BY <1>1, <1>3
  <2>2. CASE calm
    <3>1. CalmDecoding!Step /\ CalmP!PlainInv /\ CalmP!CalmInv
      BY <1>1, <2>2 DEF Decode, RoundTripInv
    <3>2. QED
      BY <1>1, <2>1, <2>2, <3>1, CalmMoves
  <2>3. CASE ~calm
    <3>1. (Decoding!Step \/ Decoding!Crash) /\ DecP!PlainInv
      BY <1>1, <2>3 DEF Decode, RoundTripInv
    <3>2. QED
      BY <1>1, <2>1, <2>3, <3>1, DecodingMoves
  <2>4. QED
    BY <2>2, <2>3
<1>5. EncodingInv'
  BY <1>1, <1>2, EncodingStays DEF RoundTripInv, EncodingInv
<1>6. ~Encoding!Running' /\ ~Idle' /\ Box' = Box /\ Box # "open"
  BY <1>1, <1>2 DEF Encoding!Running, Box, Idle
<1>7. RoundTripInv'
  BY <1>1, <1>2, <1>4, <1>5, <1>6 DEF RoundTripInv, HandsOver
<1>8. [Promise!Next]_(Promise!vars)
  <2>1. UNCHANGED <<src, ePassword, Box, dPassword>>
    BY <1>2, <1>4, <1>6 DEF HandsOver
  <2>2. ASSUME Verifies(dFile, dPassword) PROVE Promise!MayOpen
    <3>1. dPassword = ePassword /\ Verifies(eDisk, ePassword)
      BY <1>1, <1>3, <2>2
    <3>2. Box = "sealed"
      BY <1>1, <3>1 DEF Box
    <3>3. QED
      BY <1>4, <3>1, <3>2 DEF Promise!MayOpen, HandsOver
  <2>3. dDisk' # dDisk => Promise!MayOpen /\ dDisk' \in Promise!Beginnings
    BY <1>4, <2>2 DEF HandsOver, Promise!Beginnings
  <2>4. CASE dResult' = "none"
    BY <1>4, <2>1, <2>3, <2>4 DEF Promise!Next, Promise!Deliver, Promise!vars, HandsOver
  <2>5. CASE dResult' = "0"
    BY <1>4, <2>1, <2>2, <2>5 DEF Promise!Next, Promise!Succeed, HandsOver
  <2>6. CASE dResult' = "-1"
    BY <1>4, <1>6, <2>1, <2>3, <2>6 DEF Promise!Next, Promise!Fail, HandsOver
  <2>7. QED
    BY <1>4, <2>4, <2>5, <2>6 DEF HandsOver
<1>9. QED
  BY <1>7, <1>8

LEMMA StutterKeeps ==
  ASSUME RoundTripInv, UNCHANGED vars
  PROVE  RoundTripInv' /\ [Promise!Next]_(Promise!vars)
<1>1. UNCHANGED encodingVars /\ UNCHANGED decodingVars /\ UNCHANGED <<attempts, calm>>
  BY DEF vars
<1>2. UNCHANGED <<ePc, src, ePassword, eDisk, dFile, dPassword, dDisk, dResult, dUnnoticed>>
  BY <1>1 DEF encodingVars, decodingVars
<1>3. EncodingInv'
  BY <1>1, <1>2, EncodingStays DEF RoundTripInv, EncodingInv
<1>4. /\ CalmP!PlainInv /\ CalmP!CalmInv => CalmP!PlainInv' /\ CalmP!CalmInv'
      /\ DecP!PlainInv => DecP!PlainInv'
  BY <1>1, CalmStays, DecodingStays
<1>5. Box' = Box /\ (Encoding!Running' <=> Encoding!Running) /\ (Idle' <=> Idle)
  BY <1>1, <1>2 DEF Box, Encoding!Running, Idle
<1>6. RoundTripInv'
  BY <1>1, <1>2, <1>3, <1>4, <1>5 DEF RoundTripInv
<1>7. QED
  BY <1>2, <1>5, <1>6 DEF Promise!vars

\* The two functions and the file between them implement SealedBox, whatever call
\* fails and wherever either process dies, as long as the failures of reads and
\* flushes that the code does not look at stay out (cipher.c:30-468).
THEOREM RoundTripIsSealedBox == ASSUME FaultsAreNoticed PROVE Spec => ImplementsSealedBox
<1>1. Init => RoundTripInv /\ Promise!Init
  BY RoundTripStarts
<1>2. ASSUME RoundTripInv, [Next]_vars
      PROVE  RoundTripInv' /\ [Promise!Next]_(Promise!vars)
  <2>1. CASE Encode
    BY <1>2, <2>1, EncodeKeeps
  <2>2. CASE StartDecode
    BY <1>2, <2>2, StartDecodeKeeps
  <2>3. CASE Decode
    BY <1>2, <2>3, DecodeKeeps
  <2>4. CASE Ended \/ UNCHANGED vars
    BY <1>2, <2>4, StutterKeeps DEF Ended
  <2>5. QED
    BY <1>2, <2>1, <2>2, <2>3, <2>4 DEF Next
<1>3. QED
  BY <1>1, <1>2, PTL DEF Spec, ImplementsSealedBox, Promise!Spec

-----------------------------------------------------------------------------
(* What a decoding none of whose calls fails makes of a completed encoding *)

\* This holds under every fault: it says nothing of an encoding with which something
\* has gone unnoticed, nor of the other decodings, after which the next starts over.
OpenInv ==
  /\ src \in Texts /\ EncP!SealInv
  /\ ~eUnnoticed => EncP!LeftInv
  /\ attempts \in Nat
  /\ ~Idle => /\ ~Encoding!Running
              /\ eDisk # NoFile
              /\ ~eUnnoticed /\ calm =>
                   /\ dFile = eDisk
                   /\ ~dUnnoticed
                   /\ CalmP!PlainInv /\ CalmP!CalmInv
                   /\ dResult = "0" => dDisk = src

\* What a completed encoding has left verifies under its password.
LEMMA SuccessIsOpenable ==
  ASSUME EncodingInv, eResult = "0", ~eUnnoticed, eDisk # NoFile
  PROVE  Verifies(eDisk, ePassword)
<1>1. SizeOf(SizeCells(Len(src))) = Len(src)
  BY TextsAssumption DEF EncodingInv
<1>2. EncP!SizeOf(EncP!SizeCells(Len(src))) = Len(src)
  BY <1>1 DEF SizeOf, SizeCells, EncP!SizeOf, EncP!SizeCells
<1>3. EncP!Verifies(eDisk, ePassword)
  BY <1>2, EncodingAssumed, SizesAssumption, ByteAssumption, EncP!SuccessVerifies
     DEF EncodingInv
<1>4. QED
  BY <1>3, VerifiesIs

LEMMA OpenStarts == ASSUME Init PROVE OpenInv
BY RoundTripStarts DEF RoundTripInv, EncodingInv, OpenInv, Init, Idle

LEMMA EncodeOpens == ASSUME OpenInv, Encode PROVE OpenInv'
<1>1. Encoding!Step \/ Encoding!Crash
  BY DEF Encode
<1>2. Idle' /\ attempts' = attempts
  BY <1>1, EncodingRuns DEF Encode, OpenInv, Idle
<1>3. EncP!SealInv' /\ UNCHANGED src /\ (~eUnnoticed' => EncP!LeftInv')
  BY <1>1, EncodingMoves DEF OpenInv
<1>4. QED
  BY <1>2, <1>3 DEF OpenInv

LEMMA StartDecodeOpens == ASSUME OpenInv, StartDecode PROVE OpenInv'
<1>1. /\ ~Encoding!Running /\ eDisk # NoFile /\ UNCHANGED encodingVars
      /\ attempts' = attempts + 1 /\ dFile' = eDisk
      /\ dResult' = "none" /\ dUnnoticed' = FALSE
  BY DEF StartDecode
<1>2. UNCHANGED <<ePc, src, eDisk, eUnnoticed>>
  BY <1>1 DEF encodingVars
<1>3. EncP!SealInv' /\ (~eUnnoticed' => EncP!LeftInv')
  BY <1>1, <1>2, EncodingStays DEF OpenInv
<1>4. attempts' \in Nat /\ ~Idle' /\ ~Encoding!Running'
  BY <1>1, <1>2 DEF OpenInv, Idle, Encoding!Running
<1>5. ~eUnnoticed => CalmP!PlainInv' /\ CalmP!CalmInv'
  BY <1>1, WhatIsLeft, CalmStarts DEF OpenInv, EncodingInv
<1>6. QED
  BY <1>1, <1>2, <1>3, <1>4, <1>5 DEF OpenInv

LEMMA DecodeOpens == ASSUME OpenInv, Decode PROVE OpenInv'
<1>1. /\ ~Idle /\ ~Encoding!Running /\ eDisk # NoFile
      /\ UNCHANGED <<attempts, calm>> /\ UNCHANGED encodingVars
  BY DEF Decode, OpenInv
<1>2. UNCHANGED <<ePc, src, eDisk, eUnnoticed>>
  BY <1>1 DEF encodingVars
<1>3. EncP!SealInv' /\ (~eUnnoticed' => EncP!LeftInv')
  BY <1>1, <1>2, EncodingStays DEF OpenInv
<1>4. ~Idle' /\ ~Encoding!Running'
  BY <1>1, <1>2 DEF Idle, Encoding!Running
<1>5. ASSUME ~eUnnoticed, calm
      PROVE  /\ CalmP!PlainInv' /\ CalmP!CalmInv' /\ ~dUnnoticed'
             /\ dFile' = dFile /\ dFile = eDisk /\ (dResult' = "0" => dDisk' = src)
  <2>1. /\ dFile = eDisk /\ ~dUnnoticed /\ CalmP!PlainInv /\ CalmP!CalmInv
        /\ CalmDecoding!Step
    BY <1>1, <1>5 DEF OpenInv, Decode
  <2>2. Verifies(dFile, dPassword) => EncP!SealsText(dFile, dPassword, src)
    BY <1>1, <1>5, <2>1, WhatIsLeft DEF OpenInv, EncodingInv
  <2>3. CalmP!PlainInv' /\ CalmP!CalmInv' /\ ~dUnnoticed' /\ HandsOver
    BY <2>1, <2>2, CalmMoves
  <2>4. QED
    BY <2>1, <2>3 DEF HandsOver
<1>6. QED
  BY <1>1, <1>2, <1>3, <1>4, <1>5 DEF OpenInv

LEMMA StutterOpens == ASSUME OpenInv, UNCHANGED vars PROVE OpenInv'
<1>1. UNCHANGED encodingVars /\ UNCHANGED decodingVars /\ UNCHANGED <<attempts, calm>>
  BY DEF vars
<1>2. UNCHANGED <<ePc, src, eDisk, eUnnoticed, dFile, dDisk, dResult, dUnnoticed>>
  BY <1>1 DEF encodingVars, decodingVars
<1>3. EncP!SealInv' /\ (~eUnnoticed' => EncP!LeftInv')
  BY <1>1, <1>2, EncodingStays DEF OpenInv
<1>4. CalmP!PlainInv /\ CalmP!CalmInv => CalmP!PlainInv' /\ CalmP!CalmInv'
  BY <1>1, CalmStays
<1>5. (Encoding!Running' <=> Encoding!Running) /\ (Idle' <=> Idle)
  BY <1>1, <1>2 DEF Encoding!Running, Idle
<1>6. QED
  BY <1>1, <1>2, <1>3, <1>4, <1>5 DEF OpenInv

LEMMA OpenKept == ASSUME OpenInv, [Next]_vars PROVE OpenInv'
BY EncodeOpens, StartDecodeOpens, DecodeOpens, StutterOpens DEF Next, Ended

\* A decoding with the key of an encoding that returned 0, none of whose calls
\* fails, can end in no other way than with 0 and the text, whatever became of the
\* decodings before it (cipher.h:28, 43).
THEOREM RightKeyAlwaysOpens == Spec => []RightKeyOpens
<1>1. Init => OpenInv
  BY OpenStarts
<1>2. OpenInv /\ [Next]_vars => OpenInv'
  BY OpenKept
<1>3. OpenInv => RightKeyOpens
  <2>1. SUFFICES ASSUME OpenInv, eResult = "0", ~eUnnoticed, ~Idle, ~Decoding!Running,
                        calm, dPassword = ePassword
                 PROVE  dResult = "0" /\ dDisk = src
    BY DEF RightKeyOpens
  <2>2. /\ EncodingInv /\ eDisk # NoFile /\ dFile = eDisk /\ CalmP!CalmInv
        /\ dResult = "0" => dDisk = src
    BY <2>1 DEF OpenInv, EncodingInv
  <2>3. Verifies(dFile, dPassword)
    BY <2>1, <2>2, SuccessIsOpenable
  <2>4. dPc \in CalmP!Over
    BY <2>1 DEF Decoding!Running, CalmP!Over
  <2>5. dResult = "0"
    BY <2>2, <2>3, <2>4, VerifiesIs DEF CalmP!CalmInv
  <2>6. QED
    BY <2>2, <2>5
<1>4. QED
  BY <1>1, <1>2, <1>3, PTL DEF Spec
=============================================================================
