----------------------------- MODULE MCRoundTrip -----------------------------
(***************************************************************************)
(* Instances of RoundTrip for TLC: texts up to MaxLength bytes, so that    *)
(* they end in every phase of a block and cross a chunk, with an arbitrary *)
(* last byte, and two keys.                                                *)
(***************************************************************************)
EXTENDS RoundTrip

CONSTANTS MaxLength, PlainByte

MCByte == 0 .. BlockSize

MCTexts ==
  {<<>>} \cup UNION {{Append([i \in 1 .. n - 1 |-> i % (BlockSize + 1)], last)
                      : last \in PlainByte} : n \in 1 .. MaxLength}
=============================================================================
