---------------------------- MODULE MCShredFile ----------------------------
(***************************************************************************)
(* Instances of ShredFile for TLC: files of up to MaxSize cells, which are *)
(* less than a chunk, a whole number of chunks and a part more.            *)
(***************************************************************************)
EXTENDS ShredFile

CONSTANT MaxSize

MCSizes == 0 .. MaxSize
=============================================================================
