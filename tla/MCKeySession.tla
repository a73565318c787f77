------------------------------ MODULE MCKeySession -----------------------------
(***************************************************************************)
(* The instance of KeySession for TLC: three digits, the last of them with *)
(* a capital, and one character that is no digit.                          *)
(***************************************************************************)
EXTENDS KeySession, TLC

CONSTANTS Others, MaxText

MCValue == (1 :> 0) @@ (2 :> 1) @@ (3 :> 2) @@ (4 :> 2)
MCPrinted == (0 :> 1) @@ (1 :> 2) @@ (2 :> 3)

MCTexts == UNION {[1 .. n -> Digits \cup Others] : n \in 0 .. MaxText}
=============================================================================
