------------------------------ MODULE SealedBox ------------------------------
(***************************************************************************)
(* What "encode" and "decode" promise together, without files, streams or  *)
(* cryptography.  Encoding a text either seals it in a box or leaves a box *)
(* nobody can open.  Decoding answers "0" only after the whole text has    *)
(* been handed over, and hands over nothing unless the box is sealed and   *)
(* the key is the one it was sealed with.  A decoding that fails may have  *)
(* handed over the beginning of the text and may be tried again.           *)
(***************************************************************************)
EXTENDS Sequences, Integers

CONSTANTS Texts, Passwords, Nothing

VARIABLES
  text,       \* what is being sealed
  password,   \* the key it is sealed with
  box,        \* "open" while encoding, then "sealed" or "useless"
  attempt,    \* the key of the decoding under way
  delivered,  \* what the decoding has handed over, or Nothing
  answer      \* "none", "0" or "-1"

vars == <<text, password, box, attempt, delivered, answer>>

Beginnings == {SubSeq(text, 1, n) : n \in 0 .. Len(text)}

Init ==
  /\ text \in Texts
  /\ password \in Passwords
  /\ box = "open"
  /\ attempt \in Passwords
  /\ delivered = Nothing
  /\ answer = "none"

\* Encoding ends, one way or the other.
Close ==
  /\ box = "open"
  /\ box' \in {"sealed", "useless"}
  /\ UNCHANGED <<text, password, attempt, delivered, answer>>

MayOpen == box = "sealed" /\ attempt = password /\ answer = "none"

Deliver ==
  /\ MayOpen
  /\ delivered' \in Beginnings
  /\ UNCHANGED <<text, password, box, attempt, answer>>

Succeed ==
  /\ MayOpen
  /\ delivered' = text
  /\ answer' = "0"
  /\ UNCHANGED <<text, password, box, attempt>>

\* A refusal, or a failure on the way.
Fail ==
  /\ box # "open"
  /\ answer = "none"
  /\ answer' = "-1"
  /\ delivered' \in {delivered} \cup (IF MayOpen THEN Beginnings ELSE {})
  /\ UNCHANGED <<text, password, box, attempt>>

\* A new decoding, with the same key or another one.
Retry ==
  /\ box # "open"
  /\ attempt' \in Passwords
  /\ answer' = "none"
  /\ delivered' = Nothing
  /\ UNCHANGED <<text, password, box>>

Next == Close \/ Deliver \/ Succeed \/ Fail \/ Retry

Spec == Init /\ [][Next]_vars
=============================================================================
