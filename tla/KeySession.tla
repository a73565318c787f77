------------------------------- MODULE KeySession ------------------------------
(***************************************************************************)
(* Where a key comes from: the random bytes of keygen.c, the argument the  *)
(* user types, and the hexadecimal text the program shows.  One encode and *)
(* then one decode, which the user gives the same argument again or what   *)
(* encode has shown.                                                       *)
(*                                                                         *)
(* A character is its code.  Numbers are written with Base digits where    *)
(* the program has sixteen, so a byte is less than Base squared.           *)
(***************************************************************************)
EXTENDS Integers, Sequences

CONSTANTS
  Base,         \* digits of the notation (16)
  Digits,       \* the characters isxdigit accepts, capitals among them,
  Value,        \* the value of each,
  Printed,      \* and the character printf writes for a value
  KeyRoom,      \* bytes of the array a key is parsed into (64)
  DefaultSize,  \* DEFAULT_KEY_SIZE (32)
  Texts,        \* the arguments a user types
  RandomByte,   \* the bytes the system's generator gives
  NoKey         \* encode without a key argument

Byte == 0 .. Base * Base - 1
Stale == -1     \* what memory holds that was never written

IsHexString(text) ==
  /\ Len(text) > 0
  /\ \A k \in 1 .. Len(text) : text[k] \in Digits

\* Every even number of digits is read as bytes.
ReadAsHex(text) == Len(text) % 2 = 0 /\ IsHexString(text)

ASSUME KeyAssumption ==
  /\ Base \in Nat \ {0, 1}
  /\ Value \in [Digits -> 0 .. Base - 1]
  /\ Printed \in [0 .. Base - 1 -> Digits]
  /\ \A v \in 0 .. Base - 1 : Value[Printed[v]] = v
  /\ KeyRoom \in Nat \ {0} /\ DefaultSize \in 1 .. KeyRoom
  /\ Texts \subseteq Seq(Byte \ {0}) /\ NoKey \notin Texts
  /\ Digits \subseteq Byte \ {0}
  /\ RandomByte \subseteq Byte /\ RandomByte /= {}

VARIABLES
  command,     \* the command under way, "encode" or "decode"
  typed,       \* its key argument
  pc,          \* its next step, "done", "aborted", or "overrun": bytes of the key
               \* have gone past the array, and nothing is said of what follows
  want, back,  \* secure_random: the bytes asked for and where to go on,
  buf, got,    \* the buffer, and the bytes it has so far
  default_key, key,
  shown,       \* the key as it was shown last
  sealed       \* history: the key encode has used

call == <<want, back, buf, got>>
vars == <<command, typed, pc, call, default_key, key, shown, sealed>>

Init ==
  /\ command = "encode"
  /\ typed \in Texts \cup {NoKey}
  /\ pc = "start"
  /\ want = 0 /\ back = "start" /\ buf = <<>> /\ got = 0
  /\ default_key = [k \in 1 .. DefaultSize |-> 0]
  /\ key = <<>>
  /\ shown = <<>>
  /\ sealed = <<>>

-----------------------------------------------------------------------------
(* Random bytes *)

CallRandom(length, next) ==
  /\ pc' = "getrandom"
  /\ want' = length /\ back' = next
  /\ buf' = [k \in 1 .. length |-> Stale]
  /\ got' = 0

\* Mutant of FillAt: the bytes go to the beginning of the buffer.
FillFirst(length) ==
  \E bytes \in [1 .. length -> RandomByte] :
    buf' = [k \in 1 .. want |-> IF k \in 1 .. length THEN bytes[k] ELSE buf[k]]

\* The next bytes of the buffer are written.
FillAt(length) ==
  \E bytes \in [1 .. length -> RandomByte] :
    buf' = [k \in 1 .. want |-> IF k \in got + 1 .. got + length THEN bytes[k - got] ELSE buf[k]]

\* getrandom gives all that was asked for, less of it, nothing, or fails.
Getrandom ==
  /\ pc = "getrandom"
  /\ \E result \in -1 .. want :
       IF result > 0
       THEN FillAt(result) /\ got' = result /\ pc' = IF result = want THEN "filled" ELSE "fopen"
       ELSE UNCHANGED <<buf, got>> /\ pc' = "fopen"
  /\ UNCHANGED <<command, typed, want, back, default_key, key, shown, sealed>>

\* /dev/urandom may be missing.
OpenUrandom ==
  /\ pc = "fopen"
  /\ pc' \in {"fread", "aborted"}
  /\ UNCHANGED <<command, typed, call, default_key, key, shown, sealed>>

\* Mutant of ReadUrandom: bytes_read is not advanced.
ReadUrandomAgain ==
  /\ pc = "fread" /\ got < want
  /\ \E length \in 0 .. want - got :
       IF length = 0 THEN pc' = "aborted" /\ UNCHANGED <<buf, got>>
       ELSE pc' = pc /\ FillAt(length) /\ got' = got
  /\ UNCHANGED <<command, typed, want, back, default_key, key, shown, sealed>>

\* Each turn gives something, or ends the program.
ReadUrandom ==
  /\ pc = "fread" /\ got < want
  /\ \E length \in 0 .. want - got :
       IF length = 0 THEN pc' = "aborted" /\ UNCHANGED <<buf, got>>
       ELSE pc' = pc /\ FillAt(length) /\ got' = got + length
  /\ UNCHANGED <<command, typed, want, back, default_key, key, shown, sealed>>

CloseUrandom ==
  /\ pc = "fread" /\ got >= want
  /\ pc' = "filled"
  /\ UNCHANGED <<command, typed, call, default_key, key, shown, sealed>>

-----------------------------------------------------------------------------
(* The commands *)

\* crypto_init_default_key, before the command line is looked at.
Start ==
  /\ pc = "start"
  /\ CallRandom(DefaultSize, "arguments")
  /\ UNCHANGED <<command, typed, default_key, key, shown, sealed>>

KeepDefault ==
  /\ pc = "filled" /\ back = "arguments"
  /\ default_key' = buf
  /\ pc' = "arguments"
  /\ UNCHANGED <<command, typed, call, key, shown, sealed>>

HexToBytes(text) ==
  [k \in 1 .. Len(text) \div 2 |-> Base * Value[text[2 * k - 1]] + Value[text[2 * k]]]

Cut(text) == SubSeq(text, 1, IF Len(text) > KeyRoom THEN KeyRoom ELSE Len(text))

PrepareKey(text) == IF ReadAsHex(text) THEN HexToBytes(text) ELSE Cut(text)

\* Mutant of DecodeKey: decode takes a text key as long as it is.
DecodeKeyUncut(text) == IF ReadAsHex(text) THEN HexToBytes(text) ELSE text

\* decode has the parser again, written a second time.  Neither compares the bytes
\* of a hexadecimal text with the room there is.
DecodeKey(text) == IF ReadAsHex(text) THEN HexToBytes(text) ELSE Cut(text)

TypedKey ==
  /\ pc = "arguments" /\ typed /= NoKey
  /\ key' = IF command = "encode" THEN PrepareKey(typed) ELSE DecodeKey(typed)
  /\ pc' = IF Len(key') <= KeyRoom THEN "show" ELSE "overrun"
  /\ UNCHANGED <<command, typed, call, default_key, shown, sealed>>

RandomKey ==
  /\ pc = "arguments" /\ typed = NoKey
  /\ CallRandom(DefaultSize, "show")
  /\ UNCHANGED <<command, typed, default_key, key, shown, sealed>>

KeepRandom ==
  /\ pc = "filled" /\ back = "show"
  /\ key' = buf
  /\ pc' = "show"
  /\ UNCHANGED <<command, typed, call, default_key, shown, sealed>>

\* Mutant of Notation: the lower digit is written first.
NotationReversed(byte) == <<Printed[byte % Base], Printed[byte \div Base]>>

\* "%02x"
Notation(byte) == <<Printed[byte \div Base], Printed[byte % Base]>>

Shown(bytes) ==
  [k \in 1 .. 2 * Len(bytes) |-> Notation(bytes[(k + 1) \div 2])[IF k % 2 = 1 THEN 1 ELSE 2]]

\* The key is shown, and the cipher works with it.
ShowKey ==
  /\ pc = "show"
  /\ shown' = Shown(key)
  /\ sealed' = IF command = "encode" THEN key ELSE sealed
  /\ pc' = "done"
  /\ UNCHANGED <<command, typed, call, default_key, key>>

\* The user decodes, with what was typed before or with what was shown.
Decode ==
  /\ command = "encode" /\ pc = "done"
  /\ command' = "decode"
  /\ typed' \in {typed, shown} \ {NoKey}
  /\ pc' = "start"
  /\ want' = 0 /\ back' = "start" /\ buf' = <<>> /\ got' = 0
  /\ default_key' = [k \in 1 .. DefaultSize |-> 0]
  /\ key' = <<>>
  /\ UNCHANGED <<shown, sealed>>

Finished ==
  /\ pc \in {"aborted", "overrun"} \/ (command = "decode" /\ pc = "done")
  /\ UNCHANGED vars

Running ==
  \/ Getrandom \/ OpenUrandom \/ ReadUrandom \/ CloseUrandom
  \/ Start \/ KeepDefault \/ TypedKey \/ RandomKey \/ KeepRandom \/ ShowKey

Next == Running \/ Decode \/ Finished

\* A program that can go on does; the user need not decode.
Fairness == WF_vars(Running)

Spec == Init /\ [][Next]_vars /\ Fairness

-----------------------------------------------------------------------------
(* Properties *)

\* Type correctness: no byte is taken for a key that was not written, and a key that
\* is shown and used lies within its array.  A key that does not is that of a
\* hexadecimal argument with more digits than the array has room for, which nothing
\* refuses (args.c:43-51, 155, 201): a text of another kind is cut (args.c:77-80).
TypeOK ==
  /\ command \in {"encode", "decode"}
  /\ typed \in Seq(Byte \ {0}) \/ typed = NoKey
  /\ pc \in {"start", "getrandom", "fopen", "fread", "filled", "arguments", "show", "done",
             "aborted", "overrun"}
  /\ want \in Nat /\ got \in 0 .. want /\ back \in {"start", "arguments", "show"}
  /\ buf \in [1 .. want -> Byte \cup {Stale}]
  /\ default_key \in [1 .. DefaultSize -> Byte]
  /\ key \in Seq(Byte) /\ (Len(key) > KeyRoom <=> pc = "overrun")
  /\ pc = "overrun" => (typed \in Seq(Digits) /\ Len(typed) > 2 * KeyRoom)
  /\ shown \in Seq(Digits)
  /\ sealed \in Seq(Byte)

\* Whatever getrandom leaves undone, /dev/urandom adds behind it: when
\* secure_random succeeds every byte of the buffer has been drawn.
RandomIsWhole ==
  pc = "filled" => \A k \in 1 .. want : buf[k] \in RandomByte

\* Once encode has used a key, decode works with the same one, given the argument
\* encode was given or the text encode has shown: what is typed, cut, parsed twice
\* and printed names one key.  And decode stays within its array then: only an
\* argument with which encode has left its own does otherwise (args.c:70-97,
\* 205-213; utils.c:27-33).
KeyReopens ==
  command = "decode" => (pc /= "overrun" /\ (pc = "done" => key = sealed))

\* Every command ends, as far as the program goes on being defined: each turn of the
\* loop takes some of the bytes wanted or gives up.
EventuallyEnds == pc = "start" ~> pc \in {"done", "aborted", "overrun"}
=============================================================================
