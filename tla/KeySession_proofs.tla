--------------------------- MODULE KeySession_proofs ---------------------------
(***************************************************************************)
(* Proofs about KeySession, for every notation, key array and argument.    *)
(***************************************************************************)
EXTENDS KeySession, TLAPS

-----------------------------------------------------------------------------
(* Parsing and printing *)

\* A number below the square of the base has two digits.
LEMMA DigitsOf ==
  ASSUME NEW B \in Nat, B > 1, NEW b \in 0 .. B * B - 1
  PROVE  /\ b \div B \in 0 .. B - 1 /\ b % B \in 0 .. B - 1
         /\ B * (b \div B) + (b % B) = b
<1>1. B * (b \div B) + (b % B) = b
  OBVIOUS
<1>2. b % B \in 0 .. B - 1
  OBVIOUS
<1>3. b \div B \in Int
  OBVIOUS
<1>4. b \div B >= 0
  BY <1>1, <1>2, <1>3
<1>5. b \div B < B
  BY <1>1, <1>2, <1>3
<1> QED BY <1>1, <1>2, <1>3, <1>4, <1>5

\* A byte is made of its two digits.
LEMMA TwoDigits ==
  ASSUME NEW b \in Byte
  PROVE  /\ b \div Base \in 0 .. Base - 1 /\ b % Base \in 0 .. Base - 1
         /\ Base * (b \div Base) + (b % Base) = b
<1>1. Base \in Nat /\ Base > 1
  BY KeyAssumption
<1>2. b \in 0 .. Base * Base - 1
  BY DEF Byte
<1> QED BY <1>1, <1>2, DigitsOf

\* Two digits make a byte.
LEMMA DigitsMakeByte ==
  ASSUME NEW v \in 0 .. Base - 1, NEW w \in 0 .. Base - 1
  PROVE  Base * v + w \in Byte
<1>0. Base \in Nat /\ Base > 1
  BY KeyAssumption
<1>1. Base * v <= Base * (Base - 1)
  BY <1>0
<1> QED BY <1>0, <1>1 DEF Byte

\* An argument as the user may type it.
IsText(text) == text \in Seq(Byte \ {0})

\* What a parser makes of it are bytes.
LEMMA ParsedKeyIsBytes ==
  ASSUME NEW text, IsText(text)
  PROVE  DecodeKey(text) \in Seq(Byte)
<1>0. text \in Seq(Byte \ {0}) /\ KeyRoom \in Nat /\ Base \in Nat
  BY KeyAssumption DEF IsText
<1>1. CASE ReadAsHex(text)
  <2>1. Len(text) % 2 = 0 /\ Len(text) \in Nat
    BY <1>0, <1>1 DEF ReadAsHex
  <2>2. Len(text) \div 2 \in Nat
    BY <1>0, <2>1
  <2>3. ASSUME NEW k \in 1 .. Len(text) \div 2
        PROVE  Base * Value[text[2 * k - 1]] + Value[text[2 * k]] \in Byte
    <3>1. 2 * k - 1 \in 1 .. Len(text) /\ 2 * k \in 1 .. Len(text)
      BY <2>1, <2>2
    <3>2. text[2 * k - 1] \in Digits /\ text[2 * k] \in Digits
      BY <1>1, <3>1 DEF ReadAsHex, IsHexString
    <3> QED BY <3>2, KeyAssumption, DigitsMakeByte
  <2>4. HexToBytes(text) \in [1 .. Len(text) \div 2 -> Byte]
    BY <2>3 DEF HexToBytes
  <2>5. HexToBytes(text) \in Seq(Byte)
    BY <2>2, <2>4
  <2> QED BY <1>1, <2>5 DEF DecodeKey
<1>2. CASE ~ReadAsHex(text)
  <2>1. Cut(text) \in Seq(Byte)
    BY <1>0 DEF Cut
  <2> QED BY <1>2, <2>1 DEF DecodeKey
<1> QED BY <1>1, <1>2

\* Only a hexadecimal text of more digits than fit makes a key that does not fit.
LEMMA OverrunIsHex ==
  ASSUME NEW text, IsText(text), Len(DecodeKey(text)) > KeyRoom
  PROVE  text \in Seq(Digits) /\ Len(text) > 2 * KeyRoom
<1>0. text \in Seq(Byte \ {0}) /\ KeyRoom \in Nat /\ Len(text) \in Nat
  BY KeyAssumption DEF IsText
<1>1. CASE ReadAsHex(text)
  <2>1. Len(text) % 2 = 0 /\ \A k \in 1 .. Len(text) : text[k] \in Digits
    BY <1>1 DEF ReadAsHex, IsHexString
  <2>2. text \in Seq(Digits)
    BY <1>0, <2>1
  <2>3. Len(text) \div 2 \in Nat /\ Len(text) = 2 * (Len(text) \div 2)
    BY <1>0, <2>1
  <2>4. Len(HexToBytes(text)) = Len(text) \div 2
    BY <2>3 DEF HexToBytes
  <2> QED BY <1>0, <1>1, <2>2, <2>3, <2>4 DEF DecodeKey
<1>2. CASE ~ReadAsHex(text)
  <2>1. Len(Cut(text)) <= KeyRoom
    BY <1>0 DEF Cut
  <2>2. Len(Cut(text)) \in Nat
    BY <1>0 DEF Cut
  <2> QED BY <1>0, <1>2, <2>1, <2>2 DEF DecodeKey
<1> QED BY <1>1, <1>2

\* The text a key is shown as is an argument, and names that key.
LEMMA ShownKeyParses ==
  ASSUME NEW bytes \in Seq(Byte), Len(bytes) <= KeyRoom
  PROVE  Shown(bytes) \in Seq(Digits) /\ IsText(Shown(bytes)) /\ DecodeKey(Shown(bytes)) = bytes
<1> DEFINE text == Shown(bytes)
<1>0. Len(bytes) \in Nat /\ KeyRoom \in Nat
  BY KeyAssumption
<1>1. ASSUME NEW k \in 1 .. 2 * Len(bytes)
      PROVE  (k + 1) \div 2 \in 1 .. Len(bytes) /\ text[k] \in Digits
  <2>1. (k + 1) \div 2 \in 1 .. Len(bytes)
    BY <1>0
  <2>2. bytes[(k + 1) \div 2] \in Byte
    BY <2>1
  <2>3. /\ Printed[bytes[(k + 1) \div 2] \div Base] \in Digits
        /\ Printed[bytes[(k + 1) \div 2] % Base] \in Digits
    BY <2>2, TwoDigits, KeyAssumption
  <2>4. text[k] = IF k % 2 = 1 THEN Printed[bytes[(k + 1) \div 2] \div Base]
                  ELSE Printed[bytes[(k + 1) \div 2] % Base]
    BY DEF Shown, Notation
  <2> QED BY <2>1, <2>3, <2>4
<1>2. text \in Seq(Digits) /\ Len(text) = 2 * Len(bytes)
  <2>1. text = [k \in 1 .. 2 * Len(bytes) |-> text[k]]
    BY DEF Shown
  <2>2. text \in [1 .. 2 * Len(bytes) -> Digits]
    BY <1>1, <2>1
  <2> QED BY <1>0, <2>2
<1>3. IsText(text)
  BY <1>2, KeyAssumption DEF IsText
<1>4. DecodeKey(text) = bytes
  <2>1. CASE Len(bytes) = 0
    <3>1. text = <<>> /\ bytes = <<>>
      BY <1>2, <2>1
    <3>2. ~ReadAsHex(text)
      BY <3>1 DEF ReadAsHex, IsHexString
    <3>3. Cut(text) = <<>>
      BY <1>0, <3>1 DEF Cut
    <3> QED BY <3>1, <3>2, <3>3 DEF DecodeKey
  <2>2. CASE Len(bytes) > 0
    <3>1. ReadAsHex(text)
      BY <1>0, <1>1, <1>2, <2>2 DEF ReadAsHex, IsHexString
    <3>2. Len(text) \div 2 = Len(bytes)
      BY <1>0, <1>2
    <3>3. ASSUME NEW k \in 1 .. Len(bytes)
          PROVE  Base * Value[text[2 * k - 1]] + Value[text[2 * k]] = bytes[k]
      <4>0. bytes[k] \in Byte
        OBVIOUS
      <4>1. 2 * k - 1 \in 1 .. 2 * Len(bytes) /\ ((2 * k - 1) + 1) \div 2 = k /\ (2 * k - 1) % 2 = 1
        BY <1>0
      <4>2. 2 * k \in 1 .. 2 * Len(bytes) /\ (2 * k + 1) \div 2 = k /\ (2 * k) % 2 = 0
        BY <1>0
      <4>3. text[2 * k - 1] = Printed[bytes[k] \div Base]
        BY <4>1 DEF Shown, Notation
      <4>4. text[2 * k] = Printed[bytes[k] % Base]
        BY <4>2 DEF Shown, Notation
      <4>5. Value[text[2 * k - 1]] = bytes[k] \div Base /\ Value[text[2 * k]] = bytes[k] % Base
        BY <4>0, <4>3, <4>4, TwoDigits, KeyAssumption
      <4> QED BY <4>0, <4>5, TwoDigits
    <3>4. HexToBytes(text) = [k \in 1 .. Len(bytes) |-> bytes[k]]
      BY <3>2, <3>3 DEF HexToBytes
    <3>5. HexToBytes(text) = bytes
      BY <3>4
    <3> QED BY <3>1, <3>5 DEF DecodeKey
  <2> QED BY <1>0, <2>1, <2>2
<1> QED BY <1>2, <1>3, <1>4

-----------------------------------------------------------------------------
(* The inductive invariant *)

Drawing == {"getrandom", "fopen", "fread", "filled"}

\* The bytes the buffer has so far were drawn.
BufferInv ==
  /\ pc \in Drawing => want = DefaultSize /\ back \in {"arguments", "show"}
  /\ \A k \in 1 .. got : buf[k] \in RandomByte
  /\ pc = "getrandom" => got = 0
  /\ pc = "filled" => got = want

\* The argument, the key and what was shown name the same bytes; those that decode
\* is given have had room before.
KeyInv ==
  /\ typed = NoKey \/ IsText(typed)
  /\ command = "decode" =>
       /\ typed /= NoKey /\ DecodeKey(typed) = sealed
       /\ Len(sealed) <= KeyRoom /\ pc /= "overrun"
  /\ pc \in Drawing /\ back = "show" => typed = NoKey
  /\ pc \in {"show", "done"} /\ typed /= NoKey => key = DecodeKey(typed)
  /\ command = "encode" /\ pc = "done" => sealed = key /\ shown = Shown(key)

IInv == TypeOK /\ BufferInv /\ KeyInv

\* The invariant holds initially.
LEMMA KeyInit == Init => IInv
<1> SUFFICES ASSUME Init PROVE IInv
  OBVIOUS
<1> USE DEF Init
<1>1. typed = NoKey \/ IsText(typed)
  BY KeyAssumption DEF IsText
<1>2. 0 \in Byte /\ DefaultSize \in Nat /\ KeyRoom \in Nat
  BY KeyAssumption DEF Byte
<1>3. TypeOK
  BY <1>1, <1>2 DEF TypeOK, IsText
<1>4. BufferInv
  BY DEF BufferInv, Drawing
<1>5. KeyInv
  BY <1>1 DEF KeyInv, Drawing
<1> QED BY <1>3, <1>4, <1>5 DEF IInv

\* Bytes are written behind those that are there.
LEMMA FillAtAdds ==
  ASSUME IInv, NEW length \in 0 .. want - got, FillAt(length)
  PROVE  /\ buf' \in [1 .. want -> Byte \cup {Stale}]
         /\ \A k \in 1 .. got + length : buf'[k] \in RandomByte
<1>0. /\ want \in Nat /\ got \in 0 .. want /\ buf \in [1 .. want -> Byte \cup {Stale}]
      /\ \A k \in 1 .. got : buf[k] \in RandomByte
  BY DEF IInv, TypeOK, BufferInv
<1>1. PICK bytes \in [1 .. length -> RandomByte] :
        buf' = [k \in 1 .. want |-> IF k \in got + 1 .. got + length
                                    THEN bytes[k - got] ELSE buf[k]]
  BY DEF FillAt
<1>2. \A k \in got + 1 .. got + length : bytes[k - got] \in RandomByte
  BY <1>0
<1> QED BY <1>0, <1>1, <1>2, KeyAssumption

\* A call of secure_random starts with nothing drawn.
LEMMA CallRandomStarts ==
  ASSUME IInv, NEW next \in {"arguments", "show"}, CallRandom(DefaultSize, next)
  PROVE  /\ pc' = "getrandom" /\ back' = next
         /\ want' \in Nat /\ got' \in 0 .. want' /\ buf' \in [1 .. want' -> Byte \cup {Stale}]
         /\ BufferInv'
<1>0. DefaultSize \in Nat
  BY KeyAssumption
<1> QED BY <1>0 DEF CallRandom, BufferInv, Drawing

\* Every step keeps the invariant.
LEMMA KeyNext == IInv /\ [Next]_vars => IInv'
<1> SUFFICES ASSUME IInv, [Next]_vars PROVE IInv'
  OBVIOUS
<1>0. /\ DefaultSize \in Nat /\ DefaultSize <= KeyRoom /\ KeyRoom \in Nat /\ 0 \in Byte
      /\ RandomByte \subseteq Byte
  BY KeyAssumption DEF Byte
<1>a. TypeOK /\ BufferInv /\ KeyInv
  BY DEF IInv
<1>1. CASE Getrandom
  <2>1. PICK result \in -1 .. want :
          IF result > 0
          THEN FillAt(result) /\ got' = result /\ pc' = IF result = want THEN "filled" ELSE "fopen"
          ELSE UNCHANGED <<buf, got>> /\ pc' = "fopen"
    BY <1>1 DEF Getrandom
  <2>2. want \in Nat /\ got = 0 /\ want = DefaultSize /\ back \in {"arguments", "show"}
    BY <1>a, <1>1 DEF Getrandom, TypeOK, BufferInv, Drawing
  <2>3. TypeOK' /\ BufferInv'
    <3>1. CASE result > 0
      <4>1. result \in 0 .. want - got
        BY <2>2, <3>1
      <4>2. /\ buf' \in [1 .. want -> Byte \cup {Stale}]
            /\ \A k \in 1 .. got + result : buf'[k] \in RandomByte
        BY <2>1, <3>1, <4>1, FillAtAdds
      <4>3. /\ pc' \in {"filled", "fopen"} /\ got' = result /\ want' = want
            /\ (pc' = "filled" => result = want)
        BY <1>1, <2>1, <3>1 DEF Getrandom
      <4>4. TypeOK'
        BY <1>a, <1>1, <2>2, <4>1, <4>2, <4>3 DEF Getrandom, TypeOK
      <4>5. BufferInv'
        BY <1>1, <2>2, <4>1, <4>2, <4>3 DEF Getrandom, BufferInv, Drawing
      <4> QED BY <4>4, <4>5
    <3>2. CASE ~(result > 0)
      BY <1>a, <1>1, <2>1, <2>2, <3>2 DEF Getrandom, TypeOK, BufferInv, Drawing
    <3> QED BY <3>1, <3>2
  <2>4. KeyInv'
    BY <1>a, <1>1, <2>1 DEF Getrandom, KeyInv, Drawing, IsText
  <2> QED BY <2>3, <2>4 DEF IInv
<1>2. CASE OpenUrandom
  BY <1>a, <1>2 DEF OpenUrandom, call, IInv, TypeOK, BufferInv, KeyInv, Drawing, IsText
<1>3. CASE ReadUrandom
  <2>1. PICK length \in 0 .. want - got :
          IF length = 0 THEN pc' = "aborted" /\ UNCHANGED <<buf, got>>
          ELSE pc' = pc /\ FillAt(length) /\ got' = got + length
    BY <1>3 DEF ReadUrandom
  <2>2. /\ want \in Nat /\ got \in 0 .. want /\ want = DefaultSize
        /\ back \in {"arguments", "show"} /\ pc = "fread" /\ want' = want /\ back' = back
    BY <1>a, <1>3 DEF ReadUrandom, TypeOK, BufferInv, Drawing
  <2>3. TypeOK' /\ BufferInv'
    <3>1. CASE length = 0
      BY <1>a, <1>3, <2>1, <2>2, <3>1 DEF ReadUrandom, TypeOK, BufferInv, Drawing
    <3>2. CASE length /= 0
      <4>1. /\ buf' \in [1 .. want -> Byte \cup {Stale}]
            /\ \A k \in 1 .. got + length : buf'[k] \in RandomByte
        BY <2>1, <3>2, FillAtAdds
      <4>2. got' = got + length /\ got' \in 0 .. want /\ pc' = "fread"
        BY <2>1, <2>2, <3>2
      <4>3. TypeOK'
        BY <1>a, <1>3, <2>2, <4>1, <4>2 DEF ReadUrandom, TypeOK
      <4>4. BufferInv'
        BY <2>2, <4>1, <4>2 DEF BufferInv, Drawing
      <4> QED BY <4>3, <4>4
    <3> QED BY <3>1, <3>2
  <2>4. KeyInv'
    BY <1>a, <1>3, <2>1, <2>2 DEF ReadUrandom, KeyInv, Drawing, IsText
  <2> QED BY <2>3, <2>4 DEF IInv
<1>4. CASE CloseUrandom
  BY <1>a, <1>4 DEF CloseUrandom, call, IInv, TypeOK, BufferInv, KeyInv, Drawing, IsText
<1>5. CASE Start
  <2>1. /\ pc' = "getrandom" /\ back' = "arguments"
        /\ want' \in Nat /\ got' \in 0 .. want' /\ buf' \in [1 .. want' -> Byte \cup {Stale}]
        /\ BufferInv'
    BY <1>5, CallRandomStarts DEF Start
  <2>2. TypeOK' /\ KeyInv'
    BY <1>a, <1>5, <2>1 DEF Start, TypeOK, KeyInv, Drawing, IsText
  <2> QED BY <2>1, <2>2 DEF IInv
<1>6. CASE KeepDefault
  <2>1. buf \in [1 .. DefaultSize -> Byte]
    BY <1>0, <1>a, <1>6 DEF KeepDefault, TypeOK, BufferInv, Drawing
  <2> QED
    BY <1>a, <1>6, <2>1 DEF KeepDefault, call, IInv, TypeOK, BufferInv, KeyInv, Drawing, IsText
<1>7. CASE TypedKey
  <2>1. IsText(typed) /\ key' = DecodeKey(typed)
    BY <1>a, <1>7 DEF TypedKey, KeyInv, PrepareKey, DecodeKey
  <2>2. key' \in Seq(Byte)
    BY <2>1, ParsedKeyIsBytes
  <2>3. pc' \in {"show", "overrun"} /\ (Len(key') > KeyRoom <=> pc' = "overrun")
    BY <1>0, <1>7, <2>2 DEF TypedKey
  <2>8. pc' = "overrun" => (typed \in Seq(Digits) /\ Len(typed) > 2 * KeyRoom)
    BY <2>1, <2>3, OverrunIsHex
  <2>4. TypeOK'
    BY <1>a, <1>7, <2>2, <2>3, <2>8 DEF TypedKey, call, TypeOK
  <2>5. BufferInv'
    BY <1>a, <1>7, <2>3 DEF TypedKey, call, BufferInv, Drawing
  <2>6. command = "decode" => pc' /= "overrun"
    BY <1>0, <1>a, <2>1, <2>2, <2>3 DEF KeyInv
  <2>7. KeyInv'
    BY <1>a, <1>7, <2>1, <2>3, <2>6 DEF TypedKey, call, KeyInv, Drawing, IsText
  <2> QED BY <2>4, <2>5, <2>7 DEF IInv
<1>8. CASE RandomKey
  <2>1. /\ pc' = "getrandom" /\ back' = "show"
        /\ want' \in Nat /\ got' \in 0 .. want' /\ buf' \in [1 .. want' -> Byte \cup {Stale}]
        /\ BufferInv'
    BY <1>8, CallRandomStarts DEF RandomKey
  <2>2. TypeOK' /\ KeyInv'
    BY <1>a, <1>8, <2>1 DEF RandomKey, TypeOK, KeyInv, Drawing, IsText
  <2> QED BY <2>1, <2>2 DEF IInv
<1>9. CASE KeepRandom
  <2>1. buf \in [1 .. DefaultSize -> Byte]
    BY <1>0, <1>a, <1>9 DEF KeepRandom, TypeOK, BufferInv, Drawing
  <2>2. buf \in Seq(Byte) /\ ~(Len(buf) > KeyRoom)
    BY <1>0, <2>1
  <2> QED
    BY <1>a, <1>9, <2>2 DEF KeepRandom, call, IInv, TypeOK, BufferInv, KeyInv, Drawing, IsText
<1>10. CASE ShowKey
  <2>0. key \in Seq(Byte) /\ Len(key) <= KeyRoom
    <3>1. key \in Seq(Byte) /\ ~(Len(key) > KeyRoom)
      BY <1>a, <1>10 DEF TypeOK, ShowKey
    <3> QED BY <1>0, <3>1
  <2>1. Shown(key) \in Seq(Digits)
    BY <2>0, ShownKeyParses
  <2>2. TypeOK'
    BY <1>a, <1>10, <2>1 DEF ShowKey, call, TypeOK
  <2>3. BufferInv'
    BY <1>a, <1>10 DEF ShowKey, call, BufferInv, Drawing
  <2>4. KeyInv'
    BY <1>a, <1>10 DEF ShowKey, call, KeyInv, Drawing, IsText, TypeOK
  <2> QED BY <2>2, <2>3, <2>4 DEF IInv
<1>11. CASE Decode
  <2>1. /\ typed' /= NoKey /\ IsText(typed') /\ DecodeKey(typed') = sealed'
        /\ Len(sealed') <= KeyRoom
    <3>0. key \in Seq(Byte) /\ Len(key) <= KeyRoom /\ sealed = key /\ shown = Shown(key)
      <4>1. key \in Seq(Byte) /\ ~(Len(key) > KeyRoom) /\ sealed = key /\ shown = Shown(key)
        BY <1>a, <1>11 DEF Decode, TypeOK, KeyInv
      <4> QED BY <1>0, <4>1
    <3>1. CASE typed' = typed
      BY <1>a, <1>11, <3>0, <3>1 DEF Decode, KeyInv
    <3>2. CASE typed' = shown
      BY <1>11, <3>0, <3>2, ShownKeyParses DEF Decode
    <3> QED BY <1>11, <3>1, <3>2 DEF Decode
  <2>2. TypeOK'
    BY <1>0, <1>a, <1>11, <2>1 DEF Decode, TypeOK, IsText
  <2>3. BufferInv'
    BY <1>11 DEF Decode, BufferInv, Drawing
  <2>4. KeyInv'
    BY <1>11, <2>1 DEF Decode, KeyInv, Drawing
  <2> QED BY <2>2, <2>3, <2>4 DEF IInv
<1>12. CASE UNCHANGED vars
  BY <1>a, <1>12 DEF vars, call, IInv, TypeOK, BufferInv, KeyInv, Drawing, IsText
<1> QED
  BY <1>1, <1>2, <1>3, <1>4, <1>5, <1>6, <1>7, <1>8, <1>9, <1>10, <1>11, <1>12
  DEF Next, Running, Finished

-----------------------------------------------------------------------------
(* The theorems *)

\* The invariant holds in every state.
LEMMA KeyIsInvariant == Spec => []IInv
<1> QED BY KeyInit, KeyNext, PTL DEF Spec

\* For every notation, room and argument: a key leaves its array only when it is given
\* as more hexadecimal digits than the array has room for, and is then neither shown
\* nor used; nothing unwritten is a byte of one (args.c:43-51, 74-80, 155).
THEOREM KeyTypes == Spec => []TypeOK
<1>1. IInv => TypeOK
  BY DEF IInv
<1> QED BY <1>1, KeyIsInvariant, PTL

\* When secure_random succeeds the whole buffer has been drawn, however the
\* system calls shared the work.
THEOREM RandomBytesWhole == Spec => []RandomIsWhole
<1>1. IInv => RandomIsWhole
  BY DEF IInv, BufferInv, TypeOK, RandomIsWhole
<1> QED BY <1>1, KeyIsInvariant, PTL

\* decode is given the key of encode, by its argument or by what was shown, and has
\* room for it, for every argument with which encode has not left its own array.
THEOREM ShownKeyReopens == Spec => []KeyReopens
<1>1. IInv => KeyReopens
  BY DEF IInv, KeyInv, KeyReopens
<1> QED BY <1>1, KeyIsInvariant, PTL

-----------------------------------------------------------------------------
(* The way to the end *)

\* What lies ahead of each place of a command that has no random bytes left to draw
\* but those of the call under way.
Ahead ==
  [place \in {"start", "getrandom", "fopen", "fread", "filled", "arguments", "show", "done",
              "aborted", "overrun"} |->
     CASE place = "start"     -> DefaultSize + DefaultSize + 11
       [] place = "arguments" -> DefaultSize + 6
       [] place = "getrandom" -> 5
       [] place = "fopen"     -> 4
       [] place = "fread"     -> 3
       [] place = "filled"    -> 2
       [] place = "show"      -> 1
       [] OTHER               -> 0]

\* The bytes the call under way has still to draw.
Undrawn == IF pc \in {"getrandom", "fopen", "fread"} THEN want - got ELSE 0

\* After the default key comes the rest of the command.
Later ==
  IF pc \in {"getrandom", "fopen", "fread", "filled"} /\ back = "arguments"
  THEN DefaultSize + 5 ELSE 0

\* More than the steps a command can still take.
StepsLeft == Undrawn + Ahead[pc] + Later

Descends == [][Running => StepsLeft' < StepsLeft]_vars

LEMMA StepsLeftIsNat == TypeOK => StepsLeft \in Nat
<1> SUFFICES ASSUME TypeOK PROVE StepsLeft \in Nat
  OBVIOUS
<1>1. Undrawn \in Nat
  BY DEF TypeOK, Undrawn
<1>2. Ahead[pc] \in Nat
  BY KeyAssumption DEF TypeOK, Ahead
<1>3. Later \in Nat
  BY KeyAssumption DEF Later
<1> QED BY <1>1, <1>2, <1>3 DEF StepsLeft

\* Every step of a command leaves fewer to take.
LEMMA RunningDescends == ASSUME IInv, Running PROVE StepsLeft' < StepsLeft
<1>0. /\ DefaultSize \in Nat
      /\ pc \in {"start", "getrandom", "fopen", "fread", "filled", "arguments", "show", "done",
                "aborted", "overrun"}
      /\ want \in Nat /\ got \in 0 .. want
      /\ pc = "getrandom" => got = 0
  BY KeyAssumption DEF IInv, TypeOK, BufferInv
<1> USE <1>0 DEF StepsLeft, Undrawn, Later, Ahead
<1>1. CASE Getrandom
  <2>1. /\ pc = "getrandom" /\ want' = want /\ back' = back
        /\ pc' \in {"filled", "fopen"} /\ got' \in 0 .. want
    BY <1>1 DEF Getrandom
  <2> QED BY <2>1
<1>2. CASE OpenUrandom
  BY <1>2 DEF OpenUrandom, call
<1>3. CASE ReadUrandom
  <2>1. PICK length \in 0 .. want - got :
          /\ pc = "fread" /\ got < want /\ want' = want /\ back' = back
          /\ \/ pc' = "aborted"
             \/ length > 0 /\ pc' = pc /\ got' = got + length
    BY <1>3 DEF ReadUrandom
  <2> QED BY <2>1
<1>4. CASE CloseUrandom
  BY <1>4 DEF CloseUrandom, call
<1>5. CASE Start
  BY <1>5 DEF Start, CallRandom
<1>6. CASE KeepDefault
  BY <1>6 DEF KeepDefault, call
<1>7. CASE TypedKey
  BY <1>7 DEF TypedKey, call
<1>8. CASE RandomKey
  BY <1>8 DEF RandomKey, CallRandom
<1>9. CASE KeepRandom
  BY <1>9 DEF KeepRandom, call
<1>10. CASE ShowKey
  BY <1>10 DEF ShowKey, call
<1> QED BY <1>1, <1>2, <1>3, <1>4, <1>5, <1>6, <1>7, <1>8, <1>9, <1>10 DEF Running

\* A command cannot go on for ever, however little getrandom and fread give at a
\* time: each of its steps lowers a number that never goes below zero
\* (keygen.c:51-89, args.c:139-179, 185-250).
THEOREM CommandsDescend == Spec => [](StepsLeft \in Nat) /\ Descends
<1>1. IInv => StepsLeft \in Nat
  BY StepsLeftIsNat DEF IInv
<1>2. IInv /\ [Next]_vars => [Running => StepsLeft' < StepsLeft]_vars
  BY RunningDescends
<1> QED BY <1>1, <1>2, KeyIsInvariant, PTL DEF Spec, Descends
=============================================================================
