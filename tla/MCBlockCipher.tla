----------------------------- MODULE MCBlockCipher -----------------------------
(***************************************************************************)
(* The instance of BlockCipher for TLC: the real S-box, and the messages   *)
(* of FIPS 197 and NIST SP 800-38A beside keys that are too long, too      *)
(* short and all zero.                                                     *)
(***************************************************************************)
EXTENDS BlockCipher, Sbox

CONSTANTS ShortHmac

Bytes(numbers) == [k \in 1 .. Len(numbers) |-> BitsOf(numbers[k])]

BlockOf(numbers) == [p \in 0 .. 15 |-> BitsOf(numbers[p + 1])]

Counting(first, length) == [k \in 1 .. length |-> (first + k - 1) % 256]

\* FIPS 197, C.3.
Fips197 ==
  [key |-> Bytes(Counting(0, 32)), iv |-> BlockOf(Counting(0, 1) \o [k \in 1 .. 15 |-> 0]),
   text |-> << BlockOf([k \in 1 .. 16 |-> 17 * (k - 1)]) >>]

Fips197Cipher ==
  << BlockOf(<<142, 162, 183, 202, 81, 103, 69, 191, 234, 252, 73, 144, 75, 73, 96, 137>>) >>

\* NIST SP 800-38A, F.2.5, the first two blocks.
CbcExample ==
  [key |-> Bytes(<<96, 61, 235, 16, 21, 202, 113, 190, 43, 115, 174, 240, 133, 125, 119, 129, 31, 53, 44, 7, 59, 97, 8, 215, 45, 152, 16, 163, 9, 20, 223, 244>>),
   iv |-> BlockOf(Counting(0, 16)),
   text |-> << BlockOf(<<107, 193, 190, 226, 46, 64, 159, 150, 233, 61, 126, 17, 115, 147, 23, 42>>),
               BlockOf(<<174, 45, 138, 87, 30, 3, 172, 156, 158, 183, 111, 172, 69, 175, 142, 81>>) >>]

CbcExampleCipher ==
  << BlockOf(<<245, 140, 76, 4, 214, 229, 241, 186, 119, 158, 171, 251, 95, 123, 251, 214>>),
     BlockOf(<<156, 252, 78, 150, 126, 219, 128, 141, 103, 159, 119, 123, 198, 112, 44, 125>>) >>

\* A key of 40 bytes, one of 5, and the key of zeros over three equal blocks.
LongKey == [Fips197 EXCEPT !.key = @ \o Bytes(Counting(250, 8))]

ShortKey == [CbcExample EXCEPT !.key = Bytes(Counting(7, 5))]

Zeros == [key |-> [k \in 1 .. 32 |-> {}], iv |-> BlockOf(Counting(200, 16)),
          text |-> [k \in 1 .. 3 |-> BlockOf(Counting(120, 16))]]

MCJobs == {Fips197, CbcExample, LongKey, ShortKey, Zeros}

\* hmac_compute is a model of its own; here it gives 32 other bytes.
MCHmac(key) == Bytes(Counting(ShortHmac + Len(key), 32))

\* "Standard aes s-box" (sbox.c) and AES-256 in CBC mode: the published
\* messages are encrypted to the published blocks, also under a longer key
\* that begins with the published one.
MatchesStandard ==
  mode = "decode" =>
    /\ job \in {Fips197, LongKey} => file = Fips197Cipher
    /\ job = CbcExample => file = CbcExampleCipher
=============================================================================
