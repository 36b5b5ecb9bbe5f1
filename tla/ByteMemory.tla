----------------------------- MODULE ByteMemory -----------------------------
(***************************************************************************)
(* Loads and stores as the instruction set describes them: a memory of     *)
(* bytes, little-endian, and the register the access loads or stores.      *)
(***************************************************************************)
EXTENDS Integers

CONSTANTS Adr,      \* byte addresses
          B         \* bits in a byte

VARIABLES bytes, reg

Sizes == {"byte", "half", "word"}
Length(size) == CASE size = "byte" -> 1 [] size = "half" -> 2 [] size = "word" -> 4
Aligned(size, a) == a % Length(size) = 0

(* The bytes from a on, as a number.                                       *)
At(a, k) == IF k > 0 THEN bytes[a + k - 1] * 2^(B * (k - 1)) ELSE 0
Unsigned(size, a) == At(a, 1) + IF size = "byte" THEN 0
                                ELSE At(a, 2) + IF size = "half" THEN 0
                                                ELSE At(a, 3) + At(a, 4)

Extended(size, n, signed) ==
  IF signed /\ n >= 2^(B * Length(size) - 1)
  THEN n + 2^(4 * B) - 2^(B * Length(size))
  ELSE n

LoadBytes(size, a, signed) ==
  /\ Aligned(size, a)
  /\ reg' = Extended(size, Unsigned(size, a), signed)
  /\ UNCHANGED bytes

StoreBytes(size, a) ==
  /\ Aligned(size, a)
  /\ bytes' = [c \in Adr |-> IF c \in a..a + Length(size) - 1
                             THEN (reg \div 2^(B * (c - a))) % 2^B
                             ELSE bytes[c]]
  /\ UNCHANGED reg

BInit == bytes \in [Adr -> {0}] /\ reg \in 0..2^(4 * B) - 1

BNext == \E size \in Sizes, a \in Adr :
            \/ StoreBytes(size, a)
            \/ \E signed \in BOOLEAN : LoadBytes(size, a, signed)

BSpec == BInit /\ [][BNext]_<<bytes, reg>>
=============================================================================
