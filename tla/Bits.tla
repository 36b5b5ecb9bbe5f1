-------------------------------- MODULE Bits --------------------------------
(***************************************************************************)
(* sc_uint<W> and sc_bv<W> as the set of the positions of their ones: & is *)
(* \cap, | is \cup, ~ and ^ are below.  W is 32 in the core.               *)
(***************************************************************************)
EXTENDS Integers, FiniteSetsExt

CONSTANT W

ASSUME BitsAssumption == W \in Nat \ {0}

Bit  == 0..W-1
Word == SUBSET Bit

Not(a)    == Bit \ a
Xor(a, b) == (a \cup b) \ (a \cap b)

(* a.range(hi, lo), and the assignment of a to .range(_, lo).              *)
Slice(a, hi, lo) == {i - lo : i \in a \cap (lo..hi)}
Placed(a, lo)    == {i + lo : i \in a}

Value(a)   == MapThenSumSet(LAMBDA i : 2^i, a)
OfValue(n) == {i \in Bit : (n \div 2^i) % 2 = 1}

(* a + b + cin, the carry out dropped.                                     *)
Plus(a, b, cin) == OfValue(Value(a) + Value(b) + cin)

Sign(a)        == W-1 \in a
SignedValue(a) == Value(a) - IF Sign(a) THEN 2^W ELSE 0
=============================================================================
