------------------------------- MODULE Address -------------------------------
(***************************************************************************)
(* Instruction addresses.  The core's PC is sc_uint<32> and instructions   *)
(* are word aligned, so an address is a number of words modulo NPc = 2^30. *)
(***************************************************************************)
EXTENDS Integers

CONSTANT NPc

ASSUME NPcAssumption == NPc \in Nat \ {0}

PC == 0..NPc-1

(* The wrap of a sum or difference of two addresses.                       *)
Wrap(x) == IF x >= NPc THEN x - NPc ELSE IF x < 0 THEN x + NPc ELSE x

Faulty_Succ(p) == p + 1

(* pc + 4.                                                                 *)
Succ(p) == Wrap(p + 1)
=============================================================================
