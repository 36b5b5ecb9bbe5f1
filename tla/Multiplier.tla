------------------------------ MODULE Multiplier ------------------------------
(***************************************************************************)
(* The multiplier's arithmetic, stage by stage (x0_multiplier,             *)
(* x1_multiplier, x2_multiplier): the partial products, the tree of        *)
(* carry-save adders, and the last addition.  MulPipe.tla has the fifos    *)
(* between the stages.  Double words are sets of 2 * W bit positions.      *)
(***************************************************************************)
EXTENDS Bits, SequencesExt

MUL == 1   MULH == 2   MULHU == 3   MULHSU == 0     \* EXE_CMD_RD
Commands == {MUL, MULH, MULHU, MULHSU}

Wide == 0..2*W-1
Negated(a) == Plus(Not(a), {}, 1)

(* x0_multiplier::operation: MUL and MULH make both operands positive when *)
(* both are negative, and put the negative one first when one is.          *)
Faulty_Operands(cmd, a, b) == [op1 |-> a, op2 |-> b, signed |-> cmd # MULHU]

Operands(cmd, a, b) ==
  LET both == cmd \in {MUL, MULH} /\ Sign(a) /\ Sign(b)
      swap == cmd \in {MUL, MULH} /\ ~Sign(a) /\ Sign(b)
  IN [op1    |-> IF both THEN Negated(a) ELSE IF swap THEN b ELSE a,
      op2    |-> IF both THEN Negated(b) ELSE IF swap THEN a ELSE b,
      signed |-> cmd # MULHU /\ ~both]

product(o, i) ==
  IF i \in o.op2
  THEN Placed(o.op1, i) \cup IF o.signed /\ Sign(o.op1) THEN i+W..2*W-1 ELSE {}
  ELSE {}

(* A carry-save adder: three double words in, two out.                     *)
CSA(x, y, z) ==
  << Xor(Xor(x, y), z),
     Placed((x \cap y) \cup (Xor(x, y) \cap z), 1) \cap Wide >>

(* One level of the tree: each three neighbours go through an adder, the   *)
(* one or two left over at the end go on as they are.                      *)
Level(s) ==
  LET n == Len(s) \div 3
  IN FlattenSeq([k \in 1..n |-> CSA(s[3*k - 2], s[3*k - 1], s[3*k])])
       \o SubSeq(s, 3*n + 1, Len(s))

FiveLevels(s) == Level(Level(Level(Level(Level(s)))))

(* X0 has five levels, X1 the three that leave two numbers, X2 adds those. *)
RES_RX0(cmd, a, b) ==
  FiveLevels([i \in 1..W |-> product(Operands(cmd, a, b), i - 1)])
RES_RX1(m) == Level(Level(Level(m)))
RES_RX2(cmd, m) ==
  LET add == (Value(m[1]) + Value(m[2])) % 2^(2*W)
  IN IF cmd # MUL THEN add \div 2^W ELSE add % 2^W

(* The product the instruction set asks for.                               *)
Product(cmd, a, b) ==
  LET s == IF cmd = MULHU THEN Value(a) ELSE SignedValue(a)
      t == IF cmd \in {MULHU, MULHSU} THEN Value(b) ELSE SignedValue(b)
  IN (IF cmd = MUL THEN s * t ELSE (s * t) \div 2^W) % 2^W
=============================================================================
