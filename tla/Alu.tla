--------------------------------- MODULE Alu ---------------------------------
(***************************************************************************)
(* What DEC commands and EXE computes in one cycle: adder, logic, shifter, *)
(* the two comparisons, and the branch conditions DEC decides itself.  op  *)
(* is the instruction; the immediate forms use the same command.           *)
(***************************************************************************)
EXTENDS Bits

Logic  == {"add", "sub", "slt", "sltu", "and", "or", "xor"}
Shifts == {"sll", "srl", "sra"}
Branches == {"beq", "bne", "blt", "bltu", "bge", "bgeu"}

CMD_RD(op) == CASE op \in {"and", "srl"} -> 1
                [] op \in {"or", "sra"}  -> 2
                [] op = "xor"            -> 3
                [] OTHER                 -> 0

Faulty_NEG_OP2_RD(op) == op \in {"sub", "slt"}

NEG_OP2_RD(op) == op \in {"sub", "slt", "sltu"}

(* alu::operation: CIN_SE is NEG_OP2_RD.                                   *)
alu_out(cmd, a, b, cin) == CASE cmd = 0 -> Plus(a, b, IF cin THEN 1 ELSE 0)
                             [] cmd = 1 -> a \cap b
                             [] cmd = 2 -> a \cup b
                             [] cmd = 3 -> Xor(a, b)

(* The shifter; the count is the low bits of op2, 4..0 of 32.              *)
shift_val(b) == Value(b) % W
sll(a, n)    == {i + n : i \in a} \cap Bit
sr(a, n, fill) == {i \in Bit : IF i + n \in Bit THEN i + n \in a ELSE fill}
shifter_out(cmd, a, n) == IF cmd = 0 THEN sll(a, n) ELSE sr(a, n, cmd # 1 /\ Sign(a))

(* select_exec_res: SLT and SLTU look at the signs first, and at the       *)
(* difference only when they are the same.                                 *)
Less(a, b, difference, signed) ==
  \/ Sign(a) # Sign(b) /\ Sign(IF signed THEN a ELSE b)
  \/ Sign(a) = Sign(b) /\ a # b /\ Sign(difference)

exe_res(op, a, b) ==
  LET out == alu_out(CMD_RD(op), a, IF NEG_OP2_RD(op) THEN Not(b) ELSE b, NEG_OP2_RD(op))
  IN IF op \in Shifts THEN shifter_out(CMD_RD(op), a, shift_val(b))
     ELSE IF op \in {"slt", "sltu"}
          THEN IF Less(a, b, out, op = "slt") THEN {0} ELSE {}
          ELSE out

(* The branch conditions of post_reg_read_decoding.                        *)
Faulty_branch(op, a, b) ==
  LET res_comparaison == Plus(a, Not(b), 1)
      below == Sign(res_comparaison)
  IN CASE op = "bne" -> a # b
       [] op = "beq" -> a = b
       [] op \in {"blt", "bltu"} -> below
       [] op \in {"bge", "bgeu"} -> ~below

branch(op, a, b) ==
  LET res_comparaison == Plus(a, Not(b), 1)
      different_sign  == Sign(a) # Sign(b)
  IN CASE op = "bne"  -> res_comparaison # {}
       [] op = "beq"  -> res_comparaison = {}
       [] op = "blt"  -> IF different_sign THEN Sign(a) ELSE Sign(res_comparaison)
       [] op = "bltu" -> IF different_sign THEN Sign(b) ELSE Sign(res_comparaison)
       [] op = "bge"  -> IF different_sign THEN Sign(b) ELSE ~Sign(res_comparaison)
       [] op = "bgeu" -> IF different_sign THEN Sign(a) ELSE ~Sign(res_comparaison)

-----------------------------------------------------------------------------
(* What the instruction set says, on numbers.                              *)
Meaning(op, a, b) ==
  LET u == Value(a)   v == Value(b)   n == v % W
      s == SignedValue(a)   t == SignedValue(b)
  IN CASE op = "add"  -> (u + v) % 2^W
       [] op = "sub"  -> (u - v) % 2^W
       [] op = "slt"  -> IF s < t THEN 1 ELSE 0
       [] op = "sltu" -> IF u < v THEN 1 ELSE 0
       [] op = "sll"  -> (u * 2^n) % 2^W
       [] op = "srl"  -> u \div 2^n
       [] op = "sra"  -> (s \div 2^n) % 2^W
       [] op = "and"  -> Value({i \in Bit : i \in a /\ i \in b})
       [] op = "or"   -> Value({i \in Bit : i \in a \/ i \in b})
       [] op = "xor"  -> Value({i \in Bit : (i \in a) # (i \in b)})

Taken(op, a, b) ==
  LET u == Value(a)   v == Value(b)   s == SignedValue(a)   t == SignedValue(b)
  IN CASE op = "beq"  -> u = v   [] op = "bne"  -> u # v
       [] op = "blt"  -> s < t   [] op = "bge"  -> s >= t
       [] op = "bltu" -> u < v   [] op = "bgeu" -> u >= v
=============================================================================
