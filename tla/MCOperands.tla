----------------------------- MODULE MCOperands -----------------------------
(* Mixes of instructions for model checking Operands.                      *)
EXTENDS Operands

(* All kinds for rs1 but CSRRC and multiplications; loads, branches and    *)
(* multiplications for rs2; and the data cache stalling loads while EXE    *)
(* divides, for the registers alone.                                       *)
MCMixes ==
  {[kinds |-> {"alu", "load", "branch", "jalr", "csr", "div"}, stalls |-> {FALSE}, watched |-> {1}],
   [kinds |-> {"alu", "load", "branch", "jalr", "mul"}, stalls |-> {FALSE}, watched |-> {2}],
   [kinds |-> {"load", "div"}, stalls |-> BOOLEAN, watched |-> {}]}

(* An rs1 behind a multiplication.                                         *)
MCMulMix == {[kinds |-> {"alu", "mul"}, stalls |-> {FALSE}, watched |-> {1}]}
=============================================================================
