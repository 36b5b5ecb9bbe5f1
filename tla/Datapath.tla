------------------------------- MODULE Datapath -------------------------------
(***************************************************************************)
(* What an instruction does with its operands once it has the right ones:  *)
(* x of LoadStore is the first operand of everything EXE and the           *)
(* multiplier can make of it and a second one.  Operands.tla and           *)
(* Divider.tla have the rest of EXE.                                       *)
(***************************************************************************)
EXTENDS LoadStore, Alu, Multiplier

Mini == INSTANCE MiniCore

(* Whatever a load left in the register, EXE's result is the number the    *)
(* instruction asks for, overflow, equal operands and differing signs      *)
(* included (exec::select_exec_res, alu, shifter).                         *)
ResultsRight == \A op \in Logic \cup Shifts, b \in Word :
                  Value(exe_res(op, x, b)) = Meaning(op, x, b)

(* DEC's comparison takes exactly the branches the instruction takes       *)
(* (decod::post_reg_read_decoding).                                        *)
BranchesRight == \A op \in Branches, b \in Word : branch(op, x, b) = Taken(op, x, b)

(* The form of an operation with an immediate; only SUB has none.          *)
ImmediateForm == [add |-> "addi", slt |-> "slti", sltu |-> "sltiu", and |-> "andi", or |-> "ori",
                  xor |-> "xori", sll |-> "slli", srl |-> "srli", sra |-> "srai"]

MiniForms(op) == {op} \cup {ImmediateForm[o] : o \in {op} \cap DOMAIN ImmediateForm}

(* Where the mini core is wrong: SLTU gives 0 for two operands of one sign *)
(* (it takes the sign of a conjunction), SRA shifts ones into a            *)
(* non-negative operand too.                                               *)
MiniWrong(op, a, b) == \/ op = "sltu" /\ Sign(a) = Sign(b) /\ Value(a) < Value(b)
                       \/ op = "sra" /\ ~Sign(a) /\ Value(b) % W # 0

(* The mini core's EXE gives what its instructions ask for and its DEC     *)
(* takes the branches they take, with exactly the exceptions of MiniWrong  *)
(* (version1: exec::select_exec_res, alu, shifter,                         *)
(* decod::post_reg_read_decoding).                                         *)
MiniResultsRight ==
  \A b \in Word :
    /\ \A op \in Logic \cup Shifts : \A f \in MiniForms(op) :
         Value(Mini!exe_res_se(f, x, b)) = Meaning(op, x, b) <=> ~MiniWrong(op, x, b)
    /\ \A op \in Branches : Mini!jump_sd(op, x, b) = Taken(op, x, b)

(* What version1/include/exec.h:43 and 50 promise of two commands of the   *)
(* mini core: an arithmetic shift and an unsigned comparison               *)
(* (shifter::shifter_sr, exec::select_exec_res).  Does not hold.           *)
MiniCommandsRight == \A op \in {"sra", "sltu"}, b \in Word :
                       Value(Mini!exe_res_se(op, x, b)) = Meaning(op, x, b)

(* The multiplier's tree loses no carry and no sign: every multiplication  *)
(* gives its half of the product, the most negative operands included      *)
(* (x0_multiplier, x1_multiplier, x2_multiplier).                          *)
ProductsRight == \A cmd \in Commands, b \in Word :
                   RES_RX2(cmd, RES_RX1(RES_RX0(cmd, x, b))) = Product(cmd, x, b)
=============================================================================
