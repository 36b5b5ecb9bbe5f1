------------------------------ MODULE MiniCore ------------------------------
(***************************************************************************)
(* The RV32I mini core of sysc_miniriscv/version1: what its DEC reads out  *)
(* of an instruction word and commands, what its EXE computes and which    *)
(* branches it takes.  Only operators: Decode.tla compares the first part  *)
(* with Isa, Datapath.tla the second with the meaning of instructions.     *)
(***************************************************************************)
EXTENDS Bits

opcode(w) == Value(Slice(w, 6, 0))
funct3(w) == Value(Slice(w, 14, 12))
funct7(w) == Value(Slice(w, 31, 25))

type(w) ==
  CASE opcode(w) = \b0110011 /\ funct7(w) # 1 -> "r"
    [] opcode(w) \in {\b0010011, \b0000011} -> "i"
    [] opcode(w) = \b0100011 -> "s"
    [] opcode(w) = \b1100011 -> "b"
    [] opcode(w) \in {\b0110111, \b0010111} -> "u"
    [] opcode(w) = \b1101111 -> "j"
    [] opcode(w) = \b1100111 -> "jalr"
    [] OTHER -> "none"

(* Every flag compares the opcode, most of them funct3, some funct7.       *)
F3(w, names) == {n \in DOMAIN names : funct3(w) = names[n]}

r_flags(w) ==
  IF opcode(w) # \b0110011 THEN {}
  ELSE CASE funct7(w) = 0 -> F3(w, [add |-> 0, slt |-> 2, sltu |-> 3, and |-> 7,
                                    or |-> 6, xor |-> 4, sll |-> 1, srl |-> 5])
         [] funct7(w) = \b0100000 -> F3(w, [sub |-> 0, sra |-> 5])
         [] OTHER -> {}

i_flags(w) ==
  IF opcode(w) # \b0010011 THEN {}
  ELSE F3(w, [addi |-> 0, slti |-> 2, sltiu |-> 3, andi |-> 7, ori |-> 6, xori |-> 4])
         \cup CASE funct7(w) = 0 -> F3(w, [slli |-> 1, srli |-> 5])
                [] funct7(w) = \b0100000 -> F3(w, [srai |-> 5])
                [] OTHER -> {}

l_flags(w) == IF opcode(w) # \b0000011 THEN {}
              ELSE F3(w, [lw |-> 2, lh |-> 1, lhu |-> 5, lb |-> 0, lbu |-> 4])

b_flags(w) == IF opcode(w) # \b1100011 THEN {}
              ELSE F3(w, [beq |-> 0, bne |-> 1, blt |-> 4, bge |-> 5, bltu |-> 6, bgeu |-> 7])

other_flags(w) == CASE opcode(w) = \b0110111 -> {"lui"}
                    [] opcode(w) = \b0010111 -> {"auipc"}
                    [] opcode(w) = \b1101111 -> {"jal"}
                    [] opcode(w) = \b1100111 -> {"jalr"}
                    [] opcode(w) = \b0100011 -> F3(w, [sw |-> 2, sh |-> 1, sb |-> 0])
                    [] opcode(w) = \b0001111 -> F3(w, [fence |-> 0])
                    [] OTHER -> {}

flags(w) == r_flags(w) \cup i_flags(w) \cup l_flags(w) \cup b_flags(w) \cup other_flags(w)

(* pre_reg_read_decoding.                                                  *)
RADR1_SD(w) == IF type(w) \in {"r", "i", "s", "b", "jalr"} THEN Value(Slice(w, 19, 15)) ELSE 0
RADR2_SD(w) == IF type(w) \in {"r", "s", "b"} THEN Value(Slice(w, 24, 20)) ELSE 0
adr_dest_sd(w) == IF type(w) \in {"r", "i", "u", "j", "jalr"} THEN Value(Slice(w, 11, 7)) ELSE 0

-----------------------------------------------------------------------------
(* post_reg_read_decoding: the immediates, the memory access (a store      *)
(* without a flag keeps the size, every store the sign extension), ...     *)
Extended(w, low, sign) == low \cup IF 31 \in w THEN sign..31 ELSE {}

immediate(w) ==
  CASE type(w) \in {"i", "jalr"} -> Extended(w, Slice(w, 31, 20), 12)
    [] type(w) = "s" -> Extended(w, Placed(Slice(w, 31, 25), 5) \cup Slice(w, 11, 7), 12)
    [] type(w) = "b" -> Extended(w, Placed(Slice(w, 7, 7), 11) \cup Placed(Slice(w, 30, 25), 5)
                                      \cup Placed(Slice(w, 11, 8), 1), 12)
    [] type(w) = "u" -> w \cap (12..31)
    [] type(w) = "j" -> Extended(w, Placed(Slice(w, 19, 12), 12) \cup Placed(Slice(w, 20, 20), 11)
                                      \cup Placed(Slice(w, 30, 21), 1), 20)
    [] OTHER -> {}

mem_load_sd(w)  == l_flags(w) # {}
mem_store_sd(w) == type(w) = "s"
mem_size_sd(w)  == IF flags(w) \cap {"lh", "lhu", "sh"} # {} THEN 1
                   ELSE IF flags(w) \cap {"lb", "lbu", "sb"} # {} THEN 2
                   ELSE CASE type(w) # "s" \/ "sw" \in flags(w) -> 0
mem_sign_extend_sd(w) == flags(w) \cap {"lb", "lh"} # {}

(* ... the command EXE gets for the instruction with flag f, ...           *)
exe_neg_op2_sd(f) == f \in {"sub", "slt", "slti", "sltu", "sltiu"}

exe_cmd_sd(f) == CASE f \in {"and", "andi", "srl", "srli", "sltu", "sltiu"} -> 1
                   [] f \in {"or", "ori", "sra", "srai"} -> 2
                   [] f \in {"xor", "xori"} -> 3
                   [] OTHER -> 0

Faulty_optype_sd(f) == CASE f \in {"sll", "slli", "srl", "srli", "sra", "srai"} -> 1
                         [] f \in {"slti", "slt", "sltu"} -> 2
                         [] OTHER -> 0

optype_sd(f) == CASE f \in {"sll", "slli", "srl", "srli", "sra", "srai"} -> 1
                  [] f \in {"slti", "slt", "sltu", "sltiu"} -> 2
                  [] OTHER -> 0

(* ... and whether a branch is taken.                                      *)
jump_sd(f, a, b) ==
  LET below == Sign(Plus(a, Not(b), 1))
      first(c) == IF Sign(a) # Sign(b) THEN Sign(c) ELSE below
  IN CASE f = "bne"  -> a # b
       [] f = "beq"  -> a = b
       [] f = "blt"  -> first(a)
       [] f = "bltu" -> first(b)
       [] f = "bge"  -> ~first(a)
       [] f = "bgeu" -> ~first(b)

-----------------------------------------------------------------------------
(* EXE.  The adder's command is the instruction's, in a comparison too, so *)
(* that SLTU looks at the sign of a conjunction.                           *)
alu_out_se(cmd, a, b, cin) == CASE cmd = 0 -> Plus(a, b, IF cin THEN 1 ELSE 0)
                                [] cmd = 1 -> a \cap b
                                [] cmd = 2 -> a \cup b
                                [] cmd = 3 -> Xor(a, b)

sr_dout_se(cmd, a, n) == Slice(a, W - 1, n) \cup (Placed(IF cmd = 2 THEN Bit ELSE {}, W - n) \cap Bit)

shifter_out_se(cmd, a, n) == IF cmd = 0 THEN Placed(a, n) \cap Bit ELSE sr_dout_se(cmd, a, n)

exe_res_se(f, a, b) ==
  LET cmd == exe_cmd_sd(f)
      out == alu_out_se(cmd, a, IF exe_neg_op2_sd(f) THEN Not(b) ELSE b, exe_neg_op2_sd(f))
      below == IF Sign(a) # Sign(b) THEN Sign(IF cmd = 0 THEN a ELSE b)
               ELSE a # b /\ Sign(out)
  IN CASE optype_sd(f) = 1 -> shifter_out_se(cmd, a, Value(b) % W)
       [] optype_sd(f) = 2 -> IF below THEN {0} ELSE {}
       [] optype_sd(f) = 0 -> out
=============================================================================
