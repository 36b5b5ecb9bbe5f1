------------------------------- MODULE Decode -------------------------------
(***************************************************************************)
(* What DEC reads out of an instruction word: its flag, registers,         *)
(* immediate, memory access, CSR and exceptions.  Most signals follow the  *)
(* word; those of held keep their value where the code assigns none.  The  *)
(* values of registers, PC and CSR are Operands' and FetchLoop's.          *)
(***************************************************************************)
EXTENDS Isa, Sequences

VARIABLES inst,       \* the instruction in if2dec, None once it has gone
          held        \* mem_size_sd, mem_sign_extend_sd, csr_wenable_sd

decodeVars == <<inst, held>>

None == Bare("none", {})

Version1 == INSTANCE MiniCore

-----------------------------------------------------------------------------
opcode(w) == Value(Slice(w, 6, 0))
funct3(w) == Value(Slice(w, 14, 12))
funct7(w) == Value(Slice(w, 31, 25))
rd(w)     == Value(Slice(w, 11, 7))
rs1(w)    == Value(Slice(w, 19, 15))
rs2(w)    == Value(Slice(w, 24, 20))

type(w) ==
  CASE opcode(w) = \b0110011 -> IF funct7(w) = 1 THEN "m" ELSE "r"
    [] opcode(w) \in {\b0010011, \b0000011} -> "i"
    [] opcode(w) = \b0100011 -> "s"
    [] opcode(w) = \b1100011 -> "b"
    [] opcode(w) \in {\b0110111, \b0010111} -> "u"
    [] opcode(w) = \b1101111 -> "j"
    [] opcode(w) = \b1100111 -> "jalr"
    [] opcode(w) = \b1110011 -> "system"
    [] OTHER -> "none"

(* The _i_sd flags the word raises, format by format.                      *)
F3(w, names) == {n \in DOMAIN names : funct3(w) = names[n]}

r_flags(w) ==
  IF type(w) # "r" THEN {}
  ELSE CASE funct7(w) = 0 ->
              F3(w, [add |-> 0, sll |-> 1, slt |-> 2, sltu |-> 3, xor |-> 4, srl |-> 5, or |-> 6, and |-> 7])
         [] funct7(w) = \b0100000 -> F3(w, [sub |-> 0, sra |-> 5])
         [] OTHER -> {}

i_flags(w) ==
  IF opcode(w) # \b0010011 THEN {}
  ELSE F3(w, [addi |-> 0, slti |-> 2, sltiu |-> 3, xori |-> 4, ori |-> 6, andi |-> 7])
         \cup IF funct7(w) = 0 THEN F3(w, [slli |-> 1, srli |-> 5])
              ELSE IF funct7(w) = \b0100000 THEN F3(w, [srai |-> 5])
              ELSE {}

fence_flags(w) == IF opcode(w) = \b0001111 /\ funct3(w) = 0 THEN {"fence"} ELSE {}

l_flags(w) ==
  IF opcode(w) # \b0000011 THEN {} ELSE F3(w, [lb |-> 0, lh |-> 1, lw |-> 2, lbu |-> 4, lhu |-> 5])

b_flags(w) ==
  IF type(w) # "b" THEN {}
  ELSE F3(w, [beq |-> 0, bne |-> 1, blt |-> 4, bge |-> 5, bltu |-> 6, bgeu |-> 7])

uj_flags(w) == CASE opcode(w) = \b0110111 -> {"lui"}
                 [] opcode(w) = \b0010111 -> {"auipc"}
                 [] type(w) \in {"j", "jalr"} -> {IF type(w) = "j" THEN "jal" ELSE "jalr"}
                 [] OTHER -> {}

s_flags(w) == IF type(w) # "s" THEN {} ELSE F3(w, [sb |-> 0, sh |-> 1, sw |-> 2])

system_flags(w) ==
  LET high == Slice(w, 31, 20)
  IN IF type(w) # "system" THEN {}
     ELSE IF funct3(w) # 0
          THEN F3(w, [csrrw |-> 1, csrrs |-> 2, csrrc |-> 3, csrrwi |-> 5, csrrsi |-> 6, csrrci |-> 7])
          ELSE {n \in {"ecall", "ebreak", "mret", "sret"} :
                  CASE n = "ecall"  -> high = {}
                    [] n = "ebreak" -> high = {0}
                    [] n = "mret"   -> w = {0, 1, 4, 5, 6, 21, 28, 29}
                    [] n = "sret"   -> w = {0, 1, 4, 5, 6, 21, 28}}

m_flags(w) ==
  IF type(w) # "m" THEN {}
  ELSE F3(w, [mul |-> 0, mulh |-> 1, mulhsu |-> 2, mulhu |-> 3, div |-> 4, divu |-> 5, rem |-> 6, remu |-> 7])

flags(w) == r_flags(w) \cup i_flags(w) \cup fence_flags(w) \cup l_flags(w) \cup b_flags(w)
              \cup uj_flags(w) \cup s_flags(w) \cup system_flags(w) \cup m_flags(w)

IsCsr(w) == type(w) = "system" /\ funct3(w) \notin {0, 4}

-----------------------------------------------------------------------------
(* pre_reg_read_decoding.                                                  *)
RADR1_SD(w) == IF \/ type(w) \in {"r", "i", "s", "b", "jalr", "m"}
                  \/ flags(w) \cap {"csrrw", "csrrs", "csrrc"} # {}
               THEN rs1(w) ELSE 0
RADR2_SD(w) == IF type(w) \in {"r", "s", "b", "m"} THEN rs2(w) ELSE 0
adr_dest_sd(w) == IF type(w) \in {"r", "i", "u", "j", "jalr", "m"} \/ IsCsr(w) THEN rd(w) ELSE 0

env_call_u_mode_sd(w, mode) == "ecall" \in flags(w) /\ mode = 0
env_call_m_mode_sd(w, mode) == "ecall" \in flags(w) /\ mode = 3

(* An sret outside mode 2 sets the s call, an mret outside mode 3 the      *)
(* wrong-mode exception; but then the calls are cleared without an ecall,  *)
(* and that exception unless the word is an mret and an sret as well.      *)
env_call_s_mode_sd(w, mode) ==
  /\ "sret" \in flags(w) /\ mode # 2 /\ flags(w) \cap {"ecall", "ebreak"} = {}
  /\ "ecall" \in flags(w)
env_call_wrong_mode(w, mode) ==
  /\ "mret" \in flags(w) /\ mode # 3
  /\ {"mret", "sret"} \subseteq flags(w)

(* The immediate post_reg_read_decoding puts into exe_op1_sd (lui, auipc), *)
(* exe_op2_sd or offset_branch_sd, before it adds registers.               *)
Extended(w, sign) == IF 31 \in w THEN sign..31 ELSE {}

i_immediate(w) == Extended(w, 12) \cup Slice(w, 31, 20)
s_immediate(w) == Extended(w, 12) \cup Placed(Slice(w, 31, 25), 5) \cup Slice(w, 11, 7)
b_immediate(w) == Extended(w, 12) \cup Placed(Slice(w, 7, 7), 11)
                    \cup Placed(Slice(w, 30, 25), 5) \cup Placed(Slice(w, 11, 8), 1)

Faulty_j_immediate(w) ==
  Extended(w, 20) \cup Placed(Slice(w, 19, 12), 12) \cup Placed(Slice(w, 30, 20), 1)

j_immediate(w) == Extended(w, 20) \cup Placed(Slice(w, 19, 12), 12)
                    \cup Placed(Slice(w, 20, 20), 11) \cup Placed(Slice(w, 30, 21), 1)

immediate(w) == CASE type(w) \in {"i", "jalr"} -> i_immediate(w)
                  [] type(w) = "s" -> s_immediate(w)
                  [] type(w) = "b" -> b_immediate(w)
                  [] type(w) = "u" -> w \cap (12..31)
                  [] type(w) = "j" -> j_immediate(w)
                  [] OTHER -> {}

zimm(w) == IF flags(w) \cap {"csrrwi", "csrrsi", "csrrci"} # {} THEN rs1(w) ELSE 0

csr_radr_sd(w) == IF IsCsr(w) THEN Slice(w, 31, 20) ELSE {}

Loads  == {"lw", "lh", "lhu", "lb", "lbu"}
Stores == {"sw", "sh", "sb"}

mem_load_sd(w)  == flags(w) \cap Loads # {}
mem_store_sd(w) == flags(w) \cap Stores # {}

mem_size_sd(w) == IF flags(w) \cap {"lh", "lhu", "sh"} # {} THEN 1
                  ELSE IF flags(w) \cap {"lb", "lbu", "sb"} # {} THEN 2 ELSE 0

(* A store does not assign the sign extension, and a system instruction    *)
(* without a flag not the CSR's write enable: they stay as they were.      *)
Faulty_mem_sign_extend_sd(w, h) == h.mem_sign_extend \/ flags(w) \cap {"lh", "lb"} # {}

mem_sign_extend_sd(w, h) == IF type(w) = "s" THEN h.mem_sign_extend
                            ELSE flags(w) \cap {"lh", "lb"} # {}
csr_wenable_sd(w, h) == \/ IsCsr(w)
                        \/ type(w) = "system" /\ flags(w) = {} /\ h.csr_wenable

Held(w, h) == [mem_size        |-> mem_size_sd(w),
               mem_sign_extend |-> mem_sign_extend_sd(w, h),
               csr_wenable     |-> csr_wenable_sd(w, h)]

Faulty_illegal_instruction_sd(w) ==
  \/ type(w) = "none" /\ "fence" \notin flags(w)
  \/ type(w) = "r" /\ funct7(w) \notin {0, \b0100000}
  \/ type(w) = "s" /\ funct3(w) > 2
  \/ type(w) = "system" /\ funct3(w) = 4

illegal_instruction_sd(w) ==
  \/ type(w) = "none" /\ "fence" \notin flags(w)
  \/ type(w) = "r" /\ funct7(w) \notin {0, \b0100000}
  \/ type(w) = "b" /\ funct3(w) \in {2, 3}
  \/ type(w) = "s" /\ funct3(w) > 2
  \/ type(w) = "system" /\ funct3(w) = 4

-----------------------------------------------------------------------------
DecodeInit == /\ inst = None
              /\ held = [mem_size |-> 0, mem_sign_extend |-> FALSE, csr_wenable |-> FALSE]

(* Between two instructions the word stays on INSTR_RI: decoding it again  *)
(* gives the same, so that an empty if2dec is one state.                   *)
Decoded == /\ inst = None
           /\ inst' \in Instructions \cup Reserved
           /\ held' = Held(inst'.word, held)

Gone == inst # None /\ inst' = None /\ UNCHANGED held

DecodeNext == Decoded \/ Gone

DecodeSpec == DecodeInit /\ [][DecodeNext]_decodeVars

-----------------------------------------------------------------------------
Legal == inst \notin Reserved \cup {None}

ShiftNames == {"slli", "srli", "srai"}
Zimms  == {"csrrwi", "csrrsi", "csrrci"}
Csrs   == {I[1] : I \in CsrOps \cup CsrImmOps}

(* The core's decoder reads the instruction n.                             *)
CoreReads(n) ==
  LET w == n.word
  IN /\ flags(w) = {n.op}
     /\ adr_dest_sd(w) = n.rd
     /\ RADR1_SD(w) = IF n.op \in Zimms THEN 0 ELSE n.rs1
     /\ RADR2_SD(w) = n.rs2
     /\ zimm(w) = IF n.op \in Zimms THEN n.rs1 ELSE 0
     /\ type(w) # "system" /\ n.op \notin ShiftNames => immediate(w) = n.imm
     /\ n.op \in ShiftNames => immediate(w) \cap (0..4) = n.imm

(* The mini core's, which has RV32I only: to the rest it does nothing.     *)
NotMini == Csrs \cup {I[1] : I \in {R \in RegisterOps : R[3] = 1}} \cup {"ecall", "ebreak", "mret"}

MiniReads(n) ==
  LET w == n.word
      mini == n.op \notin NotMini
  IN /\ Version1!flags(w) = IF mini THEN {n.op} ELSE {}
     /\ Version1!adr_dest_sd(w) = IF mini THEN n.rd ELSE 0
     /\ mini => Version1!RADR1_SD(w) = n.rs1 /\ Version1!RADR2_SD(w) = n.rs2
     /\ mini => n.imm = Version1!immediate(w) \cap IF n.op \in ShiftNames THEN 0..4 ELSE 0..31
     /\ Version1!mem_load_sd(w) <=> n.op \in Loads
     /\ Version1!mem_store_sd(w) <=> n.op \in Stores
     /\ n.op \in Loads \cup Stores => Version1!mem_size_sd(w) = mem_size_sd(w)
     /\ n.op \in Loads => (Version1!mem_sign_extend_sd(w) <=> n.op \in {"lh", "lb"})

(* An instruction raises its own flag and no other, reads and writes its   *)
(* own registers, and gets its own immediate with its sign, in both        *)
(* decoders (decod::decoding_instruction, pre_reg_read_decoding,           *)
(* post_reg_read_decoding).                                                *)
FieldsRight == Legal => CoreReads(inst) /\ MiniReads(inst)

(* Whatever was decoded before, only loads and stores access memory, with  *)
(* the size and sign they name, and only CSR instructions write a CSR:     *)
(* theirs (decod::post_reg_read_decoding).                                 *)
EffectsRight ==
  Legal =>
    /\ mem_load_sd(inst.word) <=> inst.op \in Loads
    /\ mem_store_sd(inst.word) <=> inst.op \in Stores
    /\ inst.op \in Loads \cup Stores =>
         held.mem_size = CASE inst.op \in {"lw", "sw"} -> 0
                           [] inst.op \in {"lh", "lhu", "sh"} -> 1
                           [] inst.op \in {"lb", "lbu", "sb"} -> 2
    /\ inst.op \in Loads => (held.mem_sign_extend <=> inst.op \in {"lh", "lb"})
    /\ held.csr_wenable <=> inst.op \in Csrs
    /\ held.csr_wenable => csr_radr_sd(inst.word) = inst.imm

(* No instruction is illegal, and each word of Reserved is; an ecall       *)
(* raises the call of its own mode.  Nothing raises the s call or the      *)
(* wrong-mode exception: an mret is let through in either mode             *)
(* (decod::post_reg_read_decoding, pre_reg_read_decoding).                 *)
ExceptionsRight ==
  inst # None => /\ illegal_instruction_sd(inst.word) <=> inst \in Reserved
                 /\ \A mode \in {0, 3} :
                      /\ env_call_u_mode_sd(inst.word, mode) <=> (inst.op = "ecall" /\ mode = 0)
                      /\ env_call_m_mode_sd(inst.word, mode) <=> (inst.op = "ecall" /\ mode = 3)
                      /\ ~env_call_s_mode_sd(inst.word, mode)
                      /\ ~env_call_wrong_mode(inst.word, mode)

(* What dec.cpp:563 says, "Exception will be generate in case of mret in   *)
(* wrong mode": outside machine mode an mret raises the exception that MEM *)
(* has a cause for (mem.cpp:250).  Does not hold.                          *)
MretNeedsMachineMode ==
  inst.op = "mret" => \A mode \in {0, 3} : env_call_wrong_mode(inst.word, mode) <=> mode # 3
=============================================================================
