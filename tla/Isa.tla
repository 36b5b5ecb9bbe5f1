-------------------------------- MODULE Isa --------------------------------
(***************************************************************************)
(* The encodings of RV32IM, Zicsr and mret, from the instruction set       *)
(* manual the README names: what an instruction means, and the word that   *)
(* says so.  Decode.tla is measured against it.                            *)
(***************************************************************************)
EXTENDS Bits

CONSTANTS Regs,       \* the registers the instructions name
          Patterns    \* what stands in their immediates and in words of no instruction

ASSUME IsaAssumption == Regs \subseteq 0..31 /\ Patterns \subseteq SUBSET (0..31)

(* name, funct3, funct7 *)
RegisterOps == {<<"add", 0, 0>>, <<"sub", 0, 32>>, <<"sll", 1, 0>>, <<"slt", 2, 0>>,
                <<"sltu", 3, 0>>, <<"xor", 4, 0>>, <<"srl", 5, 0>>, <<"sra", 5, 32>>,
                <<"or", 6, 0>>, <<"and", 7, 0>>,
                <<"mul", 0, 1>>, <<"mulh", 1, 1>>, <<"mulhsu", 2, 1>>, <<"mulhu", 3, 1>>,
                <<"div", 4, 1>>, <<"divu", 5, 1>>, <<"rem", 6, 1>>, <<"remu", 7, 1>>}
ShiftOps     == {<<"slli", 1, 0>>, <<"srli", 5, 0>>, <<"srai", 5, 32>>}

(* name, funct3 *)
ImmediateOps == {<<"addi", 0>>, <<"slti", 2>>, <<"sltiu", 3>>, <<"xori", 4>>, <<"ori", 6>>, <<"andi", 7>>}
LoadOps      == {<<"lb", 0>>, <<"lh", 1>>, <<"lw", 2>>, <<"lbu", 4>>, <<"lhu", 5>>}
StoreOps     == {<<"sb", 0>>, <<"sh", 1>>, <<"sw", 2>>}
BranchOps    == {<<"beq", 0>>, <<"bne", 1>>, <<"blt", 4>>, <<"bge", 5>>, <<"bltu", 6>>, <<"bgeu", 7>>}
CsrOps       == {<<"csrrw", 1>>, <<"csrrs", 2>>, <<"csrrc", 3>>}
CsrImmOps    == {<<"csrrwi", 5>>, <<"csrrsi", 6>>, <<"csrrci", 7>>}

-----------------------------------------------------------------------------
(* Immediates, sign included; the numbers of CSRs; shift counts.          *)
Signed(low, sign) == {(p \cap (low..sign-1)) \cup s : p \in Patterns, s \in {{}, sign..31}}
Upper      == {p \cap (12..31) : p \in Patterns}
CsrNumbers == {p \cap (0..11) : p \in Patterns}
Shamt      == {p \cap (0..4) : p \in Patterns}

Instruction(op, rd, rs1, rs2, imm, word) ==
  [op |-> op, rd |-> rd, rs1 |-> rs1, rs2 |-> rs2, imm |-> imm, word |-> word]

(* A field of at most seven bits.                                         *)
Field(n) == {b \in 0..6 : (n \div 2^b) % 2 = 1}

Encoded(opcode, rd, f3, rs1, high) ==
  Field(opcode) \cup Placed(Field(rd), 7) \cup Placed(Field(f3), 12)
    \cup Placed(Field(rs1), 15) \cup high

Funct7(f7) == Placed(Field(f7), 25)
Rs2(rs2)   == Placed(Field(rs2), 20)
Imm12(imm) == Placed(Slice(imm, 11, 0), 20)

RType(I, opcode) == {Instruction(I[1], rd, rs1, rs2, {},
                                 Encoded(opcode, rd, I[2], rs1, Rs2(rs2) \cup Funct7(I[3])))
                       : rd, rs1, rs2 \in Regs}
ShiftType(I) == {Instruction(I[1], rd, rs1, 0, imm,
                             Encoded(19, rd, I[2], rs1, Imm12(imm) \cup Funct7(I[3])))
                   : rd, rs1 \in Regs, imm \in Shamt}
IType(I, opcode, Imms) == {Instruction(I[1], rd, rs1, 0, imm,
                                       Encoded(opcode, rd, I[2], rs1, Imm12(imm)))
                             : rd, rs1 \in Regs, imm \in Imms}
SType(I) == {Instruction(I[1], 0, rs1, rs2, imm,
                         Encoded(35, 0, I[2], rs1,
                                 Rs2(rs2) \cup Placed(Slice(imm, 4, 0), 7)
                                          \cup Placed(Slice(imm, 11, 5), 25)))
               : rs1, rs2 \in Regs, imm \in Signed(0, 11)}
BType(I) == {Instruction(I[1], 0, rs1, rs2, imm,
                         Encoded(99, 0, I[2], rs1,
                                 Rs2(rs2) \cup Placed(Slice(imm, 11, 11), 7)
                                          \cup Placed(Slice(imm, 4, 1), 8)
                                          \cup Placed(Slice(imm, 10, 5), 25)
                                          \cup Placed(Slice(imm, 12, 12), 31)))
               : rs1, rs2 \in Regs, imm \in Signed(1, 12)}
UType(op, opcode) == {Instruction(op, rd, 0, 0, imm, Encoded(opcode, rd, 0, 0, imm))
                        : rd \in Regs, imm \in Upper}
Jal == {Instruction("jal", rd, 0, 0, imm,
                    Encoded(111, rd, 0, 0, Placed(Slice(imm, 19, 12), 12)
                                             \cup Placed(Slice(imm, 11, 11), 20)
                                             \cup Placed(Slice(imm, 10, 1), 21)
                                             \cup Placed(Slice(imm, 20, 20), 31)))
          : rd \in Regs, imm \in Signed(1, 20)}
Bare(op, word) == Instruction(op, 0, 0, 0, {}, word)

Instructions ==
  UNION ({RType(I, 51) : I \in RegisterOps} \cup {ShiftType(I) : I \in ShiftOps}
         \cup {IType(I, 19, Signed(0, 11)) : I \in ImmediateOps}
         \cup {IType(I, 3, Signed(0, 11)) : I \in LoadOps}
         \cup {SType(I) : I \in StoreOps} \cup {BType(I) : I \in BranchOps}
         \cup {IType(I, 115, CsrNumbers) : I \in CsrOps \cup CsrImmOps}
         \cup {IType(<<"jalr", 0>>, 103, Signed(0, 11)), Jal,
               UType("lui", 55), UType("auipc", 23)}
         \cup {{Bare("ecall", Field(115)), Bare("ebreak", Field(115) \cup {20}),
                Bare("mret", Field(115) \cup {21, 28, 29}), Bare("fence", Field(15))}})

(* Words of no instruction, the ones DEC takes for illegal: opcodes the    *)
(* core has not, and of the functions its opcodes have not those of fence, *)
(* stores, branches, and the system, and funct7 of register operations.    *)
Opcodes == {3, 15, 19, 23, 35, 51, 55, 99, 103, 111, 115}

OtherOpcode == {Field(opcode) \cup (p \cap (7..31)) : opcode \in 0..127 \ Opcodes, p \in Patterns}
OtherFunct3(opcode, f3s) ==
  {Field(opcode) \cup Placed(Field(f3), 12) \cup (p \cap ((7..11) \cup (15..31)))
     : f3 \in f3s, p \in Patterns}
OtherFunct7(opcode, f7s) ==
  {Field(opcode) \cup (p \cap (7..24)) \cup Funct7(f7) : f7 \in f7s, p \in Patterns}

Reserved == {Bare("reserved", word) :
               word \in UNION {OtherOpcode, OtherFunct7(51, 0..127 \ {0, 1, 32}),
                               OtherFunct3(15, 1..7), OtherFunct3(35, 3..7),
                               OtherFunct3(99, {2, 3}), OtherFunct3(115, {4})}}
=============================================================================
