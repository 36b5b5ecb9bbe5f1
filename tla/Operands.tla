------------------------------ MODULE Operands ------------------------------
(***************************************************************************)
(* Where DEC and EXE take the operands of an instruction from: the         *)
(* register file, the results still in exe2mem and mem2wbk (the bypasses), *)
(* or nowhere yet, in which case they wait.                                *)
(*                                                                         *)
(* One step is one clock cycle.  A register holds a Boolean: two values    *)
(* are enough to tell a stale operand from the right one, and "not" is the *)
(* complement CSRRC takes.  What an instruction computes is chosen when it *)
(* is decoded (res), and arch is the register file a hart executing one    *)
(* instruction at a time would have at that point; an instruction carries  *)
(* the operands it should get from it (want1, want2).                      *)
(*                                                                         *)
(* A fifo that is empty still shows its last instruction, and EXE's        *)
(* bypasses look at it without asking whether the fifo is empty.           *)
(*                                                                         *)
(* A behaviour runs one mix of instructions, and follows the operands that *)
(* the mix watches; the others have no value in it.                        *)
(***************************************************************************)
EXTENDS Naturals, Fifo

CONSTANTS Regs,   \* register numbers, 0 among them
          Mixes   \* the mixes of instructions DEC may receive

ASSUME RegsAssumption == Regs \subseteq Nat /\ 0 \in Regs

(* "alu" stands for every instruction that reads its registers in EXE and  *)
(* computes there, a store, whose data takes the way of op2, included.     *)
AllKinds == {"alu", "load", "branch", "jalr", "csr", "csrrc", "mul", "div"}

(* The kinds of a mix, the values MCACHE_STALL_SM may take during a load,  *)
(* and the operands it watches, 1 for rs1 and 2 for rs2.                   *)
Mix == [kinds : SUBSET AllKinds, stalls : SUBSET BOOLEAN, watched : SUBSET {1, 2}]

ASSUME MixesAssumption == Mixes \subseteq Mix

VARIABLES mix,      \* the mix this behaviour runs
          regs,     \* REG_RR
          dec2exe, exe2mem, mem2wbk,
          divider,  \* the divider is calculating
          arch,     \* registers in program order, up to the last decoded instruction
          right1, right2  \* no instruction has used a wrong rs1, or rs2

vars == <<mix, regs, dec2exe, exe2mem, mem2wbk, divider, arch, right1, right2>>

(* An instruction in dec2exe: op1 and op2 are what DEC read.               *)
Decoded == [kind : AllKinds, rd : Regs, r1 : Regs, r2 : Regs, op1 : BOOLEAN,
            op2 : BOOLEAN, want1 : BOOLEAN, want2 : BOOLEAN, res : BOOLEAN]

(* One behind EXE: MEM_LOAD_RE, CSR_WENABLE_RE and MULT_INST_RE tell the   *)
(* classes apart.  junk is what stands in EXE_RES while that is not the    *)
(* result: a load's address, a CSR's new value, anything for a MUL.        *)
Class(kind) == CASE kind = "load"             -> "load"
                 [] kind = "mul"              -> "mul"
                 [] kind \in {"csr", "csrrc"} -> "csr"
                 [] OTHER                     -> "plain"

Executed == [class : {"plain", "load", "mul", "csr"}, rd : Regs,
             junk : BOOLEAN, res : BOOLEAN]

nop  == [kind |-> "alu", rd |-> 0, r1 |-> 0, r2 |-> 0, op1 |-> FALSE, op2 |-> FALSE,
         want1 |-> FALSE, want2 |-> FALSE, res |-> FALSE]
nop2 == [class |-> "plain", rd |-> 0, junk |-> FALSE, res |-> FALSE]

RegFile == {f \in [Regs -> BOOLEAN] : f[0] = FALSE}

TypeOK == /\ mix \in Mixes
          /\ regs \in RegFile /\ arch \in RegFile
          /\ dec2exe \in FifoOf(Decoded)
          /\ exe2mem \in FifoOf(Executed)
          /\ mem2wbk \in FifoOf(Executed)
          /\ divider \in BOOLEAN /\ right1 \in BOOLEAN /\ right2 \in BOOLEAN

Init == /\ mix \in Mixes
        /\ regs = [r \in Regs |-> FALSE] /\ arch = regs
        /\ dec2exe = ResetFifo(nop)
        /\ exe2mem = ResetFifo(nop2) /\ mem2wbk = ResetFifo(nop2)
        /\ divider = FALSE /\ right1 = TRUE /\ right2 = TRUE

-----------------------------------------------------------------------------
EXE_RES_RE == IF exe2mem.d.class = "plain" THEN exe2mem.d.res ELSE exe2mem.d.junk
MEM_RES_RM == IF mem2wbk.d.class \in {"plain", "load"} THEN mem2wbk.d.res
                                                      ELSE mem2wbk.d.junk

inverted(kind, x) == IF kind = "csrrc" THEN ~x ELSE x

Faulty_Write(file, rd, x) == [file EXCEPT ![rd] = x]

Write(file, rd, x) == IF rd = 0 THEN file ELSE [file EXCEPT ![rd] = x]

(* decod::bypasses, the valid bit of register r.                           *)
r_valid_sd(r) ==
  \/ r = 0
  \/ /\ ~(dec2exe.v /\ dec2exe.d.rd = r)
     /\ ~(exe2mem.v /\ exe2mem.d.rd = r /\ exe2mem.d.class \in {"load", "mul"})
     /\ ~(mem2wbk.v /\ mem2wbk.d.rd = r /\ mem2wbk.d.class = "mul")

(* and its value.  Without a valid bit rdata keeps what it last held.      *)
rdata_sd(r, kind) ==
  IF ~r_valid_sd(r) THEN BOOLEAN
  ELSE IF r # 0 /\ exe2mem.v /\ exe2mem.d.rd = r
       THEN {IF exe2mem.d.class = "csr" THEN exe2mem.d.res ELSE inverted(kind, EXE_RES_RE)}
  ELSE IF r # 0 /\ mem2wbk.v /\ mem2wbk.d.rd = r
       THEN {IF mem2wbk.d.class = "csr" THEN mem2wbk.d.res ELSE inverted(kind, MEM_RES_RM)}
  ELSE {regs[r]}

Faulty_block_in_dec(r) == FALSE

(* An operand as DEC reads it, when it is watched.                         *)
ReadInDec(n, r, kind) == IF n \in mix.watched THEN rdata_sd(r, kind) ELSE {FALSE}

Wanted(n, r) == n \in mix.watched /\ arch[r]

(* Waiting for a register in DEC, for it is a load or MUL that has not got *)
(* far enough for EXE's bypasses.                                          *)
block_in_dec(r) == dec2exe.v /\ dec2exe.d.rd = r /\ dec2exe.d.kind = "load"

Faulty_dependence_on_mult(r) ==
  \/ dec2exe.v /\ dec2exe.d.rd = r /\ dec2exe.d.kind = "mul"
  \/ exe2mem.v /\ exe2mem.d.rd = r /\ exe2mem.d.class = "mul"

dependence_on_mult(r) ==
  \/ dec2exe.v /\ dec2exe.d.rd = r /\ dec2exe.d.kind = "mul"
  \/ exe2mem.v /\ exe2mem.d.rd = r /\ exe2mem.d.class = "mul"
  \/ mem2wbk.v /\ mem2wbk.d.rd = r /\ mem2wbk.d.class = "mul"

csr_in_progress == \/ dec2exe.v /\ Class(dec2exe.d.kind) = "csr"
                   \/ exe2mem.v /\ exe2mem.d.class = "csr"

stall_sd(kind, r1, r2, dec2exe_full) ==
  \/ csr_in_progress
  \/ dec2exe_full
  \/ /\ ~r_valid_sd(r1) \/ ~r_valid_sd(r2)
     /\ \/ kind \in {"branch", "jalr"}
        \/ \E r \in {r1, r2} : block_in_dec(r) \/ dependence_on_mult(r)

-----------------------------------------------------------------------------
(* exec::bypasses on rs1, of the instruction in dec2exe.                   *)
Reads(fifo, r) == r # 0 /\ dec2exe.d.kind # "jalr" /\ fifo.d.rd = r

from_mem1 == Reads(exe2mem, dec2exe.d.r1) /\ exe2mem.d.class # "load"
from_wbk1 == ~from_mem1 /\ Reads(mem2wbk, dec2exe.d.r1)

op1_se ==
  IF from_mem1
  THEN IF exe2mem.d.class = "csr" THEN exe2mem.d.res
                                      ELSE inverted(dec2exe.d.kind, EXE_RES_RE)
  ELSE IF from_wbk1
  THEN IF mem2wbk.d.class = "csr" THEN mem2wbk.d.res
                                      ELSE inverted(dec2exe.d.kind, MEM_RES_RM)
  ELSE dec2exe.d.op1

r1_valid_se == /\ from_mem1 => exe2mem.d.class # "mul" \/ EMPTY_S(exe2mem)
               /\ from_wbk1 => mem2wbk.d.class # "mul" \/ EMPTY_S(mem2wbk)

(* and on rs2, which a store sends to memory.                              *)
from_mem2 == Reads(exe2mem, dec2exe.d.r2) /\ exe2mem.d.class \notin {"load", "mul"}
from_wbk2 == ~from_mem2 /\ Reads(mem2wbk, dec2exe.d.r2) /\ mem2wbk.d.class # "mul"

op2_se ==
  IF from_mem2
  THEN IF exe2mem.d.class = "csr" THEN exe2mem.d.res ELSE EXE_RES_RE
  ELSE IF from_wbk2 THEN MEM_RES_RM ELSE dec2exe.d.op2

(* A load in MEM that nothing newer stands for holds EXE up.               *)
load_in_mem(r) == exe2mem.v /\ Reads(exe2mem, r) /\ exe2mem.d.class = "load"

blocked == \/ ~from_wbk1 /\ load_in_mem(dec2exe.d.r1)
           \/ ~from_wbk2 /\ load_in_mem(dec2exe.d.r2)

Faulty_DIV_BUSY_SE(done) ==
  \/ dec2exe.v /\ dec2exe.d.kind = "div"
  \/ divider /\ ~done

(* The divider starts as soon as its instruction is in dec2exe, and is     *)
(* done some cycles later.                                                 *)
START_SE == dec2exe.v /\ dec2exe.d.kind = "div" /\ ~divider
DIV_BUSY_SE(done) == START_SE \/ (divider /\ ~done)

stall_se(exe2mem_full, done) ==
  exe2mem_full \/ EMPTY_S(dec2exe) \/ blocked \/ ~r1_valid_se \/ DIV_BUSY_SE(done)

-----------------------------------------------------------------------------
Shape(kind, rd, r1, r2) == /\ Class(kind) \in {"load", "csr"} \/ kind = "jalr" => r2 = 0
                           /\ kind = "branch" => rd = 0

MEM_POP(mcache_stall) == ~mcache_stall /\ exe2mem.v

(* The register file after WBK, which always pops.                         *)
written == IF mem2wbk.v THEN Write(regs, mem2wbk.d.rd, mem2wbk.d.res) ELSE regs

(* MEM and WBK, which do not depend on DEC and EXE.                        *)
MemWbk(mcache_stall) ==
  /\ mcache_stall => exe2mem.v /\ exe2mem.d.class = "load"
  /\ mem2wbk' = Clocked(mem2wbk, MEM_POP(mcache_stall), mem2wbk.v, exe2mem.d)
  /\ regs' = written

EXE_POP(mcache_stall, done) ==
  ~stall_se(FULL_S(exe2mem, MEM_POP(mcache_stall)), done)

(* EXE hands its instruction on.  It computes with the operands it has in  *)
(* that cycle, a division with those it had when it started.               *)
Exe(exe_pop, mem_pop, done) ==
  /\ done => divider
  /\ divider' = DIV_BUSY_SE(done)
  /\ LET class == Class(dec2exe.d.kind)
     IN  \E junk \in IF exe_pop /\ class # "plain" /\ dec2exe.d.rd # 0
                           THEN BOOLEAN ELSE {FALSE} :
           exe2mem' = Clocked(exe2mem, exe_pop, mem_pop,
                              [class |-> class, rd |-> dec2exe.d.rd,
                               junk |-> junk, res |-> dec2exe.d.res])

ExeReads(exe_pop) == \/ START_SE
                     \/ exe_pop /\ dec2exe.d.kind \notin {"jalr", "div"}

(* The operands used in a cycle: EXE's, and those DEC itself computes with *)
(* (ok1, ok2).                                                             *)
Use(exe_pop, ok1, ok2) ==
  /\ right1' = (1 \in mix.watched =>
                  right1 /\ ok1 /\ (ExeReads(exe_pop) => op1_se = dec2exe.d.want1))
  /\ right2' = (2 \in mix.watched =>
                  right2 /\ ok2 /\ (ExeReads(exe_pop) => op2_se = dec2exe.d.want2))

(* What an instruction may compute.  Of what is meant for x0, which nobody *)
(* reads, only an alu's result makes a difference: REG must not keep it.   *)
Results(kind, rd) == IF rd # 0 \/ kind = "alu" THEN BOOLEAN ELSE {FALSE}

(* DEC pushes an instruction, with what it can read of its registers.      *)
Decode(kind, rd, r1, r2, exe_pop) ==
  /\ Shape(kind, rd, r1, r2)
  /\ ~stall_sd(kind, r1, r2, FULL_S(dec2exe, exe_pop))
  /\ \E x1 \in ReadInDec(1, r1, kind), x2 \in ReadInDec(2, r2, kind),
     res \in Results(kind, rd) :
       /\ dec2exe' = Clocked(dec2exe, TRUE, exe_pop,
            [kind |-> IF kind = "branch" THEN "alu" ELSE kind, rd |-> rd, r1 |-> r1, r2 |-> r2,
             op1 |-> inverted(kind, x1), op2 |-> x2,
             want1 |-> inverted(kind, Wanted(1, r1)), want2 |-> Wanted(2, r2), res |-> res])
       /\ arch' = Write(arch, rd, res)
       /\ LET inDec == kind \in {"branch", "jalr"}
          IN  Use(exe_pop, inDec => x1 = Wanted(1, r1), inDec => x2 = Wanted(2, r2))

(* DEC has nothing to push: it stalls or if2dec is empty.                  *)
Bubble(exe_pop) ==
  /\ dec2exe' = Clocked(dec2exe, FALSE, exe_pop, nop)
  /\ Use(exe_pop, TRUE, TRUE)
  /\ UNCHANGED arch

(* A cycle without exception.                                              *)
Cycle(mcache_stall, done) ==
  LET exe_pop == EXE_POP(mcache_stall, done)
  IN  /\ MemWbk(mcache_stall)
      /\ Exe(exe_pop, MEM_POP(mcache_stall), done)
      /\ \/ Bubble(exe_pop)
         \/ \E kind \in mix.kinds, rd, r1, r2 \in Regs : Decode(kind, rd, r1, r2, exe_pop)

Faulty_Exception(mcache_stall, done) ==
  /\ MemWbk(mcache_stall)
  /\ dec2exe' = Clocked(dec2exe, FALSE, FALSE, nop)
  /\ exe2mem' = Clocked(exe2mem, TRUE, MEM_POP(mcache_stall), nop2)
  /\ done => divider
  /\ divider' = DIV_BUSY_SE(done)
  /\ arch' = IF exe2mem.v THEN Write(written, exe2mem.d.rd, exe2mem.d.res) ELSE written
  /\ UNCHANGED <<right1, right2>>

(* EXCEPTION_SM: what is in DEC and EXE is replaced by nops, what is in    *)
(* MEM and WBK goes on, and so does the divider.                           *)
Exception(mcache_stall, done) ==
  /\ MemWbk(mcache_stall)
  /\ dec2exe' = Clocked(dec2exe, TRUE, TRUE, nop)
  /\ exe2mem' = Clocked(exe2mem, TRUE, MEM_POP(mcache_stall), nop2)
  /\ done => divider
  /\ divider' = DIV_BUSY_SE(done)
  /\ arch' = IF exe2mem.v THEN Write(written, exe2mem.d.rd, exe2mem.d.res) ELSE written
  /\ UNCHANGED <<right1, right2>>

Next == /\ \E mcache_stall \in mix.stalls, done \in BOOLEAN :
             Cycle(mcache_stall, done) \/ Exception(mcache_stall, done)
        /\ UNCHANGED mix

Spec == Init /\ [][Next]_vars

-----------------------------------------------------------------------------
(* Every rs1 and rs2 an instruction computes, branches or jumps with is    *)
(* the one program order gives it, from whichever of the register file,    *)
(* the bypasses of DEC and those of EXE it came.                           *)
Rs1InOrder == right1
Rs2InOrder == right2

(* A register no instruction in the pipeline will write already has its    *)
(* value in program order, exceptions included: nothing younger than one   *)
(* is written, nothing older is lost.                                      *)
RegistersUpToDate ==
  \A r \in Regs :
    \/ regs[r] = arch[r]
    \/ \E f \in {dec2exe, exe2mem, mem2wbk} : f.v /\ f.d.rd = r

(* The cache answers some time and the divider is done some time, whatever *)
(* DEC does in that cycle when dec2exe has room.                           *)
Answered ==
  LET exe_pop == EXE_POP(FALSE, divider)
  IN  /\ MemWbk(FALSE)
      /\ Exe(exe_pop, MEM_POP(FALSE), divider)
      /\ IF FULL_S(dec2exe, exe_pop) THEN Bubble(exe_pop)
         ELSE /\ dec2exe' \in FifoOf(Decoded) /\ arch' \in RegFile
              /\ right1' \in BOOLEAN /\ right2' \in BOOLEAN
      /\ UNCHANGED mix

FairSpec == Spec /\ WF_vars(Answered)

(* EXE does not wait for ever: no instruction waits for a result that is   *)
(* not coming, or has already gone by.                                     *)
ExeMovesOn == []<>(dec2exe.v => EXE_POP(FALSE, divider))
=============================================================================
