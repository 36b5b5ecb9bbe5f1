------------------------------ MODULE FetchLoop ------------------------------
(***************************************************************************)
(* The loop that feeds the core: DEC computes the next PC and pushes it    *)
(* into dec2if, IFETCH pops it, reads the instruction and pushes it into   *)
(* if2dec, DEC pops that, decides about jumps and hands the instruction to *)
(* EXE.  The PC lives in register 32 of the register file (REG).           *)
(*                                                                         *)
(* One step is one clock cycle.  SystemC settles the methods of IFETCH and *)
(* DEC to a fixed point before the edge; the operators below are those     *)
(* settled values, and a step is the edge.  The predictor is off, as       *)
(* config.h leaves it, so PRED_TAKEN_RI is low.                            *)
(*                                                                         *)
(* What comes from outside is chosen anew in every cycle: the instruction  *)
(* cache's stall, DEC's operand hazards, a full dec2exe, what the decoded  *)
(* instruction does, and an exception raised in MEM.                       *)
(***************************************************************************)
EXTENDS Address, Fifo

CONSTANT  TrapTargets   \* addresses MEM may send the core to

VARIABLES pc_reg,   \* REG_RR[32], read as READ_PC_SR
          dec2if,   \* fifo of addresses
          if2dec,   \* fifo of fetched instructions
          issued    \* what dec2exe was last given, or the trap after it

vars == <<pc_reg, dec2if, if2dec, issued>>

(* npc as the state of the loop determines it: the oldest address that is  *)
(* in the loop and has not been handed to EXE.                             *)
NextPc ==
  IF if2dec.v /\ ~if2dec.d.nop THEN if2dec.d.pc
  ELSE IF dec2if.v THEN dec2if.d ELSE Succ(pc_reg)

P == INSTANCE Program WITH npc <- NextPc

ASSUME TrapAssumption == TrapTargets \subseteq PC

Fetched == [pc : PC, nop : BOOLEAN]

TypeOK == /\ pc_reg \in PC
          /\ dec2if \in FifoOf(PC)
          /\ if2dec \in FifoOf(Fetched)
          /\ issued \in P!Issue

(* The fifos leave reset after the register file does, so the PC may have  *)
(* moved before the first address is pushed.                               *)
Init == /\ pc_reg \in PC
        /\ dec2if = ResetFifo(0)
        /\ if2dec = ResetFifo([pc |-> 0, nop |-> FALSE])
        /\ issued \in P!Issue

-----------------------------------------------------------------------------
(* The instruction in if2dec: "next" falls through, "rel" is a taken       *)
(* branch or a JAL, "jalr" a JALR.  The exception's nop falls through.     *)
Does == {"next", "rel", "jalr"}

stall_sd(hazard, exe_full) == hazard \/ EMPTY_S(if2dec) \/ exe_full

Faulty_IF2DEC_FLUSH_SD(does, stall) == FALSE

IF2DEC_POP_SD(stall)         == ~stall
IF2DEC_FLUSH_SD(does, stall) == does # "next" /\ ~stall

if_stall(ic_stall, stall) ==
  ic_stall \/ FULL_S(if2dec, IF2DEC_POP_SD(stall)) \/ EMPTY_S(dec2if)

if2dec_push(does, stall, ic_stall) ==
  ~IF2DEC_FLUSH_SD(does, stall) /\ ~if_stall(ic_stall, stall)

Faulty_DEC2IF_POP_SI(does, stall, ic_stall) == ~if_stall(ic_stall, stall)

DEC2IF_POP_SI(does, stall, ic_stall) ==
  IF2DEC_FLUSH_SD(does, stall) \/ ~if_stall(ic_stall, stall)

(* post_reg_read_decoding's offset_branch_sd, added to the address of the  *)
(* instruction in pc_inc.  A branch or JAL encodes its offset; for JALR    *)
(* the offset is the target less READ_PC_SR plus one word, which is the    *)
(* distance from the instruction only if READ_PC_SR is one word ahead.     *)
jump_pc(does, target) ==
  IF does = "jalr"
  THEN Wrap(if2dec.d.pc + Wrap(Wrap(target - pc_reg) + 1))
  ELSE target

add_offset_to_pc(does) == does # "next" /\ ~EMPTY_S(if2dec)

(* The address DEC writes to REG and pushes into dec2if.                   *)
pc_out(does, target) ==
  IF add_offset_to_pc(does) THEN jump_pc(does, target) ELSE Succ(pc_reg)

Faulty_dec2if_push(does, stall, ic_stall) ==
  ~FULL_S(dec2if, DEC2IF_POP_SI(does, stall, ic_stall)) /\ ~stall

(* dec2if_push_sd and WRITE_PC_ENABLE_SD, which are always equal.          *)
dec2if_push(does, stall, ic_stall) ==
  /\ ~FULL_S(dec2if, DEC2IF_POP_SI(does, stall, ic_stall))
  /\ add_offset_to_pc(does) => ~stall

(* A cycle without exception.                                              *)
Cycle(ic_stall, hazard, exe_full, does, target) ==
  LET stall == stall_sd(hazard, exe_full)
      push  == dec2if_push(does, stall, ic_stall)
      next  == pc_out(does, target)
  IN  /\ if2dec.v /\ if2dec.d.nop => does = "next"
      /\ pc_reg' = IF push THEN next ELSE pc_reg
      /\ dec2if' = Clocked(dec2if, push, DEC2IF_POP_SI(does, stall, ic_stall), next)
      /\ if2dec' = Clocked(if2dec, if2dec_push(does, stall, ic_stall),
                           IF2DEC_POP_SD(stall), [pc |-> dec2if.d, nop |-> FALSE])
      /\ issued' = IF stall \/ if2dec.d.nop
                   THEN issued
                   ELSE P!Executed(if2dec.d.pc, pc_reg, does # "next", target)

(* EXCEPTION_SM is high: DEC drops what it decodes, pushes the handler's   *)
(* or MEPC's address, and IFETCH pushes a nop in place of what it fetched. *)
Exception(target) ==
  /\ pc_reg' = target
  /\ dec2if' = Clocked(dec2if, TRUE, TRUE, target)
  /\ if2dec' = Clocked(if2dec, TRUE, TRUE, [pc |-> dec2if.d, nop |-> TRUE])
  /\ issued' = P!Trapped(target)

Next == \/ \E ic_stall, hazard, exe_full \in BOOLEAN, does \in Does, t \in PC :
              Cycle(ic_stall, hazard, exe_full, does, t)
        \/ \E t \in TrapTargets : Exception(t)

Spec == Init /\ [][Next]_vars

-----------------------------------------------------------------------------
(* While an instruction waits in if2dec the address behind it waits in     *)
(* dec2if, register 32 holds that same address, and it is the successor of *)
(* the instruction's own.  JAL and JALR rely on it twice: the link value   *)
(* and JALR's offset are both computed from READ_PC_SR instead of the      *)
(* instruction's address.                                                  *)
ReadPcOneAhead ==
  if2dec.v => /\ dec2if.v
              /\ dec2if.d = pc_reg
              /\ ~if2dec.d.nop => pc_reg = Succ(if2dec.d.pc)

(* Instructions are handed to EXE in program order: each one at the        *)
(* address the previous one led to, none of the prefetched wrong path,     *)
(* none twice and none left out, whatever stalls, flushes and exceptions   *)
(* happen in between.                                                      *)
ProgramOrder == P!PSpec

(* Cycles in which nothing holds the loop up keep coming: the cache        *)
(* answers, operands become available and EXE drains.                      *)
FreeCycle == \E does \in Does, t \in PC : Cycle(FALSE, FALSE, FALSE, does, t)

FairSpec == Spec /\ WF_vars(FreeCycle)

(* The loop never starves itself: an address that is next is decoded,      *)
(* unless a trap leads elsewhere, in spite of DEC waiting for IFETCH's     *)
(* instruction and IFETCH for DEC's address.                               *)
NextPcIssued == \A p \in PC : NextPc = p ~> (issued.pc = p \/ NextPc # p)
=============================================================================
