--------------------------- MODULE FetchLoopProofs ---------------------------
(***************************************************************************)
(* The fetch loop hands instructions to EXE in program order, for every    *)
(* number of addresses and every set of trap targets.                      *)
(***************************************************************************)
EXTENDS FetchLoop, TLAPS

(* ReadPcOneAhead is not inductive alone: an address may wait in dec2if    *)
(* with if2dec empty, and it is the one register 32 holds.                 *)
IInv == /\ TypeOK
        /\ dec2if.v => dec2if.d = pc_reg
        /\ ReadPcOneAhead

(* The successor of an address is an address.                              *)
LEMMA SuccType == \A p \in PC : Succ(p) \in PC
  BY NPcAssumption DEF PC, Succ, Wrap

(* JALR's detour through READ_PC_SR (post_reg_read_decoding, pc_inc) ends  *)
(* at the target when READ_PC_SR is one word ahead of the instruction.     *)
LEMMA JalrExact ==
  \A p, t \in PC : Wrap(p + Wrap(Wrap(t - Succ(p)) + 1)) = t
  BY NPcAssumption DEF PC, Succ, Wrap

(* Any detour stays within the addresses.                                  *)
LEMMA JalrType ==
  \A p, q, t \in PC : Wrap(p + Wrap(Wrap(t - q) + 1)) \in PC
  BY NPcAssumption DEF PC, Wrap

(* A clock edge keeps a fifo a fifo.                                       *)
LEMMA ClockedType ==
  ASSUME NEW D, NEW f \in FifoOf(D), NEW push \in BOOLEAN, NEW pop \in BOOLEAN,
         NEW x \in D
  PROVE  Clocked(f, push, pop, x) \in FifoOf(D)
  BY DEF Clocked, FifoOf

-----------------------------------------------------------------------------
(* The addresses DEC computes in a cycle are addresses.                    *)
LEMMA PcOutType ==
  ASSUME TypeOK, NEW does \in Does, NEW t \in PC
  PROVE  pc_out(does, t) \in PC
  BY SuccType, JalrType DEF TypeOK, pc_out, jump_pc, FifoOf, Fetched

(* The state predicate the initial states satisfy.                         *)
LEMMA InitInv == Init => IInv
  BY NPcAssumption DEF Init, IInv, TypeOK, ReadPcOneAhead, ResetFifo, FifoOf, Fetched, PC

(* A cycle without exception keeps the types.                              *)
LEMMA CycleType ==
  ASSUME TypeOK,
         NEW ic \in BOOLEAN, NEW hz \in BOOLEAN, NEW full \in BOOLEAN,
         NEW does \in Does, NEW t \in PC,
         Cycle(ic, hz, full, does, t)
  PROVE  TypeOK'
<1> DEFINE stall == stall_sd(hz, full)
           push  == dec2if_push(does, stall, ic)
           next  == pc_out(does, t)
           pop   == DEC2IF_POP_SI(does, stall, ic)
<1>1. /\ stall \in BOOLEAN /\ push \in BOOLEAN /\ pop \in BOOLEAN
      /\ if2dec_push(does, stall, ic) \in BOOLEAN
      /\ IF2DEC_POP_SD(stall) \in BOOLEAN
  BY DEF TypeOK, stall_sd, dec2if_push, DEC2IF_POP_SI, if2dec_push, if_stall,
         IF2DEC_POP_SD, IF2DEC_FLUSH_SD, FULL_S, EMPTY_S, FifoOf, add_offset_to_pc
<1>2. next \in PC
  BY PcOutType
<1>3. pc_reg' \in PC
  BY <1>2 DEF Cycle, TypeOK
<1>4. dec2if' \in FifoOf(PC)
  BY <1>1, <1>2, ClockedType DEF Cycle, TypeOK
<1>5. [pc |-> dec2if.d, nop |-> FALSE] \in Fetched
  BY DEF TypeOK, FifoOf, Fetched
<1>6. if2dec' \in FifoOf(Fetched)
  BY <1>1, <1>5, ClockedType DEF Cycle, TypeOK
<1>7. issued' \in P!Issue
  BY DEF Cycle, TypeOK, FifoOf, Fetched, P!Executed, P!Issue, P!PC, PC
<1> QED
  BY <1>3, <1>4, <1>6, <1>7 DEF TypeOK

(* What a cycle without exception does, by who is held up.  DEC held up    *)
(* and IFETCH not: if2dec was empty.                                       *)
LEMMA CycleCases ==
  ASSUME IInv,
         NEW ic \in BOOLEAN, NEW hz \in BOOLEAN, NEW full \in BOOLEAN,
         NEW does \in Does, NEW t \in PC,
         Cycle(ic, hz, full, does, t)
  PROVE  \/ /\ UNCHANGED <<if2dec, issued>>
            /\ \/ UNCHANGED <<pc_reg, dec2if>>
               \/ /\ ~dec2if.v
                  /\ pc_reg' = Succ(pc_reg) /\ dec2if' = [v |-> TRUE, d |-> Succ(pc_reg)]
                  /\ ~if2dec.v
         \/ /\ ~if2dec.v /\ dec2if.v
            /\ pc_reg' = Succ(pc_reg) /\ dec2if' = [v |-> TRUE, d |-> Succ(pc_reg)]
            /\ if2dec' = [v |-> TRUE, d |-> [pc |-> dec2if.d, nop |-> FALSE]]
            /\ UNCHANGED issued
         \/ /\ if2dec.v /\ dec2if.v
            /\ \/ /\ does # "next" /\ ~if2dec.d.nop
                  /\ pc_reg' = jump_pc(does, t)
                  /\ dec2if' = [v |-> TRUE, d |-> jump_pc(does, t)]
                  /\ if2dec' = [if2dec EXCEPT !.v = FALSE]
               \/ /\ does = "next"
                  /\ pc_reg' = Succ(pc_reg)
                  /\ dec2if' = [v |-> TRUE, d |-> Succ(pc_reg)]
                  /\ if2dec' = [v |-> TRUE, d |-> [pc |-> dec2if.d, nop |-> FALSE]]
               \/ /\ does = "next"
                  /\ UNCHANGED <<pc_reg, dec2if>>
                  /\ if2dec' = [if2dec EXCEPT !.v = FALSE]
            /\ issued' = IF if2dec.d.nop THEN issued
                         ELSE P!Executed(if2dec.d.pc, pc_reg, does # "next", t)
<1> USE DEF IInv, TypeOK, ReadPcOneAhead, FifoOf, Fetched,
            Cycle, Clocked, FULL_S, EMPTY_S, stall_sd, if_stall, if2dec_push, dec2if_push,
            IF2DEC_POP_SD, IF2DEC_FLUSH_SD, DEC2IF_POP_SI, add_offset_to_pc, pc_out
<1>1. CASE ~if2dec.v
  BY <1>1
<1>2. CASE if2dec.v /\ (hz \/ full)
  BY <1>2
<1>3. CASE if2dec.v /\ ~(hz \/ full) /\ does # "next"
  BY <1>3
<1>4. CASE if2dec.v /\ ~(hz \/ full) /\ does = "next"
  BY <1>4
<1> QED
  BY <1>1, <1>2, <1>3, <1>4

(* An exception refills the loop with a nop and the new address.           *)
LEMMA ExceptionEffect ==
  ASSUME IInv, NEW t \in TrapTargets, Exception(t)
  PROVE  /\ t \in PC
         /\ pc_reg' = t /\ dec2if' = [v |-> TRUE, d |-> t]
         /\ if2dec' = [v |-> TRUE, d |-> [pc |-> dec2if.d, nop |-> TRUE]]
         /\ issued' = P!Trapped(t)
  BY TrapAssumption DEF Exception, Clocked, IInv, TypeOK, FifoOf

(* The invariant is inductive.                                             *)
LEMMA NextInv == IInv /\ [Next]_vars => IInv'
<1> SUFFICES ASSUME IInv, [Next]_vars PROVE IInv'
  OBVIOUS
<1>1. ASSUME NEW ic \in BOOLEAN, NEW hz \in BOOLEAN, NEW full \in BOOLEAN,
             NEW does \in Does, NEW t \in PC, Cycle(ic, hz, full, does, t)
      PROVE  IInv'
  <2>1. TypeOK'
    BY <1>1, CycleType DEF IInv
  <2>2. (dec2if.v => dec2if.d = pc_reg)' /\ ReadPcOneAhead'
    BY <1>1, CycleCases DEF IInv, TypeOK, ReadPcOneAhead, FifoOf, Fetched
  <2> QED
    BY <2>1, <2>2 DEF IInv
<1>2. ASSUME NEW t \in TrapTargets, Exception(t)
      PROVE  IInv'
  <2>1. /\ t \in PC
        /\ pc_reg' = t /\ dec2if' = [v |-> TRUE, d |-> t]
        /\ if2dec' = [v |-> TRUE, d |-> [pc |-> dec2if.d, nop |-> TRUE]]
        /\ issued' = P!Trapped(t)
    BY <1>2, ExceptionEffect
  <2>2. dec2if.d \in PC /\ P!Trapped(t) \in P!Issue
    BY <2>1 DEF IInv, TypeOK, FifoOf, P!Trapped, P!Issue, P!PC, PC
  <2>3. TypeOK'
    BY <2>1, <2>2 DEF TypeOK, FifoOf, Fetched
  <2>4. (dec2if.v => dec2if.d = pc_reg)' /\ ReadPcOneAhead'
    BY <2>1 DEF ReadPcOneAhead
  <2> QED
    BY <2>3, <2>4 DEF IInv
<1>3. CASE UNCHANGED vars
  BY <1>3 DEF vars, IInv, TypeOK, ReadPcOneAhead
<1> QED
  BY <1>1, <1>2, <1>3 DEF Next

(* The fetch loop's variables keep their types.                            *)
THEOREM TypeCorrect == Spec => []TypeOK
<1>1. IInv => TypeOK
  BY DEF IInv
<1> QED
  BY <1>1, InitInv, NextInv, PTL DEF Spec

(* Whenever DEC decodes an instruction, READ_PC_SR is one word ahead of    *)
(* it, as the link value of JAL and JALR and JALR's offset need.           *)
THEOREM ReadPcAlwaysOneAhead == Spec => []ReadPcOneAhead
<1>1. IInv => ReadPcOneAhead
  BY DEF IInv
<1> QED
  BY <1>1, InitInv, NextInv, PTL DEF Spec

-----------------------------------------------------------------------------
(* The initial states of the loop are initial states of a program.         *)
LEMMA InitRefines == Init => P!PInit
  BY SuccType, NPcAssumption
  DEF Init, P!PInit, NextPc, ResetFifo, P!PC, PC

(* A cycle executes the next instruction of the program or none.           *)
LEMMA CycleRefines ==
  ASSUME IInv,
         NEW ic \in BOOLEAN, NEW hz \in BOOLEAN, NEW full \in BOOLEAN,
         NEW does \in Does, NEW t \in PC,
         Cycle(ic, hz, full, does, t)
  PROVE  \/ P!Execute(does # "next", t)
         \/ UNCHANGED <<NextPc, issued>>
<1> USE DEF IInv, TypeOK, ReadPcOneAhead, FifoOf, Fetched, NextPc
<1>1. CASE if2dec.v /\ dec2if.v /\ does # "next" /\ ~if2dec.d.nop
           /\ dec2if' = [v |-> TRUE, d |-> jump_pc(does, t)]
           /\ if2dec' = [if2dec EXCEPT !.v = FALSE]
           /\ issued' = P!Executed(if2dec.d.pc, pc_reg, TRUE, t)
  <2>1. jump_pc(does, t) = t
    BY <1>1, JalrExact DEF jump_pc
  <2>2. NextPc' = t /\ NextPc = if2dec.d.pc
    BY <1>1, <2>1
  <2> QED
    BY <1>1, <2>2 DEF P!Execute, P!Executed, P!Succ, P!Wrap, Succ, Wrap
<1>2. CASE if2dec.v /\ dec2if.v /\ does = "next" /\ ~if2dec.d.nop
           /\ issued' = P!Executed(if2dec.d.pc, pc_reg, FALSE, t)
           /\ \/ if2dec' = [v |-> TRUE, d |-> [pc |-> dec2if.d, nop |-> FALSE]]
              \/ dec2if' = dec2if /\ if2dec' = [if2dec EXCEPT !.v = FALSE]
  <2>1. NextPc' = Succ(if2dec.d.pc) /\ NextPc = if2dec.d.pc
    BY <1>2
  <2> QED
    BY <1>2, <2>1 DEF P!Execute, P!Executed, P!Succ, P!Wrap, Succ, Wrap
<1>3. CASE if2dec.v /\ dec2if.v /\ if2dec.d.nop
  BY <1>3, CycleCases
<1>4. CASE UNCHANGED <<if2dec, issued>>
  BY <1>4, CycleCases
<1>5. CASE ~if2dec.v /\ dec2if.v /\ UNCHANGED issued
           /\ if2dec' = [v |-> TRUE, d |-> [pc |-> dec2if.d, nop |-> FALSE]]
  BY <1>5
<1> QED
  BY <1>1, <1>2, <1>3, <1>4, <1>5, CycleCases DEF P!Executed

(* A step of the loop is a step of the program or a stutter.               *)
LEMMA NextRefines == IInv /\ [Next]_vars => [P!PNext]_<<NextPc, issued>>
<1> SUFFICES ASSUME IInv, [Next]_vars PROVE [P!PNext]_<<NextPc, issued>>
  OBVIOUS
<1>1. ASSUME NEW ic \in BOOLEAN, NEW hz \in BOOLEAN, NEW full \in BOOLEAN,
             NEW does \in Does, NEW t \in PC, Cycle(ic, hz, full, does, t)
      PROVE  [P!PNext]_<<NextPc, issued>>
  BY <1>1, CycleRefines DEF P!PNext, P!PC, PC
<1>2. ASSUME NEW t \in TrapTargets, Exception(t)
      PROVE  [P!PNext]_<<NextPc, issued>>
  <2>1. NextPc' = t /\ t \in PC /\ issued' = P!Trapped(t)
    BY <1>2, ExceptionEffect DEF NextPc
  <2> QED
    BY <2>1 DEF P!PNext, P!Redirect, P!PC, PC
<1>3. CASE UNCHANGED vars
  BY <1>3 DEF vars, NextPc
<1> QED
  BY <1>1, <1>2, <1>3 DEF Next

(* The fetch loop executes the program in order: its instructions reach    *)
(* EXE at the addresses a hart running one instruction at a time visits,   *)
(* with the right link values, whatever the caches, hazards and exceptions *)
(* do.                                                                     *)
THEOREM InProgramOrder == Spec => ProgramOrder
  BY InitInv, NextInv, InitRefines, NextRefines, PTL DEF Spec, ProgramOrder, P!PSpec
=============================================================================
