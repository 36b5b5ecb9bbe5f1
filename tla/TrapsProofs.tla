----------------------------- MODULE TrapsProofs -----------------------------
(***************************************************************************)
(* Modes and traps, for every counter width, every set of instructions and *)
(* of CSR writes, and every data cache: an instruction that may act was    *)
(* decoded in the mode the core is in, a trap saves the mode it            *)
(* interrupts, and the timer interrupts once each time it runs out.        *)
(***************************************************************************)
EXTENDS Traps, TLAPS

(* What a CSR write port can hold.                                         *)
Writes == CsrWrites \cup {<<"none", 0>>}

CsrPortsLegal == /\ dec2exe.d.write \in Writes
                 /\ exe2mem.d.write \in Writes
                 /\ csr_sm.write \in Writes

(* Two cycles in a row never both trap: the first leaves a nop or a        *)
(* waiting load in exe2mem and nothing pending.                            *)
NoTrapAfterTrap == was => ~EXCEPTION_SM

(* An ecall in exe2mem's register is one DEC told apart in this mode:      *)
(* csr_exception acts on it whether or not exe2mem is full.                *)
EcallInMode == exe2mem.d.kind = "ecall" => exe2mem.d.mode = mode

(* Every pending bit, and every request of the timer that is still to set  *)
(* it, is owed an interrupt; a request that has not been acknowledged is   *)
(* not the one the pending bit stands for.  After the acknowledge it may   *)
(* be, and is withdrawn in the cycle that could take the bit away.         *)
PendingIsOwed == /\ mip = 1 \/ TIMER_INT_ST => owed >= 1
                 /\ mip = 1 /\ TIMER_INT_ST /\ ~ACK_SP => owed = 2

(* Software does not set the pending bit itself.                           *)
SetsNoInterrupt == <<"mip", 1>> \notin CsrWrites

IInv == TypeOK /\ CsrPortsLegal /\ DecodedInMode /\ NoTrapAfterTrap /\ EcallInMode

-----------------------------------------------------------------------------
(* A clock edge keeps a fifo a fifo, and gives it its old or its new data. *)
LEMMA ClockedType ==
  ASSUME NEW D, NEW f \in FifoOf(D), NEW push \in BOOLEAN, NEW pop \in BOOLEAN,
         NEW x \in D, NEW g, g = Clocked(f, push, pop, x)
  PROVE  /\ g \in FifoOf(D)
         /\ g.d \in {f.d, x}
         /\ ~g.v \/ g = f \/ (push /\ g.d = x)
         /\ ~push \/ g.d = x \/ (f.v /\ ~pop /\ g = f)
  BY DEF Clocked, FifoOf

(* The nop that replaces a dropped instruction is an instruction.          *)
LEMMA NopType == Nop \in Inst
<1>1. <<"none", 0>> \in CsrAdr \X Count
  BY CounterAssumption DEF CsrAdr, Count
<1>2. QED
  BY <1>1 DEF Nop, Inst, AllKinds, Machine

(* The initial states satisfy the invariant.                               *)
LEMMA InitInv == Init => IInv
<1> SUFFICES ASSUME Init PROVE IInv
  OBVIOUS
<1>1. <<"none", 0>> \in CsrAdr \X Count /\ 0 \in Count /\ 1 \in Count
  BY CounterAssumption DEF CsrAdr, Count
<1>2. dec2exe \in FifoOf(Inst) /\ exe2mem \in FifoOf(Inst)
  BY NopType DEF Init, ResetFifo, FifoOf
<1>3. TypeOK
  <2>1. mode \in {User, Machine} /\ mpp_sm \in {User, Machine}
    BY DEF Init
  <2>2. csr_sm \in Write
    BY <1>1 DEF Init, Write
  <2>3. mstatus \in [mie : BOOLEAN, mpie : BOOLEAN, mpp : {User, Machine}]
    BY DEF Init
  <2>4. /\ mip \in {0, 1} /\ mie \in {0, 1} /\ mcause \in 0..31 /\ config_rt \in 0..3
        /\ divider_rt \in Count /\ counter_rt \in Count /\ owed \in 0..2
    BY <1>1, SMT DEF Init
  <2>5. was \in BOOLEAN /\ TIMER_INT_ST \in BOOLEAN /\ ACK_SP \in BOOLEAN
    BY DEF Init
  <2>6. QED
    BY <1>2, <2>1, <2>2, <2>3, <2>4, <2>5 DEF TypeOK
<1>4. CsrPortsLegal
  BY DEF Init, CsrPortsLegal, Writes, ResetFifo, Nop
<1>5. DecodedInMode /\ NoTrapAfterTrap /\ EcallInMode
  BY DEF Init, DecodedInMode, NoTrapAfterTrap, EcallInMode, ResetFifo, Nop
<1>6. QED
  BY <1>3, <1>4, <1>5 DEF IInv

(* What software writes fits its register (CsrWritesAssumption).           *)
LEMMA WritesFit ==
  ASSUME NEW w \in Writes
  PROVE  /\ w \in CsrAdr \X Count
         /\ w[1] \in {"mstatus", "mie", "mip"} => w[2] \in {0, 1}
         /\ w[1] = "config" => w[2] \in 0..3
<1>1. <<"none", 0>> \in CsrAdr \X Count
  BY CounterAssumption DEF CsrAdr, Count
<1>2. CASE w = <<"none", 0>>
  BY <1>1, <1>2
<1>3. CASE w \in CsrWrites
  BY <1>3, CsrWritesAssumption
<1>4. QED
  BY <1>2, <1>3 DEF Writes

-----------------------------------------------------------------------------
(* What a CSR write leaves in a register of type S is in S, if what was    *)
(* written fits.                                                           *)
LEMMA CsrWrittenType ==
  ASSUME TypeOK, CsrPortsLegal
  PROVE  /\ CsrPort \in Write /\ CsrPort.write \in Writes
         /\ CsrWritten("mip", mip) \in {0, 1}
         /\ CsrWritten("mie", mie) \in {0, 1}
         /\ CsrWritten("config", config_rt) \in 0..3
         /\ CsrWritten("divider", divider_rt) \in Count
<1>1. CsrPort \in Write /\ CsrPort.write \in Writes
  <2>1. <<"none", 0>> \in CsrAdr \X Count /\ <<"none", 0>> \in Writes
    BY CounterAssumption DEF CsrAdr, Count, Writes
  <2>2. exe2mem.d.write \in CsrAdr \X Count
    BY DEF TypeOK, FifoOf, Inst
  <2>3. QED
    BY <2>1, <2>2 DEF CsrPort, TypeOK, CsrPortsLegal, Write
<1>2. /\ CsrPort.write \in CsrAdr \X Count
      /\ CsrPort.write[1] \in {"mip", "mie"} => CsrPort.write[2] \in {0, 1}
      /\ CsrPort.write[1] = "config" => CsrPort.write[2] \in 0..3
  BY <1>1, WritesFit
<1>3. QED
  BY <1>1, <1>2 DEF CsrWritten, TypeOK

(* The pipeline after a cycle: the fifos' types and writes, and what a     *)
(* trap leaves in them.                                                    *)
LEMMA PipeStep ==
  ASSUME IInv, Next
  PROVE  /\ dec2exe' \in FifoOf(Inst) /\ exe2mem' \in FifoOf(Inst)
         /\ CsrPortsLegal'
         /\ DecodedInMode'
         /\ EcallInMode'
         /\ EXCEPTION_SM => exe2mem'.d.kind \in {"nop", "load"}
<1>1. PICK feed \in BOOLEAN, exe_busy \in BOOLEAN, mcache_stall \in CacheStall,
           kind \in Kinds \cup {"nop"}, w \in Writes :
        /\ mcache_stall => exe2mem.v /\ exe2mem.d.kind = "load"
        /\ IF EXCEPTION_SM
           THEN Drop(mcache_stall)
           ELSE Advance([kind |-> kind, write |-> w, mode |-> mode], feed, exe_busy, mcache_stall)
        /\ Mem
  BY DEF Next, Writes
<1> DEFINE inst == [kind |-> kind, write |-> w, mode |-> mode]
           mempop == MEM_POP(mcache_stall)
           pop == exe_pop(exe_busy, mcache_stall)
           push == dec_push(feed, pop)
<1>2. /\ dec2exe \in FifoOf(Inst) /\ exe2mem \in FifoOf(Inst)
      /\ mempop \in BOOLEAN /\ pop \in BOOLEAN /\ push \in BOOLEAN
      /\ pop => dec2exe.v
      /\ exe2mem.v /\ ~mempop => exe2mem.d.kind = "load"
  <2>1. dec2exe \in FifoOf(Inst) /\ exe2mem \in FifoOf(Inst) /\ mcache_stall \in BOOLEAN
    BY KindsAssumption DEF IInv, TypeOK
  <2>2. mempop \in BOOLEAN /\ (exe2mem.v /\ ~mempop => mcache_stall)
    BY <2>1, Zenon DEF MEM_POP
  <2>3. pop \in BOOLEAN /\ (pop => dec2exe.v)
    BY <2>1, Zenon DEF exe_pop
  <2>4. push \in BOOLEAN
    BY <2>1, Zenon DEF dec_push
  <2>5. QED
    BY <1>1, <2>1, <2>2, <2>3, <2>4, Zenon
<1>3. inst \in Inst
  BY WritesFit, KindsAssumption DEF IInv, TypeOK, Inst, AllKinds
<1>4. csr_sm'.write \in Writes
  BY <1>1, CsrWrittenType DEF IInv, Mem
<1>5. dec2exe.d \in Inst
  BY <1>2 DEF FifoOf
<1> HIDE DEF mempop, pop, push, inst
<1>6. CASE EXCEPTION_SM
  <2>1. /\ exe2mem' = Clocked(exe2mem, TRUE, mempop, Nop)
        /\ dec2exe' = Clocked(dec2exe, TRUE, TRUE, Nop)
    BY <1>1, <1>6 DEF Drop, mempop
  <2>2. dec2exe' = [v |-> TRUE, d |-> Nop]
    BY <2>1 DEF Clocked
  <2>3. exe2mem'.d = Nop \/ (exe2mem' = exe2mem /\ exe2mem.d.kind = "load")
    <3>1. exe2mem' = IF mempop \/ ~exe2mem.v THEN [v |-> TRUE, d |-> Nop] ELSE exe2mem
      BY <2>1, Zenon DEF Clocked
    <3>2. QED
      BY <1>2, <3>1
  <2>4. dec2exe' \in FifoOf(Inst) /\ exe2mem' \in FifoOf(Inst)
    <3>1. TRUE \in BOOLEAN /\ Nop \in Inst
      BY NopType
    <3>2. dec2exe' \in FifoOf(Inst)
      BY <2>2, <3>1 DEF FifoOf
    <3>3. exe2mem' \in FifoOf(Inst)
      BY <1>2, <2>1, <3>1 DEF Clocked, FifoOf
    <3>4. QED
      BY <3>2, <3>3
  <2>5. Nop.write \in Writes /\ Nop.kind = "nop"
    BY DEF Nop, Writes
  <2>6. CsrPortsLegal'
    BY <1>4, <2>2, <2>3, <2>5 DEF CsrPortsLegal, IInv
  <2>7. DecodedInMode'
    BY <2>2, <2>3, <2>5 DEF DecodedInMode
  <2>8. EcallInMode'
    BY <2>3, <2>5 DEF EcallInMode
  <2>9. QED
    BY <2>3, <2>4, <2>5, <2>6, <2>7, <2>8
<1>7. CASE ~EXCEPTION_SM
  <2>1. /\ exe2mem' = Clocked(exe2mem, pop, mempop, dec2exe.d)
        /\ dec2exe' = Clocked(dec2exe, push, pop, inst)
    BY <1>1, <1>7 DEF Advance, mempop, pop, push, inst
  <2>2. dec2exe' \in FifoOf(Inst) /\ exe2mem' \in FifoOf(Inst)
    BY <1>2, <1>3, <1>5, <2>1 DEF Clocked, FifoOf
  <2>3. exe2mem'.d \in {exe2mem.d, dec2exe.d} /\ dec2exe'.d \in {dec2exe.d, inst}
    BY <1>2, <1>3, <1>5, <2>1 DEF Clocked, FifoOf
  <2>4. CsrPortsLegal'
    BY <1>4, <2>3 DEF CsrPortsLegal, IInv, inst
  <2>5. mode' = mode
    BY <1>1, <1>7 DEF Mem, NewMode
  <2>6. exe2mem'.v => exe2mem' = exe2mem \/ (dec2exe.v /\ exe2mem'.d = dec2exe.d)
    <3>1. ~exe2mem'.v \/ exe2mem' = exe2mem \/ (pop /\ exe2mem'.d = dec2exe.d)
      BY <1>2, <1>5, <2>1 DEF Clocked, FifoOf
    <3>2. QED
      BY <1>2, <3>1
  <2>7. dec2exe'.v => dec2exe' = dec2exe \/ dec2exe'.d = inst
    <3>1. ~dec2exe'.v \/ dec2exe' = dec2exe \/ (push /\ dec2exe'.d = inst)
      BY <1>2, <1>3, <2>1 DEF Clocked, FifoOf
    <3>2. QED
      BY <3>1, Zenon
  <2>8. DecodedInMode'
    BY <2>5, <2>6, <2>7 DEF DecodedInMode, IInv, inst
  <2>9. EcallInMode'
    <3>1. exe2mem'.d = exe2mem.d \/ (dec2exe.v /\ exe2mem'.d = dec2exe.d)
      <4>1. exe2mem'.d = exe2mem.d \/ (pop /\ exe2mem'.d = dec2exe.d)
        BY <1>2, <1>5, <2>1 DEF Clocked, FifoOf
      <4>2. QED
        BY <1>2, <4>1
    <3>2. exe2mem.d.kind # "ecall"
      BY <1>7 DEF EXCEPTION_SM, EXCEPTION_RE
    <3>3. QED
      BY <2>5, <3>1, <3>2 DEF EcallInMode, DecodedInMode, IInv
  <2>10. QED
    BY <1>7, <2>2, <2>4, <2>8, <2>9
<1>8. QED
  BY <1>6, <1>7

(* The registers keep their types: what writes them fits.                  *)
LEMMA TypeStep ==
  ASSUME IInv, Next
  PROVE  TypeOK'
<1>1. Mem /\ Csr /\ Timer /\ owed' = Owed
  BY DEF Next
<1>2. TypeOK /\ CsrPortsLegal
  BY DEF IInv
<1>3. EXCEPTION_SM \in BOOLEAN /\ MRET \in BOOLEAN /\ RunsOut \in BOOLEAN
  BY DEF EXCEPTION_SM, EXCEPTION_RE, Interrupt, MRET, RunsOut
<1>4. dec2exe' \in FifoOf(Inst) /\ exe2mem' \in FifoOf(Inst)
  BY PipeStep
<1>5. mode' \in {User, Machine} /\ mpp_sm' \in {User, Machine}
  BY <1>1, <1>2 DEF Mem, NewMode, MppLeft, TypeOK
<1>6. was' \in BOOLEAN /\ csr_sm' \in Write
  BY <1>1, <1>2, <1>3, CsrWrittenType DEF Mem
<1>7. mstatus' \in [mie : BOOLEAN, mpie : BOOLEAN, mpp : {User, Machine}]
  <2>1. MSTATUS_WDATA_RM \in [mie : BOOLEAN, mpie : BOOLEAN, mpp : {User, Machine}]
    BY <1>2, <1>3 DEF MSTATUS_WDATA_RM, MppWdata, TypeOK
  <2>2. MstatusWritten \in [mie : BOOLEAN, mpie : BOOLEAN, mpp : {User, Machine}]
    BY DEF MstatusWritten
  <2>3. QED
    BY <1>1, <1>2, <2>1, <2>2 DEF Csr, TypeOK
<1>8. mip' \in {0, 1} /\ mie' \in {0, 1} /\ mcause' \in 0..31
  <2>1. mcause' \in 0..31
    <3>1. MCAUSE_WDATA_SM \in {mcause, 0, 8, 11}
      BY DEF MCAUSE_WDATA_SM, EnvCall
    <3>2. QED
      BY <1>1, <1>2, <3>1 DEF Csr, TypeOK
  <2>2. QED
    BY <1>1, <1>2, <2>1, CsrWrittenType DEF Csr, MIP_WDATA_RM, TypeOK
<1>9. config_rt' \in 0..3 /\ divider_rt' \in Count
  BY <1>1, <1>2, CsrWrittenType DEF Timer
<1>10. counter_rt' \in Count
  BY <1>1, <1>2, CounterAssumption DEF Timer, Increment, Count, TypeOK
<1>11. TIMER_INT_ST' \in BOOLEAN /\ ACK_SP' \in BOOLEAN
  BY <1>1, <1>2, <1>3 DEF Timer, Csr, TypeOK
<1>12. owed' \in 0..2
  BY <1>1, <1>2 DEF Owed, TypeOK
<1>13. QED
  BY <1>4, <1>5, <1>6, <1>7, <1>8, <1>9, <1>10, <1>11, <1>12 DEF TypeOK

(* A trap leaves nothing that could trap in the next cycle: exe2mem holds  *)
(* a nop or a load, and the pending bit is cleared.                        *)
LEMMA NextInv == IInv /\ [Next]_vars => IInv'
<1> SUFFICES ASSUME IInv, [Next]_vars PROVE IInv'
  OBVIOUS
<1>1. CASE Next
  <2>1. NoTrapAfterTrap'
    <3>1. SUFFICES ASSUME EXCEPTION_SM PROVE ~EXCEPTION_SM'
      BY <1>1 DEF Next, Mem, NoTrapAfterTrap
    <3>2. exe2mem'.d.kind \in {"nop", "load"}
      BY <1>1, <3>1, PipeStep
    <3>3. mip' = 0
      BY <1>1, <3>1 DEF Next, Csr, MIP_WDATA_RM
    <3>4. QED
      BY <3>2, <3>3 DEF EXCEPTION_SM, EXCEPTION_RE, Interrupt
  <2>2. QED
    BY <1>1, <2>1, PipeStep, TypeStep DEF IInv
<1>2. CASE UNCHANGED vars
  <2>1. TypeOK' /\ CsrPortsLegal'
    BY <1>2 DEF IInv, TypeOK, CsrPortsLegal, vars, core, csrs, timer
  <2>2. DecodedInMode' /\ NoTrapAfterTrap' /\ EcallInMode'
    BY <1>2 DEF IInv, DecodedInMode, NoTrapAfterTrap, EcallInMode, EXCEPTION_SM, EXCEPTION_RE,
                Interrupt, vars, core, csrs
  <2>3. QED
    BY <2>1, <2>2 DEF IInv
<1>3. QED
  BY <1>1, <1>2

(* Two cycles in a row do not both trap, so csr_exception's second run     *)
(* stores what its first run read: the mode before the trap.               *)
LEMMA StepSavesMode == IInv /\ [Next]_vars => [EXCEPTION_SM => mstatus'.mpp = mode]_vars
<1> SUFFICES ASSUME IInv, Next, EXCEPTION_SM PROVE mstatus'.mpp = mode
  OBVIOUS
<1>1. ~was
  BY DEF IInv, NoTrapAfterTrap
<1>2. mstatus' = MSTATUS_WDATA_RM
  BY DEF Next, Csr
<1>3. QED
  BY <1>1, <1>2 DEF MSTATUS_WDATA_RM, MppWdata

(* The mode DEC told the ecall apart in is the mode its trap interrupts.   *)
LEMMA StepNamesMode ==
  IInv /\ [Next]_vars =>
    [exe2mem.d.kind = "ecall" => mcause' = IF mode = User THEN 8 ELSE 11]_vars
<1> SUFFICES ASSUME IInv, Next, exe2mem.d.kind = "ecall"
             PROVE  mcause' = IF mode = User THEN 8 ELSE 11
  OBVIOUS
<1>1. mcause' = MCAUSE_WDATA_SM
  BY DEF Next, Csr, EXCEPTION_SM, EXCEPTION_RE
<1>2. QED
  BY <1>1 DEF MCAUSE_WDATA_SM, EnvCall, MRET, EXCEPTION_RE, IInv, EcallInMode

(* Software can only clear the pending bit.                                *)
LEMMA CsrClearsMip ==
  ASSUME TypeOK, CsrPortsLegal, SetsNoInterrupt
  PROVE  CsrWritten("mip", mip) \in {0, mip}
<1>1. CsrPort \in Write /\ CsrPort.write \in Writes
  BY CsrWrittenType
<1>2. CASE CsrPort.write[1] = "mip"
  <2>1. CsrPort.write[2] \in {0, 1}
    BY <1>1, <1>2, WritesFit
  <2>2. CsrPort.write \in CsrAdr \X Count
    BY <1>1, WritesFit
  <2>3. CsrPort.write = <<"mip", CsrPort.write[2]>>
    BY <1>2, <2>2
  <2>4. CsrPort.write # <<"mip", 1>>
    BY <1>1 DEF SetsNoInterrupt, Writes
  <2>5. QED
    BY <2>1, <2>3, <2>4 DEF CsrWritten
<1>3. CASE CsrPort.write[1] # "mip"
  BY <1>3 DEF CsrWritten
<1>4. QED
  BY <1>2, <1>3

(* The handshake of the timer with the CSR file: a request stands for two  *)
(* cycles, sets the pending bit in both, and is down before the            *)
(* acknowledge is.                                                         *)
LEMMA StepOwes ==
  ASSUME IInv, PendingIsOwed, SetsNoInterrupt, [Next]_vars
  PROVE  PendingIsOwed'
<1>1. CASE Next
  <2>1. TypeOK /\ Csr /\ Timer /\ owed' = Owed
    BY <1>1 DEF IInv, Next
  <2>2. CsrWritten("mip", mip) \in {0, mip}
    BY CsrClearsMip DEF IInv
  <2>3. /\ mip \in {0, 1} /\ TIMER_INT_ST \in BOOLEAN /\ ACK_SP \in BOOLEAN /\ owed \in 0..2
        /\ RunsOut \in BOOLEAN
    BY <2>1 DEF TypeOK, RunsOut
  <2>4. /\ TIMER_INT_ST' = (RunsOut /\ ~ACK_SP)
        /\ ACK_SP' = TIMER_INT_ST
        /\ EXCEPTION_SM => mip' = 0
        /\ ~EXCEPTION_SM /\ TIMER_INT_ST => mip' = 1
        /\ ~EXCEPTION_SM /\ ~TIMER_INT_ST => mip' \in {0, mip}
    BY <2>1, <2>2 DEF Csr, Timer, MIP_WDATA_RM
  <2>5. Interrupt => EXCEPTION_SM /\ mip = 1
    BY DEF Interrupt, EXCEPTION_SM
  <2>6. /\ Interrupt \in BOOLEAN /\ Expiry = (RunsOut /\ ~ACK_SP /\ ~TIMER_INT_ST)
        /\ Expiry \in BOOLEAN
    BY DEF Interrupt, EXCEPTION_RE, Expiry, RunsOut
  <2>7. /\ ~Interrupt /\ ~Expiry => owed' = owed
        /\ ~Interrupt /\ Expiry => owed' = IF owed = 2 THEN 2 ELSE owed + 1
        /\ Interrupt /\ ~Expiry => owed' = IF owed = 0 THEN 0 ELSE owed - 1
        /\ Interrupt /\ Expiry => owed' = owed
    BY <2>1, <2>3, <2>6 DEF Owed
  <2>8. CASE Interrupt
    BY <2>3, <2>4, <2>5, <2>6, <2>7, <2>8 DEF PendingIsOwed
  <2>9. CASE ~Interrupt
    BY <2>3, <2>4, <2>6, <2>7, <2>9 DEF PendingIsOwed
  <2>10. QED
    BY <2>8, <2>9
<1>2. CASE UNCHANGED vars
  BY <1>2 DEF PendingIsOwed, vars, csrs, timer
<1>3. QED
  BY <1>1, <1>2

-----------------------------------------------------------------------------
(* The invariant holds in every state of every behaviour.                  *)
LEMMA Invariance == Spec => []IInv
  BY InitInv, NextInv, PTL DEF Spec

(* The CSR registers, the timer and the two fifos always hold values of    *)
(* their types: csr::writing_csr, the timer and the traps never produce    *)
(* one outside, given that what CSR instructions write fits.               *)
THEOREM TypeCorrect == Spec => []TypeOK
<1>1. IInv => TypeOK
  BY DEF IInv
<1>2. QED
  BY <1>1, Invariance, PTL

(* No instruction that could act on its mode is in DEC's or EXE's output   *)
(* with a mode other than the core's: mem::csr_exception's EXCEPTION_SM    *)
(* makes decod and exec push nops in the very cycle the mode changes.      *)
THEOREM AlwaysDecodedInMode == Spec => []DecodedInMode
<1>1. IInv => DecodedInMode
  BY DEF IInv
<1>2. QED
  BY <1>1, Invariance, PTL

(* Every trap stores in mstatus.MPP the mode the core was in before it,    *)
(* although csr_exception runs twice in that cycle.                        *)
THEOREM AlwaysMppIsOldMode == Spec => MppIsOldMode
  BY Invariance, StepSavesMode, PTL DEF Spec, MppIsOldMode

(* mcause of an ecall is that of the mode the core was in when MEM took    *)
(* the trap, whatever has changed the mode since DEC looked at it.         *)
THEOREM CauseAlwaysNamesMode == Spec => CauseNamesMode
  BY Invariance, StepNamesMode, PTL DEF Spec, CauseNamesMode

(* The core is never interrupted more often than the timer has run out     *)
(* (timer::thread, csr::writing_csr), although TIMER_INT_ST sets the       *)
(* pending bit in every cycle until the acknowledge is back, and whatever  *)
(* software writes to the timer meanwhile; it must not set the pending bit *)
(* of mip itself.                                                          *)
THEOREM InterruptsAreOwed ==
  ASSUME SetsNoInterrupt
  PROVE  Spec => OneInterruptPerExpiry
<1>1. Init => PendingIsOwed
  BY DEF Init, PendingIsOwed
<1>2. IInv /\ PendingIsOwed /\ [Next]_vars => PendingIsOwed'
  BY StepOwes
<1>3. IInv /\ PendingIsOwed => (Interrupt => owed > 0)
  BY DEF PendingIsOwed, Interrupt, IInv, TypeOK
<1>4. IInv /\ PendingIsOwed /\ [Next]_vars => [Interrupt => owed > 0]_vars
  BY <1>3
<1>5. QED
  BY <1>1, <1>2, <1>4, Invariance, PTL DEF Spec, OneInterruptPerExpiry
=============================================================================
