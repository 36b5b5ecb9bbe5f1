-------------------------------- MODULE Traps --------------------------------
(***************************************************************************)
(* How the core traps: MEM (mem::csr_exception) decides, DEC and EXE drop  *)
(* what they hold, the CSR file (csr::writing_csr) saves the context, and  *)
(* the timer (timer::thread) asks for an interrupt and waits for the CSR   *)
(* file's acknowledge.                                                     *)
(*                                                                         *)
(* One step is one clock cycle.  Instructions have no address here:        *)
(* FetchLoop.tla follows the PC through traps.  Of the registers only the  *)
(* bits that take part are kept: MIE, MPIE and MPP of mstatus, and of mip  *)
(* and mie the timer's bit 7, the only source of interrupts.  The bus      *)
(* error input is not driven by the core.                                  *)
(***************************************************************************)
EXTENDS Naturals, Fifo

CONSTANTS Kinds,      \* the kinds of instruction DEC receives
          CsrWrites,  \* what its CSR instructions write: pairs <<register, value>>
          CounterMax, \* the timer's counter wraps behind it, 2^32-1 in the core
          CacheStall  \* values MCACHE_STALL_SM may take during a load

User == 0   Machine == 3      \* CURRENT_MODE_SM

(* "ecall" stands for every instruction that raises an exception: the      *)
(* others differ in the number of the cause only, and that of an ecall is  *)
(* the one that depends on the mode.                                       *)
AllKinds == {"nop", "plain", "load", "ecall", "mret", "csr"}
CsrAdr   == {"none", "mstatus", "mie", "mip", "config", "divider"}
Count    == 0..CounterMax

ASSUME KindsAssumption == Kinds \subseteq AllKinds /\ CacheStall \subseteq BOOLEAN
ASSUME CounterAssumption == CounterMax \in Nat /\ CounterMax >= 3
ASSUME CsrWritesAssumption ==
  CsrWrites \subseteq {w \in CsrAdr \X Count : (w[1] \in {"mstatus", "mie", "mip"} => w[2] \in {0, 1})
                                         /\ (w[1] = "config" => w[2] \in 0..3)}

VARIABLES dec2exe, exe2mem,
          mode,     \* CURRENT_MODE_SM
          mpp_sm,   \* what csr_exception's signal of that name was left at
          was,      \* EXCEPTION_SM in the cycle before
          csr_sm,   \* CSR_ENABLE_SM, CSR_WADR_SM and CSR_WDATA_SM
          mstatus, mip, mie,       \* registers of the CSR file
          mcause,
          config_rt, divider_rt, counter_rt, TIMER_INT_ST, ACK_SP,
          owed      \* how often the timer has run out without an interrupt yet, up to 2

core  == <<dec2exe, exe2mem, mode, mpp_sm, was, csr_sm>>
csrs  == <<mstatus, mip, mie, mcause>>
timer == <<config_rt, divider_rt, counter_rt, TIMER_INT_ST>>
vars  == <<core, csrs, timer, ACK_SP, owed>>

(* An instruction, and the mode it was decoded in.                         *)
Inst  == [kind : AllKinds, write : CsrAdr \X Count, mode : {User, Machine}]
Nop   == [kind |-> "nop", write |-> <<"none", 0>>, mode |-> Machine]
Write == [en : BOOLEAN, write : CsrAdr \X Count]

TypeOK ==
  /\ dec2exe \in FifoOf(Inst) /\ exe2mem \in FifoOf(Inst)
  /\ mode \in {User, Machine} /\ mpp_sm \in {User, Machine} /\ was \in BOOLEAN
  /\ csr_sm \in Write
  /\ mstatus \in [mie : BOOLEAN, mpie : BOOLEAN, mpp : {User, Machine}]
  /\ mip \in {0, 1} /\ mie \in {0, 1} /\ mcause \in 0..31
  /\ config_rt \in 0..3 /\ divider_rt \in Count /\ counter_rt \in Count
  /\ TIMER_INT_ST \in BOOLEAN /\ ACK_SP \in BOOLEAN /\ owed \in 0..2

Init ==
  /\ dec2exe = ResetFifo(Nop) /\ exe2mem = ResetFifo(Nop)
  /\ mode = Machine /\ mpp_sm = User /\ was = FALSE
  /\ csr_sm = [en |-> FALSE, write |-> <<"none", 0>>]
  /\ mstatus = [mie |-> FALSE, mpie |-> FALSE, mpp |-> User]
  /\ mip = 0 /\ mie = 0 /\ mcause = 0
  /\ config_rt = 0 /\ divider_rt = 1 /\ counter_rt = 0
  /\ TIMER_INT_ST = FALSE /\ ACK_SP = FALSE /\ owed = 0

-----------------------------------------------------------------------------
(* csr_exception looks at exe2mem's data without asking whether they are   *)
(* valid, and not at MIE.                                                  *)
EXCEPTION_RE == exe2mem.d.kind \in {"ecall", "mret"}
Interrupt    == ~EXCEPTION_RE /\ mip = 1 /\ mie = 1
EXCEPTION_SM == EXCEPTION_RE \/ Interrupt
MRET         == exe2mem.d.kind = "mret"

(* The mode while the trap is taken.                                       *)
NewMode == IF ~EXCEPTION_SM THEN mode ELSE IF MRET THEN User ELSE Machine

(* csr_exception runs, and when it has raised EXCEPTION_SM runs again: the *)
(* first run saves CURRENT_MODE_SM in mpp_sm, the second puts mpp_sm into  *)
(* MSTATUS_WDATA_RM, and saves the mode the first one set.                 *)
Faulty_MppWdata == mpp_sm
MppWdata == IF was THEN mpp_sm ELSE mode
MppLeft  == IF was THEN mode ELSE NewMode

MSTATUS_WDATA_RM == [mie |-> MRET, mpie |-> mstatus.mie, mpp |-> MppWdata]

(* DEC tells ecalls apart by the mode it decodes them in, and MEM numbers  *)
(* them.  An interrupt's number is and-ed with 2^31 and leaves 0.  MRET    *)
(* does not touch the cause.                                               *)
EnvCall == IF exe2mem.d.mode = User THEN 8 ELSE 11
MCAUSE_WDATA_SM == IF MRET THEN mcause ELSE IF EXCEPTION_RE THEN EnvCall ELSE 0

(* A trap leaves the CSR write port as it was in the cycle before.         *)
CsrPort == IF EXCEPTION_SM THEN csr_sm
           ELSE IF exe2mem.d.kind = "csr" THEN [en |-> TRUE, write |-> exe2mem.d.write]
           ELSE [en |-> FALSE, write |-> <<"none", 0>>]

CsrWritten(adr, old) == IF CsrPort.en /\ CsrPort.write[1] = adr THEN CsrPort.write[2] ELSE old

(* The pipeline.  What EXE and DEC hold is replaced by nops.               *)
MEM_POP(mcache_stall) == ~mcache_stall /\ exe2mem.v

exe_pop(exe_busy, mcache_stall) ==
  dec2exe.v /\ ~exe_busy /\ ~FULL_S(exe2mem, MEM_POP(mcache_stall))

csr_in_progress == \E f \in {dec2exe, exe2mem} : f.v /\ f.d.kind = "csr"

dec_push(feed, pop) == feed /\ ~csr_in_progress /\ ~FULL_S(dec2exe, pop)

Faulty_Drop(mcache_stall) ==
  /\ exe2mem' = Clocked(exe2mem, TRUE, MEM_POP(mcache_stall), Nop)
  /\ dec2exe' = Clocked(dec2exe, TRUE, FALSE, Nop)
Drop(mcache_stall) ==
  /\ exe2mem' = Clocked(exe2mem, TRUE, MEM_POP(mcache_stall), Nop)
  /\ dec2exe' = Clocked(dec2exe, TRUE, TRUE, Nop)

Advance(inst, feed, exe_busy, mcache_stall) ==
  LET pop == exe_pop(exe_busy, mcache_stall)
  IN  /\ exe2mem' = Clocked(exe2mem, pop, MEM_POP(mcache_stall), dec2exe.d)
      /\ dec2exe' = Clocked(dec2exe, dec_push(feed, pop), pop, inst)

(* MEM's signals.                                                          *)
Mem == /\ mode' = NewMode
       /\ mpp_sm' = IF EXCEPTION_SM THEN MppLeft ELSE mpp_sm
       /\ was' = EXCEPTION_SM
       /\ csr_sm' = CsrPort

(* mstatus as software writes it, MIE and zeros.                           *)
MstatusWritten == [mie |-> CsrPort.write[2] = 1, mpie |-> FALSE, mpp |-> User]

(* csr::writing_csr: of a register's writers in one cycle the last one     *)
(* wins, and that is the trap.  MIP_WDATA_RM is never written.             *)
Faulty_MIP_WDATA_RM == mip
MIP_WDATA_RM == 0

Faulty_Csr ==
  /\ mie' = CsrWritten("mie", mie)
  /\ mip' = IF EXCEPTION_SM THEN MIP_WDATA_RM
            ELSE IF CsrPort.en THEN CsrWritten("mip", mip)
            ELSE IF TIMER_INT_ST THEN 1 ELSE mip
  /\ ACK_SP' = TIMER_INT_ST
  /\ mstatus' = IF EXCEPTION_SM THEN MSTATUS_WDATA_RM
                ELSE IF CsrPort.en /\ CsrPort.write[1] = "mstatus" THEN MstatusWritten
                ELSE mstatus
  /\ mcause' = IF EXCEPTION_SM THEN MCAUSE_WDATA_SM ELSE mcause

Csr ==
  /\ mie' = CsrWritten("mie", mie)
  /\ mip' = IF EXCEPTION_SM THEN MIP_WDATA_RM
            ELSE IF TIMER_INT_ST THEN 1 ELSE CsrWritten("mip", mip)
  /\ ACK_SP' = TIMER_INT_ST
  /\ mstatus' = IF EXCEPTION_SM THEN MSTATUS_WDATA_RM
                ELSE IF CsrPort.en /\ CsrPort.write[1] = "mstatus" THEN MstatusWritten
                ELSE mstatus
  /\ mcause' = IF EXCEPTION_SM THEN MCAUSE_WDATA_SM ELSE mcause

(* timer::thread.  Bit 0 of the configuration starts it, bit 1 makes it    *)
(* start over by itself.                                                   *)
Faulty_Increment(n) == n + 1
Increment(n) == IF n = CounterMax THEN 0 ELSE n + 1
RunsOut == config_rt \in {1, 3} /\ counter_rt = divider_rt

Timer ==
  /\ divider_rt' = CsrWritten("divider", divider_rt)
  /\ TIMER_INT_ST' = (RunsOut /\ ~ACK_SP)
  /\ counter_rt' = IF config_rt \notin {1, 3} THEN counter_rt
                   ELSE IF ~RunsOut THEN Increment(counter_rt)
                   ELSE IF ACK_SP THEN 0 ELSE counter_rt
  /\ config_rt' = IF RunsOut /\ ACK_SP /\ config_rt = 1 THEN 0
                  ELSE CsrWritten("config", config_rt)

(* A new request, not the one that still waits for its acknowledge.        *)
Expiry == RunsOut /\ ~ACK_SP /\ ~TIMER_INT_ST

Owed == LET more == IF Expiry THEN owed + 1 ELSE owed
            left == IF Interrupt /\ more > 0 THEN more - 1 ELSE more
        IN  IF left > 2 THEN 2 ELSE left

Next ==
  \E feed, exe_busy \in BOOLEAN, mcache_stall \in CacheStall :
  \E kind \in IF feed THEN Kinds ELSE {"nop"} :
  \E w \in IF kind = "csr" THEN CsrWrites ELSE {<<"none", 0>>} :
    /\ mcache_stall => exe2mem.v /\ exe2mem.d.kind = "load"
    /\ IF EXCEPTION_SM
       THEN Drop(mcache_stall)
       ELSE Advance([kind |-> kind, write |-> w, mode |-> mode], feed, exe_busy, mcache_stall)
    /\ Mem /\ Csr /\ Timer
    /\ owed' = Owed

Spec == Init /\ [][Next]_vars
FairSpec == Spec /\ WF_vars(Next)

-----------------------------------------------------------------------------
(* An instruction that could act on the mode it was decoded in is still in *)
(* that mode: the trap that changes the mode in MEM drops what DEC and EXE *)
(* decoded and checked before it.  A load MEM waits for has been checked.  *)
DecodedInMode ==
  \A f \in {dec2exe, exe2mem} :
    f.v /\ f.d.kind \notin {"nop", "load"} => f.d.mode = mode

(* A trap saves the mode it interrupts in mstatus.MPP.  csr_exception gets *)
(* it there by running twice in the cycle, which it does only if the cycle *)
(* before had no trap.                                                     *)
MppIsOldMode == [][EXCEPTION_SM => mstatus'.mpp = mode]_vars

(* The cause of an ecall names the mode the trap interrupts, although DEC  *)
(* chose it cycles before MEM changes the mode.                            *)
CauseNamesMode ==
  [][exe2mem.d.kind = "ecall" => mcause' = IF mode = User THEN 8 ELSE 11]_vars

(* Each time the timer runs out the core is interrupted once, though       *)
(* TIMER_INT_ST stays up until the acknowledge has come back and sets the  *)
(* pending bit in every cycle until then.                                  *)
OneInterruptPerExpiry == [][Interrupt => owed > 0]_vars

(* An interrupt that is enabled comes, unless the core traps for another   *)
(* reason first, or software disables it or clears the pending bit.        *)
InterruptComes ==
  (Expiry /\ mie = 1)
    ~> (EXCEPTION_SM \/ mie = 0 \/ (CsrPort.en /\ CsrPort.write[1] = "mip"))

(* MEM clears MIE in a trap, "No interruption during exception gestion";   *)
(* this does not hold, for Interrupt never looks at MIE (README, part 5).  *)
NoInterruptInHandler == [][Interrupt => mstatus.mie]_vars
=============================================================================
