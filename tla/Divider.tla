------------------------------- MODULE Divider -------------------------------
(***************************************************************************)
(* The divider beside EXE (CORE/EXE/Diviseur) and EXE's handshake with it  *)
(* (exec::manage_divider, exec::manage_fifo), for words of Width bits: a   *)
(* restoring division, one quotient bit per clock cycle.                   *)
(*                                                                         *)
(* One step is one clock cycle.  The operands come through EXE's bypasses. *)
(* They are right when the division starts, and as long as the instruction *)
(* before it has not left MEM; after that op1_se and op2_se may show       *)
(* anything.                                                               *)
(***************************************************************************)
EXTENDS Integers

CONSTANTS Width,    \* word width, 32 in the core
          Numbers   \* the operands

ASSUME WidthAssumption == Width \in Nat /\ Width >= 2 /\ Numbers \subseteq 0..2^Width - 1

Operand == 0..2^Width - 1
WideWord == 0..2^(2*Width) - 1
Div == 1   Divu == 2   Rem == 3   Remu == 0      \* CMD_RD
Command == {Div, Divu, Rem, Remu}

VARIABLES calculating,   \* current_state = 1
          shift_cpt, divisor, quotient, reminder,
          quotient_sign, reminder_sign,
          DIVIDER_RES_OUTPUT,   \* what RET wrote when it ran last
          req,           \* the division in dec2exe
          valid,         \* dec2exe holds a division
          full           \* the instruction before it is still in exe2mem

divVars == <<calculating, shift_cpt, divisor, quotient, reminder, quotient_sign,
             reminder_sign, DIVIDER_RES_OUTPUT, req, valid, full>>

Request == [op1 : Numbers, op2 : Numbers, cmd : Command]

TypeOK == /\ calculating \in BOOLEAN
          /\ shift_cpt \in 0..Width
          /\ divisor \in WideWord /\ reminder \in WideWord
          /\ quotient \in Operand /\ DIVIDER_RES_OUTPUT \in Operand
          /\ quotient_sign \in BOOLEAN /\ reminder_sign \in BOOLEAN
          /\ req \in Request /\ valid \in BOOLEAN /\ full \in BOOLEAN

DivInit == /\ calculating = FALSE /\ shift_cpt = 0
           /\ divisor = 0 /\ quotient = 0 /\ reminder = 0 /\ DIVIDER_RES_OUTPUT = 0
           /\ quotient_sign = FALSE /\ reminder_sign = FALSE
           /\ req \in Request /\ valid = FALSE /\ full = FALSE

-----------------------------------------------------------------------------
Negative(x)  == x >= 2^(Width-1)
Complement(x) == (2^Width - x) % 2^Width      \* (~x) + 1
Faulty_Magnitude(x, signed) == IF Negative(x) THEN Complement(x) ELSE x

Magnitude(x, signed) == IF signed /\ Negative(x) THEN Complement(x) ELSE x
signed_inst(cmd) == cmd \in {Div, Rem}

DONE_SE  == ~calculating /\ shift_cpt = Width
Faulty_START_SE == valid

START_SE == valid /\ ~DONE_SE
BUSY_SE  == calculating \/ START_SE

(* mae_output, idle: registers and signs for the next division.            *)
LoadRegs(op1, op2, cmd) ==
  /\ IF op2 # 0
     THEN /\ divisor' = Magnitude(op2, signed_inst(cmd)) * 2^(Width-1)
          /\ reminder' = Magnitude(op1, signed_inst(cmd))
          /\ quotient' = 0
     ELSE /\ reminder' = op1
          /\ quotient' = 2^Width - 1
          /\ UNCHANGED divisor
  /\ quotient_sign' = (op2 # 0 /\ signed_inst(cmd) /\ Negative(op1) # Negative(op2))
  /\ reminder_sign' = (op2 # 0 /\ signed_inst(cmd) /\ Negative(op1))

Start(op1, op2, cmd) ==
  /\ START_SE /\ ~calculating
  /\ LoadRegs(op1, op2, cmd)
  /\ calculating' = (op2 # 0)
  /\ shift_cpt' = IF op2 # 0 THEN 0 ELSE Width

Faulty_Shift ==
  /\ calculating
  /\ divisor' = divisor \div 2
  /\ IF divisor > reminder
     THEN quotient' = (2 * quotient) % 2^Width /\ UNCHANGED reminder
     ELSE /\ quotient' = (2 * quotient + 1) % 2^Width
          /\ reminder' = reminder - divisor
  /\ shift_cpt' = shift_cpt + 1
  /\ calculating' = (shift_cpt # Width)
  /\ UNCHANGED <<quotient_sign, reminder_sign>>

(* mae_output, calculating: one bit of the quotient.                       *)
Shift ==
  /\ calculating
  /\ divisor' = divisor \div 2
  /\ IF divisor > reminder
     THEN quotient' = (2 * quotient) % 2^Width /\ UNCHANGED reminder
     ELSE /\ quotient' = (2 * quotient + 1) % 2^Width
          /\ reminder' = reminder - divisor
  /\ shift_cpt' = shift_cpt + 1
  /\ calculating' = (shift_cpt # Width-1)
  /\ UNCHANGED <<quotient_sign, reminder_sign>>

(* Idle, or done.  Before DONE_SE takes START_SE back mae_output has run   *)
(* once more, and the registers and signs of a finished division are       *)
(* overwritten at the end of its cycle.                                    *)
Rest ==
  /\ ~calculating /\ ~START_SE
  /\ shift_cpt' = 0
  /\ UNCHANGED calculating

Idle == /\ Rest /\ ~valid
        /\ UNCHANGED <<divisor, quotient, reminder, quotient_sign, reminder_sign>>

Done(op1, op2, cmd) == Rest /\ valid /\ LoadRegs(op1, op2, cmd)

(* RET.  It is sensitive to the two registers and the command, not to the  *)
(* signs: it runs after an edge that changes one of the three, with the    *)
(* signs of the cycle before, and otherwise the output keeps its value.    *)
RET ==
  IF req.cmd \in {Rem, Remu}
  THEN IF reminder_sign THEN Complement(reminder % 2^Width) ELSE reminder % 2^Width
  ELSE IF quotient_sign THEN Complement(quotient) ELSE quotient

Output ==
  DIVIDER_RES_OUTPUT' =
    IF reminder' # reminder \/ quotient' # quotient \/ req'.cmd # req.cmd
    THEN RET' ELSE DIVIDER_RES_OUTPUT

-----------------------------------------------------------------------------
(* EXE hands its instruction on unless the divider is busy or exe2mem is   *)
(* full, and then receives a division or another instruction.              *)
exe_pop == ~BUSY_SE /\ ~full

(* CMD_RD has bits of every instruction, of a division or not.             *)
NoDivision == /\ valid' = FALSE /\ full' = FALSE
              /\ \E c \in Command : req' = [req EXCEPT !.cmd = c]

NextInstruction ==
  IF exe_pop
  THEN \/ valid' = TRUE /\ req' \in Request /\ full' \in BOOLEAN
       \/ NoDivision
  ELSE UNCHANGED <<req, valid>> /\ full' \in {FALSE, full}

(* The operands EXE's bypasses show when the divider reads them.           *)
Shown(op1, op2) == (full \/ ~DONE_SE) => op1 = req.op1 /\ op2 = req.op2

Divide == \/ Idle
          \/ Shift
          \/ \E op1, op2 \in Numbers :
               /\ Shown(op1, op2)
               /\ \/ Start(op1, op2, req.cmd)
                  \/ Done(op1, op2, req.cmd)

Cycle == Divide /\ NextInstruction /\ Output

(* An exception replaces the division in dec2exe by a nop; the divider     *)
(* does not notice.                                                        *)
Exception == Divide /\ NoDivision /\ Output

DivNext == Cycle \/ Exception

DivSpec == DivInit /\ [][DivNext]_divVars

-----------------------------------------------------------------------------
(* What the instructions return (RV32M), on words of Width bits.           *)
Number(x, signed) == IF signed /\ Negative(x) THEN x - 2^Width ELSE x
Abs(x) == IF x < 0 THEN -x ELSE x
SameSign(x, y) == (x < 0) = (y < 0)

Result(r) ==
  LET a == Number(r.op1, signed_inst(r.cmd))
      b == Number(r.op2, signed_inst(r.cmd))
      q == IF b = 0 THEN -1
           ELSE IF SameSign(a, b) THEN Abs(a) \div Abs(b) ELSE -(Abs(a) \div Abs(b))
  IN  (IF r.cmd \in {Div, Divu} THEN q ELSE IF b = 0 THEN a ELSE a - q * b) % 2^Width

(* A division whose dividend is the smaller magnitude need not change the  *)
(* registers: they may have held the same numbers before, and RET does not *)
(* run with the signs this division has set.                               *)
Undivided(r) == LET s == signed_inst(r.cmd) IN
  r.op2 # 0 /\ Magnitude(r.op1, s) < Magnitude(r.op2, s)

(* Whenever EXE hands a division on, it hands on its quotient or reminder: *)
(* for every sign, for a zero divisor and for the quotient that does not   *)
(* fit, whether or not a trap abandoned a division before it or exe2mem    *)
(* was full when it was done.  Only the reminder that is the dividend      *)
(* itself may have the sign of a division before it (Diviseur.h:66-67).    *)
DivisionRight ==
  valid /\ exe_pop =>
    \/ DIVIDER_RES_OUTPUT = Result(req)
    \/ /\ req.cmd \in {Rem, Remu} /\ Undivided(req)
       /\ DIVIDER_RES_OUTPUT = Complement(Result(req))

(* What RV32IM says (README.md: "We choosed to implement a **RV32IM**").   *)
(* Does not hold: rem 1, 2 leaves 1 and 0 in the registers, and rem -1, 2  *)
(* after it does not change them.                                          *)
EveryDivisionRight == valid /\ exe_pop => DIVIDER_RES_OUTPUT = Result(req)

(* MEM empties exe2mem some time.                                          *)
FairSpec == DivSpec /\ WF_divVars(DivNext) /\ WF_divVars(Cycle /\ ~full')

(* A division ends, unless an exception drops it.                          *)
DivisionEnds == valid ~> (exe_pop \/ ~valid)
=============================================================================
