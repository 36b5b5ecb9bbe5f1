------------------------------- MODULE MulPipe -------------------------------
(***************************************************************************)
(* The multiplier and the pipeline it runs beside.  A multiplication is in *)
(* two places at once: as an instruction in dec2exe, exe2mem and mem2wbk   *)
(* (ElasticPipe.tla with N = 3), and as a product under way in x0, x02x1,  *)
(* x1, x12x2 and x2.  Nothing but timing brings them together again: WBK   *)
(* takes whatever x2 shows when a multiplication reaches it.               *)
(*                                                                         *)
(* x0 multiplies in every cycle dec2exe holds something, multiplication or *)
(* not, and with the operands EXE's bypasses show in that cycle.  They are *)
(* the instruction's own in the cycle EXE hands it on.                     *)
(***************************************************************************)
EXTENDS ElasticPipe

CONSTANT Muls    \* the instructions that are multiplications

ASSUME MulsAssumption == Muls \subseteq Item

VARIABLES x02x1, x12x2

mulVars == <<fifo, sent, got, x02x1, x12x2>>

(* What is multiplied: an instruction's operands, right or not yet.        *)
Product == [of : Item, right : BOOLEAN]

MulTypeOK == TypeOK /\ x02x1 \in FifoOf(Product) /\ x12x2 \in FifoOf(Product)

MulInit == /\ Init
           /\ x02x1 = ResetFifo([of |-> 0, right |-> FALSE])
           /\ x12x2 = ResetFifo([of |-> 0, right |-> FALSE])

-----------------------------------------------------------------------------
(* x2 pops whatever it gets, so x1 and x0 are not held up by a full fifo.  *)
X12X2_POP_SX2 == ~EMPTY_S(x12x2)
X02X1_POP_SX1 == ~FULL_S(x12x2, X12X2_POP_SX2) /\ ~EMPTY_S(x02x1)

Faulty_x02x1_push == ~x02x1.v /\ ~EMPTY_S(fifo[1])
x02x1_push == ~FULL_S(x02x1, X02X1_POP_SX1) /\ ~EMPTY_S(fifo[1])

(* MEM waits for the data cache only, and a multiplication does not.       *)
MulCycle(busy, feed, pop) ==
  /\ busy[2] => fifo[2].d \notin Muls
  /\ Cycle(busy, feed, pop)
  /\ x02x1' = Clocked(x02x1, x02x1_push, X02X1_POP_SX1,
                      [of |-> fifo[1].d, right |-> pop[1]])
  /\ x12x2' = Clocked(x12x2, X02X1_POP_SX1, X12X2_POP_SX2, x02x1.d)

MulNext == \E busy, pop \in Signals, feed \in BOOLEAN : MulCycle(busy, feed, pop)

MulSpec == MulInit /\ [][MulNext]_mulVars

(* A stage that waits moves some time, as in ElasticPipe.                  *)
MulStageMoves(i) ==
  \E busy, pop \in Signals, feed \in BOOLEAN : pop[i] /\ MulCycle(busy, feed, pop)

MulFairSpec == MulSpec /\ \A i \in 1..N : WF_mulVars(MulStageMoves(i))

-----------------------------------------------------------------------------
(* The multiplication WBK writes back finds its own product on X2_RES,     *)
(* computed from the operands it had when it left EXE, however EXE and MEM *)
(* were held up: the two pipelines do not drift apart.                     *)
OwnProduct ==
  fifo[3].v /\ fifo[3].d \in Muls => x12x2.d = [of |-> fifo[3].d, right |-> TRUE]
=============================================================================
