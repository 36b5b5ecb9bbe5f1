------------------------------ MODULE PipeProofs ------------------------------
(***************************************************************************)
(* A chain of fifos neither loses, doubles nor reorders instructions, for  *)
(* every number of fifos and instructions; and in a chain of three a       *)
(* multiplication's product reaches x2 in the cycle the multiplication     *)
(* reaches WBK, whichever instructions are multiplications.                *)
(***************************************************************************)
EXTENDS MulPipe, TLAPS

(* The edge of the mini core's fifo and of UTIL/fifo.h are one function, so *)
(* what is proved of one chain holds of the other.                         *)
LEMMA SameEdge ==
  ASSUME NEW D, NEW f \in FifoOf(D), NEW pushed \in BOOLEAN, NEW popped \in BOOLEAN,
         NEW x \in D
  PROVE  MiniClocked(f, pushed, popped, x) = Clocked(f, pushed, popped, x)
  BY DEF MiniClocked, Clocked, FULL_S, FifoOf

(* Instructions further on are older, and what is in the fifos is exactly  *)
(* what WBK still has to see.                                              *)
Older == \A i, j \in 1..N :
           i < j /\ fifo[i].v /\ fifo[j].v => fifo[j].d < fifo[i].d

InFlight == \A i \in 1..N : fifo[i].v => fifo[i].d \in got+1..sent

Present == \A k \in got+1..sent : \E i \in 1..N : fifo[i].v /\ fifo[i].d = k

IInv == TypeOK /\ got <= sent /\ Older /\ InFlight /\ Present

-----------------------------------------------------------------------------
(* A stage pops only what is there.                                        *)
LEMMA PopValid ==
  ASSUME NEW busy, NEW pop, Settled(busy, pop), NEW i \in 1..N, pop[i]
  PROVE  fifo[i].v
  BY DEF Settled, stall, EMPTY_S

(* A push finds room.                                                      *)
LEMMA PushRoom ==
  ASSUME NEW busy, NEW pop, NEW feed, Settled(busy, pop), NEW i \in 1..N,
         push(i, feed, pop)
  PROVE  ~fifo[i].v \/ pop[i]
<1>1. CASE i = 1
  BY <1>1 DEF push, dec_push, FULL_S
<1>2. CASE i # 1
  <2>1. i-1 \in 1..N /\ i-1 < N /\ (i-1)+1 = i
    BY <1>2, NAssumption
  <2> QED
    BY <1>2, <2>1 DEF push, Settled, stall, FULL_S
<1> QED
  BY <1>1, <1>2

(* What an edge does to fifo i.                                            *)
LEMMA CycleFifo ==
  ASSUME IInv, NEW busy \in Signals, NEW pop \in Signals, NEW feed \in BOOLEAN,
         Cycle(busy, feed, pop), NEW i \in 1..N
  PROVE  /\ push(i, feed, pop) => fifo'[i] = [v |-> TRUE, d |-> din(i)]
         /\ ~push(i, feed, pop) /\ pop[i] => fifo'[i] = [v |-> FALSE, d |-> fifo[i].d]
         /\ ~push(i, feed, pop) /\ ~pop[i] => fifo'[i] = fifo[i]
<1>1. fifo[i] \in FifoOf(Item) /\ pop[i] \in BOOLEAN
  BY DEF IInv, TypeOK, Signals
<1>2. push(i, feed, pop) \in BOOLEAN
  BY NAssumption DEF push, dec_push, FULL_S, Signals
<1>3. push(i, feed, pop) => ~fifo[i].v \/ pop[i]
  BY PushRoom DEF Cycle
<1>4. fifo'[i] = Clocked(fifo[i], push(i, feed, pop), pop[i], din(i))
  BY DEF Cycle
<1>5. pop[i] => fifo[i].v
  BY PopValid DEF Cycle
<1> QED
  BY <1>1, <1>2, <1>3, <1>4, <1>5 DEF Clocked, FifoOf

(* The chain is empty after reset.                                         *)
LEMMA InitInv == Init => IInv
  BY MaxSentAssumption, NAssumption
  DEF Init, IInv, TypeOK, Older, InFlight, Present, ResetFifo, FifoOf, Item

(* What the last stage sees: WBK pops the oldest instruction.              *)
LEMMA CycleEnds ==
  ASSUME IInv, NEW busy \in Signals, NEW pop \in Signals, NEW feed \in BOOLEAN,
         Cycle(busy, feed, pop)
  PROVE  /\ pop[N] <=> fifo[N].v
         /\ got' = IF fifo[N].v THEN got + 1 ELSE got
         /\ sent' = IF dec_push(feed, pop) THEN sent + 1 ELSE sent
         /\ dec_push(feed, pop) => sent < MaxSent
         /\ got' <= sent
<1>1. N \in 1..N /\ ~(N < N)
  BY NAssumption
<1>2. pop[N] <=> fifo[N].v
  BY <1>1 DEF Cycle, Settled, stall, EMPTY_S
<1>3. fifo[N].v => fifo[N].d = got + 1 /\ got + 1 <= sent
  <2> SUFFICES ASSUME fifo[N].v PROVE fifo[N].d = got + 1 /\ got + 1 <= sent
    OBVIOUS
  <2>1. fifo[N].d \in got+1..sent
    BY <1>1 DEF IInv, InFlight
  <2>2. got \in Int /\ sent \in Int /\ fifo[N].d \in Int
    BY <1>1 DEF IInv, TypeOK, Item, FifoOf
  <2>3. got + 1 \in got+1..sent
    BY <2>1, <2>2
  <2>4. PICK i \in 1..N : fifo[i].v /\ fifo[i].d = got + 1
    BY <2>3 DEF IInv, Present
  <2>5. i = N \/ i < N
    BY NAssumption
  <2>6. i < N => fifo[N].d < got + 1
    BY <1>1, <2>4 DEF IInv, Older
  <2> QED
    BY <2>1, <2>2, <2>4, <2>5, <2>6
<1>4. got \in Int /\ sent \in Int /\ got <= sent
  BY DEF IInv, TypeOK, Item
<1>5. dec_push(feed, pop) => sent < MaxSent
  BY DEF Cycle, dec_push
<1> QED
  BY <1>2, <1>3, <1>4, <1>5 DEF Cycle

(* An instruction in a fifo after an edge was there before, or in the one  *)
(* before it and popped, or was just pushed by DEC.                        *)
LEMMA Origin ==
  ASSUME IInv, NEW busy \in Signals, NEW pop \in Signals, NEW feed \in BOOLEAN,
         Cycle(busy, feed, pop), NEW i \in 1..N, fifo'[i].v
  PROVE  \/ /\ fifo[i].v /\ ~pop[i] /\ fifo'[i].d = fifo[i].d
         \/ /\ i # 1 /\ i-1 \in 1..N /\ pop[i-1] /\ fifo[i-1].v
            /\ fifo'[i].d = fifo[i-1].d
         \/ /\ i = 1 /\ dec_push(feed, pop) /\ fifo'[i].d = sent + 1
<1>1. i # 1 => i-1 \in 1..N
  BY NAssumption
<1>2. i # 1 /\ pop[i-1] => fifo[i-1].v
  BY <1>1, PopValid DEF Cycle
<1>3. fifo[i] \in FifoOf(Item) /\ pop[i] \in BOOLEAN
  BY DEF IInv, TypeOK, Signals
<1>5. CASE push(i, feed, pop)
  <2>1. fifo'[i] = [v |-> TRUE, d |-> din(i)]
    BY <1>5, CycleFifo
  <2> QED
    BY <1>1, <1>2, <1>5, <2>1 DEF push, din
<1>6. CASE ~push(i, feed, pop)
  <2>1. pop[i] => fifo'[i] = [v |-> FALSE, d |-> fifo[i].d]
    BY <1>6, CycleFifo
  <2>2. ~pop[i] => fifo'[i] = fifo[i]
    BY <1>6, CycleFifo
  <2> QED
    BY <2>1, <2>2
<1> QED
  BY <1>5, <1>6

(* Where an instruction goes: it stays or moves one fifo on.               *)
LEMMA Destination ==
  ASSUME IInv, NEW busy \in Signals, NEW pop \in Signals, NEW feed \in BOOLEAN,
         Cycle(busy, feed, pop), NEW i \in 1..N, fifo[i].v,
         i # N \/ ~pop[i]
  PROVE  \E j \in 1..N : fifo'[j].v /\ fifo'[j].d = fifo[i].d
<1>1. CASE pop[i]
  <2>1. i+1 \in 1..N /\ (i+1)-1 = i /\ i+1 # 1
    BY <1>1, NAssumption
  <2>2. push(i+1, feed, pop) /\ din(i+1) = fifo[i].d
    BY <1>1, <2>1 DEF push, din
  <2>3. fifo'[i+1] = [v |-> TRUE, d |-> din(i+1)]
    BY <2>1, <2>2, CycleFifo
  <2> QED
    BY <2>1, <2>2, <2>3
<1>2. CASE ~pop[i]
  <2>1. ~push(i, feed, pop)
    BY <1>2, PushRoom DEF Cycle
  <2>2. fifo'[i] = fifo[i]
    BY <1>2, <2>1, CycleFifo
  <2> QED
    BY <2>2
<1> QED
  BY <1>1, <1>2

(* The invariant is inductive.                                             *)
LEMMA CycleInv ==
  ASSUME IInv, NEW busy \in Signals, NEW pop \in Signals, NEW feed \in BOOLEAN,
         Cycle(busy, feed, pop)
  PROVE  IInv'
<1>1. /\ got \in Int /\ sent \in Int /\ got <= sent
      /\ \A i \in 1..N : fifo[i].d \in Int
      /\ N \in 1..N
  BY NAssumption, MaxSentAssumption DEF IInv, TypeOK, Item, FifoOf
<1>2. /\ got' = IF fifo[N].v THEN got + 1 ELSE got
      /\ sent' = IF dec_push(feed, pop) THEN sent + 1 ELSE sent
      /\ dec_push(feed, pop) => sent < MaxSent
      /\ got' <= sent
      /\ pop[N] <=> fifo[N].v
  BY CycleEnds
<1>3. TypeOK'
  <2>1. sent' \in Item /\ got' \in Item
    BY <1>1, <1>2, MaxSentAssumption DEF IInv, TypeOK, Item
  <2>2. ASSUME NEW i \in 1..N
        PROVE  fifo'[i] \in FifoOf(Item)
    <3>1. fifo[i] \in FifoOf(Item)
      BY DEF IInv, TypeOK
    <3>2. push(i, feed, pop) => din(i) \in Item
      <4>1. CASE i = 1
        BY <1>1, <1>2, <4>1, MaxSentAssumption DEF IInv, TypeOK, Item, push, din
      <4>2. CASE i # 1
        <5>1. i-1 \in 1..N
          BY <4>2, NAssumption
        <5> QED
          BY <4>2, <5>1 DEF IInv, TypeOK, FifoOf, din
      <4> QED
        BY <4>1, <4>2
    <3>3. CASE push(i, feed, pop)
      <4>1. fifo'[i] = [v |-> TRUE, d |-> din(i)]
        BY <3>3, CycleFifo
      <4> QED
        BY <3>2, <3>3, <4>1 DEF FifoOf
    <3>4. CASE ~push(i, feed, pop) /\ pop[i]
      <4>1. fifo'[i] = [v |-> FALSE, d |-> fifo[i].d]
        BY <3>4, CycleFifo
      <4> QED
        BY <3>1, <4>1 DEF FifoOf
    <3>5. CASE ~push(i, feed, pop) /\ ~pop[i]
      <4>1. fifo'[i] = fifo[i]
        BY <3>5, CycleFifo
      <4> QED
        BY <3>1, <4>1
    <3> QED
      BY <3>3, <3>4, <3>5
  <2>3. fifo' = [i \in 1..N |-> fifo'[i]]
    BY DEF Cycle
  <2> QED
    BY <2>1, <2>2, <2>3 DEF TypeOK
<1>4. (got <= sent)'
  BY <1>1, <1>2
<1>5. Older'
  <2> SUFFICES ASSUME NEW i \in 1..N, NEW j \in 1..N, i < j, fifo'[i].v, fifo'[j].v
               PROVE  fifo'[j].d < fifo'[i].d
    BY DEF Older
  <2>1. \/ /\ fifo[i].v /\ ~pop[i] /\ fifo'[i].d = fifo[i].d
        \/ /\ i # 1 /\ i-1 \in 1..N /\ pop[i-1] /\ fifo[i-1].v
           /\ fifo'[i].d = fifo[i-1].d
        \/ /\ i = 1 /\ dec_push(feed, pop) /\ fifo'[i].d = sent + 1
    BY Origin
  <2>2. \/ /\ fifo[j].v /\ ~pop[j] /\ fifo'[j].d = fifo[j].d
        \/ /\ j # 1 /\ j-1 \in 1..N /\ pop[j-1] /\ fifo[j-1].v
           /\ fifo'[j].d = fifo[j-1].d
    BY Origin
  <2>3. \A k \in 1..N : fifo[k].v => fifo[k].d <= sent
    BY <1>1 DEF IInv, InFlight
  <2>4. \A k, l \in 1..N : k < l /\ fifo[k].v /\ fifo[l].v => fifo[l].d < fifo[k].d
    BY DEF IInv, Older
  <2>5. CASE fifo[i].v /\ ~pop[i] /\ fifo'[i].d = fifo[i].d
    BY <2>2, <2>4, <2>5
  <2>6. CASE i # 1 /\ i-1 \in 1..N /\ pop[i-1] /\ fifo[i-1].v /\ fifo'[i].d = fifo[i-1].d
    BY <2>2, <2>4, <2>6
  <2>7. CASE i = 1 /\ dec_push(feed, pop) /\ fifo'[i].d = sent + 1
    BY <1>1, <2>2, <2>3, <2>7
  <2> QED
    BY <2>1, <2>5, <2>6, <2>7
<1>6. InFlight'
  <2> SUFFICES ASSUME NEW i \in 1..N, fifo'[i].v
               PROVE  fifo'[i].d \in got'+1..sent'
    BY DEF InFlight
  <2>1. \/ /\ fifo[i].v /\ ~pop[i] /\ fifo'[i].d = fifo[i].d
        \/ /\ i # 1 /\ i-1 \in 1..N /\ pop[i-1] /\ fifo[i-1].v
           /\ fifo'[i].d = fifo[i-1].d
        \/ /\ i = 1 /\ dec_push(feed, pop) /\ fifo'[i].d = sent + 1
    BY Origin
  <2>2. \A k \in 1..N : fifo[k].v => fifo[k].d \in got+1..sent
    BY DEF IInv, InFlight
  <2>3. ASSUME NEW k \in 1..N, fifo[k].v, k # N \/ ~pop[k]
        PROVE  fifo[k].d \in got'+1..sent'
    <3>1. CASE k = N
      BY <1>1, <1>2, <2>2, <2>3, <3>1
    <3>2. CASE k # N /\ fifo[N].v
      <4>1. fifo[N].d < fifo[k].d
        BY <1>1, <2>3, <3>2 DEF IInv, Older
      <4> QED
        BY <1>1, <1>2, <2>2, <2>3, <3>2, <4>1
    <3>3. CASE k # N /\ ~fifo[N].v
      BY <1>1, <1>2, <2>2, <2>3, <3>3
    <3> QED
      BY <3>1, <3>2, <3>3
  <2>4. CASE fifo[i].v /\ ~pop[i] /\ fifo'[i].d = fifo[i].d
    BY <2>3, <2>4
  <2>5. CASE i # 1 /\ i-1 \in 1..N /\ pop[i-1] /\ fifo[i-1].v /\ fifo'[i].d = fifo[i-1].d
    BY <1>1, <2>3, <2>5
  <2>6. CASE i = 1 /\ dec_push(feed, pop) /\ fifo'[i].d = sent + 1
    BY <1>1, <1>2, <2>6
  <2> QED
    BY <2>1, <2>4, <2>5, <2>6
<1>7. Present'
  <2> SUFFICES ASSUME NEW k \in got'+1..sent'
               PROVE  \E i \in 1..N : fifo'[i].v /\ fifo'[i].d = k
    BY DEF Present
  <2>1. CASE k = sent + 1
    <3>1. dec_push(feed, pop) /\ 1 \in 1..N
      BY <1>1, <1>2, <2>1
    <3>2. push(1, feed, pop) /\ din(1) = k
      BY <2>1, <3>1 DEF push, din
    <3>3. fifo'[1] = [v |-> TRUE, d |-> din(1)]
      BY <3>1, <3>2, CycleFifo
    <3> QED
      BY <3>1, <3>2, <3>3
  <2>2. CASE k # sent + 1
    <3>1. k \in got+1..sent
      BY <1>1, <1>2, <2>2
    <3>2. PICK i \in 1..N : fifo[i].v /\ fifo[i].d = k
      BY <3>1 DEF IInv, Present
    <3>3. i # N \/ ~pop[i]
      <4> SUFFICES ASSUME i = N, pop[N] PROVE FALSE
        OBVIOUS
      <4>1. got' = got + 1 /\ got + 1 \in got+1..sent
        BY <1>1, <1>2
      <4>2. PICK j \in 1..N : fifo[j].v /\ fifo[j].d = got + 1
        BY <4>1 DEF IInv, Present
      <4>3. j = N \/ j < N
        BY <1>1
      <4>4. j < N => fifo[N].d < got + 1
        BY <1>1, <1>2, <4>2 DEF IInv, Older
      <4> QED
        BY <1>1, <3>1, <3>2, <4>1, <4>2, <4>3, <4>4
    <3> QED
      BY <3>2, <3>3, Destination
  <2> QED
    BY <2>1, <2>2
<1> QED
  BY <1>3, <1>4, <1>5, <1>6, <1>7 DEF IInv

(* Every cycle of the pipeline keeps the invariant.                        *)
LEMMA NextInv == IInv /\ [Next]_vars => IInv'
<1>1. CASE UNCHANGED vars
  BY <1>1 DEF vars, IInv, TypeOK, Older, InFlight, Present
<1> QED
  BY <1>1, CycleInv DEF Next

-----------------------------------------------------------------------------
(* The chain keeps its types.                                              *)
THEOREM TypeCorrect == Spec => []TypeOK
<1>1. IInv => TypeOK
  BY DEF IInv
<1> QED
  BY <1>1, InitInv, NextInv, PTL DEF Spec

(* Every instruction between DEC and WBK is in exactly one fifo.           *)
THEOREM AlwaysInOneFifo == Spec => []EachInOneFifo
<1>1. IInv => EachInOneFifo
  <2> SUFFICES ASSUME IInv, NEW k \in got+1..sent
               PROVE  \E i \in 1..N : /\ fifo[i].v /\ fifo[i].d = k
                                      /\ \A j \in 1..N : fifo[j].v /\ fifo[j].d = k => j = i
    BY DEF EachInOneFifo
  <2>1. PICK i \in 1..N : fifo[i].v /\ fifo[i].d = k
    BY DEF IInv, Present
  <2>2. ASSUME NEW j \in 1..N, fifo[j].v, fifo[j].d = k
        PROVE  j = i
    <3>1. fifo[i].d \in Int /\ ~(fifo[i].d < fifo[i].d)
      BY DEF IInv, TypeOK, FifoOf, Item
    <3>2. ~(i < j) /\ ~(j < i)
      BY <2>1, <2>2, <3>1 DEF IInv, Older
    <3> QED
      BY <3>2
  <2> QED
    BY <2>1, <2>2
<1> QED
  BY <1>1, InitInv, NextInv, PTL DEF Spec

(* WBK sees the instructions in the order DEC pushed them.                 *)
THEOREM AlwaysInOrder == Spec => InOrder
<1>1. IInv /\ [Next]_vars => [got' = got \/ got' = got + 1]_vars
  <2> SUFFICES ASSUME IInv, Next PROVE got' = got \/ got' = got + 1
    OBVIOUS
  <2> QED
    BY CycleEnds DEF Next
<1> QED
  BY <1>1, InitInv, NextInv, PTL DEF Spec, InOrder

-----------------------------------------------------------------------------
(* The multiplier runs beside dec2exe, exe2mem and mem2wbk.                *)
ThreeFifos == N = 3

MulTypes == x02x1 \in FifoOf(Product) /\ x12x2 \in FifoOf(Product)

(* One stage earlier the product is in x02x1.  OwnProduct alone does not   *)
(* say what x1 is going to hand on.                                        *)
InX02X1 ==
  fifo[2].v /\ fifo[2].d \in Muls =>
    x02x1 = [v |-> TRUE, d |-> [of |-> fifo[2].d, right |-> TRUE]]

MInv == IInv /\ MulTypes /\ InX02X1 /\ OwnProduct

-----------------------------------------------------------------------------
(* The multiplier's fifos are never full: x0 and x1 push whenever there is *)
(* something to push.                                                      *)
LEMMA NeverFull ==
  ASSUME ThreeFifos, MulTypes, IInv
  PROVE  /\ X02X1_POP_SX1 <=> x02x1.v
         /\ x02x1_push <=> fifo[1].v
         /\ X02X1_POP_SX1 \in BOOLEAN /\ x02x1_push \in BOOLEAN
  BY DEF ThreeFifos, MulTypes, IInv, TypeOK, X02X1_POP_SX1, x02x1_push, X12X2_POP_SX2,
         FULL_S, EMPTY_S, FifoOf

(* WBK pops at once, so MEM only waits for the cache, and never with a     *)
(* multiplication.                                                         *)
LEMMA MulDoesNotWait ==
  ASSUME ThreeFifos, IInv,
         NEW busy \in Signals, NEW pop \in Signals, NEW feed \in BOOLEAN,
         MulCycle(busy, feed, pop), fifo[2].v, fifo[2].d \in Muls
  PROVE  pop[2]
<1>1. Settled(busy, pop) /\ ~busy[2] /\ 2 \in 1..N /\ 3 \in 1..N
  BY DEF ThreeFifos, MulCycle, Cycle
<1>2. pop[3] = fifo[3].v
  <2>1. fifo[3].v \in BOOLEAN
    BY <1>1 DEF IInv, TypeOK, FifoOf
  <2>2. pop[3] = ~stall(3, busy, pop)
    BY <1>1 DEF Settled
  <2> QED
    BY <2>1, <2>2 DEF ThreeFifos, stall, EMPTY_S
<1>3. ~stall(2, busy, pop)
  <2>1. 2 + 1 = 3
    OBVIOUS
  <2> QED
    BY <1>1, <1>2, <2>1 DEF stall, EMPTY_S, FULL_S
<1>4. pop[2] = ~stall(2, busy, pop)
  BY <1>1 DEF Settled
<1> QED
  BY <1>3, <1>4

(* The multiplier starts empty.                                            *)
LEMMA MulInitInv ==
  ASSUME ThreeFifos, MulInit
  PROVE  MInv
<1>1. IInv
  BY InitInv DEF MulInit
<1>2. ~fifo[2].v /\ ~fifo[3].v
  BY DEF ThreeFifos, MulInit, Init, ResetFifo
<1>3. MulTypes
  BY MaxSentAssumption DEF MulInit, MulTypes, ResetFifo, FifoOf, Product, Item
<1> QED
  BY <1>1, <1>2, <1>3 DEF MInv, InX02X1, OwnProduct

(* A clock cycle keeps the two pipelines together.                         *)
LEMMA MulCycleInv ==
  ASSUME ThreeFifos, MInv, NEW busy \in Signals, NEW pop \in Signals, NEW feed \in BOOLEAN,
         MulCycle(busy, feed, pop)
  PROVE  MInv'
<1>1. IInv /\ MulTypes /\ InX02X1 /\ Cycle(busy, feed, pop)
  BY DEF MInv, MulCycle
<1>2. 1 \in 1..N /\ 2 \in 1..N /\ 3 \in 1..N
  BY DEF ThreeFifos
<1>3. \A i \in 1..N :
        /\ push(i, feed, pop) => fifo'[i] = [v |-> TRUE, d |-> din(i)]
        /\ ~push(i, feed, pop) /\ pop[i] => fifo'[i] = [v |-> FALSE, d |-> fifo[i].d]
        /\ ~push(i, feed, pop) /\ ~pop[i] => fifo'[i] = fifo[i]
  BY <1>1, CycleFifo
<1>4. /\ push(2, feed, pop) = pop[1] /\ din(2) = fifo[1].d
      /\ push(3, feed, pop) = pop[2] /\ din(3) = fifo[2].d
  <2>1. 2 - 1 = 1 /\ 3 - 1 = 2
    OBVIOUS
  <2> QED
    BY <2>1 DEF push, din
<1>5. \A i \in 1..N : pop[i] => fifo[i].v
  BY <1>1, PopValid DEF Cycle
<1>6. [of |-> fifo[1].d, right |-> pop[1]] \in Product
  BY <1>1, <1>2 DEF IInv, TypeOK, FifoOf, Product, Signals
<1>7. x02x1' = IF fifo[1].v
               THEN [v |-> TRUE, d |-> [of |-> fifo[1].d, right |-> pop[1]]]
               ELSE [x02x1 EXCEPT !.v = FALSE]
  BY <1>1, NeverFull DEF MulCycle, Clocked, MulTypes, FifoOf
<1>8. x12x2' = IF x02x1.v THEN [v |-> TRUE, d |-> x02x1.d] ELSE [x12x2 EXCEPT !.v = FALSE]
  BY <1>1, NeverFull DEF MulCycle, Clocked, MulTypes, FifoOf, X12X2_POP_SX2, EMPTY_S
<1>9. IInv'
  BY <1>1, NextInv DEF Next
<1>10. MulTypes'
  BY <1>1, <1>6, <1>7, <1>8 DEF MulTypes, FifoOf
<1>11. InX02X1'
  <2> SUFFICES ASSUME fifo'[2].v, fifo'[2].d \in Muls
               PROVE  x02x1' = [v |-> TRUE, d |-> [of |-> fifo'[2].d, right |-> TRUE]]
    BY DEF InX02X1
  <2>1. CASE pop[1]
    <3>1. fifo[1].v /\ fifo'[2] = [v |-> TRUE, d |-> fifo[1].d]
      BY <1>2, <1>3, <1>4, <1>5, <2>1
    <3>2. pop[1] = TRUE
      BY <1>2, <2>1 DEF Signals
    <3>3. fifo'[2].d = fifo[1].d
      BY <3>1
    <3> QED
      BY <1>7, <3>1, <3>2, <3>3
  <2>2. CASE ~pop[1]
    <3>1. CASE pop[2]
      <4>1. fifo'[2] = [v |-> FALSE, d |-> fifo[2].d]
        BY <1>2, <1>3, <1>4, <2>2, <3>1
      <4> QED
        BY <4>1
    <3>2. CASE ~pop[2]
      <4>1. fifo'[2] = fifo[2]
        BY <1>2, <1>3, <1>4, <2>2, <3>2
      <4> QED
        BY <1>1, <3>2, <4>1, MulDoesNotWait
    <3> QED
      BY <3>1, <3>2
  <2> QED
    BY <2>1, <2>2
<1>12. OwnProduct'
  <2> SUFFICES ASSUME fifo'[3].v, fifo'[3].d \in Muls
               PROVE  x12x2'.d = [of |-> fifo'[3].d, right |-> TRUE]
    BY DEF OwnProduct
  <2>1. CASE pop[2]
    <3>1. fifo[2].v /\ fifo'[3] = [v |-> TRUE, d |-> fifo[2].d]
      BY <1>2, <1>3, <1>4, <1>5, <2>1
    <3>2. fifo'[3].d = fifo[2].d
      BY <3>1
    <3>3. x02x1 = [v |-> TRUE, d |-> [of |-> fifo[2].d, right |-> TRUE]]
      BY <1>1, <3>1, <3>2 DEF InX02X1
    <3>4. x02x1.v /\ x02x1.d = [of |-> fifo[2].d, right |-> TRUE]
      BY <3>3
    <3>5. x12x2' = [v |-> TRUE, d |-> x02x1.d]
      BY <1>8, <3>4
    <3> QED
      BY <3>2, <3>4, <3>5
  <2>2. CASE ~pop[2]
    <3>1. pop[3] = fifo[3].v
      <4>1. pop[3] = ~stall(3, busy, pop) /\ fifo[3].v \in BOOLEAN
        BY <1>1, <1>2 DEF Cycle, Settled, IInv, TypeOK, FifoOf
      <4> QED
        BY <4>1 DEF ThreeFifos, stall, EMPTY_S
    <3>2. CASE fifo[3].v
      <4>1. fifo'[3] = [v |-> FALSE, d |-> fifo[3].d]
        BY <1>2, <1>3, <1>4, <2>2, <3>1, <3>2
      <4> QED
        BY <4>1
    <3>3. CASE ~fifo[3].v
      <4>1. fifo'[3] = fifo[3]
        BY <1>2, <1>3, <1>4, <2>2, <3>1, <3>3
      <4> QED
        BY <3>3, <4>1
    <3> QED
      BY <3>2, <3>3
  <2> QED
    BY <2>1, <2>2
<1> QED
  BY <1>9, <1>10, <1>11, <1>12 DEF MInv

(* The invariant is inductive.                                             *)
LEMMA MulNextInv ==
  ASSUME ThreeFifos, MInv, [MulNext]_mulVars
  PROVE  MInv'
<1>1. CASE MulNext
  BY <1>1, MulCycleInv DEF MulNext
<1>2. CASE UNCHANGED mulVars
  BY <1>2 DEF mulVars, MInv, IInv, TypeOK, Older, InFlight, Present, MulTypes, InX02X1,
              OwnProduct
<1> QED
  BY <1>1, <1>2

(* Every multiplication written back has its own product.                  *)
THEOREM AlwaysOwnProduct ==
  ASSUME ThreeFifos
  PROVE  MulSpec => []OwnProduct
<1>1. MInv => OwnProduct
  BY DEF MInv
<1>2. MulInit => MInv
  BY MulInitInv
<1>3. MInv /\ [MulNext]_mulVars => MInv'
  BY MulNextInv
<1> QED
  BY <1>1, <1>2, <1>3, PTL DEF MulSpec

(* The multiplier's fifos hold products.                                   *)
THEOREM MulTypeCorrect ==
  ASSUME ThreeFifos
  PROVE  MulSpec => []MulTypeOK
<1>1. MInv => MulTypeOK
  BY DEF MInv, IInv, MulTypes, MulTypeOK
<1>2. MulInit => MInv
  BY MulInitInv
<1>3. MInv /\ [MulNext]_mulVars => MInv'
  BY MulNextInv
<1> QED
  BY <1>1, <1>2, <1>3, PTL DEF MulSpec
=============================================================================
