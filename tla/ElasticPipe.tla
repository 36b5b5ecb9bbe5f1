----------------------------- MODULE ElasticPipe -----------------------------
(***************************************************************************)
(* The back end of the core seen from its fifos alone: dec2exe, exe2mem    *)
(* and mem2wbk are fifos 1, 2 and 3, and behind each stands the stage that *)
(* pops it: EXE, MEM and WBK.  A stage that pops its fifo pushes into the  *)
(* next one in the same cycle.  The multiplier's fifos x02x1 and x12x2 are *)
(* chained in the same way, and so are those of the mini core.             *)
(*                                                                         *)
(* One step is one clock cycle.  A stage may be busy for reasons of its    *)
(* own: EXE waits for operands or its divider, MEM for the data cache, DEC *)
(* for operands.  pop is the settled value of the stages' pop signals.     *)
(* Instructions are numbered in the order DEC pushes them.                 *)
(***************************************************************************)
EXTENDS Integers, Fifo

CONSTANTS N,         \* number of fifos
          MaxSent    \* bound on the number of instructions pushed

ASSUME NAssumption == N \in Nat \ {0}
ASSUME MaxSentAssumption == MaxSent \in Nat

VARIABLES fifo,  \* the fifos, first to last
          sent,  \* how many instructions DEC has pushed
          got    \* the last one the last stage has popped

vars == <<fifo, sent, got>>

Item == 0..MaxSent

TypeOK == /\ fifo \in [1..N -> FifoOf(Item)]
          /\ sent \in Item
          /\ got \in Item

Init == /\ fifo = [i \in 1..N |-> ResetFifo(0)]
        /\ sent = 0
        /\ got = 0

-----------------------------------------------------------------------------
Faulty_stall_overrun(i, busy, pop) == EMPTY_S(fifo[i]) \/ (i < N /\ busy[i])

Faulty_stall_rigid(i, busy, pop) ==
  \/ EMPTY_S(fifo[i])
  \/ i < N /\ (busy[i] \/ FULL_S(fifo[i+1], pop[i+1]))
  \/ i > 1 /\ ~pop[i-1]

(* What stage i waits for: an instruction, and room behind it.  The last   *)
(* stage, WBK, needs no room.                                              *)
stall(i, busy, pop) ==
  \/ EMPTY_S(fifo[i])
  \/ i < N /\ (busy[i] \/ FULL_S(fifo[i+1], pop[i+1]))

Settled(busy, pop) == \A i \in 1..N : pop[i] = ~stall(i, busy, pop)

Faulty_dec_push(feed, pop) == feed

(* DEC pushes unless it has nothing to push or dec2exe is full.            *)
dec_push(feed, pop) == feed /\ ~FULL_S(fifo[1], pop[1])

Faulty_din(i) == IF i = 1 THEN sent + 2 ELSE fifo[i-1].d

(* What stands before fifo i pushes into it, and what it pushes.           *)
push(i, feed, pop) == IF i = 1 THEN dec_push(feed, pop) ELSE pop[i-1]
din(i) == IF i = 1 THEN sent + 1 ELSE fifo[i-1].d

Cycle(busy, feed, pop) ==
  /\ Settled(busy, pop)
  /\ feed => sent < MaxSent
  /\ fifo' = [i \in 1..N |-> Clocked(fifo[i], push(i, feed, pop), pop[i], din(i))]
  /\ sent' = IF dec_push(feed, pop) THEN sent + 1 ELSE sent
  /\ got' = IF pop[N] THEN fifo[N].d ELSE got

Signals == [1..N -> BOOLEAN]

Next == \E busy, pop \in Signals, feed \in BOOLEAN : Cycle(busy, feed, pop)

Spec == Init /\ [][Next]_vars

-----------------------------------------------------------------------------
(* Between the stages nothing is lost or doubled: every instruction pushed *)
(* and not yet written back sits in exactly one fifo.                      *)
EachInOneFifo ==
  \A k \in got+1..sent :
    \E i \in 1..N : /\ fifo[i].v /\ fifo[i].d = k
                    /\ \A j \in 1..N : fifo[j].v /\ fifo[j].d = k => j = i

(* WBK sees the instructions in the order DEC pushed them, each once,      *)
(* however the stages stall.                                               *)
InOrder == [][got' = got \/ got' = got + 1]_vars

(* Stage i is not busy for ever: a waiting stage moves some time if it can *)
(* move at all (the cache answers, the divider is done, operands arrive).  *)
StageMoves(i) ==
  \E busy, pop \in Signals, feed \in BOOLEAN : pop[i] /\ Cycle(busy, feed, pop)

FairSpec == Spec /\ \A i \in 1..N : WF_vars(StageMoves(i))

(* Every instruction pushed is written back: stages that wait for room     *)
(* behind each other do not wait for ever.                                 *)
AllWrittenBack == \A k \in 1..MaxSent : sent = k ~> got >= k
=============================================================================
