------------------------------- MODULE ICache -------------------------------
(***************************************************************************)
(* The instruction cache (CORE/CACHES/icache.cpp) and the memory the test  *)
(* bench answers its misses with (core_tb.cpp, under ICACHE_ON).           *)
(*                                                                         *)
(* One step is half a clock cycle: the bench's loop runs its state machine *)
(* and then the simulation for 500 ps, so what it writes arrives together  *)
(* with the next edge.  The cache's thread wakes up at every falling edge, *)
(* and at a rising one if the data or the acknowledge have changed.  The   *)
(* acknowledge stays up for a whole burst: nothing but the pace of the     *)
(* bench tells the cache one word from the next.                           *)
(*                                                                         *)
(* An address is the line it is in, a tag and an index; the words of a     *)
(* line are numbered 0 to 3.  The word k of line l is the pair <<l, k>>.   *)
(* Stores do not reach the code: the cache is never told of one.           *)
(***************************************************************************)
EXTENDS Naturals

CONSTANTS Tags, Indexes

Line  == Tags \X Indexes
Index(l) == l[2]
Tag(l)   == l[1]
Words == 0..3
Blank == <<>>                       \* what a word holds before it is filled
Word  == (Line \X Words) \union {Blank}

VARIABLES CLK,
          PC_SI, PC_VALID_SI,       \* the core's fetch address
          fsm_current_state, cpt, current_address,   \* of the thread
          A, DTA_VALID,             \* the request to the memory
          data, tag, data_validate, \* the lines
          IC_fsm_current_state, if_adr, ICACHE_DT, MP_ACK_ICACHE  \* the bench

core   == <<PC_SI, PC_VALID_SI>>
thread == <<fsm_current_state, cpt, current_address, A>>
lines  == <<data, tag, data_validate>>
bench  == <<IC_fsm_current_state, if_adr, ICACHE_DT, MP_ACK_ICACHE>>
vars   == <<CLK, core, thread, DTA_VALID, lines, bench>>

States      == {"IDLE", "WAIT_MEM", "UPDT"}
BenchStates == {"IC_IDLE", "IC_SEND_INSTRUCTION_1", "IC_CLK_SIMU0", "IC_SEND_INSTRUCTION_2",
                "IC_CLK_SIMU1", "IC_SEND_INSTRUCTION_3", "IC_END_BURST"}

TypeOK ==
  /\ CLK \in BOOLEAN /\ PC_SI \in Line /\ PC_VALID_SI \in BOOLEAN
  /\ fsm_current_state \in States /\ cpt \in 0..4 /\ current_address \in Line
  /\ A \in Line /\ DTA_VALID \in BOOLEAN
  /\ data \in [Indexes -> [Words -> Word]]
  /\ tag \in [Indexes -> Tags] /\ data_validate \in [Indexes -> BOOLEAN]
  /\ IC_fsm_current_state \in BenchStates /\ if_adr \in Line
  /\ ICACHE_DT \in Word /\ MP_ACK_ICACHE \in BOOLEAN

(* Out of reset, which ends with a rising edge.                            *)
Init ==
  /\ CLK = FALSE /\ PC_SI \in Line /\ PC_VALID_SI \in BOOLEAN
  /\ fsm_current_state = "IDLE" /\ cpt = 0 /\ current_address \in Line
  /\ A \in Line /\ DTA_VALID = FALSE
  /\ data = [i \in Indexes |-> [k \in Words |-> Blank]]
  /\ tag \in [Indexes -> Tags] /\ data_validate = [i \in Indexes |-> FALSE]
  /\ IC_fsm_current_state = "IC_IDLE" /\ if_adr \in Line
  /\ ICACHE_DT = Blank /\ MP_ACK_ICACHE = FALSE

-----------------------------------------------------------------------------
(* miss_detection, settled since the last edge.                            *)
hit == tag[Index(PC_SI)] = Tag(PC_SI) /\ data_validate[Index(PC_SI)]

IC_STALL_SI == ~hit

-----------------------------------------------------------------------------
(* The bench: in which state it sends which word of the burst.             *)
Answers == IC_fsm_current_state = "IC_IDLE" /\ DTA_VALID

Sends == [IC_SEND_INSTRUCTION_1 |-> 1, IC_SEND_INSTRUCTION_2 |-> 2, IC_SEND_INSTRUCTION_3 |-> 3]

Faulty_AfterSending ==
  [IC_SEND_INSTRUCTION_1 |-> "IC_SEND_INSTRUCTION_2", IC_CLK_SIMU0 |-> "IC_SEND_INSTRUCTION_2",
   IC_SEND_INSTRUCTION_2 |-> "IC_SEND_INSTRUCTION_3", IC_CLK_SIMU1 |-> "IC_SEND_INSTRUCTION_3",
   IC_SEND_INSTRUCTION_3 |-> "IC_END_BURST", IC_END_BURST |-> "IC_IDLE"]

(* Two words are followed by an edge with nothing new, the last is not.    *)
AfterSending ==
  [IC_SEND_INSTRUCTION_1 |-> "IC_CLK_SIMU0", IC_CLK_SIMU0 |-> "IC_SEND_INSTRUCTION_2",
   IC_SEND_INSTRUCTION_2 |-> "IC_CLK_SIMU1", IC_CLK_SIMU1 |-> "IC_SEND_INSTRUCTION_3",
   IC_SEND_INSTRUCTION_3 |-> "IC_END_BURST", IC_END_BURST |-> "IC_IDLE"]

BenchNext == IF IC_fsm_current_state # "IC_IDLE" THEN AfterSending[IC_fsm_current_state]
             ELSE IF Answers THEN "IC_SEND_INSTRUCTION_1" ELSE "IC_IDLE"

(* What the memory drives at this edge.                                    *)
DT == IF Answers THEN <<A, 0>>
      ELSE IF IC_fsm_current_state \in DOMAIN Sends
      THEN <<if_adr, Sends[IC_fsm_current_state]>> ELSE ICACHE_DT

SLAVE_ACK_SP ==
  IF IC_fsm_current_state = "IC_IDLE" THEN DTA_VALID
  ELSE MP_ACK_ICACHE /\ IC_fsm_current_state # "IC_END_BURST"

Bench == /\ IC_fsm_current_state' = BenchNext
         /\ if_adr' = IF Answers THEN A ELSE if_adr
         /\ ICACHE_DT' = DT
         /\ MP_ACK_ICACHE' = SLAVE_ACK_SP

-----------------------------------------------------------------------------
(* The thread.  It sees the edge, and what the memory drives at it.  A new *)
(* word need not have a new value, so it may or may not wake the thread.   *)
Triggered(dt_event) == CLK \/ dt_event \/ SLAVE_ACK_SP # MP_ACK_ICACHE

(* data[current_address_index][cpt++] = DT                                 *)
Put == data' = [data EXCEPT ![Index(current_address)] =
                  [@ EXCEPT ![cpt] = DT]]

Faulty_StartFill == /\ Put /\ cpt' = cpt + 1
                    /\ tag' = [tag EXCEPT ![Index(current_address)] = Tag(current_address)]
                    /\ UNCHANGED data_validate

(* The first word of a line, and with it the new tag.                      *)
StartFill == /\ Put /\ cpt' = cpt + 1
             /\ tag' = [tag EXCEPT ![Index(current_address)] = Tag(current_address)]
             /\ data_validate' = [data_validate EXCEPT ![Index(current_address)] = FALSE]

Faulty_Miss == /\ fsm_current_state = "IDLE" /\ PC_VALID_SI /\ ~hit
               /\ fsm_current_state' = "WAIT_MEM"
               /\ A' = PC_SI /\ current_address' = PC_SI
               /\ DTA_VALID' = TRUE
               /\ UNCHANGED <<lines, cpt>>

Miss == /\ fsm_current_state = "IDLE" /\ PC_VALID_SI /\ ~hit
        /\ fsm_current_state' = "WAIT_MEM"
        /\ A' = PC_SI /\ current_address' = PC_SI /\ cpt' = 0
        /\ DTA_VALID' = TRUE
        /\ UNCHANGED lines

FirstWord == /\ fsm_current_state = "WAIT_MEM" /\ SLAVE_ACK_SP
             /\ fsm_current_state' = "UPDT"
             /\ StartFill
             /\ DTA_VALID' = FALSE
             /\ UNCHANGED <<A, current_address>>

NextWord == /\ fsm_current_state = "UPDT" /\ SLAVE_ACK_SP
            /\ Put /\ cpt' = cpt + 1
            /\ DTA_VALID' = FALSE
            /\ UNCHANGED <<fsm_current_state, A, current_address, tag, data_validate>>

Faulty_Filled == /\ fsm_current_state = "UPDT" /\ ~SLAVE_ACK_SP
                 /\ fsm_current_state' = "IDLE"
                 /\ DTA_VALID' = FALSE
                 /\ UNCHANGED <<cpt, A, current_address, lines>>

Filled == /\ fsm_current_state = "UPDT" /\ ~SLAVE_ACK_SP
          /\ fsm_current_state' = "IDLE"
          /\ data_validate' = [data_validate EXCEPT ![Index(current_address)] = TRUE]
          /\ DTA_VALID' = FALSE
          /\ UNCHANGED <<cpt, A, current_address, data, tag>>

Waits == \/ fsm_current_state = "IDLE" /\ (hit \/ ~PC_VALID_SI)
         \/ fsm_current_state = "WAIT_MEM" /\ ~SLAVE_ACK_SP

Transition == \/ Miss \/ FirstWord \/ NextWord \/ Filled
              \/ Waits /\ DTA_VALID' = FALSE /\ UNCHANGED <<thread, lines>>

(* The core moves its fetch address at a rising edge, whether or not it    *)
(* has been served: a jump or a trap leads elsewhere.                      *)
Core == IF CLK THEN UNCHANGED core
        ELSE PC_SI' \in Line /\ PC_VALID_SI' \in BOOLEAN

HalfCycle == /\ CLK' = ~CLK
             /\ Bench
             /\ Core
             /\ \E dt_event \in BOOLEAN :
                  /\ dt_event => DT # ICACHE_DT
                  /\ IF Triggered(dt_event) THEN Transition
                     ELSE UNCHANGED <<thread, DTA_VALID, lines>>

Next == HalfCycle

Spec == Init /\ [][Next]_vars

(* The bench's loop goes on, and with it the clock.                        *)
FairSpec == Spec /\ WF_vars(Next)

-----------------------------------------------------------------------------
(* A line that answers the core holds the four words of its address in     *)
(* memory, whichever line was there before, wherever the core went while   *)
(* it was being filled, and although no word carries its number.           *)
ValidLineIsMemory ==
  \A i \in Indexes : data_validate[i] =>
    \A k \in Words : data[i][k] = <<<<tag[i], i>>, k>>

(* The thread counts acknowledges and nothing stops it at the end of the   *)
(* line: the memory must not keep one up for a fifth time it wakes up, nor *)
(* take it down before the fourth.                                         *)
BurstFillsLine ==
  fsm_current_state = "UPDT" /\ Triggered(DT # ICACHE_DT) => IF SLAVE_ACK_SP THEN cpt < 4 ELSE cpt = 4

(* A fetch address the core stays at gets its line.                        *)
FetchAnswered ==
  \A l \in Line : PC_SI = l /\ PC_VALID_SI ~> ~IC_STALL_SI \/ PC_SI # l \/ ~PC_VALID_SI
=============================================================================
