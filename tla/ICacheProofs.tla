---------------------------- MODULE ICacheProofs ----------------------------
(***************************************************************************)
(* Proofs about ICache, for every set of tags and of indexes.              *)
(*                                                                         *)
(* The thread and the bench have no handshake for a word: they agree for   *)
(* they both count half cycles.  The inductive invariant spells out the    *)
(* count: at each point of a burst, which edge is next, where the bench    *)
(* is, and how many words the line has got.                                *)
(***************************************************************************)
EXTENDS ICache, TLAPS

(* The points of a burst: the next edge is a falling one (CLK), the state  *)
(* of the bench, and the words the line has got.                           *)
Points == {<<TRUE,  "IC_SEND_INSTRUCTION_1", 1>>, <<FALSE, "IC_CLK_SIMU0", 2>>,
           <<TRUE,  "IC_SEND_INSTRUCTION_2", 2>>, <<FALSE, "IC_CLK_SIMU1", 3>>,
           <<TRUE,  "IC_SEND_INSTRUCTION_3", 3>>, <<FALSE, "IC_END_BURST", 4>>}

Idle == /\ fsm_current_state = "IDLE" /\ IC_fsm_current_state = "IC_IDLE"
        /\ ~DTA_VALID /\ ~MP_ACK_ICACHE

Requesting == /\ fsm_current_state = "WAIT_MEM" /\ IC_fsm_current_state = "IC_IDLE"
              /\ DTA_VALID /\ ~MP_ACK_ICACHE /\ ~CLK
              /\ cpt = 0 /\ A = current_address

Filling == /\ fsm_current_state = "UPDT" /\ ~DTA_VALID /\ MP_ACK_ICACHE
           /\ <<CLK, IC_fsm_current_state, cpt>> \in Points
           /\ if_adr = current_address
           /\ tag[Index(current_address)] = Tag(current_address)
           /\ ~data_validate[Index(current_address)]
           /\ \A k \in Words : k < cpt =>
                data[Index(current_address)][k] = <<current_address, k>>

Inv == TypeOK /\ ValidLineIsMemory /\ (Idle \/ Requesting \/ Filling)

(* The pieces of a line number are in range, and make it up.               *)
LEMMA LineParts == ASSUME NEW l \in Line
                   PROVE  /\ Index(l) \in Indexes /\ Tag(l) \in Tags
                          /\ <<Tag(l), Index(l)>> = l
  BY DEF Line, Index, Tag

(* The memory only ever drives words of lines.                             *)
LEMMA DrivesWord == ASSUME TypeOK PROVE DT \in Word
  BY DEF TypeOK, DT, Word, Words, Answers, Sends

(* What Put needs and does.                                                *)
LEMMA PutRight ==
  ASSUME TypeOK, Put, cpt < 4
  PROVE  /\ data' \in [Indexes -> [Words -> Word]]
         /\ data'[Index(current_address)][cpt] = DT
         /\ \A i \in Indexes, k \in Words :
              i # Index(current_address) \/ k # cpt => data'[i][k] = data[i][k]
<1>1. DT \in Word
  BY DrivesWord
<1>2. cpt \in Words
  BY DEF TypeOK, Words
<1>3. Index(current_address) \in Indexes
  BY LineParts DEF TypeOK
<1> QED
  BY <1>1, <1>2, <1>3 DEF Put, TypeOK

(* The cache leaves its constructor idle, with no line valid.              *)
LEMMA InvInit == Init => Inv
<1> SUFFICES ASSUME Init PROVE Inv
  OBVIOUS
<1>1. Blank \in Word
  BY DEF Word
<1>2. data \in [Indexes -> [Words -> Word]] /\ data_validate \in [Indexes -> BOOLEAN]
  BY <1>1 DEF Init
<1>3. TypeOK
  <2>1. CLK \in BOOLEAN /\ PC_SI \in Line /\ PC_VALID_SI \in BOOLEAN
    BY DEF Init
  <2>2. fsm_current_state \in States /\ cpt \in 0..4 /\ current_address \in Line
    BY DEF Init, States
  <2>3. A \in Line /\ DTA_VALID \in BOOLEAN
    BY DEF Init
  <2>4. tag \in [Indexes -> Tags]
    BY DEF Init
  <2>5. IC_fsm_current_state \in BenchStates /\ if_adr \in Line
    BY DEF Init, BenchStates
  <2>6. ICACHE_DT \in Word /\ MP_ACK_ICACHE \in BOOLEAN
    BY <1>1 DEF Init
  <2> QED
    BY <1>2, <2>1, <2>2, <2>3, <2>4, <2>5, <2>6 DEF TypeOK
<1>4. ValidLineIsMemory /\ Idle
  BY DEF Init, ValidLineIsMemory, Idle
<1> QED
  BY <1>3, <1>4 DEF Inv

(* The bench keeps its types, and so does the core.                        *)
LEMMA AroundTypes ==
  ASSUME TypeOK, HalfCycle
  PROVE  /\ CLK' = ~CLK /\ CLK' \in BOOLEAN /\ PC_SI' \in Line /\ PC_VALID_SI' \in BOOLEAN
         /\ IC_fsm_current_state' \in BenchStates /\ if_adr' \in Line
         /\ ICACHE_DT' \in Word /\ MP_ACK_ICACHE' \in BOOLEAN
<1>1. BenchNext \in BenchStates
  BY DEF TypeOK, BenchNext, BenchStates, AfterSending, Answers
<1> QED
  BY <1>1, DrivesWord DEF HalfCycle, TypeOK, Bench, Core, core, SLAVE_ACK_SP

(* At rest the thread only wakes at a falling edge, and then may ask for   *)
(* a line.                                                                 *)
LEMMA FromIdle == ASSUME Inv, Idle, HalfCycle PROVE Inv'
<1>1. /\ DT = ICACHE_DT /\ ~SLAVE_ACK_SP
      /\ IC_fsm_current_state' = "IC_IDLE" /\ ~MP_ACK_ICACHE'
  BY DEF Idle, DT, SLAVE_ACK_SP, Answers, Sends, HalfCycle, Bench, BenchNext
<1>2. TypeOK /\ ValidLineIsMemory
  BY DEF Inv
<1>6. SLAVE_ACK_SP \in BOOLEAN
  BY <1>2 DEF SLAVE_ACK_SP, TypeOK
<1>7. /\ PC_SI' \in Line /\ PC_VALID_SI' \in BOOLEAN /\ CLK' \in BOOLEAN
      /\ IC_fsm_current_state' \in BenchStates /\ if_adr' \in Line
      /\ ICACHE_DT' \in Word /\ MP_ACK_ICACHE' \in BOOLEAN
  BY <1>2, AroundTypes
<1>3. PICK dt_event \in BOOLEAN :
        /\ dt_event => DT # ICACHE_DT
        /\ IF Triggered(dt_event) THEN Transition ELSE UNCHANGED <<thread, DTA_VALID, lines>>
  BY DEF HalfCycle
<1>4. CASE Triggered(dt_event) /\ Miss
  <2>1. CLK
    BY <1>1, <1>2, <1>3, <1>4, <1>6 DEF Triggered, Idle, TypeOK
  <2>2. /\ fsm_current_state' = "WAIT_MEM" /\ DTA_VALID' = TRUE /\ UNCHANGED lines
        /\ A' = PC_SI /\ current_address' = PC_SI /\ cpt' = 0
    BY <1>4 DEF Miss
  <2>3. CLK' = FALSE
    BY <2>1 DEF HalfCycle
  <2>4. Requesting'
    BY <1>1, <2>2, <2>3 DEF Requesting
  <2>5. ValidLineIsMemory'
    BY <1>2, <2>2 DEF lines, ValidLineIsMemory
  <2>6. /\ fsm_current_state' \in States /\ cpt' \in 0..4 /\ current_address' \in Line
        /\ A' \in Line /\ DTA_VALID' \in BOOLEAN
    BY <1>2, <2>2 DEF TypeOK, States
  <2>7. /\ data' \in [Indexes -> [Words -> Word]] /\ tag' \in [Indexes -> Tags]
        /\ data_validate' \in [Indexes -> BOOLEAN]
    BY <1>2, <2>2 DEF TypeOK, lines
  <2>8. TypeOK'
    BY <1>7, <2>6, <2>7 DEF TypeOK
  <2> QED
    BY <2>4, <2>5, <2>8 DEF Inv
<1>5. CASE UNCHANGED <<thread, lines>> /\ DTA_VALID' = FALSE
  <2>1. Idle' /\ ValidLineIsMemory'
    BY <1>1, <1>2, <1>5 DEF Idle, thread, lines, ValidLineIsMemory
  <2>2. /\ fsm_current_state' \in States /\ cpt' \in 0..4 /\ current_address' \in Line
        /\ A' \in Line
    BY <1>2, <1>5 DEF TypeOK, thread
  <2>3. /\ data' \in [Indexes -> [Words -> Word]] /\ tag' \in [Indexes -> Tags]
        /\ data_validate' \in [Indexes -> BOOLEAN]
    BY <1>2, <1>5 DEF TypeOK, lines
  <2>4. DTA_VALID' \in BOOLEAN
    BY <1>5
  <2>5. TypeOK'
    BY <1>7, <2>2, <2>3, <2>4 DEF TypeOK
  <2> QED
    BY <2>1, <2>5 DEF Inv
<1>8. ~Triggered(dt_event) => UNCHANGED <<thread, lines>> /\ DTA_VALID' = FALSE
  BY <1>2, <1>3 DEF Idle, TypeOK
<1> QED
  BY <1>3, <1>4, <1>5, <1>8 DEF Transition, FirstWord, NextWord, Filled, Idle

(* The first word comes with the rising edge after the request.            *)
LEMMA FromRequesting == ASSUME Inv, Requesting, HalfCycle PROVE Inv'
<1> DEFINE l == current_address
<1>1. /\ DT = <<l, 0>> /\ SLAVE_ACK_SP /\ CLK' = TRUE
      /\ IC_fsm_current_state' = "IC_SEND_INSTRUCTION_1" /\ MP_ACK_ICACHE' /\ if_adr' = l
  BY DEF Requesting, DT, SLAVE_ACK_SP, Answers, HalfCycle, Bench, BenchNext
<1>2. TypeOK /\ ValidLineIsMemory /\ l \in Line
  BY DEF Inv, TypeOK
<1>3. FirstWord
  BY <1>1, <1>2 DEF HalfCycle, Triggered, Transition, Miss, NextWord, Filled, Waits, Requesting
<1>4. /\ Index(l) \in Indexes /\ Tag(l) \in Tags
  BY <1>2, LineParts
<1>5. Put /\ cpt = 0 /\ cpt' = 1
  BY <1>3 DEF FirstWord, StartFill, Requesting
<1>6. /\ data' \in [Indexes -> [Words -> Word]]
      /\ data'[Index(l)][0] = <<l, 0>>
      /\ \A i \in Indexes, k \in Words : i # Index(l) => data'[i][k] = data[i][k]
  BY <1>1, <1>2, <1>5, PutRight
<1>7. /\ tag' \in [Indexes -> Tags] /\ data_validate' \in [Indexes -> BOOLEAN]
      /\ tag'[Index(l)] = Tag(l) /\ ~data_validate'[Index(l)]
      /\ \A i \in Indexes : i # Index(l) => tag'[i] = tag[i] /\ data_validate'[i] = data_validate[i]
  BY <1>2, <1>3, <1>4 DEF FirstWord, StartFill, TypeOK
<1>11. /\ PC_SI' \in Line /\ PC_VALID_SI' \in BOOLEAN /\ CLK' \in BOOLEAN
      /\ IC_fsm_current_state' \in BenchStates /\ if_adr' \in Line
      /\ ICACHE_DT' \in Word /\ MP_ACK_ICACHE' \in BOOLEAN
  BY <1>2, AroundTypes
<1>12. fsm_current_state' \in States /\ cpt' \in 0..4 /\ current_address' \in Line
      /\ A' \in Line /\ DTA_VALID' \in BOOLEAN
  <2>1. fsm_current_state' \in States /\ DTA_VALID' \in BOOLEAN
    BY <1>3 DEF FirstWord, States
  <2>2. UNCHANGED <<A, current_address>>
    BY <1>3 DEF FirstWord
  <2> QED
    BY <1>2, <1>5, <2>1, <2>2 DEF TypeOK
<1>13. /\ data' \in [Indexes -> [Words -> Word]] /\ tag' \in [Indexes -> Tags]
       /\ data_validate' \in [Indexes -> BOOLEAN]
  BY <1>6, <1>7
<1>8. TypeOK'
  BY <1>11, <1>12, <1>13 DEF TypeOK
<1>9. ValidLineIsMemory'
  BY <1>2, <1>6, <1>7 DEF ValidLineIsMemory
<1>10. Filling'
  <2>1. current_address' = l /\ fsm_current_state' = "UPDT" /\ ~DTA_VALID'
    BY <1>3 DEF FirstWord
  <2>2. <<CLK, IC_fsm_current_state, cpt>>' \in Points
    BY <1>1, <1>5 DEF Points
  <2> QED
    BY <1>1, <1>5, <1>6, <1>7, <2>1, <2>2 DEF Filling, Words
<1> QED
  BY <1>8, <1>9, <1>10 DEF Inv

(* The six points, one by one.                                             *)
LEMMA PointsOfBurst ==
  ASSUME Filling
  PROVE  \/ CLK /\ IC_fsm_current_state = "IC_SEND_INSTRUCTION_1" /\ cpt = 1
         \/ ~CLK /\ IC_fsm_current_state = "IC_CLK_SIMU0" /\ cpt = 2
         \/ CLK /\ IC_fsm_current_state = "IC_SEND_INSTRUCTION_2" /\ cpt = 2
         \/ ~CLK /\ IC_fsm_current_state = "IC_CLK_SIMU1" /\ cpt = 3
         \/ CLK /\ IC_fsm_current_state = "IC_SEND_INSTRUCTION_3" /\ cpt = 3
         \/ ~CLK /\ IC_fsm_current_state = "IC_END_BURST" /\ cpt = 4
  BY DEF Filling, Points

(* The bench goes from point to point, and sends the next word exactly     *)
(* when the next edge is a falling one.                                    *)
LEMMA BurstPoint ==
  ASSUME TypeOK, Filling, HalfCycle
  PROVE  /\ CLK => /\ SLAVE_ACK_SP /\ cpt \in 1..3 /\ DT = <<current_address, cpt>>
                   /\ <<FALSE, BenchNext, cpt + 1>> \in Points
         /\ ~CLK /\ IC_fsm_current_state # "IC_END_BURST" =>
                   /\ SLAVE_ACK_SP /\ DT = ICACHE_DT
                   /\ <<TRUE, BenchNext, cpt>> \in Points
         /\ IC_fsm_current_state = "IC_END_BURST" =>
                   /\ ~CLK /\ ~SLAVE_ACK_SP /\ cpt = 4 /\ BenchNext = "IC_IDLE"
<1>1. \/ CLK /\ IC_fsm_current_state = "IC_SEND_INSTRUCTION_1" /\ cpt = 1
      \/ ~CLK /\ IC_fsm_current_state = "IC_CLK_SIMU0" /\ cpt = 2
      \/ CLK /\ IC_fsm_current_state = "IC_SEND_INSTRUCTION_2" /\ cpt = 2
      \/ ~CLK /\ IC_fsm_current_state = "IC_CLK_SIMU1" /\ cpt = 3
      \/ CLK /\ IC_fsm_current_state = "IC_SEND_INSTRUCTION_3" /\ cpt = 3
      \/ ~CLK /\ IC_fsm_current_state = "IC_END_BURST" /\ cpt = 4
  BY PointsOfBurst
<1>2. ~Answers /\ MP_ACK_ICACHE /\ if_adr = current_address
  BY <1>1 DEF Filling, Answers
<1>3. SLAVE_ACK_SP <=> IC_fsm_current_state # "IC_END_BURST"
  BY <1>1, <1>2 DEF SLAVE_ACK_SP
<1>4. CLK => DT = <<current_address, cpt>>
  BY <1>1, <1>2 DEF DT, Sends
<1>5. ~CLK => DT = ICACHE_DT
  BY <1>1, <1>2 DEF DT, Sends
<1>6. BenchNext = AfterSending[IC_fsm_current_state]
  BY <1>1 DEF BenchNext
<1> QED
  BY <1>1, <1>3, <1>4, <1>5, <1>6 DEF AfterSending, Points

(* A half cycle of a burst moves to the next of its points, or ends it     *)
(* with the line full.                                                     *)
LEMMA FromFilling == ASSUME Inv, Filling, HalfCycle PROVE Inv'
<1> DEFINE l == current_address
<1>1. /\ TypeOK /\ ValidLineIsMemory /\ l \in Line
      /\ Index(l) \in Indexes /\ Tag(l) \in Tags /\ <<Tag(l), Index(l)>> = l
  BY LineParts DEF Inv, TypeOK
<1>2. /\ IC_fsm_current_state' = BenchNext /\ CLK' = ~CLK /\ MP_ACK_ICACHE' = SLAVE_ACK_SP
      /\ if_adr' = l
  BY DEF HalfCycle, Bench, Filling, Answers
<1>6. /\ PC_SI' \in Line /\ PC_VALID_SI' \in BOOLEAN /\ CLK' \in BOOLEAN
      /\ IC_fsm_current_state' \in BenchStates /\ if_adr' \in Line
      /\ ICACHE_DT' \in Word /\ MP_ACK_ICACHE' \in BOOLEAN
  BY <1>1, AroundTypes
<1>3. CASE CLK
  <2>1. NextWord
    BY <1>3, <1>1, BurstPoint
       DEF HalfCycle, Triggered, Transition, Miss, FirstWord, Filled, Waits, Filling
  <2>2. Put /\ cpt' = cpt + 1 /\ cpt \in 1..3
    BY <1>1, <1>3, <2>1, BurstPoint DEF NextWord
  <2>3. /\ data' \in [Indexes -> [Words -> Word]]
        /\ data'[Index(l)][cpt] = <<l, cpt>>
        /\ \A i \in Indexes, k \in Words :
             i # Index(l) \/ k # cpt => data'[i][k] = data[i][k]
    BY <1>1, <1>3, <2>2, BurstPoint, PutRight
  <2>9. fsm_current_state' \in States /\ cpt' \in 0..4 /\ current_address' \in Line
        /\ A' \in Line /\ DTA_VALID' \in BOOLEAN /\ tag' \in [Indexes -> Tags]
        /\ data_validate' \in [Indexes -> BOOLEAN]
    <3>1. /\ DTA_VALID' = FALSE
          /\ UNCHANGED <<fsm_current_state, A, current_address, tag, data_validate>>
      BY <2>1 DEF NextWord
    <3>2. cpt' \in 0..4
      BY <2>2
    <3> QED
      BY <1>1, <3>1, <3>2 DEF TypeOK
  <2>4. TypeOK'
    BY <1>6, <2>3, <2>9 DEF TypeOK
  <2>5. ValidLineIsMemory'
    BY <1>1, <2>1, <2>3 DEF NextWord, ValidLineIsMemory, Filling
  <2>6. \A k \in Words : k < cpt' => data'[Index(l)][k] = <<l, k>>
    BY <1>1, <2>2, <2>3 DEF Filling, Words
  <2>7. <<CLK, IC_fsm_current_state, cpt>>' \in Points
    BY <1>1, <1>2, <1>3, <2>2, BurstPoint
  <2>8. Filling'
    BY <1>1, <1>2, <1>3, <2>1, <2>6, <2>7, BurstPoint DEF NextWord, Filling
  <2> QED
    BY <2>4, <2>5, <2>8 DEF Inv
<1>4. CASE ~CLK /\ IC_fsm_current_state # "IC_END_BURST"
  <2>1. UNCHANGED <<thread, DTA_VALID, lines>>
    BY <1>1, <1>4, BurstPoint DEF HalfCycle, Triggered, Filling
  <2>2. TypeOK' /\ ValidLineIsMemory'
    <3>1. ValidLineIsMemory'
      BY <1>1, <2>1 DEF lines, ValidLineIsMemory
    <3>2. /\ fsm_current_state' \in States /\ cpt' \in 0..4 /\ current_address' \in Line
          /\ A' \in Line /\ DTA_VALID' \in BOOLEAN
      BY <1>1, <2>1 DEF TypeOK, thread
    <3>3. /\ data' \in [Indexes -> [Words -> Word]] /\ tag' \in [Indexes -> Tags]
          /\ data_validate' \in [Indexes -> BOOLEAN]
      BY <1>1, <2>1 DEF TypeOK, lines
    <3> QED
      BY <1>6, <3>1, <3>2, <3>3 DEF TypeOK
  <2>3. <<CLK, IC_fsm_current_state, cpt>>' \in Points
    BY <1>1, <1>2, <1>4, <2>1, BurstPoint DEF thread
  <2>4. Filling'
    BY <1>1, <1>2, <1>4, <2>1, <2>3, BurstPoint DEF Filling, thread, lines
  <2> QED
    BY <2>2, <2>4 DEF Inv
<1>5. CASE IC_fsm_current_state = "IC_END_BURST"
  <2>1. Filled
    BY <1>1, <1>5, BurstPoint
       DEF HalfCycle, Triggered, Transition, Miss, FirstWord, NextWord, Waits, Filling
  <2>2. \A k \in Words : data[Index(l)][k] = <<<<tag[Index(l)], Index(l)>>, k>>
    BY <1>1, <1>5, BurstPoint DEF Filling, Words
  <2>3. TypeOK'
    <3>1. /\ fsm_current_state' \in States /\ cpt' \in 0..4 /\ current_address' \in Line
          /\ A' \in Line /\ DTA_VALID' \in BOOLEAN
      BY <1>1, <2>1 DEF Filled, TypeOK, States
    <3>2. /\ data' \in [Indexes -> [Words -> Word]] /\ tag' \in [Indexes -> Tags]
          /\ data_validate' \in [Indexes -> BOOLEAN]
      BY <1>1, <2>1 DEF Filled, TypeOK
    <3> QED
      BY <1>6, <3>1, <3>2 DEF TypeOK
  <2>4. ValidLineIsMemory'
    BY <1>1, <2>1, <2>2 DEF Filled, ValidLineIsMemory, TypeOK
  <2>5. Idle'
    BY <1>1, <1>2, <1>5, <2>1, BurstPoint DEF Filled, Idle
  <2> QED
    BY <2>3, <2>4, <2>5 DEF Inv
<1> QED
  BY <1>1, <1>3, <1>4, <1>5 DEF TypeOK

(* Every half cycle keeps the invariant.                                   *)
LEMMA InvNext == Inv /\ [Next]_vars => Inv'
<1> SUFFICES ASSUME Inv, [Next]_vars PROVE Inv'
  OBVIOUS
<1>1. CASE HalfCycle
  BY <1>1, FromIdle, FromRequesting, FromFilling DEF Inv
<1>2. CASE UNCHANGED vars
  BY <1>2 DEF Inv, TypeOK, ValidLineIsMemory, Idle, Requesting, Filling,
              vars, core, thread, lines, bench
<1> QED
  BY <1>1, <1>2 DEF Next

(* The invariant holds in every state of every behaviour.                  *)
LEMMA InvAlways == Spec => []Inv
  BY InvInit, InvNext, PTL DEF Spec

(* Whatever the tags and indexes, the thread never writes outside a line   *)
(* and every variable keeps its type.                                      *)
THEOREM TypeCorrect == Spec => []TypeOK
<1>1. Inv => TypeOK
  BY DEF Inv
<1> QED
  BY <1>1, InvAlways, PTL

(* A line the cache answers from is the memory's, for every number of      *)
(* lines that share it and every way of the core while it is filled.       *)
THEOREM AlwaysValidLineIsMemory == Spec => []ValidLineIsMemory
<1>1. Inv => ValidLineIsMemory
  BY DEF Inv
<1> QED
  BY <1>1, InvAlways, PTL

(* The bench's burst is as long as a line: the thread counts exactly four  *)
(* words between the acknowledge going up and going down.                  *)
THEOREM AlwaysBurstFillsLine == Spec => []BurstFillsLine
<1>1. Inv => BurstFillsLine
  <2> SUFFICES ASSUME Inv, fsm_current_state = "UPDT", Triggered(DT # ICACHE_DT)
               PROVE  IF SLAVE_ACK_SP THEN cpt < 4 ELSE cpt = 4
    BY DEF BurstFillsLine
  <2>1. TypeOK /\ Filling
    BY DEF Inv, Idle, Requesting
  <2>2. SLAVE_ACK_SP = (IC_fsm_current_state # "IC_END_BURST") /\ MP_ACK_ICACHE = TRUE
    BY <2>1, PointsOfBurst DEF Filling, SLAVE_ACK_SP, TypeOK
  <2>3. CASE CLK
    <3>1. cpt < 4 /\ IC_fsm_current_state # "IC_END_BURST"
      BY <2>1, <2>3, PointsOfBurst
    <3> QED
      BY <2>2, <3>1
  <2>5. CASE IC_fsm_current_state = "IC_END_BURST"
    <3>1. cpt = 4
      BY <2>1, <2>5, PointsOfBurst
    <3> QED
      BY <2>2, <2>5, <3>1
  <2>4. CASE ~CLK /\ IC_fsm_current_state # "IC_END_BURST"
    <3>1. DT = ICACHE_DT
      BY <2>1, <2>4, PointsOfBurst DEF DT, Answers, Sends
    <3> QED
      BY <2>2, <2>4, <3>1 DEF Triggered
  <2> QED
    BY <2>3, <2>4, <2>5
<1> QED
  BY <1>1, InvAlways, PTL
=============================================================================
