-------------------------- MODULE WriteBufferProofs --------------------------
(***************************************************************************)
(* Proofs about WriteBuffer, for every set of addresses and of data: that  *)
(* it implements AccessQueue.  The two slots are a queue of at most two    *)
(* accesses as long as buffer_LRU names the slot written last whenever     *)
(* both are taken.                                                         *)
(***************************************************************************)
EXTENDS WriteBuffer, SequenceTheorems, TLAPS

Inv == TypeOK /\ (buff0.v /\ buff1.v => buffer_LRU \in {1, 2})

(* The queue's moves on sequences as short as these.                       *)
LEMMA ShortQueues ==
  ASSUME NEW a, NEW b
  PROVE  /\ Len(<<>>) = 0 /\ Len(<<a>>) = 1 /\ Len(<<a, b>>) = 2
         /\ <<>> \o <<>> = <<>> /\ <<>> \o <<a>> = <<a>>
         /\ <<a>> \o <<>> = <<a>> /\ <<a>> \o <<b>> = <<a, b>>
         /\ <<a, b>> \o <<>> = <<a, b>>
         /\ Head(<<a>>) = a /\ Tail(<<a>>) = <<>>
         /\ Head(<<a, b>>) = a /\ Tail(<<a, b>>) = <<b>>
         /\ <<a>> # <<>> /\ <<a, b>> # <<>>
<1>1. Len(<<>>) = 0 /\ Len(<<a>>) = 1 /\ Len(<<a, b>>) = 2
  OBVIOUS
<1>2. <<>> \o <<>> = <<>>
  OBVIOUS
<1>3. <<>> \o <<a>> = <<a>>
  OBVIOUS
<1>4. <<a>> \o <<>> = <<a>>
  OBVIOUS
<1>5. <<a>> \o <<b>> = <<a, b>>
  <2> DEFINE s == <<a>> \o <<b>>
             t == <<a, b>>
  <2>1. <<a>> \in Seq({a, b}) /\ <<b>> \in Seq({a, b}) /\ t \in Seq({a, b})
    OBVIOUS
  <2>2. Len(<<a>>) = 1 /\ Len(<<b>>) = 1 /\ Len(t) = 2
    OBVIOUS
  <2>3. s \in Seq({a, b}) /\ Len(s) = 2 /\ s[1] = a /\ s[2] = b
    BY <2>1, <2>2, ConcatProperties
  <2>4. Len(s) = Len(t) /\ \A i \in 1..Len(s) : s[i] = t[i]
    BY <2>2, <2>3
  <2> HIDE DEF s, t
  <2>5. s = t
    BY <2>1, <2>3, <2>4, SeqEqual
  <2> QED
    BY <2>5 DEF s, t
<1>6. <<a, b>> \o <<>> = <<a, b>>
  <2>1. <<a, b>> \in Seq({a, b})
    OBVIOUS
  <2> QED
    BY <2>1, ConcatEmptySeq
<1>7. Head(<<a>>) = a /\ Tail(<<a>>) = <<>>
  OBVIOUS
<1>8. Head(<<a, b>>) = a /\ Tail(<<a, b>>) = <<b>>
  OBVIOUS
<1>9. <<a>> # <<>> /\ <<a, b>> # <<>>
  OBVIOUS
<1> QED
  BY <1>1, <1>2, <1>3, <1>4, <1>5, <1>6, <1>7, <1>8, <1>9

(* The buffer starts empty, and so does the queue.                         *)
LEMMA InvInit == Init => Inv /\ Q!QInit
<1> SUFFICES ASSUME Init PROVE Inv /\ Q!QInit
  OBVIOUS
<1>1. buff0 \in Slot /\ buff1 \in Slot /\ ~buff0.v /\ ~buff1.v
  BY DEF Init, Slot
<1>2. mp = <<>> /\ Queue = <<>>
  BY <1>1 DEF Init, Queue
<1>3. TypeOK
  <2>1. access \in Access \union {None} /\ buffer_LRU \in 0..2
    BY DEF Init
  <2>2. CLK \in BOOLEAN /\ WRITE_OBUFF \in BOOLEAN /\ READ_OBUFF \in BOOLEAN
        /\ FULL \in BOOLEAN /\ EMPTY \in BOOLEAN
    BY DEF Init
  <2> QED
    BY <1>1, <1>2, <2>1, <2>2 DEF TypeOK
<1> QED
  BY <1>1, <1>2, <1>3 DEF Inv, Q!QInit

(* What fifo keeps of the types.                                           *)
LEMMA FifoTypes ==
  ASSUME Inv, NEW write \in BOOLEAN, NEW read \in BOOLEAN, fifo(write, read)
  PROVE  /\ buff0' \in Slot /\ buff1' \in Slot /\ buffer_LRU' \in 0..2
         /\ buff0'.v => buff0'.d \in Access
         /\ buff1'.v => buff1'.d \in Access
         /\ buff0'.v /\ buff1'.v => buffer_LRU' \in {1, 2}
         /\ mp' \in {<<>>} \union {<<a>> : a \in Access}
<1>1. TypeOK /\ (buff0.v /\ buff1.v => buffer_LRU \in {1, 2})
  BY DEF Inv
<1>2. Wanted(write) => access \in Access
  BY <1>1 DEF Wanted, TypeOK, None
<1>3. buff0' \in Slot /\ (buff0'.v => buff0'.d \in Access)
  BY <1>1, <1>2 DEF fifo, TypeOK, Slot, To0
<1>4. buff1' \in Slot /\ (buff1'.v => buff1'.d \in Access)
  BY <1>1, <1>2 DEF fifo, TypeOK, Slot, To1
<1>5. buffer_LRU' \in 0..2 /\ (buff0'.v /\ buff1'.v => buffer_LRU' \in {1, 2})
  BY <1>1 DEF fifo, TypeOK, Slot, To0, To1, From0, From1
<1>6. mp' \in {<<>>} \union {<<a>> : a \in Access}
  <2>1. From0(read) => buff0.d \in Access
    BY <1>1 DEF From0, TypeOK
  <2>2. From1(read) => buff1.d \in Access
    BY <1>1 DEF From1, TypeOK
  <2> QED
    BY <1>1, <2>1, <2>2 DEF fifo, TypeOK
<1> QED
  BY <1>3, <1>4, <1>5, <1>6

(* One run of fifo is one move of the queue: it takes an access or not,    *)
(* and shows the oldest one or not.                                        *)
LEMMA FifoMoves ==
  ASSUME Inv, NEW write \in BOOLEAN, NEW read \in BOOLEAN, fifo(write, read)
  PROVE  Q!QNext
<1> DEFINE new   == IF To0(write) \/ To1(write) THEN <<access>> ELSE <<>>
           shown == From0(read) \/ From1(read)
<1>1. /\ TypeOK /\ (buff0.v /\ buff1.v => buffer_LRU \in {1, 2})
      /\ buff0.v \in BOOLEAN /\ buff1.v \in BOOLEAN
  BY DEF Inv, TypeOK, Slot
<1>2. new \in {<<>>} \union {<<a>> : a \in Access}
  BY <1>1 DEF To0, To1, Wanted, TypeOK, None
<1>3. Len(Queue) + Len(new) =< 2
  BY <1>1, ShortQueues DEF Queue, To0, To1, Free
<1>4. /\ To0(write) => ~buff0.v /\ ~To1(write) /\ ~From0(read)
      /\ To1(write) => ~buff1.v /\ ~From1(read)
      /\ ~(From0(read) /\ From1(read))
  BY <1>1 DEF To0, To1, Free, From0, From1
<1>7. buff0'.v = (To0(write) \/ (buff0.v /\ ~From0(read)))
      /\ buff0'.d = IF To0(write) THEN access ELSE buff0.d
  BY <1>1, <1>4 DEF fifo, TypeOK, Slot
<1>8. buff1'.v = (To1(write) \/ (buff1.v /\ ~From1(read)))
      /\ buff1'.d = IF To1(write) THEN access ELSE buff1.d
  BY <1>1, <1>4 DEF fifo, TypeOK, Slot
<1>9. buffer_LRU' = IF To0(write) THEN 1 ELSE IF To1(write) THEN 2 ELSE buffer_LRU
  BY DEF fifo
<1>5. CASE shown
  <2>1. Queue # <<>>
    BY <1>1, <1>5, ShortQueues DEF Queue, From0, From1
  <2>2. mp' = <<Head(Queue)>>
    BY <1>1, <1>5, ShortQueues DEF Queue, From0, From1, fifo
  <2>3. Queue' = Tail(Queue) \o new
    <3>1. CASE buff0.v /\ buff1.v
      <4>1. new = <<>>
        BY <1>4, <3>1
      <4>2. CASE buffer_LRU = 1
        <5>1. Queue = <<buff1.d, buff0.d>> /\ From1(read)
          BY <1>5, <3>1, <4>2 DEF Queue, From0, From1
        <5>2. Queue' = <<buff0.d>>
          BY <1>4, <1>7, <1>8, <3>1, <5>1 DEF Queue
        <5> QED
          BY <4>1, <5>1, <5>2, ShortQueues
      <4>3. CASE buffer_LRU = 2
        <5>1. Queue = <<buff0.d, buff1.d>> /\ From0(read)
          BY <1>5, <3>1, <4>3 DEF Queue, From0, From1
        <5>2. Queue' = <<buff1.d>>
          BY <1>4, <1>7, <1>8, <3>1, <5>1 DEF Queue
        <5> QED
          BY <4>1, <5>1, <5>2, ShortQueues
      <4> QED
        BY <1>1, <3>1, <4>2, <4>3
    <3>2. CASE buff0.v /\ ~buff1.v
      <4>1. Tail(Queue) = <<>> /\ From0(read) /\ ~To0(write)
        BY <1>4, <1>5, <3>2, ShortQueues DEF Queue, From1
      <4>2. Queue' = new
        BY <1>7, <1>8, <3>2, <4>1 DEF Queue, From1
      <4> QED
        BY <4>1, <4>2, ShortQueues
    <3>3. CASE ~buff0.v /\ buff1.v
      <4>1. Tail(Queue) = <<>> /\ From1(read) /\ ~To1(write)
        BY <1>4, <1>5, <3>3, ShortQueues DEF Queue, From0
      <4>2. Queue' = new
        BY <1>7, <1>8, <3>3, <4>1 DEF Queue, From0
      <4> QED
        BY <4>1, <4>2, ShortQueues
    <3> QED
      BY <1>1, <1>5, <3>1, <3>2, <3>3 DEF From0, From1
  <2>4. Q!Move(new, shown)
    BY <1>3, <1>5, <2>1, <2>2, <2>3 DEF Q!Move
  <2> QED
    BY <1>2, <1>5, <2>4 DEF Q!QNext
<1>6. CASE ~shown
  <2>1. mp' \in {mp, <<>>}
    BY <1>6 DEF fifo
  <2>2. Queue' = Queue \o new
    <3>1. CASE To0(write)
      <4>1. CASE buff1.v
        <5>1. Queue = <<buff1.d>> /\ Queue' = <<buff1.d, access>> /\ new = <<access>>
          BY <1>4, <1>6, <1>7, <1>8, <1>9, <3>1, <4>1 DEF Queue
        <5> QED
          BY <5>1, ShortQueues
      <4>2. CASE ~buff1.v
        <5>1. Queue = <<>> /\ Queue' = <<access>> /\ new = <<access>>
          BY <1>4, <1>6, <1>7, <1>8, <1>9, <3>1, <4>2 DEF Queue
        <5> QED
          BY <5>1, ShortQueues
      <4> QED
        BY <4>1, <4>2
    <3>2. CASE To1(write)
      <4>1. CASE buff0.v
        <5>1. Queue = <<buff0.d>> /\ new = <<access>> /\ ~To0(write)
          BY <1>4, <3>2, <4>1 DEF Queue
        <5>2. buff0'.v /\ buff0'.d = buff0.d /\ buff1'.v /\ buff1'.d = access /\ buffer_LRU' = 2
          BY <1>6, <1>7, <1>8, <1>9, <3>2, <4>1, <5>1
        <5>3. Queue' = <<buff0.d, access>>
          BY <5>2 DEF Queue
        <5> QED
          BY <5>1, <5>3, ShortQueues
      <4>2. CASE ~buff0.v
        <5>1. Queue = <<>> /\ Queue' = <<access>> /\ new = <<access>>
          BY <1>4, <1>6, <1>7, <1>8, <1>9, <3>2, <4>2 DEF Queue
        <5> QED
          BY <5>1, ShortQueues
      <4> QED
        BY <4>1, <4>2
    <3>3. CASE ~To0(write) /\ ~To1(write)
      <4>1. Queue' = Queue /\ new = <<>>
        BY <1>1, <1>6, <1>7, <1>8, <1>9, <3>3 DEF Queue
      <4>2. Queue \o <<>> = Queue
        <5>1. CASE buff0.v /\ buff1.v
          BY <5>1, ShortQueues DEF Queue
        <5>2. CASE ~(buff0.v /\ buff1.v)
          BY <5>2, ShortQueues DEF Queue
        <5> QED
          BY <5>1, <5>2
      <4> QED
        BY <4>1, <4>2
    <3> QED
      BY <3>1, <3>2, <3>3
  <2>3. Q!Move(new, shown)
    BY <1>3, <1>6, <2>1, <2>2 DEF Q!Move
  <2> QED
    BY <1>2, <1>6, <2>3 DEF Q!QNext
<1> QED
  BY <1>5, <1>6

(* Every step of the buffer is a move of the queue or leaves it alone.     *)
LEMMA InvNext == Inv /\ [Next]_vars => Inv' /\ [Q!QNext]_<<Queue, mp>>
<1> SUFFICES ASSUME Inv, [Next]_vars PROVE Inv' /\ [Q!QNext]_<<Queue, mp>>
  OBVIOUS
<1>1. ASSUME UNCHANGED <<slots, mp>> PROVE UNCHANGED <<Queue, mp>>
  BY <1>1 DEF slots, Queue
<1>2. CASE RisingEdge
  <2>1. WRITE_OBUFF \in BOOLEAN /\ READ_OBUFF \in BOOLEAN /\ fifo(WRITE_OBUFF, READ_OBUFF)
    BY <1>2 DEF RisingEdge, Inv, TypeOK
  <2>2. FULL' \in BOOLEAN /\ EMPTY' \in BOOLEAN
    BY <1>2 DEF RisingEdge, Flags
  <2>3. Inv'
    BY <1>2, <2>1, <2>2, FifoTypes DEF RisingEdge, Inv, TypeOK
  <2> QED
    BY <2>1, <2>3, FifoMoves
<1>3. CASE FallingEdge /\ WRITE_OBUFF' /\ ~WRITE_OBUFF
  <2>1. READ_OBUFF' \in BOOLEAN /\ WRITE_OBUFF' \in BOOLEAN /\ fifo(TRUE, READ_OBUFF')
    BY <1>3 DEF FallingEdge
  <2>2. Inv'
    BY <1>3, <2>1, FifoTypes DEF FallingEdge, Inv, TypeOK
  <2>3. Q!QNext
    BY <2>1, FifoMoves
  <2> QED
    BY <2>2, <2>3
<1>4. CASE FallingEdge /\ ~(WRITE_OBUFF' /\ ~WRITE_OBUFF)
  <2>1. UNCHANGED <<slots, mp>> /\ WRITE_OBUFF' \in BOOLEAN /\ READ_OBUFF' \in BOOLEAN
    BY <1>4 DEF FallingEdge
  <2>2. Inv'
    BY <1>4, <2>1 DEF FallingEdge, Inv, TypeOK, slots
  <2> QED
    BY <1>1, <2>1, <2>2
<1>5. CASE UNCHANGED vars
  <2>1. Inv'
    BY <1>5 DEF Inv, TypeOK, vars, slots
  <2> QED
    BY <1>1, <1>5, <2>1 DEF vars
<1> QED
  BY <1>2, <1>3, <1>4, <1>5 DEF Next

(* The slots, flags and the memory port keep their types, and buffer_LRU   *)
(* says which slot is the older one whenever both are taken.               *)
THEOREM TypeCorrect == Spec => []TypeOK
<1>1. Inv => TypeOK
  BY DEF Inv
<1> QED
  BY <1>1, InvInit, InvNext, PTL DEF Spec

(* The buffer implements the queue of accesses, whatever the addresses and *)
(* data, and however the cache and the memory drive it.                    *)
THEOREM AccessesAlwaysInOrder == Spec => AccessesInOrder
  BY InvInit, InvNext, PTL DEF Spec, AccessesInOrder, Q!QSpec
=============================================================================
