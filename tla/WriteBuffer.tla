----------------------------- MODULE WriteBuffer -----------------------------
(***************************************************************************)
(* The two-entry buffer between the data cache and the memory              *)
(* (CORE/CACHES/buffercache.cpp).  Its method runs at every rising edge    *)
(* and whenever the cache raises WRITE_OBUFF, so an access is offered      *)
(* twice: half a cycle after the core put it up, and at the edge with      *)
(* which the core moves on.                                                *)
(*                                                                         *)
(* One step is half a clock cycle.  The cache sets WRITE_OBUFF and         *)
(* READ_OBUFF at the falling edge, the core changes the access at the      *)
(* rising one.  A slot that has been read out keeps its address, and the   *)
(* buffer compares with it.                                                *)
(***************************************************************************)
EXTENDS Naturals, Sequences

CONSTANTS Adr, Data

(* STORE_C and LOAD_C are the two kinds; the core never raises both.       *)
Kind   == {"store", "load"}
Access == [kind : Kind, adr : Adr, data : Data]
None   == [kind |-> "none", adr |-> 0, data |-> 0]

ASSUME AdrAssumption == Adr \subseteq Nat /\ 0 \in Adr /\ Data \subseteq Nat /\ 0 \in Data

VARIABLES CLK,
          access,                    \* what the core asks for, or None
          WRITE_OBUFF, READ_OBUFF,
          buff0, buff1,              \* the slots: v is VALIDATE, d the rest
          buffer_LRU,                \* 0, or 1 plus the slot written last
          mp,                        \* the memory port: <<>> when STORE_MP and LOAD_MP are low
          FULL, EMPTY

slots == <<buff0, buff1, buffer_LRU>>
vars  == <<CLK, access, WRITE_OBUFF, READ_OBUFF, slots, mp, FULL, EMPTY>>

Slot == [v : BOOLEAN, d : Access \union {None}]

TypeOK == /\ CLK \in BOOLEAN /\ access \in Access \union {None}
          /\ WRITE_OBUFF \in BOOLEAN /\ READ_OBUFF \in BOOLEAN
          /\ buff0 \in Slot /\ buff1 \in Slot /\ buffer_LRU \in 0..2
          /\ buff0.v => buff0.d \in Access
          /\ buff1.v => buff1.d \in Access
          /\ mp \in {<<>>} \union {<<a>> : a \in Access}
          /\ FULL \in BOOLEAN /\ EMPTY \in BOOLEAN

Init == /\ CLK = FALSE /\ access = None
        /\ WRITE_OBUFF = FALSE /\ READ_OBUFF = FALSE
        /\ buff0 = [v |-> FALSE, d |-> None] /\ buff1 = buff0
        /\ buffer_LRU = 0 /\ mp = <<>>
        /\ FULL = FALSE /\ EMPTY = FALSE

-----------------------------------------------------------------------------
(* Where an access goes: a store not if its address waits already, and     *)
(* neither into a slot that last held its address.                         *)
Waiting(a) == \/ buff0.v /\ buff0.d.adr = a.adr
              \/ buff1.v /\ buff1.d.adr = a.adr

Wanted(write) == /\ write
                 /\ \/ access.kind = "store" /\ ~Waiting(access)
                    \/ access.kind = "load"

Free(b) == ~b.v /\ access.adr # b.d.adr

To0(write) == Wanted(write) /\ Free(buff0)
To1(write) == Wanted(write) /\ ~Free(buff0) /\ Free(buff1)

Faulty_From0(read) == read /\ buff0.v /\ (buff1.v => buffer_LRU = 1)

(* Which slot is read out: of two, the one that was not written last.      *)
From0(read) == read /\ buff0.v /\ (buff1.v => buffer_LRU = 2)
From1(read) == read /\ buff1.v /\ (buff0.v => buffer_LRU = 1)

(* fifo: all of it looks at the slots as they were before.                 *)
fifo(write, read) ==
  /\ buff0' = IF To0(write) THEN [v |-> TRUE, d |-> access]
              ELSE IF From0(read) THEN [buff0 EXCEPT !.v = FALSE] ELSE buff0
  /\ buff1' = IF To1(write) THEN [v |-> TRUE, d |-> access]
              ELSE IF From1(read) THEN [buff1 EXCEPT !.v = FALSE] ELSE buff1
  /\ buffer_LRU' = IF To0(write) THEN 1 ELSE IF To1(write) THEN 2 ELSE buffer_LRU
  /\ mp' = IF From0(read) THEN <<buff0.d>> ELSE IF From1(read) THEN <<buff1.d>>
           ELSE IF ~read /\ ~write THEN <<>> ELSE mp

(* bufferfull *)
Flags == FULL' = (buff0.v /\ buff1.v) /\ EMPTY' = (~buff0.v /\ ~buff1.v)

-----------------------------------------------------------------------------
RisingEdge == /\ ~CLK /\ CLK' = TRUE
              /\ fifo(WRITE_OBUFF, READ_OBUFF)
              /\ Flags
              /\ access' \in Access \union {None}
              /\ UNCHANGED <<WRITE_OBUFF, READ_OBUFF>>

(* The cache drives its two commands; raising WRITE_OBUFF runs fifo once   *)
(* more, with both of them as they are now.                                *)
FallingEdge == /\ CLK /\ CLK' = FALSE
               /\ WRITE_OBUFF' \in BOOLEAN /\ READ_OBUFF' \in BOOLEAN
               /\ IF WRITE_OBUFF' /\ ~WRITE_OBUFF
                  THEN fifo(TRUE, READ_OBUFF')
                  ELSE UNCHANGED <<slots, mp>>
               /\ UNCHANGED <<access, FULL, EMPTY>>

Next == RisingEdge \/ FallingEdge

Spec == Init /\ [][Next]_vars

-----------------------------------------------------------------------------
(* The accesses waiting, the oldest first.                                 *)
Queue ==
  IF buff0.v /\ buff1.v
  THEN IF buffer_LRU = 1 THEN <<buff1.d, buff0.d>> ELSE <<buff0.d, buff1.d>>
  ELSE IF buff0.v THEN <<buff0.d>> ELSE IF buff1.v THEN <<buff1.d>> ELSE <<>>

Q == INSTANCE AccessQueue WITH q <- Queue, port <- mp, Size <- 2

(* The buffer implements the queue: what it has taken is neither lost nor  *)
(* doubled nor overtaken on its way to the memory, although both slots may *)
(* be taken, read out and taken again in any order, with accesses offered  *)
(* twice and read and written at once.                                     *)
AccessesInOrder == Q!QSpec
=============================================================================
