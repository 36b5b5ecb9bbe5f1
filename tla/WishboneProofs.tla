--------------------------- MODULE WishboneProofs ---------------------------
(***************************************************************************)
(* For every RAM size, number of LED registers and set of words: the state *)
(* stays in its types, and, when the core holds an access during its       *)
(* transfer, every answer is the answer to its own request and every store *)
(* reaches its own word.                                                   *)
(***************************************************************************)
EXTENDS Wishbone, TLAPS

-----------------------------------------------------------------------------
(* Types *)

\* The bus carries mapped addresses and words only.
LEMMA BusTypes == ASSUME TypeOK
                  PROVE  /\ ADR_O \in Bus /\ DAT_O \in Data
                         /\ adr_adapt \in Ram
  <1>. Ram \subseteq Bus /\ Leds \subseteq Bus /\ 0 \in Bus /\ 0 \in Ram
    BY MapAssumption DEF Ram, Leds, Bus
  <1>1. ADR_O \in Bus
    BY DEF ADR_O, TypeOK, Access, Mapped, trans_d, trans_i
  <1>2. DAT_O \in Data
    BY DataAssumption DEF DAT_O, TypeOK, Access
  <1>3. adr_adapt \in Ram
    BY <1>1, MapAssumption DEF adr_adapt, Ram, Bus
  <1>. QED BY <1>1, <1>2, <1>3

\* A reset leaves every register in its type.
LEMMA InitType == Init => TypeOK
  <1>. SUFFICES ASSUME Init PROVE TypeOK
    OBVIOUS
  <1>1. 0 \in Ram /\ 0 \in Bus /\ 0 \in Mapped
    BY MapAssumption DEF Ram, Bus, Mapped
  <1>2. arch \in [Mapped -> Data]
    BY DataAssumption DEF Init, Mapped, Ram
  <1>. QED BY <1>1, <1>2, DataAssumption DEF Init, TypeOK, Access

\* A cycle of the slaves leaves their registers in their types.
LEMMA SlavesType ==
    ASSUME TypeOK, Slaves
    PROVE  /\ ram_EP' \in {"idle", "r", "w", "done"}
           /\ ram_adr_reg' \in Ram /\ ram_data_reg' \in Data /\ ram_do' \in Data
           /\ ram' \in [Ram -> Data]
           /\ led_EP' \in {"idle", "r", "w"}
           /\ led_adr_reg' \in Bus /\ led_data_reg' \in Data
           /\ slv_reg' \in [Leds -> Data]
  <1>1. ram_EP' \in {"idle", "r", "w", "done"}
    BY DEF Slaves, RamTransition
  <1>2. ram_adr_reg' \in Ram /\ ram_data_reg' \in Data
    BY BusTypes DEF Slaves, RamRegisters
  <1>3. ram_do' \in Data /\ ram' \in [Ram -> Data]
    BY DEF Slaves, Bram, TypeOK
  <1>4. led_EP' \in {"idle", "r", "w"}
    BY DEF Slaves, LedTransition
  <1>5. led_adr_reg' \in Bus /\ led_data_reg' \in Data
    BY BusTypes DEF Slaves, LedRegisters
  <1>6. slv_reg' \in [Leds -> Data]
    BY DEF Slaves, write_reg, TypeOK
  <1>. QED BY <1>1, <1>2, <1>3, <1>4, <1>5, <1>6

\* So does a cycle of the core.
LEMMA CoreType ==
    ASSUME TypeOK, FetchStays \/ FetchMoves, MemStays \/ MemMoves
    PROVE  /\ fetch' \in [valid : BOOLEAN, adr : Ram]
           /\ mem' \in Access
           /\ arch' \in [Mapped -> Data]
  <1>1. fetch' \in [valid : BOOLEAN, adr : Ram]
    <2>1. CASE fetch' = fetch
      BY <2>1 DEF TypeOK
    <2>2. CASE \E a \in Ram : fetch' = [valid |-> TRUE, adr |-> a]
      BY <2>2
    <2>3. CASE fetch' = [fetch EXCEPT !.valid = FALSE]
      BY <2>3 DEF TypeOK
    <2>. QED BY <2>1, <2>2, <2>3 DEF FetchStays, FetchMoves
  <1>2. CASE MemStays
    <2>1. Popped \in BOOLEAN /\ Transferred \in BOOLEAN
      BY DEF Popped, Transferred, AccessEnds, TypeOK, Access, trans_d, ACK_I
    <2>. QED BY <1>1, <1>2, <2>1 DEF MemStays, TypeOK, Access
  <1>3. CASE MemMoves
    BY <1>1, <1>3 DEF MemMoves, TypeOK, Access
  <1>. QED BY <1>2, <1>3

\* A clock cycle keeps the types.
LEMMA NextType == TypeOK /\ [Next]_vars => TypeOK'
  <1>. SUFFICES ASSUME TypeOK, [Next]_vars PROVE TypeOK'
    OBVIOUS
  <1>1. CASE Next
    <2>1. EF \in {"idle", "iread", "dread", "dwrite"}
      BY DEF EF, TypeOK
    <2>2. EP' \in {"idle", "iread", "dread", "dwrite"} /\ trans_d_reg' \in BOOLEAN
      BY <1>1, <2>1 DEF Next, Cpu, trans_d
    <2>. QED BY <1>1, <2>2, SlavesType, CoreType DEF Next, TypeOK
  <1>2. CASE UNCHANGED vars
    BY <1>2 DEF TypeOK, vars, cpu_vars, ram_vars, led_vars, core_vars
  <1>. QED BY <1>1, <1>2

\* Whatever the core does, bus and slaves keep their types: the RAM's address
\* register is in the RAM although it samples every address on the bus.
THEOREM TypeCorrect == Spec => []TypeOK
  BY InitType, NextType, PTL DEF Spec

-----------------------------------------------------------------------------
(* The transfer under way *)

\* Between transfers both slaves are idle; wb_cpu writes for a store and reads
\* for a load.
Requested == /\ EP = "idle" => ram_EP = "idle" /\ led_EP = "idle"
             /\ EP = "dwrite" => mem.op = "store"
             /\ EP = "dread" => mem.op = "load"

\* During a transfer the slave that is not addressed is idle; the other one has
\* sampled this transfer's address and data when it leaves idle, and the RAM has
\* done the work when it is done.
RamServes ==
    /\ EP # "idle" /\ ADR_O \in Leds => ram_EP = "idle"
    /\ EP # "idle" /\ ram_EP \in {"r", "w"} => ram_adr_reg = ADR_O
    /\ ram_EP = "w" => EP = "dwrite" /\ ram_data_reg = mem.data
    /\ ram_EP = "r" => EP \in {"iread", "dread"}
    /\ ram_EP = "done" /\ EP = "dwrite" => ram[ADR_O] = mem.data
    /\ ram_EP = "done" /\ EP \in {"iread", "dread"} => ram_do = ram[ADR_O]
LedServes ==
    /\ EP # "idle" /\ ADR_O \in Ram => led_EP = "idle"
    /\ EP # "idle" /\ led_EP # "idle" => led_adr_reg = ADR_O
    /\ led_EP = "w" => EP = "dwrite" /\ led_data_reg = mem.data
    /\ led_EP = "r" => EP \in {"iread", "dread"}

\* What MEM shows of a store is what the program has stored.
StoreShown == mem.op = "store" => arch[mem.adr] = mem.data

IInv == TypeOK /\ Requested /\ RamServes /\ LedServes /\ StoreShown /\ SlavesAgree

\* The decoder of top.vhd selects one slave in every transfer.
LEMMA Selected ==
    ASSUME TypeOK
    PROVE  /\ ADR_O \in Mapped
           /\ select_ram <=> ADR_O \in Ram
           /\ select_led <=> ADR_O \in Leds
           /\ ~(select_ram /\ select_led)
  <1>1. ADR_O \in Mapped
    BY MapAssumption DEF ADR_O, TypeOK, Access, Mapped, trans_d, trans_i, Ram
  <1>. QED BY <1>1, MapAssumption DEF Mapped, Ram, Leds, select_ram, select_led

\* A transfer that has not been acknowledged goes on with the same address and,
\* from MEM, the same data: nothing in wb_cpu holds them, the core does.
LEMMA Held ==
    ASSUME Patient, TypeOK, Requested, Next, EP # "idle", ~ACK_I
    PROVE  /\ EP' = EP /\ ADR_O' = ADR_O
           /\ trans_d => mem'.op = mem.op /\ mem'.data = mem.data
  <1>1. EP' = EP
    BY DEF Next, Cpu, EF
  <1>2. CASE EP = "iread"
    <2>1. fetch' = fetch
      <3>1. trans_i /\ icache_stall
        BY <1>2 DEF trans_i, icache_stall
      <3>. QED BY <3>1 DEF Next, FetchStays, FetchMoves, Fetched
    <2>2. ADR_O = fetch.adr /\ ADR_O' = fetch'.adr
      BY <1>1, <1>2 DEF ADR_O, trans_d, trans_i
    <2>. QED BY <1>1, <1>2, <2>1, <2>2 DEF trans_d
  <1>3. CASE EP \in {"dread", "dwrite"}
    <2>1. EF \in {"dread", "dwrite"}
      BY <1>3 DEF EF
    <2>2. MemStays
      BY <2>1 DEF Next, MemMoves, MayReplace
    <2>3. /\ mem'.op = mem.op /\ mem'.data = mem.data /\ mem'.adr = mem.adr
      BY <2>2 DEF MemStays, TypeOK, Access
    <2>4. ADR_O = mem.adr /\ ADR_O' = mem'.adr
      BY <1>1, <1>3 DEF ADR_O, trans_d, trans_i
    <2>. QED BY <1>1, <2>3, <2>4
  <1>. QED BY <1>2, <1>3 DEF TypeOK

\* A transfer starts with slaves that stay idle for this cycle, for the access
\* MEM shows and goes on showing.
LEMMA Starts ==
    ASSUME Patient, TypeOK, Requested, Next, EP = "idle"
    PROVE  /\ ram_EP' = "idle" /\ led_EP' = "idle"
           /\ Requested'
  <1>1. ram_EP' = "idle" /\ led_EP' = "idle"
    BY DEF Requested, Next, Slaves, RamTransition, LedTransition, stb_ram, stb_led, STB_O
  <1>2. CASE EF \in {"dread", "dwrite"}
    <2>1. MemStays
      BY <1>2 DEF Next, MemMoves, MayReplace
    <2>2. mem'.op = mem.op
      BY <2>1 DEF MemStays, TypeOK, Access
    <2>3. /\ EF = "dwrite" => mem.op = "store"
          /\ EF = "dread" => mem.op = "load"
      BY DEF EF, DataFirst, dcache_store, dcache_load
    <2>. QED BY <1>1, <2>2, <2>3 DEF Next, Cpu, Requested
  <1>3. CASE EF \notin {"dread", "dwrite"}
    BY <1>1, <1>3 DEF Next, Cpu, Requested
  <1>. QED BY <1>2, <1>3

\* An acknowledge ends the transfer for both sides.
LEMMA Ends ==
    ASSUME IInv, Next, EP # "idle", ACK_I
    PROVE  EP' = "idle" /\ ram_EP' = "idle" /\ led_EP' = "idle"
  <1>1. EP' = "idle"
    BY DEF Next, Cpu, EF, TypeOK, IInv
  <1>2. CASE select_ram /\ ram_EP = "done"
    <2>1. led_EP = "idle" /\ ~stb_led
      BY <1>2, Selected DEF IInv, LedServes, stb_led
    <2>. QED BY <1>1, <1>2, <2>1 DEF Next, Slaves, RamTransition, LedTransition
  <1>3. CASE select_led /\ led_EP \in {"r", "w"}
    <2>1. ram_EP = "idle" /\ ~stb_ram
      BY <1>3, Selected DEF IInv, RamServes, stb_ram
    <2>. QED BY <1>1, <1>3, <2>1 DEF Next, Slaves, RamTransition, LedTransition
  <1>. QED BY <1>2, <1>3 DEF ACK_I

\* A cycle of waiting brings the RAM one state further for the same request.
LEMMA RamStep ==
    ASSUME Patient, IInv, Next, EP # "idle", ~ACK_I
    PROVE  RamServes'
  <1>1. /\ EP' = EP /\ ADR_O' = ADR_O
        /\ trans_d => mem'.op = mem.op /\ mem'.data = mem.data
    BY Held DEF IInv
  <1>2. CASE ADR_O \in Leds
    <2>1. ram_EP = "idle" /\ ~stb_ram
      BY <1>2, Selected DEF IInv, RamServes, stb_ram
    <2>2. ram_EP' = "idle"
      BY <2>1 DEF Next, Slaves, RamTransition
    <2>. QED BY <1>1, <2>2 DEF RamServes
  <1>3. CASE ADR_O \in Ram
    <2>1. select_ram /\ stb_ram /\ ADR_O \notin Leds
      BY <1>3, Selected, MapAssumption DEF IInv, stb_ram, STB_O, Ram, Leds
    <2>2. adr_adapt = ADR_O
      BY <1>3, MapAssumption DEF adr_adapt, Ram
    <2>3. CASE ram_EP = "idle"
      <3>1. ram_adr_reg' = ADR_O /\ ram_data_reg' = DAT_O
        BY <2>2 DEF Next, Slaves, RamRegisters
      <3>2. ram_EP' = IF EP = "dwrite" THEN "w" ELSE "r"
        BY <2>1, <2>3 DEF Next, Slaves, RamTransition, WE_O
      <3>3. EP = "dwrite" => DAT_O = mem.data
        BY DEF DAT_O, trans_d
      <3>. QED BY <1>1, <2>1, <3>1, <3>2, <3>3 DEF RamServes, IInv, TypeOK, trans_d
    <2>4. CASE ram_EP = "r"
      <3>1. ram_EP' = "done" /\ ram_do' = ram[ADR_O] /\ ram' = ram
        BY <2>4 DEF Next, Slaves, RamTransition, Bram, IInv, RamServes
      <3>. QED BY <1>1, <2>1, <2>4, <3>1 DEF RamServes, IInv
    <2>5. CASE ram_EP = "w"
      <3>1. ram_EP' = "done" /\ ram' = [ram EXCEPT ![ADR_O] = mem.data]
        BY <2>5 DEF Next, Slaves, RamTransition, Bram, IInv, RamServes
      <3>2. ram'[ADR_O] = mem.data
        BY <1>3, <3>1 DEF IInv, TypeOK
      <3>. QED BY <1>1, <2>1, <2>5, <3>1, <3>2 DEF RamServes, IInv, trans_d
    <2>. QED BY <2>1, <2>3, <2>4, <2>5 DEF IInv, TypeOK, ACK_I
  <1>. QED BY <1>2, <1>3, Selected DEF IInv, Mapped

\* So it does the LED registers, which acknowledge a cycle later.
LEMMA LedStep ==
    ASSUME Patient, IInv, Next, EP # "idle", ~ACK_I
    PROVE  LedServes'
  <1>1. /\ EP' = EP /\ ADR_O' = ADR_O
        /\ trans_d => mem'.op = mem.op /\ mem'.data = mem.data
    BY Held DEF IInv
  <1>2. CASE ADR_O \in Ram
    <2>1. led_EP = "idle" /\ ~stb_led
      BY <1>2, Selected DEF IInv, LedServes, stb_led
    <2>2. led_EP' = "idle"
      BY <2>1 DEF Next, Slaves, LedTransition
    <2>. QED BY <1>1, <2>2 DEF LedServes
  <1>3. CASE ADR_O \in Leds
    <2>1. select_led /\ stb_led /\ ADR_O \notin Ram
      BY <1>3, Selected, MapAssumption DEF IInv, stb_led, STB_O, Ram, Leds
    <2>2. led_EP = "idle"
      BY <2>1 DEF ACK_I, IInv, TypeOK
    <2>3. led_adr_reg' = ADR_O /\ led_data_reg' = DAT_O
      BY DEF Next, Slaves, LedRegisters
    <2>4. led_EP' = IF EP = "dwrite" THEN "w" ELSE "r"
      BY <2>1, <2>2 DEF Next, Slaves, LedTransition, WE_O
    <2>5. EP = "dwrite" => DAT_O = mem.data
      BY DEF DAT_O, trans_d
    <2>. QED BY <1>1, <2>1, <2>3, <2>4, <2>5 DEF LedServes, IInv, TypeOK, trans_d
  <1>. QED BY <1>2, <1>3, Selected DEF IInv, Mapped

-----------------------------------------------------------------------------
(* The words *)

\* A cycle writes at most the word that MEM's store addresses.
LEMMA WordStep ==
    ASSUME IInv, Next, NEW a \in Mapped
    PROVE  /\ a # mem.adr \/ ~dcache_store => Word(a)' = Word(a)
           /\ dcache_store => Word(a)' \in {Word(a), mem.data}
           /\ dcache_store /\ a = mem.adr /\ AccessEnds => Word(a)' = mem.data
  <1>1. (a \in Ram /\ a \notin Leds) \/ (a \in Leds /\ a \notin Ram)
    BY MapAssumption DEF Mapped, Ram, Leds
  <1>2. trans_d => ADR_O = mem.adr
    BY DEF ADR_O, trans_d, trans_i
  <1>3. ram_EP = "w" => /\ dcache_store /\ ~AccessEnds
                        /\ ram' = [ram EXCEPT ![mem.adr] = mem.data]
    <2>. SUFFICES ASSUME ram_EP = "w"
                  PROVE  /\ dcache_store /\ ~AccessEnds
                         /\ ram' = [ram EXCEPT ![mem.adr] = mem.data]
      OBVIOUS
    <2>1. EP = "dwrite" /\ ram_adr_reg = mem.adr /\ ram_data_reg = mem.data
      BY <1>2 DEF IInv, RamServes, trans_d
    <2>2. ram' = [ram EXCEPT ![mem.adr] = mem.data]
      BY <2>1 DEF Next, Slaves, Bram
    <2>3. ~ACK_I
      <3>1. ADR_O \notin Leds
        BY <2>1 DEF IInv, RamServes
      <3>. QED BY <3>1, Selected DEF IInv, ACK_I
    <2>. QED BY <2>1, <2>2, <2>3 DEF IInv, Requested, dcache_store, AccessEnds
  <1>4. ram_EP # "w" => ram' = ram
    BY DEF Next, Slaves, Bram
  <1>5. led_EP = "w" => /\ dcache_store
                        /\ mem.adr \in Leds
                        /\ slv_reg' = [slv_reg EXCEPT ![mem.adr] = mem.data]
    <2>. SUFFICES ASSUME led_EP = "w"
                  PROVE  /\ dcache_store
                         /\ mem.adr \in Leds
                         /\ slv_reg' = [slv_reg EXCEPT ![mem.adr] = mem.data]
      OBVIOUS
    <2>1. EP = "dwrite" /\ led_adr_reg = mem.adr /\ led_data_reg = mem.data
      BY <1>2 DEF IInv, LedServes, trans_d
    <2>2. ADR_O = mem.adr /\ mem.adr \in Leds
      BY <1>2, <2>1, Selected DEF IInv, LedServes, Mapped, trans_d
    <2>. QED BY <2>1, <2>2 DEF Next, Slaves, write_reg, IInv, Requested, dcache_store
  <1>6. led_EP # "w" => slv_reg' = slv_reg
    BY DEF Next, Slaves, write_reg
  <1>7. ASSUME dcache_store, a = mem.adr, AccessEnds
        PROVE  Word(a)' = mem.data
    <2>1. EP = "dwrite" /\ ACK_I /\ ADR_O = a
      BY <1>2, <1>7 DEF AccessEnds, IInv, Requested, trans_d, dcache_store
    <2>2. CASE select_ram /\ ram_EP = "done"
      <3>1. a \in Ram /\ ram[a] = mem.data /\ ram' = ram
        BY <2>1, <2>2, Selected, <1>4 DEF IInv, RamServes
      <3>. QED BY <3>1 DEF Word
    <2>3. CASE select_led /\ led_EP \in {"r", "w"}
      <3>1. a \in Leds /\ led_EP = "w"
        BY <2>1, <2>3, Selected DEF IInv, LedServes
      <3>2. slv_reg'[a] = mem.data
        BY <1>5, <1>7, <3>1 DEF IInv, TypeOK
      <3>. QED BY <1>1, <3>1, <3>2 DEF Word
    <2>. QED BY <2>1, <2>2, <2>3 DEF ACK_I
  <1>8. /\ a \in Ram => /\ ram'[a] \in {ram[a], mem.data}
                        /\ a # mem.adr \/ ~dcache_store => ram'[a] = ram[a]
        /\ a \in Leds => /\ slv_reg'[a] \in {slv_reg[a], mem.data}
                         /\ a # mem.adr \/ ~dcache_store => slv_reg'[a] = slv_reg[a]
    BY <1>3, <1>4, <1>5, <1>6 DEF IInv, TypeOK
  <1>9. /\ a # mem.adr \/ ~dcache_store => Word(a)' = Word(a)
        /\ Word(a)' \in {Word(a), mem.data}
    BY <1>1, <1>8 DEF Word
  <1>. QED BY <1>7, <1>9

\* When a store's transfer has ended its word is what the program has stored.
LEMMA Landed ==
    ASSUME IInv, Next, NEW a \in Mapped
    PROVE  Word(a)' = arch[a] \/ (dcache_store /\ mem.adr = a /\ ~Transferred)
  <1>1. CASE a # mem.adr \/ ~dcache_store
    BY <1>1, WordStep DEF IInv, SlavesAgree
  <1>2. CASE a = mem.adr /\ dcache_store
    <2>1. arch[a] = mem.data
      BY <1>2 DEF IInv, StoreShown, dcache_store
    <2>2. CASE mem.transferred
      BY <1>2, <2>1, <2>2, WordStep DEF IInv, SlavesAgree
    <2>3. CASE AccessEnds
      BY <1>2, <2>1, <2>3, WordStep
    <2>. QED BY <1>2, <2>2, <2>3 DEF Transferred
  <1>. QED BY <1>1, <1>2

\* MEM may take the next instruction only when the store before has landed.
LEMMA AgreeStep ==
    ASSUME Patient, IInv, Next
    PROVE  SlavesAgree' /\ StoreShown'
  <1>1. CASE MemStays
    <2>1. /\ arch' = arch /\ mem'.op = mem.op /\ mem'.adr = mem.adr
          /\ mem'.data = mem.data /\ mem'.transferred = Transferred
      BY <1>1 DEF MemStays, IInv, TypeOK, Access
    <2>. QED BY <2>1, Landed DEF SlavesAgree, StoreShown, IInv, dcache_store
  <1>2. CASE MemMoves
    <2>1. \A a \in Mapped : Word(a)' = arch[a]
      BY <1>2, Landed DEF MemMoves, MayReplace
    <2>2. PICK op \in {"load", "store", "alu", "mul"}, b \in Mapped, d \in Data :
             /\ mem' = [op |-> op, adr |-> b, data |-> d,
                        waits |-> TRUE, transferred |-> FALSE]
             /\ arch' = IF op = "store" THEN [arch EXCEPT ![b] = d] ELSE arch
      BY <1>2 DEF MemMoves
    <2>3. /\ mem'.op = op /\ mem'.adr = b /\ mem'.data = d
          /\ mem'.transferred = FALSE
      BY <2>2
    <2>4. \A a \in Mapped : arch'[a] = IF op = "store" /\ a = b THEN d ELSE arch[a]
      BY <2>2 DEF IInv, TypeOK
    <2>5. StoreShown'
      BY <2>3, <2>4 DEF StoreShown
    <2>6. SlavesAgree'
      BY <2>1, <2>3, <2>4 DEF SlavesAgree, dcache_store
    <2>. QED BY <2>5, <2>6
  <1>. QED BY <1>1, <1>2 DEF Next

-----------------------------------------------------------------------------
(* The theorems *)

\* After reset no transfer is under way and the RAM's words are the program's.
LEMMA InitInv == Init => IInv
  <1>. SUFFICES ASSUME Init PROVE IInv
    OBVIOUS
  <1>1. SlavesAgree
    BY MapAssumption DEF Init, SlavesAgree, Word, Mapped, Ram, Leds
  <1>. QED BY <1>1, InitType
           DEF Init, IInv, Requested, RamServes, LedServes, StoreShown

\* Every clock cycle keeps the invariant.
LEMMA NextInv == ASSUME Patient PROVE IInv /\ [Next]_vars => IInv'
  <1>. SUFFICES ASSUME IInv, [Next]_vars PROVE IInv'
    OBVIOUS
  <1>1. TypeOK'
    BY NextType DEF IInv
  <1>2. CASE Next
    <2>1. CASE EP = "idle"
      BY <1>1, <1>2, <2>1, Starts, AgreeStep
         DEF IInv, RamServes, LedServes
    <2>2. CASE EP # "idle" /\ ACK_I
      BY <1>1, <1>2, <2>2, Ends, AgreeStep
         DEF IInv, Requested, RamServes, LedServes
    <2>3. CASE EP # "idle" /\ ~ACK_I
      <3>1. Requested'
        BY <1>2, <2>3, Held DEF IInv, Requested, trans_d
      <3>. QED BY <1>1, <1>2, <2>3, <3>1, RamStep, LedStep, AgreeStep DEF IInv
    <2>. QED BY <2>1, <2>2, <2>3
  <1>3. CASE UNCHANGED vars
    BY <1>3
       DEF vars, cpu_vars, ram_vars, led_vars, core_vars, IInv, TypeOK, Requested,
           RamServes, LedServes, StoreShown, SlavesAgree, Word, ADR_O, trans_d,
           trans_i, dcache_store
  <1>. QED BY <1>2, <1>3

\* What the invariant says of the cycle in which somebody takes the bus's data.
LEMMA TakesOwn ==
    ASSUME IInv
    PROVE  /\ Fetched /\ (EP = "dread" => ACK_I) => DAT_I = Word(fetch.adr)
           /\ Popped /\ dcache_load => DAT_I = arch[mem.adr]
  <1>1. ASSUME EP \in {"iread", "dread"}, ACK_I
        PROVE  DAT_I = Word(ADR_O)
    <2>1. CASE select_ram /\ ram_EP = "done"
      BY <1>1, <2>1, Selected DEF IInv, RamServes, DAT_I, Word
    <2>2. CASE select_led /\ led_EP \in {"r", "w"}
      <3>1. ADR_O \in Leds /\ ~select_ram /\ led_adr_reg = ADR_O
        BY <1>1, <2>2, Selected DEF IInv, LedServes
      <3>2. ADR_O \notin Ram
        BY <3>1, MapAssumption DEF Ram, Leds
      <3>. QED BY <2>2, <3>1, <3>2 DEF DAT_I, Word, led_DAT_O
    <2>. QED BY <1>1, <2>1, <2>2 DEF ACK_I
  <1>2. ASSUME Fetched, EP = "dread" => ACK_I
        PROVE  DAT_I = Word(fetch.adr)
    <2>1. EP = "iread" /\ ACK_I
      BY <1>2 DEF Fetched, icache_stall, no_data, trans_i, trans_d, IInv, TypeOK
    <2>. QED BY <1>1, <2>1 DEF ADR_O, trans_d, trans_i
  <1>3. ASSUME Popped, dcache_load
        PROVE  DAT_I = arch[mem.adr]
    <2>1. EP = "dread" /\ ACK_I
      BY <1>3 DEF Popped, dcache_stall, dcache_adr_v, dcache_load, no_data, trans_i,
                  trans_d, IInv, TypeOK, Requested
    <2>2. Word(mem.adr) = arch[mem.adr]
      BY <1>3 DEF IInv, SlavesAgree, TypeOK, Access, dcache_load, dcache_store
    <2>. QED BY <1>1, <2>1, <2>2 DEF ADR_O, trans_d, trans_i
  <1>. QED BY <1>2, <1>3

\* Every store reaches its own word, and no other word ever changes.
THEOREM SlavesAlwaysAgree == ASSUME Patient PROVE Spec => []SlavesAgree
  <1>1. IInv => SlavesAgree
    BY DEF IInv
  <1>. QED BY InitInv, NextInv, <1>1, PTL DEF Spec

\* Every answer is the answer to the taker's own request.
THEOREM AlwaysOwnData == ASSUME Patient PROVE Spec => OwnData
  <1>1. IInv => /\ Fetched /\ (EP = "dread" => ACK_I) => DAT_I = Word(fetch.adr)
                /\ Popped /\ dcache_load => DAT_I = arch[mem.adr]
    BY TakesOwn
  <1>. QED BY InitInv, NextInv, <1>1, PTL DEF Spec, OwnData

=============================================================================
