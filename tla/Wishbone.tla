------------------------------ MODULE Wishbone ------------------------------
(***************************************************************************)
(* The FPGA system of IMPL/hw: wb_cpu, which puts the core's two memory    *)
(* ports on one Wishbone bus, and the bus's slaves wb_ram and wb_led, as   *)
(* top.vhd connects them.  One step is one clock cycle.                    *)
(*                                                                         *)
(* The core itself (CORE_VHDL) is not among the repository's files.  What  *)
(* is assumed of it is in Fetching and Mem: fifos as in SIM/SystemC/CORE,  *)
(* and, when Patient, that it keeps showing an access from the cycle that  *)
(* starts the transfer to the acknowledge, for wb_cpu stores neither       *)
(* address nor data.  Accesses are whole words, as IMPL/sw makes them.     *)
(***************************************************************************)
EXTENDS Naturals

CONSTANTS RamMax,   \* the last word of the RAM
          LedBase,  \* led_base_adr, the first of the LED registers
          LedEnd,   \* led_end_adr, the last
          Data,     \* words
          Patient   \* whether the core holds an access during its transfer

ASSUME MapAssumption == /\ RamMax \in Nat /\ LedBase \in Nat /\ LedEnd \in Nat
                        /\ RamMax < LedBase /\ LedBase =< LedEnd
ASSUME DataAssumption == 0 \in Data
ASSUME PatientAssumption == Patient \in BOOLEAN

Ram == 0 .. RamMax
Leds == LedBase .. LedEnd
Mapped == Ram \cup Leds
Bus == 0 .. LedEnd

VARIABLES EP,           \* wb_cpu's state
          trans_d_reg,  \* the cycle before belonged to a data transfer
          ram_EP, ram_adr_reg, ram_data_reg, ram_do, ram,
          led_EP, led_adr_reg, led_data_reg, slv_reg,
          fetch,        \* the core's fetch port: valid, address
          mem,          \* the instruction MEM shows; in exe2mem while waits
          arch          \* history: the words as the program has written them

cpu_vars == <<EP, trans_d_reg>>
ram_vars == <<ram_EP, ram_adr_reg, ram_data_reg, ram_do, ram>>
led_vars == <<led_EP, led_adr_reg, led_data_reg, slv_reg>>
core_vars == <<fetch, mem, arch>>
vars == <<cpu_vars, ram_vars, led_vars, core_vars>>

\* transferred is history: an acknowledge has come since the access was shown.
Access == [op : {"load", "store", "alu", "mul"}, adr : Mapped, data : Data,
           waits : BOOLEAN, transferred : BOOLEAN]

TypeOK == /\ EP \in {"idle", "iread", "dread", "dwrite"}
          /\ trans_d_reg \in BOOLEAN
          /\ ram_EP \in {"idle", "r", "w", "done"}
          /\ ram_adr_reg \in Ram /\ ram_data_reg \in Data /\ ram_do \in Data
          /\ ram \in [Ram -> Data]
          /\ led_EP \in {"idle", "r", "w"}
          /\ led_adr_reg \in Bus /\ led_data_reg \in Data
          /\ slv_reg \in [Leds -> Data]
          /\ fetch \in [valid : BOOLEAN, adr : Ram]
          /\ mem \in Access
          /\ arch \in [Mapped -> Data]

(***************************************************************************)
(* The core's ports                                                        *)
(***************************************************************************)
icache_adr_v == fetch.valid
dcache_adr_v == mem.waits \/ mem.op # "mul"
dcache_load == mem.op = "load"
dcache_store == mem.op = "store"

(***************************************************************************)
(* wb_cpu's outputs and top.vhd's decoder                                  *)
(***************************************************************************)
trans_d == EP \in {"dread", "dwrite"}
trans_i == EP = "iread"
no_data == EP \in {"idle", "dwrite"}
STB_O == EP # "idle"
WE_O == EP = "dwrite"
DAT_O == IF trans_d THEN mem.data ELSE 0
ADR_O == CASE trans_d -> mem.adr
           [] trans_i -> fetch.adr
           [] OTHER -> 0

select_ram == ADR_O < LedBase
select_led == ADR_O \in LedBase .. LedEnd

led_DAT_O == IF led_adr_reg \in Leds THEN slv_reg[led_adr_reg] ELSE 0
DAT_I == CASE select_ram -> ram_do
           [] select_led -> led_DAT_O
           [] OTHER -> 0
ACK_I == \/ select_ram /\ ram_EP = "done"
         \/ select_led /\ led_EP \in {"r", "w"}

dcache_stall == \/ ~ACK_I /\ trans_d
                \/ ACK_I /\ trans_i /\ dcache_adr_v
                \/ (trans_i \/ no_data) /\ dcache_adr_v /\ dcache_load
Faulty_icache_stall == (~ACK_I /\ trans_i) \/ no_data
icache_stall == (~ACK_I /\ trans_i) \/ (ACK_I /\ trans_d) \/ no_data

(***************************************************************************)
(* The states wb_cpu goes to                                               *)
(***************************************************************************)
Faulty_DataFirst == dcache_adr_v /\ (dcache_store \/ dcache_load)
DataFirst == dcache_adr_v /\ (dcache_store \/ dcache_load) /\ ~trans_d_reg
EF == CASE EP = "idle" /\ DataFirst -> IF dcache_store THEN "dwrite" ELSE "dread"
        [] EP = "idle" /\ ~DataFirst /\ icache_adr_v -> "iread"
        [] EP # "idle" /\ ~ACK_I -> EP
        [] OTHER -> "idle"

Cpu == EP' = EF /\ trans_d_reg' = trans_d

(***************************************************************************)
(* wb_ram: a request is sampled in idle, the block RAM works in r or w     *)
(***************************************************************************)
stb_ram == select_ram /\ STB_O
Faulty_adr_adapt == ADR_O
adr_adapt == IF ADR_O > RamMax THEN RamMax ELSE ADR_O

RamTransition ==
    ram_EP' = CASE ram_EP = "idle" /\ stb_ram -> IF WE_O THEN "w" ELSE "r"
                [] ram_EP \in {"r", "w"} -> "done"
                [] OTHER -> "idle"

RamRegisters == ram_adr_reg' = adr_adapt /\ ram_data_reg' = DAT_O

Bram == /\ ram' = IF ram_EP = "w" THEN [ram EXCEPT ![ram_adr_reg] = ram_data_reg]
                                  ELSE ram
        /\ ram_do' = IF ram_EP = "r" THEN ram[ram_adr_reg] ELSE ram_do

(***************************************************************************)
(* wb_led: acknowledges in the cycle that reads or writes                  *)
(***************************************************************************)
stb_led == select_led /\ STB_O

LedTransition == led_EP' = IF led_EP = "idle" /\ stb_led
                           THEN IF WE_O THEN "w" ELSE "r"
                           ELSE "idle"
LedRegisters == led_adr_reg' = ADR_O /\ led_data_reg' = DAT_O
Faulty_write_reg == slv_reg' = IF led_EP # "idle" /\ led_adr_reg \in Leds
                               THEN [slv_reg EXCEPT ![led_adr_reg] = led_data_reg]
                               ELSE slv_reg
write_reg == slv_reg' = IF led_EP = "w" /\ led_adr_reg \in Leds
                        THEN [slv_reg EXCEPT ![led_adr_reg] = led_data_reg]
                        ELSE slv_reg

Slaves == /\ RamTransition /\ RamRegisters /\ Bram
          /\ LedTransition /\ LedRegisters /\ write_reg

(***************************************************************************)
(* The core                                                                *)
(***************************************************************************)
Fetched == fetch.valid /\ ~icache_stall

\* IFETCH has no room, or nothing to fetch, or the bus has not answered.
FetchStays == fetch' = fetch

\* The instruction is taken, or a jump replaces its address.
FetchMoves == /\ Fetched \/ ~trans_i \/ ACK_I
              /\ \/ \E a \in Ram : fetch' = [valid |-> TRUE, adr |-> a]
                 \/ fetch' = [fetch EXCEPT !.valid = FALSE]

Popped == mem.waits /\ ~dcache_stall
AccessEnds == trans_d /\ ACK_I
Transferred == mem.transferred \/ AccessEnds

\* MEM keeps what it shows after handing it on.
MemStays ==
    /\ mem' = [mem EXCEPT !.waits = @ /\ ~Popped, !.transferred = Transferred]
    /\ UNCHANGED arch

MayReplace == Patient => /\ EF \notin {"dread", "dwrite"}
                         /\ dcache_store => Transferred

\* EXE hands over the next instruction.
MemMoves ==
    /\ Popped \/ ~mem.waits
    /\ MayReplace
    /\ \E op \in {"load", "store", "alu", "mul"}, a \in Mapped, d \in Data :
          /\ op # "store" => d = 0
          /\ mem' = [op |-> op, adr |-> a, data |-> d,
                     waits |-> TRUE, transferred |-> FALSE]
          /\ arch' = IF op = "store" THEN [arch EXCEPT ![a] = d] ELSE arch

Init == /\ EP = "idle" /\ trans_d_reg = FALSE
        /\ ram_EP = "idle" /\ ram_adr_reg = 0 /\ ram_data_reg = 0
        /\ ram \in [Ram -> Data] /\ ram_do = 0
        /\ led_EP = "idle" /\ led_adr_reg = 0 /\ led_data_reg = 0
        /\ slv_reg = [a \in Leds |-> 0]
        /\ fetch = [valid |-> FALSE, adr |-> 0]
        /\ mem = [op |-> "alu", adr |-> 0, data |-> 0,
                  waits |-> FALSE, transferred |-> FALSE]
        /\ arch = [a \in Mapped |-> IF a \in Ram THEN ram[a] ELSE 0]

Next == /\ Cpu
        /\ Slaves
        /\ FetchStays \/ FetchMoves
        /\ MemStays \/ MemMoves

\* The clock keeps ticking.
Fairness == WF_vars(Next)

Spec == Init /\ [][Next]_vars /\ Fairness

(***************************************************************************)
(* Properties                                                              *)
(***************************************************************************)
Word(a) == IF a \in Ram THEN ram[a] ELSE slv_reg[a]

\* An instruction that is fetched is the word at the address being fetched, and
\* a load gets what the program last stored at its address, although both share
\* one data bus and one acknowledge: wb_cpu tells them apart by its stalls.
\* Left out are the cycles in which a load waits for its acknowledge, in which
\* icache_stall is low.
OwnData == [][/\ Fetched /\ (EP = "dread" => ACK_I) => DAT_I = Word(fetch.adr)
              /\ Popped /\ dcache_load => DAT_I = arch[mem.adr]]_vars

\* OwnData without the exception, which does not hold: README, section 5.
EachFetchOwnData == [][Fetched => DAT_I = Word(fetch.adr)]_vars

\* Outside the store under way every word of every slave is what the program
\* has written there: no store is lost between MEM, which does not wait for it,
\* and the slave, and the store that MEM still shows, which wb_cpu writes again
\* and again, disturbs nothing else.
SlavesAgree == \A a \in Mapped : \/ Word(a) = arch[a]
                                 \/ dcache_store /\ mem.adr = a /\ ~mem.transferred

\* Both ports are served: MEM's stale access does not keep the bus from
\* fetching, and fetching does not keep it from MEM.
FetchWaits == fetch.valid
DataWaits == (dcache_load /\ mem.waits) \/ (dcache_store /\ ~mem.transferred)
BothServed == /\ FetchWaits ~> (~FetchWaits \/ (trans_i /\ ACK_I))
              /\ DataWaits ~> AccessEnds
=============================================================================
