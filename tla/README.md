# The RiVer core in TLA+

TLA+ specifications of the RV32IM core of this repository
(`SIM/SystemC/CORE`) and of the FPGA system around it (`IMPL/hw`), checked with
TLC on small instances, and proofs of some of their properties for every value of
the constants. Line numbers are those of the files under `SIM/SystemC/CORE` unless a
path says otherwise.

Contents: [the system](#1-the-system), [what is assumed of the
simulation](#2-from-systemc-to-steps), [the modules](#3-the-modules),
[the runs](#4-the-runs), [what the code does otherwise than it
says](#5-where-the-code-disagrees), [the proofs](#6-the-proofs),
[what is not modelled](#7-what-is-not-modelled), [the plan](#8-plan).

## 1. The system

The core is a five-stage pipeline written in SystemC. Stages hand their results
through one-place fifos (`UTIL/fifo.h`):

    REG[32]=PC --> DEC ==dec2if==> IFETCH ==if2dec==> DEC ==dec2exe==> EXE ==exe2mem==> MEM ==mem2wbk==> WBK --> REG
                                                        \=dec2exe= X0 ==x02x1==> X1 ==x12x2==> X2 -/

| part | state it keeps | operations | talks to |
|---|---|---|---|
| fifo | `fifo_v`, the data register | push, pop, both at once | two stages |
| IFETCH | (flags) | pop an address, push an instruction, push a nop on an exception | dec2if, if2dec, instruction cache |
| DEC | the outputs of its incomplete branches | decode, read registers, bypass, decide jumps, compute the next PC, stall | every stage |
| REG | 32 registers and the PC | write-back, PC write | DEC, WBK |
| EXE | (flags) | bypass, adder, logic, shifter, divider, alignment check | dec2exe, exe2mem, MEM and WBK for bypasses |
| divider | one quotient bit per cycle: remainder, divisor, quotient, counter | start, shift, done | EXE |
| multiplier | x02x1, x12x2 | partial products, carry-save tree, last sum | dec2exe, WBK |
| MEM | `CURRENT_MODE_SM`, trap signals, CSR port | data access, exceptions, interrupts, `mret`, CSR write | data cache, CSR, all stages |
| CSR | mstatus, mie, mip, mcause, ... timer registers | CSR write, trap, timer pending | MEM, TIMER |
| TIMER | counter, configuration, request | count, ask, start over | CSR |
| WBK | (none) | pop, write back, take a product | REG, X2 |
| instruction cache | lines, tags, valid bits, burst counter | hit, miss, fill of four words | IFETCH, the bench's memory |
| write buffer of the data cache | two slots, their order | take, refuse, show | data cache, memory |
| data cache, branch predictor | lines, tags, LRU | compiled in by `config.h` options that are off | MEM, DEC |
| FPGA system (`IMPL/hw`) | wb_cpu's automaton, wb_ram, wb_led and their registers | fetch, load, store over one Wishbone bus | the VHDL core's two memory ports |

What is hard, and what makes each part correct:

* **Flow control.** Each stage decides from the fifo before it, the fifo behind
  it and reasons of its own; a fifo is full or not depending on whether the next
  stage pops in the same cycle. No instruction may be lost, doubled, overtaken,
  or wait for ever.
* **The fetch loop.** DEC and IFETCH feed each other. Jumps flush two fifos
  that are being pushed and popped in that cycle; JAL and JALR take the
  instruction's address from a register that is only by convention one word ahead.
  Instructions must reach EXE in program order.
* **Operands.** A register may have its newest value in the register file or
  in one of three fifos, may be a load that has not been answered, a product
  that exists on another path, a CSR's old value, or a quotient under way. Four
  bypasses, two in DEC and two in EXE, and three ways of stalling must always
  select the one program order asks for.
* **The multiplier beside the pipeline.** A product and its instruction meet
  again by timing alone.
* **Traps.** MEM decides while younger instructions are in DEC and EXE and
  older ones in WBK. `csr_exception` runs more than once in a cycle and reads
  what it has written. The timer holds its request until an acknowledge arrives a
  cycle later.
* **Decoding.** Immediates are put together bit by bit, flags by forty comparisons,
  and some of DEC's outputs are assigned in some branches only and keep what an older
  instruction left.
* **Caches.** The instruction cache fills a line at the pace of a memory that
  holds its acknowledge for the whole burst. The write buffer is filled and emptied from
  different clock edges.
* **The bus.** Two ports that do not wait for each other share a bus whose master
  stores neither address nor data.
* **Arithmetic.** Signs in division and multiplication, comparison by
  subtraction, bytes within words.

`PROJECT.json` lists each hazard at its line with the properties that would
notice it going wrong.

## 2. From SystemC to steps

One step of every module is one clock cycle (in `LoadStore` one memory access, in
`Decode` one instruction, in `ICache` and `WriteBuffer` half a cycle: they work on both
edges).
Within a cycle SystemC runs its `SC_METHOD`s until their signals no longer
change; the modules' operators are those settled values, and primed variables are
what the rising edge stores. Three consequences:

* Where a signal's settled value depends on itself through several methods (the
  pop signals of the pipeline, `DONE_SE` and `START_SE` of the divider,
  `csr_exception` and `CURRENT_MODE_SM`) the model says so: `Settled` in
  `ElasticPipe` is the equation the signals satisfy, `Done` in `Divider` is the run
  `mae_output` makes before `DONE_SE` takes `START_SE` back, `MppWdata` in `Traps`
  is the second run of `csr_exception`.
* A signal an incomplete `if` leaves unassigned keeps its value or, where nothing
  in the model depends on which, may have any (`rdata_sd` without a valid bit,
  `sign_extend` of a store, `junk` on a bypass of an instruction that has no result yet).
* Otherwise a method is taken to run when one of the signals it reads changes. Two
  sensitivity lists are incomplete where that matters. `Diviseur::RET` does not
  run when only the signs change (`EXE/Diviseur.h:66-67`): `DIVIDER_RES_OUTPUT` in
  `Divider` is a variable, written by `RET` only when a signal of the list has changed.
  `exec::select_exec_res` does not run when only the access size changes
  (`EXE/exec.h:213-215`): `Unchecked` in `LoadStore` is the misaligned access that the
  verdict on an earlier one lets through. That list lacks the operands too, but every
  change of theirs shows on `alu_out_se`: when both change, the adder first takes the
  new rs1 with the old rs2.

`IFETCH` as committed does not compile with the rest (`sc_unint`,
`INST_SIC` in a sensitivity list, an undeclared `pb_taken`); the model follows
the evident intent and the branch predictor is off, as `UTIL/config.h` has it.
`BRANCH_PREDICTION`, `RET_BRANCH_PREDICTION`, `ICACHE_ON` and `DCACHE_ON` are all
commented out there.

Definitions named `Faulty_...` take no part in the specifications. Each is
a plausible mistake in the definition it is named after (a dropped condition, a
missing reset); put in that definition's place it makes the property listed with it
in `PROJECT.json` fail, which shows that the property can.

## 3. The modules

| module | models | state |
|---|---|---|
| `Fifo` | `UTIL/fifo.h`, and the edge of the mini core's fifo | operators on records `[v, d]` |
| `Address` | word addresses that wrap | - |
| `Program` | **abstract**: a hart that executes one instruction after another | `npc`, `issued` |
| `FetchLoop` | `decod::pc_inc`, `stall_method`, `ifetch::fetch_method`, the PC in REG | `pc_reg`, `dec2if`, `if2dec`, `issued` |
| `ElasticPipe` | the stages' `manage_fifo`, `fifo_gestion`, `wbk_method` as a chain of N fifos | `fifo`, `sent`, `got` |
| `MulPipe` | `ElasticPipe` with x02x1 and x12x2 beside it | + `x02x1`, `x12x2` |
| `Operands` | `decod::bypasses`, `stall_method`, `exec::bypasses`, `manage_fifo`, REG's write-back | `regs`, three fifos, `divider`; `arch`, `right1`, `right2` |
| `Divider` | `EXE/Diviseur.cpp` with `exec::manage_divider` | its registers and signs, `DIVIDER_RES_OUTPUT`, `req`, `valid`, `full` |
| `Traps` | `mem::csr_exception`, `csr::writing_csr`, `timer::thread`, what DEC and EXE drop | two fifos, `mode`, CSRs, timer; `owed` |
| `Bits` | words as sets of the positions of their ones | - |
| `Alu` | EXE commands, `alu`, `shifter`, `select_exec_res`, branch conditions | - |
| `Multiplier` | the arithmetic of X0, X1, X2 | - |
| `ByteMemory` | **abstract**: loads and stores on a memory of bytes | `bytes`, `reg` |
| `LoadStore` | the alignment check, `mem_preprocess`, `sign_extend`, the test bench's memory | `ram`, `x` |
| `Datapath` | `Alu`, `Multiplier` and `LoadStore` on one register | as `LoadStore` |
| `MiniCore` | `sysc_miniriscv/version1`: `dec.cpp` (decoding, commands, branch conditions), `exec.cpp`, `alu.cpp`, `shifter.cpp` | - |
| `Isa` | **reference**: the words of RV32IM and Zicsr, from the formats of the instruction set | - |
| `Decode` | `decod::decoding_instruction_type` to `post_reg_read_decoding`: word to signals | `inst`, `held` |
| `ICache` | `CACHES/icache.cpp` and the bench's burst automaton (`core_tb.cpp`) | thread, lines, bench |
| `AccessQueue` | **abstract**: a queue that may refuse | `q`, `port` |
| `WriteBuffer` | `CACHES/buffercache.cpp` | two slots, `buffer_LRU`, flags, port |
| `Wishbone` | `IMPL/hw`: `wb_cpu.vhd`, `wb_ram.vhd`, `wb_led.vhd`, decoder of `top.vhd` | three automata, their registers, `ram`, `slv_reg`; `arch` |
| `MCTraps`, `MCOperands` | what CSR instructions write, and which mixes of instructions run | - |
| `FetchLoopProofs`, `PipeProofs`, `OperandsProofs`, `TrapsProofs`, `ICacheProofs`, `WriteBufferProofs`, `WishboneProofs`, `WordProofs` | theorems | - |

How they fit together. `Fifo` is used by every pipeline module. `FetchLoop`
is the front end up to dec2exe, with the back end reduced to "dec2exe is
full", "an operand is missing" and "an exception arrives".
`ElasticPipe`, `MulPipe`, `Operands` and `Traps` are four views of the back end
from dec2exe on: the first two keep nothing but who is where, `Operands` adds the
values, `Traps` the privileged state. `Divider` is what `Operands` abstracts to one bit.

**FetchLoop.** A `Cycle` has the cache's stall, an operand hazard, dec2exe
full, and what the decoded instruction does as inputs; its guards are those of
`stall_method` and `pc_inc`. `Exception` is the branch of `pc_inc` for
`EXCEPTION_SM`, with the nop IFETCH pushes. `NextPc`, the address of the next
instruction to execute, is read off the state: the instruction in if2dec, else
the address in dec2if, else the successor of register 32. With it `FetchLoop`
implements `Program`. Register 32 starts at any address because the fifos leave
reset a cycle after REG does.

**ElasticPipe, MulPipe.** Instructions are numbered. `MulPipe` adds that
X0 multiplies whatever dec2exe shows in *every* cycle, that a product is right
only if made in the cycle EXE hands its instruction on, and that MEM does not wait
for the data cache for a multiplication.

**Operands.** Values are one bit each, enough to tell right from wrong for a value
chosen freely at decoding. `arch` is the register file in program order, written
when an instruction is decoded; `want1` and `want2` remember what the
instruction has to read. `right1`, `right2` become false for ever when EXE or DEC
computes with another value. A behaviour has one of the `Mixes`: the kinds of instruction that
occur, whether the cache stalls, and which of the two operands is watched. An exception drops DEC and EXE, and sets `arch` back to
what the surviving instructions leave. Loads, products and quotients arrive with their
result; what a bypass shows of them earlier is `junk`.

**Divider.** The registers of `Diviseur.cpp`, for words of `Width` bits. Operands come
from the bypasses: right while the previous instruction is in MEM or the division has
not finished, after that any (`Shown`). EXE receives the next instruction when it
pops; an exception takes the division away without telling the divider. `Output` is `RET` under its
sensitivity list; `CMD_RD` has bits of other instructions as well, so `NoDivision` leaves the command open.

**Traps.** Kinds of instruction rather than encodings. `mip` and `mie` are bit 7,
the timer's, the only source the core connects. `owed` counts expiries without an
interrupt, up to two. "ecall" stands for all exceptions; its cause depends on the mode DEC saw.

**Isa, Decode.** `Isa` builds the words of every instruction from the formats, with the registers of `Regs` and the
immediates that can be cut out of `Patterns`, and words of no instruction (`Reserved`), the ones DEC takes for illegal: every opcode the core has
not, and the functions fence, stores, branches, system words and R-type's funct7 have not, with `Patterns` in the bits that remain. `Decode` takes them apart as the code
does. `inst` is the instruction in if2dec; `held` are the outputs of incomplete branches; each step decodes any
instruction after any other value of theirs.

**MiniCore** has two halves: `Decode` compares the decoder with `Isa` next to the core's, `Datapath` the
commands, EXE and the branch conditions with the meaning of instructions, in register and immediate form.

**ICache.** The thread of the cache wakes up at falling edges, and at rising edges
when data or acknowledge change; the bench's loop runs between edges. The core may
change its address at every rising edge. `Blank` is the content of a word nobody has written.

**WriteBuffer.** The method runs at rising edges and when the cache raises
`WRITE_OBUFF`. The refinement maps the two slots, in the order `buffer_LRU` gives them, to
`AccessQueue`'s queue and the memory port to its `port`.

**Wishbone.** The arbiter, both slaves and the decoder are translated signal by signal. The core
(`CORE_VHDL`, not in this repository) is external: `README.md:105` of the repository calls it "same implementation",
so its ports behave as the fifos of `SIM/SystemC/CORE` do: MEM hands on
what is not stalled and goes on showing it. `Patient` is the assumption on top of that, the
one a Wishbone master owes its slaves: an access is shown until it has been acknowledged. `arch` holds the words as the
program has written them. LED bytes are selected in the reverse order of the RAM's, which the
driver's word accesses do not show; data are whole words here.

**Bits, Alu, Multiplier, LoadStore.** `&`, `|`, `^`, ranges and shifts are set
operations, so the translation stays close to the code and its meaning, stated on numbers
(`Meaning`, `Taken`, `Product`, `ByteMemory`), is independent of it. The tree of
carry-save adders is written as levels: on 32 products the levels of
three neighbours are exactly the wiring of `CSA_1` to `CSA_27` in X0 (32, 22,
15, 10, 7, 5) and of X1 (4, 3, 2). The shifter's 64 cases are two formulas.
A word has four bytes of W/4 bits. A step of `LoadStore` is an access the alignment check has let through by its own
verdict (`Store`, `Load`), one it has let through by an older one (`Unchecked`, any effect), or another instruction.

## 4. The runs

| run | question | instance |
|---|---|---|
| `fetch_loop` | Is the fetch loop a program counter? | 4 addresses, traps to 2 of them |
| `mul_pipe` | Do the two pipelines stay in order, lose nothing and stay together? | 13 instructions, 6 of them multiplications |
| `operands` | Are rs1 and rs2 right, the register file through traps, and does EXE move? | registers x0, x1; three mixes: alu, load, branch, jalr, csr, div; alu, load, branch, jalr, mul; load, div with cache stalls |
| `divider` | Is every quotient and remainder right, but for the sign section 5 names, and does it come? | W = 3; 0, 1, 3, 4, 7 |
| `traps` | Modes, interrupts and the timer | counter up to 3, six CSR writes |
| `datapath` | Arithmetic, branches, products, bytes; the mini core's arithmetic | W = 4, two memory words |
| `decode` | Is every word taken apart right, whatever was decoded before, and by the mini core too? | W = 32; registers 0, 5, 26; each immediate bit alone and a few together; all reserved opcodes and functions |
| `icache` | Does a valid line hold its address's words, and does every fetch end? | two tags, two indexes |
| `write_buffer` | Is the buffer a queue? | three addresses |
| `wishbone` | Whose data, whose store, and is everybody served? | two RAM words, two LED registers, values 0 and 1 |
| `bug_mul`, `bug_bytes` | what section 5 describes | |

What the properties say, and why a test would hardly settle them:

* `ReadPcOneAhead`, `ProgramOrder` (`Program` as a property), `NextPcIssued`: no interleaving of
  stalls, jumps, flushes and exceptions makes an instruction run twice, not at
  all, from the wrong path or with a wrong link address; and the loop does
  not starve itself.
* `EachInOneFifo`, `InOrder`, `AllWrittenBack`, `OwnProduct`: the elastic pipeline.
  `OwnProduct` is the one nobody enforces: MEM may stall for the cache while X1 does not.
* `Rs1InOrder`, `Rs2InOrder`, `RegistersUpToDate`, `ExeMovesOn`: bypass network, precise
  traps and the absence of a wait for a result that has gone by.
* `DivisionRight`, `DivisionEnds`: division by zero and overflow included, after any
  number of abandoned divisions, though `RET` does not always run: the one thing that can be wrong is the sign of a remainder
  whose dividend has the smaller magnitude (section 5).
* `DecodedInMode`, `MppIsOldMode`, `CauseNamesMode`: an instruction that may still act was checked in the mode
  the core is in; the mode saved, and the one the cause of an ecall names, is the one interrupted.
  `OneInterruptPerExpiry`, `InterruptComes`: the request that stays up is taken once,
  and is not forgotten except as the property lists.
* `FieldsRight`, `EffectsRight`, `ExceptionsRight`: each word is its own instruction and no other,
  with its own immediate; what an older instruction left in a latch has no effect; no instruction is illegal and every
  word of `Reserved` is; an ecall is a call of its own mode. An mret raises nothing in either mode, which the code says
  otherwise (section 5).
* `ValidLineIsMemory`, `BurstFillsLine`, `FetchAnswered`: cache and bench agree on four words
  without a handshake, wherever the core goes meanwhile.
* `AccessesInOrder`: two slots, two edges, one queue.
* `OwnData`, `SlavesAgree`, `BothServed`: no port takes the other's answer, a store that MEM no longer waits for
  still lands, its repetitions are harmless and do not lock out the fetch.
* `ResultsRight`, `BranchesRight`, `ProductsRight`, `AsBytes`: the code's bit manipulation
  against numbers and bytes.
* `MiniResultsRight`: the mini core's results are right exactly outside `MiniWrong`, the two mistakes of section 5; each
  of them shows for certain signs of the operands only, and the one test that has those (`tests/test_add.s:16`) does not
  look at the result.

**Bounds.** Four addresses hold an instruction, its successor, a target and the
wrap. Two registers, x0 and one other, are enough for `Operands`: bypasses compare
register numbers for equality with the one in question, and another register
behaves like an instruction that writes x0. Three fifos are the core's; 13
instructions is more than the pipeline holds, and the six multiplications are alone, in pairs, and
separated by one and three. W = 3 for the divider has a most negative number, -1, 0 and
a largest one. W = 4 with one-bit bytes has every shift count, every pair of operands,
carries through two levels of the tree, and each byte and half-word position;
two words are needed for bit 2 of the address. `CounterMax = 3` lets the timer
wrap; every value a CSR write can arm it with is smaller. A cache with two
tags and two indexes has hits, conflict misses and fills of other lines; the write buffer's two
slots need a third address for a refusal. Registers 5 (one bit pattern) and 26 (its complement) and x0, with each
immediate bit alone, tell every bit position from every other. Two words per slave
tell the addressed word from a neighbour, and the RAM's second is where clamped addresses go. `owed` and `MaxSent`
are the only bounds that are not in the code.

**Mixes.** Cache stalls are left out of the first two mixes of `operands` because of
the third divergence in the table of section 5, and covered by the third mix. The kinds each mix leaves out are
listed there too: a mix that has them finds the divergence and nothing else.

**Fairness.** `FetchLoop`: cycles in which cache, operands and EXE hold nothing up
keep coming (`FreeCycle`). `ElasticPipe`, `MulPipe`: a waiting stage that could move
some time does. `Operands`: the cache answers and the divider is done some time
(`Answered`); `DivisionEnds` is why the latter may be assumed. `Divider`: MEM empties
exe2mem some time. `Traps`, `ICache`, `Wishbone`: the clock keeps ticking. None of them assumes
progress of the logic under test.

## 5. Where the code disagrees

Each of the two violation runs checks what a comment says.

1. `bug_mul` (`EXE/exec.cpp:243`): EXE bypasses rs1 from exe2mem or mem2wbk even after a
   multiplication has left them; `r1_valid_se` is true again once
   the fifo is empty, and `op1_se` is then the multiplication's EXE result, which is
   not its product. `DEC/dec.cpp:1161-1162` says "dont bypass if mul instruction
   didnt finish".
2. `bug_bytes` (`MEM/mem.cpp:143`): `sign_extend` selects by bits 2..0 of the address, where
   `mem_preprocess` has bits 1..0, so a byte or half-word at an address with bit 2
   set is read as the word's lowest bytes. Bytes of offset 4 come out right for that reason.

More are outside the passing runs, and can be seen by changing constants or properties:

| divergence | place | to see it |
|---|---|---|
| rs2 of a user behind a CSR instruction: EXE's rs2 bypass off mem2wbk takes `MEM_RES_RM`, not the CSR's value | `EXE/exec.cpp:303-317` | `Operands`, `Rs2InOrder`, a mix of kinds {"alu", "csr"} that watches operand 2 |
| CSRRC complements its operand in DEC's bypass and again where it is concatenated | `DEC/dec.cpp:853-856, 1172, 1180` | `Operands`, `Rs1InOrder`, a mix of {"alu", "csrrc"} that watches operand 1 |
| a load in MEM does not hold its user up when an older writer of the register is in mem2wbk | `EXE/exec.cpp:258-270` | `Operands`, `Rs1InOrder`, a mix of {"alu", "load"} with stalls that watches operand 1 |
| an interrupt is taken whenever `mip & mie` is not zero; mstatus.MIE is cleared on entry, "No interruption during exception gestion", and never read: a repeating timer interrupts its own handler | `MEM/mem.cpp:178, 186` | `MCTraps`, `NoInterruptInHandler`, CsrWrites <- TimerTest |
| `icache_stall` is low in the cycles in which a load waits for its acknowledge: a core with a valid fetch address and room takes what the slave still shows | `IMPL/hw/wb_cpu.vhd:72` | `Wishbone`, `EachFetchOwnData` |
| a store is not stalled before its transfer starts, and neither its address nor its data are stored: a core that goes on to the next instruction loses it, or writes the next one's | `IMPL/hw/wb_cpu.vhd:71` | `Wishbone`, `SlavesAgree`, Patient = FALSE |
| mini core: SRA and SRAI shift ones in whatever the operand's sign; `tests/test_add.s:16` expects 5 of `sra` 10, 1 | `sysc_miniriscv/version1/src/shifter.cpp:14` | `MCDatapath.cfg`, `MiniCommandsRight` |
| mini core: SLTU's command 1 ("1 : sltu", `include/exec.h:50`) is also the adder's AND, so that SLTU and SLTIU give 0 for operands of one sign | `sysc_miniriscv/version1/src/dec.cpp:549`, `exec.cpp:35-45` | the same |
| a remainder may have the sign of the division before: `RET` does not run when only the signs change. `rem` 1, 2 leaves 1 and 0 in the registers, `rem` -1, 2 after it does not change them, and 1 is handed on. `README.md:17` says "We choosed to implement a **RV32IM**" | `EXE/Diviseur.h:66-67` | `MCDivider.cfg`, `EveryDivisionRight` |
| `env_call_wrong_mode` is cleared in the method that sets it, in one word's decoding: "Exception will be generate in case of mret in wrong mode" (`DEC/dec.cpp:563`), for which MEM has a cause (`MEM/mem.cpp:250`), never is | `DEC/dec.cpp:583` | `MCDecode.cfg`, `MretNeedsMachineMode` |
| a misaligned word access right behind an aligned half-word access of the same kind to the same address raises no exception: `lh` x1, 2(x0), then `lw` x2, 2(x0). "if adress isn't aligned it creates an exception" (`EXE/exec.cpp:70`) | `EXE/exec.h:213-215` | read in the code; `Unchecked` in `LoadStore` |
| an interrupt's cause is `7 & (1 << 31)`, which is 0; `SOFT/exception.s:86-87` tests the number | `MEM/mem.cpp:200-216` | `MCAUSE_WDATA_SM` in `Traps` |

The two of `wb_cpu` depend on the timing of a core that is not in the repository; with the
SystemC core's fifos the next instruction can follow a store within two cycles.

Reading the decoder against `Isa` showed more words of no instruction that are not illegal, which no document
contradicts: shifts by immediate with a wrong funct7, R-type words with funct7 0x20 and a function that has no second
form, loads of funct3 3, 6 and 7, `jalr` with a funct3, and system words without a flag, which keep `csr_wenable_sd` of
the instruction before. `Isa` lists none of them as `Reserved`, and `ExceptionsRight` says nothing of them. An sret outside
mode 2 sets `env_call_s_mode_sd`, which is cleared in the same method as well (`DEC/dec.cpp:578-582`); the core has no
mode 2 or 1. fence.i, which RV32IM does not have, is illegal.

The load divergence needs a data cache that stalls; with the memory of the
test bench, which answers at once, it cannot occur.

## 6. The proofs

TLAPS proves, for every value of the constants that satisfies the modules'
named assumptions:

* **FetchLoopProofs** (any number of addresses NPc > 0, any trap targets).
  `TypeCorrect`, `ReadPcAlwaysOneAhead`, and `InProgramOrder`: `FetchLoop` implements
  `Program`. `ReadPcOneAhead` is not inductive: with if2dec empty an address
  may wait in dec2if, so `IInv` adds that such an address is the one in register 32.
  `JalrExact` is the arithmetic fact the refinement rests on: JALR's way
  through READ_PC_SR ends at its target, modulo NPc, exactly when READ_PC_SR is one ahead.
  The refinement proof has a case for a stalled DEC (the step stutters or fills a fifo, `NextPc` stays),
  a decoded instruction (it executes in `Program`), the nop, and the exception.
* **PipeProofs**. For any number of fifos N > 0 and any MaxSent:
  `TypeCorrect`, `AlwaysInOneFifo`, `AlwaysInOrder`. The invariant says where
  everything is: `got <= sent`; items further down are older (`Older`); what is valid
  in a fifo is between `got` and `sent` (`InFlight`); each number between is in some fifo
  (`Present`). A step is analysed fifo by fifo: kept, emptied, or refilled from the one before.
  For three fifos (`ThreeFifos`, the core's number) and any set of multiplications `AlwaysOwnProduct`: on top of the invariant above,
  what is valid in exe2mem and a multiplication has its product in x02x1 or
  already in x12x2, made in the cycle EXE popped (`InX02X1`). `SameEdge` reduces a step of the multiplier to the equations of its two fifos.
* **OperandsProofs** (any registers, any mixes). `TypeCorrect` and `RegistersAlwaysUpToDate`: the invariant is one equation,
  `ArchIsAll`: program order is the register file with what mem2wbk, exe2mem and dec2exe hold written to it, oldest first.
  A cycle moves an instruction from one fifo to the next and leaves the sum alone; an exception cuts it off behind exe2mem.
  `Rs1AlwaysInOrder` and `Rs2AlwaysInOrder` hold for `Tame` mixes, which leave out CSRRC, multiplications and
  cache stalls for rs1, CSR instructions and cache stalls for rs2. No exclusion is superfluous: with any one of them let
  in, TLC finds a wrong operand (section 5). The mixes of the run are tame. Three facts carry the proof. What an empty fifo still
  shows has gone on to the next fifo or to its register (`GoneIsBehind`, `GoneIsWritten`), hence `ShownIsLatest`: the
  bypasses that do not ask whether a fifo is empty get the latest value all the same. No load or multiplication an instruction
  in EXE depends on is where its result cannot be had (`ResultIn`), which is what DEC's stalls are for. And EXE
  waits only for the divider (`Waiting`), so that a bypass that is open when an instruction arrives cannot close before it leaves
  unless DEC has read the value itself (`Held1`, `Held2`).
* **TrapsProofs** (any counter width, instructions, CSR writes that fit, cache stalls). `TypeCorrect`,
  `AlwaysDecodedInMode`, `AlwaysMppIsOldMode`, `CauseAlwaysNamesMode`. The second holds because `csr_exception`'s second run
  is told apart from a trap in the cycle before, and there is none: `NoTrapAfterTrap` in `IInv`. That is
  inductive because a trap leaves a nop, or the load MEM waits for, in exe2mem and clears `mip`
  (`PipeStep`). `EcallInMode` adds to `DecodedInMode` what exe2mem's register holds when it is not valid, for
  `csr_exception` does not ask. `CsrPortsLegal` says that what waits on a CSR port is something an instruction wrote, so
  it fits its register. `InterruptsAreOwed` is for programs that do not set the pending bit themselves
  (`SetsNoInterrupt`: nothing else could owe the interrupt). A request stays up until its acknowledge is back and sets the
  pending bit in each cycle, so `owed = 0` with the request up looks reachable; `PendingIsOwed` says why it is not: the
  pending bit and a request nobody has acknowledged are two expiries.
* **WordProofs** (words of any width, operands, memory). A word is a set of positions and its number a sum the library
  takes in an order of its own (`CHOOSE`); `ValueIsSum` shows the order does not matter, and everything else goes by induction
  over the positions with `SetInduction`: bounds, disjoint union, shifting, splitting into quotient and remainder,
  injectivity. From there:
  * `AlwaysResultsRight`, `AlwaysBranchesRight`, `AlwaysMiniResultsRight`: EXE, DEC's comparison and the mini core's against
    `Meaning` and `Taken`. The invariant is `WordsStay`; `AlwaysWords` states it.
  * `AlwaysAsBytes`: the checked accesses of `LoadStore` step by step against `ByteMemory`, for programs that load no byte or half-word from 5 to 7 of a
    double word (`NarrowWhereRight`; `bug_bytes` shows why). Words and stores have no condition.
  * `AlwaysProductsRight`: signs, partial products, tree, last addition. Everything is counted modulo `2^(2 * W)`
    (`Same`): an adder keeps the sum of its numbers (`CSAValue`), hence a level does and leaves two thirds of
    them (`LevelSums`), and eight levels make two of 42 or fewer (`TreeFits`; the core has 32).
  * `DividerTyped`, `DividesRight`: the restoring division's loop invariant (`AfterBits`: dividend = quotient so far times the divisor at its place, plus the
    remainder, which is smaller) holds for the division *in dec2exe* only (`DivisionInv`). It is inductive because EXE holds its instruction, and the bypasses
    its operands (`Shown`), as long as DONE_SE is away, and because the counter is cleared before DONE_SE could be taken for the next division's.
    `OutputInv` says what `RET` has left: the registers under the signs they have, or, while the quotient is 0, the remainder under
    the other sign. A one shifted into the quotient changes it, unless it is all ones already; `SignedBound` says that with a sign it never is.
    That leaves the remainders of smaller dividends.
    The divider's `Width` has nothing to do with the data path's `W` here; the core has 32 for both.
  * `AlwaysFieldsRight`, `AlwaysEffectsRight`, `AlwaysExceptionsRight`: both decoders against `Isa`, for any registers among the 32 and any
    patterns, so for every word of every instruction. `IsEncoding` says which bit of a word is which bit of which field;
    each format's word has it (`RTypeWord` to `JTypeWord`), and `ValueOfOnes` turns a field's bits back into its
    number. The four immediates that are scattered over the word are put together again bit by bit (`IImmediate` to
    `JImmediate`). `Formed` collects what both decoders find in a word, one lemma per format proves it
    (`InstructionsFormed`), and `FormedCore`, `FormedMini` and `FormedEffects` draw the properties from it. `FormedEffects` holds
    for *every* value of the latches, so the inductive invariant `DecodeInv` need only say that `held` was decoded from `inst`
    after some value. A store keeps the sign extension of the instruction before and does not use
    it; no legal word keeps `csr_wenable_sd`. `ReservedIllegal` is the other half of `ExceptionsRight`, with `CallFlag`: no
    word of `Reserved` has the flag of an ecall or an mret, and an instruction has one flag only, so none is an mret and an sret.
* **ICacheProofs** (any tags and indexes). `AlwaysValidLineIsMemory`, `AlwaysBurstFillsLine`. The invariant is the
  protocol nobody wrote down: `Idle`, `Requesting` or `Filling`, and in the last one of six `Points` (next edge, bench's
  state, words received). From each point a half cycle leads to the next; the sixth has four words and no acknowledge.
* **WriteBufferProofs** (any addresses and data). `AccessesAlwaysInOrder`: `WriteBuffer` implements `AccessQueue`. When
  both slots are taken `buffer_LRU` names one of them, so their order is defined; each of the method's paths is then
  a move of the queue or a stutter.
* **WishboneProofs** (any RAM size, LED registers, words). `TypeCorrect` whatever the core does; `SlavesAlwaysAgree` and `AlwaysOwnData`
  for a `Patient` core. `Requested` couples arbiter and slaves; `RamServes` and
  `LedServes` say what the addressed slave has sampled in each of its states; `StoreShown` that what MEM shows of a store is
  what the program stored, which is why repeating it is harmless (`Landed`).

Assumptions are `NPcAssumption`, `TrapAssumption`, `NAssumption`, `RegsAssumption`, `MixesAssumption`,
`MaxSentAssumption`, `MulsAssumption`, `KindsAssumption`, `CounterAssumption`, `CsrWritesAssumption`, `AdrAssumption`,
`MapAssumption`, `DataAssumption`, `PatientAssumption`, `BitsAssumption`, `IsaAssumption`, `LoadStoreAssumption` and `WidthAssumption`; TLC evaluates them in
the runs. `Patient` and `Tame` are hypotheses
of two theorems each, `ThreeFifos`, `SetsNoInterrupt`, `NarrowWhereRight` and `TreeFits` of one; the instances the runs use satisfy them.

Only model-checked: liveness (`NextPcIssued`, `AllWrittenBack`, `ExeMovesOn`, `DivisionEnds`, `InterruptComes`,
`FetchAnswered`, `BothServed`), which needs ENABLED. Every safety property the passing runs check is a theorem, under
the hypotheses named above.

## 7. What is not modelled

* **Data cache** (`CACHES/dcache.cpp`). Two automata interleave on falling edges; `mae_output` also runs when
  the bus address changes, so a word is written once or twice; the burst counter is read uninitialised;
  a store miss validates a line of which one word has been written, and a load miss at an offset
  other than 0 answers with another word. Which of the outcomes comes depends on the order of delta cycles. Its write buffer is modelled. The
  buffer refuses an access its slots remember the address of, even after it has been shown, so of the stores A, B, C, B the last is dropped, while
  `dcache.h:8` calls the cache write-through; `AccessQueue` allows a refusal for that reason.
* **Branch predictor** (`PRED_BRANCH_CACHE`). `pred_write` is a thread woken by changes of its inputs, not by the clock, and
  `ifetch.cpp` does not compile with `BRANCH_PREDICTION`; the older copy in `CORE/` does not compile either. DEC's
  prediction queue (`pred_reg_data`) goes with it.
* **Mini cores** (`SIM/SystemC/sysc_miniriscv`): their pipelines and the predictor of `version1`; `MiniCore` and the fifo are modelled.
  `miniriscv`, which the Makefile builds, does not compile
  (`&&  ||` in `stall_method`); `miniriscv_incomplete` is an exercise with parts left out; decoder, EXE and shifter of `miniriscv` are those of `version1`. In `version1`
  `fetch_method` reads `adr_si` in the delta cycle in which it writes it and is not sensitive to it, so the fetch address follows a cycle later or
  not, depending on unrelated events.
* **Traps**: addresses (`mepc`, `mtvec` and the PC path of MEM), MTVAL, the numbers
  of exceptions other than an ecall's, the undriven bus error input, software and external interrupts, which nothing
  drives.
* **The VHDL core** (`CORE_VHDL`) is not in the repository. Sub-word accesses on the bus; accesses outside
  the address map, which no slave acknowledges.
* `IMPL/sw`, `SOFT`, the ELF loader (third-party), and the test benches apart from
  the memory: I/O and programs. `core.h` and the port maps are wiring.
* `trace` functions, names and logging.

## 8. Plan

Done: everything of section 3. What would come next:

1. `mepc` in `Traps`: which instruction runs again after an interrupt.
2. `Wishbone` with the VHDL core's pipeline in place of `Patient`, when its sources are at hand.
3. Predictor and data cache, once their processes are clocked.
