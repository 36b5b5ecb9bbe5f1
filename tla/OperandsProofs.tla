--------------------------- MODULE OperandsProofs ---------------------------
(***************************************************************************)
(* Proofs about Operands, for every set of registers and every set of      *)
(* mixes: types, and that the register file keeps to program order.  For   *)
(* the mixes that leave out what the bypasses get wrong (Tame), also that  *)
(* no instruction uses a wrong operand.                                    *)
(***************************************************************************)
EXTENDS Operands, TLAPS

(* The register file once an instruction of a fifo has been written back.  *)
After(file, f) == IF f.v THEN Write(file, f.d.rd, f.d.res) ELSE file

(* What is in front of DEC, and program order up to the last decoded       *)
(* instruction: the pipeline's instructions, oldest first.                 *)
BeforeExe == After(After(regs, mem2wbk), exe2mem)
ArchIsAll == arch = After(BeforeExe, dec2exe)

Inv == TypeOK /\ ArchIsAll

-----------------------------------------------------------------------------
LEMMA WriteTyped ==
  ASSUME NEW file \in RegFile, NEW rd \in Regs, NEW x \in BOOLEAN
  PROVE  /\ Write(file, rd, x) \in RegFile
         /\ \A r \in Regs : Write(file, rd, x)[r] = IF r = rd /\ rd # 0 THEN x ELSE file[r]
<1>1. CASE rd = 0
  BY <1>1 DEF Write
<1>2. CASE rd # 0
  <2>1. Write(file, rd, x) = [file EXCEPT ![rd] = x]
    BY <1>2 DEF Write
  <2>2. file \in [Regs -> BOOLEAN] /\ file[0] = FALSE
    BY DEF RegFile
  <2>3. Write(file, rd, x) \in [Regs -> BOOLEAN]
    BY <2>1, <2>2
  <2>4. \A r \in Regs : Write(file, rd, x)[r] = IF r = rd THEN x ELSE file[r]
    BY <2>1, <2>2
  <2>5. Write(file, rd, x)[0] = FALSE
    BY <1>2, <2>2, <2>4, RegsAssumption
  <2> QED
    BY <1>2, <2>3, <2>4, <2>5 DEF RegFile
<1> QED
  BY <1>1, <1>2

LEMMA AfterTyped ==
  ASSUME NEW file \in RegFile, NEW D, NEW f \in FifoOf(D),
         f.d.rd \in Regs, f.d.res \in BOOLEAN
  PROVE  /\ After(file, f) \in RegFile
         /\ \A r \in Regs : After(file, f)[r] = IF f.v /\ f.d.rd = r /\ r # 0
                                                THEN f.d.res ELSE file[r]
  BY WriteTyped DEF After, FifoOf

LEMMA MixTyped == TypeOK => mix \in Mix
  BY MixesAssumption DEF TypeOK

LEMMA NopTyped == nop \in Decoded /\ nop2 \in Executed
  BY RegsAssumption DEF nop, nop2, Decoded, Executed, AllKinds

LEMMA ClassTyped == \A k \in AllKinds : Class(k) \in {"plain", "load", "mul", "csr"}
  BY DEF AllKinds, Class

(* MEM and WBK: what is in mem2wbk is written back, and what was in exe2mem *)
(* follows unless MEM waits.                                               *)
LEMMA MemWbkStep ==
  ASSUME TypeOK, NEW stall \in BOOLEAN, MemWbk(stall)
  PROVE  /\ regs' = After(regs, mem2wbk) /\ regs' \in RegFile
         /\ mem2wbk' \in FifoOf(Executed)
         /\ MEM_POP(stall) \in BOOLEAN
         /\ MEM_POP(stall) => exe2mem.v /\ mem2wbk' = [v |-> TRUE, d |-> exe2mem.d]
         /\ ~MEM_POP(stall) => ~mem2wbk'.v /\ mem2wbk'.d = mem2wbk.d
<1>1. mem2wbk \in FifoOf(Executed) /\ exe2mem \in FifoOf(Executed) /\ regs \in RegFile
  BY DEF TypeOK
<1>2. /\ mem2wbk.v \in BOOLEAN /\ exe2mem.v \in BOOLEAN
      /\ exe2mem.d \in Executed /\ mem2wbk.d \in Executed
  BY <1>1 DEF FifoOf
<1>3. MEM_POP(stall) \in BOOLEAN /\ (MEM_POP(stall) => exe2mem.v)
  BY <1>2 DEF MEM_POP
<1>4. regs' = After(regs, mem2wbk)
  BY DEF MemWbk, written, After
<1>5. mem2wbk.d.rd \in Regs /\ mem2wbk.d.res \in BOOLEAN
  BY <1>2 DEF Executed
<1>6. regs' \in RegFile
  BY <1>1, <1>4, <1>5, AfterTyped
<1>7. mem2wbk' = Clocked(mem2wbk, MEM_POP(stall), mem2wbk.v, exe2mem.d)
  BY DEF MemWbk
<1>8. /\ mem2wbk' \in FifoOf(Executed)
      /\ MEM_POP(stall) => mem2wbk' = [v |-> TRUE, d |-> exe2mem.d]
      /\ ~MEM_POP(stall) => ~mem2wbk'.v /\ mem2wbk'.d = mem2wbk.d
  BY <1>1, <1>2, <1>3, <1>7 DEF Clocked, FifoOf
<1> QED
  BY <1>3, <1>4, <1>6, <1>8

(* EXE hands on an instruction that is there, and into room.               *)
LEMMA ExeStep ==
  ASSUME TypeOK, NEW stall \in BOOLEAN, NEW done \in BOOLEAN, MEM_POP(stall) \in BOOLEAN,
         Exe(EXE_POP(stall, done), MEM_POP(stall), done)
  PROVE  /\ EXE_POP(stall, done) \in BOOLEAN /\ divider' \in BOOLEAN
         /\ exe2mem' \in FifoOf(Executed)
         /\ EXE_POP(stall, done) => /\ dec2exe.v /\ (exe2mem.v => MEM_POP(stall))
                       /\ exe2mem'.v
                       /\ exe2mem'.d.class = Class(dec2exe.d.kind)
                       /\ exe2mem'.d.rd = dec2exe.d.rd
                       /\ exe2mem'.d.res = dec2exe.d.res
         /\ ~EXE_POP(stall, done) => /\ exe2mem'.v = (exe2mem.v /\ ~MEM_POP(stall))
                        /\ exe2mem'.d = exe2mem.d
<1>1. exe2mem \in FifoOf(Executed) /\ dec2exe \in FifoOf(Decoded) /\ divider \in BOOLEAN
  BY DEF TypeOK
<1>2. /\ exe2mem.v \in BOOLEAN /\ dec2exe.v \in BOOLEAN
      /\ dec2exe.d \in Decoded /\ exe2mem.d \in Executed
  BY <1>1 DEF FifoOf
<1>3. dec2exe.d.kind \in AllKinds /\ dec2exe.d.rd \in Regs /\ dec2exe.d.res \in BOOLEAN
  BY <1>2 DEF Decoded
<1>4. /\ EXE_POP(stall, done) \in BOOLEAN
      /\ EXE_POP(stall, done) => dec2exe.v /\ (exe2mem.v => MEM_POP(stall))
  BY <1>2 DEF EXE_POP, stall_se, FULL_S, EMPTY_S
<1>5. divider' \in BOOLEAN
  BY DEF Exe, DIV_BUSY_SE
<1>6. PICK junk \in BOOLEAN :
        exe2mem' = Clocked(exe2mem, EXE_POP(stall, done), MEM_POP(stall),
                           [class |-> Class(dec2exe.d.kind), rd |-> dec2exe.d.rd,
                            junk |-> junk, res |-> dec2exe.d.res])
  BY Zenon DEF Exe
<1> DEFINE item == [class |-> Class(dec2exe.d.kind), rd |-> dec2exe.d.rd,
                    junk |-> junk, res |-> dec2exe.d.res]
<1>7. item \in Executed
  BY <1>3, ClassTyped DEF Executed
<1> HIDE DEF item
<1>8. exe2mem' = Clocked(exe2mem, EXE_POP(stall, done), MEM_POP(stall), item)
  BY <1>6 DEF item
<1>9. /\ exe2mem' \in FifoOf(Executed)
      /\ EXE_POP(stall, done) => exe2mem' = [v |-> TRUE, d |-> item]
      /\ ~EXE_POP(stall, done) => /\ exe2mem'.v = (exe2mem.v /\ ~MEM_POP(stall))
                     /\ exe2mem'.d = exe2mem.d
  BY <1>1, <1>2, <1>4, <1>7, <1>8 DEF Clocked, FifoOf
<1>10. /\ item.class = Class(dec2exe.d.kind) /\ item.rd = dec2exe.d.rd
       /\ item.res = dec2exe.d.res
  BY DEF item
<1> QED
  BY <1>4, <1>5, <1>9, <1>10

(* What DEC reads is a value, with or without a valid bit.                 *)
LEMMA ReadTyped ==
  ASSUME TypeOK, NEW n, NEW r \in Regs, NEW kind \in AllKinds
  PROVE  rdata_sd(r, kind) \subseteq BOOLEAN /\ ReadInDec(n, r, kind) \subseteq BOOLEAN
<1>1. exe2mem.d \in Executed /\ mem2wbk.d \in Executed /\ regs[r] \in BOOLEAN
  BY DEF TypeOK, FifoOf, RegFile
<1>2. EXE_RES_RE \in BOOLEAN /\ MEM_RES_RM \in BOOLEAN
  BY <1>1 DEF EXE_RES_RE, MEM_RES_RM, Executed
<1>3. inverted(kind, EXE_RES_RE) \in BOOLEAN /\ inverted(kind, MEM_RES_RM) \in BOOLEAN
  BY <1>2 DEF inverted
<1>4. exe2mem.d.res \in BOOLEAN /\ mem2wbk.d.res \in BOOLEAN
  BY <1>1 DEF Executed
<1>5. rdata_sd(r, kind) \subseteq BOOLEAN
  BY <1>1, <1>3, <1>4 DEF rdata_sd
<1> QED
  BY <1>5 DEF ReadInDec

(* What DEC pushes, having read x1 and x2.                                 *)
Item(kind, rd, r1, r2, x1, x2, res) ==
  [kind |-> IF kind = "branch" THEN "alu" ELSE kind, rd |-> rd, r1 |-> r1, r2 |-> r2,
   op1 |-> inverted(kind, x1), op2 |-> x2,
   want1 |-> inverted(kind, Wanted(1, r1)), want2 |-> Wanted(2, r2), res |-> res]

Pushed(kind, rd, r1, r2, x1, x2, res, exe_pop) ==
  /\ dec2exe'.v /\ dec2exe'.d = Item(kind, rd, r1, r2, x1, x2, res)
  /\ arch' = Write(arch, rd, res)
  /\ Use(exe_pop, kind \in {"branch", "jalr"} => x1 = Wanted(1, r1),
                  kind \in {"branch", "jalr"} => x2 = Wanted(2, r2))

(* DEC pushes into room, and what it pushes is an instruction.             *)
LEMMA DecodeStep ==
  ASSUME TypeOK, NEW exe_pop \in BOOLEAN, NEW kind \in mix.kinds,
         NEW rd \in Regs, NEW r1 \in Regs, NEW r2 \in Regs,
         Decode(kind, rd, r1, r2, exe_pop)
  PROVE  /\ dec2exe' \in FifoOf(Decoded) /\ arch' \in RegFile
         /\ dec2exe.v => exe_pop
         /\ \E x1 \in ReadInDec(1, r1, kind), x2 \in ReadInDec(2, r2, kind), res \in BOOLEAN :
              Pushed(kind, rd, r1, r2, x1, x2, res, exe_pop)
<1>1. dec2exe \in FifoOf(Decoded) /\ arch \in RegFile
  BY DEF TypeOK
<1>2. kind \in AllKinds
  BY MixTyped DEF Mix
<1>3. ~stall_sd(kind, r1, r2, FULL_S(dec2exe, exe_pop))
  BY DEF Decode
<1>4. dec2exe.v \in BOOLEAN /\ (dec2exe.v => exe_pop)
  BY <1>1, <1>3 DEF stall_sd, FULL_S, FifoOf
<1>5. PICK x1 \in ReadInDec(1, r1, kind), x2 \in ReadInDec(2, r2, kind),
           res \in Results(kind, rd) :
       /\ dec2exe' = Clocked(dec2exe, TRUE, exe_pop, Item(kind, rd, r1, r2, x1, x2, res))
       /\ arch' = Write(arch, rd, res)
       /\ Use(exe_pop, kind \in {"branch", "jalr"} => x1 = Wanted(1, r1),
                       kind \in {"branch", "jalr"} => x2 = Wanted(2, r2))
  BY Zenon DEF Decode, Item
<1> DEFINE item == Item(kind, rd, r1, r2, x1, x2, res)
<1>6. x1 \in BOOLEAN /\ x2 \in BOOLEAN /\ res \in BOOLEAN
  BY <1>2, ReadTyped DEF Results
<1>7. arch[r1] \in BOOLEAN /\ arch[r2] \in BOOLEAN
  BY <1>1 DEF RegFile
<1>8. Wanted(1, r1) \in BOOLEAN /\ Wanted(2, r2) \in BOOLEAN
  BY <1>7 DEF Wanted
<1>9. inverted(kind, x1) \in BOOLEAN /\ inverted(kind, Wanted(1, r1)) \in BOOLEAN
  BY <1>6, <1>8 DEF inverted
<1>10. (IF kind = "branch" THEN "alu" ELSE kind) \in AllKinds
  BY <1>2 DEF AllKinds
<1>11. item \in Decoded
  BY <1>6, <1>8, <1>9, <1>10 DEF Decoded, Item
<1> HIDE DEF item
<1>12. dec2exe' = Clocked(dec2exe, TRUE, exe_pop, item)
  BY <1>5 DEF item
<1>13. dec2exe' = [v |-> TRUE, d |-> item]
  BY <1>4, <1>12 DEF Clocked
<1>14. dec2exe'.v /\ dec2exe'.d = item /\ dec2exe' \in FifoOf(Decoded)
  BY <1>11, <1>13 DEF FifoOf
<1>15. arch' \in RegFile
  BY <1>1, <1>5, <1>6, WriteTyped
<1>16. Pushed(kind, rd, r1, r2, x1, x2, res, exe_pop)
  BY <1>5, <1>14, Zenon DEF Pushed, item
<1> QED
  BY <1>4, <1>6, <1>14, <1>15, <1>16

(* DEC pushes nothing.                                                     *)
LEMMA BubbleStep ==
  ASSUME TypeOK, NEW exe_pop \in BOOLEAN, Bubble(exe_pop)
  PROVE  /\ dec2exe' \in FifoOf(Decoded)
         /\ dec2exe'.v = (dec2exe.v /\ ~exe_pop) /\ dec2exe'.d = dec2exe.d
         /\ arch' = arch
<1>1. dec2exe \in FifoOf(Decoded)
  BY DEF TypeOK
<1>2. dec2exe' = Clocked(dec2exe, FALSE, exe_pop, nop) /\ arch' = arch
  BY DEF Bubble
<1> QED
  BY <1>1, <1>2 DEF Clocked, FifoOf

(* EXCEPTION_SM: nops in DEC and EXE, except that an instruction MEM has   *)
(* not taken stays.                                                        *)
LEMMA ExceptionStep ==
  ASSUME TypeOK, NEW stall \in BOOLEAN, NEW done \in BOOLEAN, Exception(stall, done)
  PROVE  /\ dec2exe' = [v |-> TRUE, d |-> nop] /\ dec2exe' \in FifoOf(Decoded)
         /\ exe2mem' \in FifoOf(Executed)
         /\ IF exe2mem.v /\ ~MEM_POP(stall)
            THEN exe2mem' = exe2mem ELSE exe2mem' = [v |-> TRUE, d |-> nop2]
         /\ arch' = BeforeExe
         /\ divider' \in BOOLEAN /\ right1' = right1 /\ right2' = right2
<1>1. dec2exe \in FifoOf(Decoded) /\ exe2mem \in FifoOf(Executed)
  BY DEF TypeOK
<1>2. dec2exe' = [v |-> TRUE, d |-> nop]
  BY DEF Exception, Clocked
<1>3. dec2exe' \in FifoOf(Decoded)
  BY <1>2, NopTyped DEF FifoOf
<1>4. exe2mem' = Clocked(exe2mem, TRUE, MEM_POP(stall), nop2)
  BY DEF Exception
<1>5. IF exe2mem.v /\ ~MEM_POP(stall)
      THEN exe2mem' = exe2mem ELSE exe2mem' = [v |-> TRUE, d |-> nop2]
  BY <1>1, <1>4 DEF Clocked, FifoOf
<1>6. exe2mem' \in FifoOf(Executed)
  <2>1. [v |-> TRUE, d |-> nop2] \in FifoOf(Executed)
    BY NopTyped DEF FifoOf
  <2> QED
    BY <1>1, <1>5, <2>1
<1>7. arch' = BeforeExe
  BY DEF Exception, BeforeExe, After, written
<1>8. divider' \in BOOLEAN /\ right1' = right1 /\ right2' = right2
  BY DEF Exception, DIV_BUSY_SE
<1> QED
  BY <1>2, <1>3, <1>5, <1>6, <1>7, <1>8

-----------------------------------------------------------------------------
LEMMA InitInv == Init => Inv
<1> SUFFICES ASSUME Init PROVE Inv
  OBVIOUS
<1>1. regs \in RegFile /\ arch \in RegFile
  BY RegsAssumption DEF Init, RegFile
<1>2. /\ dec2exe = [v |-> FALSE, d |-> nop]
      /\ exe2mem = [v |-> FALSE, d |-> nop2] /\ mem2wbk = [v |-> FALSE, d |-> nop2]
  BY DEF Init, ResetFifo
<1>3. dec2exe \in FifoOf(Decoded) /\ exe2mem \in FifoOf(Executed) /\ mem2wbk \in FifoOf(Executed)
  BY <1>2, NopTyped DEF FifoOf
<1>4. TypeOK
  BY <1>1, <1>3 DEF Init, TypeOK
<1>5. ArchIsAll
  BY <1>2 DEF Init, ArchIsAll, BeforeExe, After
<1> QED
  BY <1>4, <1>5 DEF Inv

(* The registers once MEM and WBK have moved, before EXE's instruction.    *)
LEMMA BackEndStep ==
  ASSUME TypeOK, NEW stall \in BOOLEAN, MemWbk(stall)
  PROVE  After(regs', mem2wbk') = IF MEM_POP(stall) THEN BeforeExe ELSE After(regs, mem2wbk)
<1>1. CASE MEM_POP(stall)
  BY <1>1, MemWbkStep DEF After, BeforeExe
<1>2. CASE ~MEM_POP(stall)
  BY <1>2, MemWbkStep DEF After
<1> QED
  BY <1>1, <1>2, MemWbkStep

(* What a cycle does behind DEC.                                           *)
LEMMA CycleEdge ==
  ASSUME TypeOK, NEW stall \in BOOLEAN, NEW done \in BOOLEAN, Cycle(stall, done)
  PROVE  /\ regs' = After(regs, mem2wbk) /\ regs' \in RegFile
         /\ mem2wbk' \in FifoOf(Executed) /\ MEM_POP(stall) \in BOOLEAN
         /\ MEM_POP(stall) => exe2mem.v /\ mem2wbk' = [v |-> TRUE, d |-> exe2mem.d]
         /\ ~MEM_POP(stall) => ~mem2wbk'.v /\ mem2wbk'.d = mem2wbk.d
         /\ EXE_POP(stall, done) \in BOOLEAN /\ divider' = DIV_BUSY_SE(done)
         /\ divider' \in BOOLEAN /\ exe2mem' \in FifoOf(Executed)
         /\ EXE_POP(stall, done) =>
              /\ dec2exe.v /\ (exe2mem.v => MEM_POP(stall)) /\ exe2mem'.v
              /\ exe2mem'.d.class = Class(dec2exe.d.kind)
              /\ exe2mem'.d.rd = dec2exe.d.rd /\ exe2mem'.d.res = dec2exe.d.res
              /\ BeforeExe' = After(BeforeExe, dec2exe)
         /\ ~EXE_POP(stall, done) =>
              /\ exe2mem'.v = (exe2mem.v /\ ~MEM_POP(stall))
              /\ exe2mem'.d = exe2mem.d
              /\ BeforeExe' = BeforeExe
<1> DEFINE pop == EXE_POP(stall, done)
<1>1. MemWbk(stall) /\ Exe(EXE_POP(stall, done), MEM_POP(stall), done)
  BY DEF Cycle
<1>2. /\ regs' = After(regs, mem2wbk) /\ regs' \in RegFile
      /\ mem2wbk' \in FifoOf(Executed) /\ MEM_POP(stall) \in BOOLEAN
      /\ MEM_POP(stall) => exe2mem.v /\ mem2wbk' = [v |-> TRUE, d |-> exe2mem.d]
      /\ ~MEM_POP(stall) => ~mem2wbk'.v /\ mem2wbk'.d = mem2wbk.d
  BY <1>1, MemWbkStep
<1>3. /\ pop \in BOOLEAN /\ divider' \in BOOLEAN /\ exe2mem' \in FifoOf(Executed)
      /\ pop => /\ dec2exe.v /\ (exe2mem.v => MEM_POP(stall)) /\ exe2mem'.v
                /\ exe2mem'.d.class = Class(dec2exe.d.kind)
                /\ exe2mem'.d.rd = dec2exe.d.rd /\ exe2mem'.d.res = dec2exe.d.res
      /\ ~pop => /\ exe2mem'.v = (exe2mem.v /\ ~MEM_POP(stall))
                 /\ exe2mem'.d = exe2mem.d
  BY <1>1, <1>2, ExeStep
<1>4. divider' = DIV_BUSY_SE(done)
  BY <1>1 DEF Exe
<1>5. After(regs', mem2wbk') = IF MEM_POP(stall) THEN BeforeExe ELSE After(regs, mem2wbk)
  BY <1>1, BackEndStep
<1>6. pop => BeforeExe' = After(BeforeExe, dec2exe)
  BY <1>2, <1>3, <1>5 DEF After, BeforeExe
<1>7. ~pop => BeforeExe' = BeforeExe
  BY <1>2, <1>3, <1>5 DEF After, BeforeExe
<1> QED
  BY <1>2, <1>3, <1>4, <1>6, <1>7

(* An instruction DEC pushes finds in front of it all that came before.    *)
LEMMA DecodeOrder ==
  ASSUME Inv, NEW stall \in BOOLEAN, NEW done \in BOOLEAN, Cycle(stall, done),
         dec2exe.v => EXE_POP(stall, done)
  PROVE  BeforeExe' = arch
<1>1. TypeOK /\ ArchIsAll
  BY DEF Inv
<1>2. CASE EXE_POP(stall, done)
  BY <1>1, <1>2, CycleEdge DEF ArchIsAll
<1>3. CASE ~EXE_POP(stall, done)
  BY <1>1, <1>3, CycleEdge DEF ArchIsAll, After
<1> QED
  BY <1>2, <1>3

LEMMA CycleInv ==
  ASSUME Inv, mix' = mix, NEW stall \in BOOLEAN, NEW done \in BOOLEAN, Cycle(stall, done)
  PROVE  Inv'
<1> DEFINE pop == EXE_POP(stall, done)
<1>1. TypeOK /\ ArchIsAll
  BY DEF Inv
<1>2. /\ pop \in BOOLEAN
      /\ regs' \in RegFile /\ mem2wbk' \in FifoOf(Executed)
      /\ divider' \in BOOLEAN /\ exe2mem' \in FifoOf(Executed)
      /\ pop => dec2exe.v
  BY <1>1, CycleEdge
<1>3. pop => BeforeExe' = After(BeforeExe, dec2exe)
  BY <1>1, CycleEdge
<1>4. ~pop => BeforeExe' = BeforeExe
  BY <1>1, CycleEdge
<1>5. /\ dec2exe' \in FifoOf(Decoded) /\ arch' \in RegFile
      /\ right1' \in BOOLEAN /\ right2' \in BOOLEAN /\ ArchIsAll'
  <2>1. CASE Bubble(pop)
    <3>1. /\ dec2exe' \in FifoOf(Decoded)
          /\ dec2exe'.v = (dec2exe.v /\ ~pop) /\ dec2exe'.d = dec2exe.d
          /\ arch' = arch
      BY <1>1, <1>2, <2>1, BubbleStep
    <3>2. right1' \in BOOLEAN /\ right2' \in BOOLEAN
      BY <2>1 DEF Bubble, Use
    <3>3. After(BeforeExe', dec2exe') = After(BeforeExe, dec2exe)
      <4>1. CASE pop
        BY <1>2, <1>3, <3>1, <4>1 DEF After
      <4>2. CASE ~pop
        BY <1>2, <1>4, <3>1, <4>2 DEF After
      <4> QED
        BY <4>1, <4>2
    <3>4. ArchIsAll'
      BY <1>1, <3>1, <3>3 DEF ArchIsAll
    <3> QED
      BY <1>1, <3>1, <3>2, <3>4 DEF TypeOK
  <2>2. ASSUME NEW kind \in mix.kinds, NEW rd \in Regs, NEW r1 \in Regs, NEW r2 \in Regs,
               Decode(kind, rd, r1, r2, pop)
        PROVE  /\ dec2exe' \in FifoOf(Decoded) /\ arch' \in RegFile
               /\ right1' \in BOOLEAN /\ right2' \in BOOLEAN /\ ArchIsAll'
    <3>1. PICK x1 \in ReadInDec(1, r1, kind), x2 \in ReadInDec(2, r2, kind), res \in BOOLEAN :
            Pushed(kind, rd, r1, r2, x1, x2, res, pop)
      BY <1>1, <1>2, <2>2, DecodeStep
    <3>2. /\ dec2exe' \in FifoOf(Decoded) /\ arch' \in RegFile
          /\ dec2exe.v => pop
      BY <1>1, <1>2, <2>2, DecodeStep
    <3>3. /\ dec2exe'.v /\ dec2exe'.d.rd = rd /\ dec2exe'.d.res = res
          /\ arch' = Write(arch, rd, res)
      BY <3>1 DEF Pushed, Item
    <3>4. right1' \in BOOLEAN /\ right2' \in BOOLEAN
      BY <3>1 DEF Pushed, Use
    <3>5. BeforeExe' = arch
      BY <3>2, DecodeOrder
    <3>6. ArchIsAll'
      BY <3>3, <3>5 DEF ArchIsAll, After
    <3> QED
      BY <3>2, <3>4, <3>6
  <2> QED
    BY <2>1, <2>2 DEF Cycle
<1>6. TypeOK'
  BY <1>1, <1>2, <1>5 DEF TypeOK
<1> QED
  BY <1>5, <1>6 DEF Inv

LEMMA ExceptionInv ==
  ASSUME Inv, mix' = mix, NEW stall \in BOOLEAN, NEW done \in BOOLEAN, Exception(stall, done)
  PROVE  Inv'
<1>1. TypeOK /\ ArchIsAll
  BY DEF Inv
<1>2. MemWbk(stall)
  BY DEF Exception
<1>3. /\ regs' = After(regs, mem2wbk) /\ regs' \in RegFile
      /\ mem2wbk' \in FifoOf(Executed) /\ MEM_POP(stall) \in BOOLEAN
      /\ MEM_POP(stall) => exe2mem.v
  BY <1>1, <1>2, MemWbkStep
<1>4. /\ dec2exe' = [v |-> TRUE, d |-> nop] /\ dec2exe' \in FifoOf(Decoded)
      /\ exe2mem' \in FifoOf(Executed)
      /\ IF exe2mem.v /\ ~MEM_POP(stall)
         THEN exe2mem' = exe2mem ELSE exe2mem' = [v |-> TRUE, d |-> nop2]
      /\ arch' = BeforeExe
      /\ divider' \in BOOLEAN /\ right1' = right1 /\ right2' = right2
  BY <1>1, ExceptionStep
<1>5. After(regs', mem2wbk') = IF MEM_POP(stall) THEN BeforeExe ELSE After(regs, mem2wbk)
  BY <1>1, <1>2, BackEndStep
<1>6. BeforeExe' = BeforeExe
  <2>1. CASE exe2mem.v /\ ~MEM_POP(stall)
    BY <1>4, <1>5, <2>1 DEF After, BeforeExe
  <2>2. CASE ~(exe2mem.v /\ ~MEM_POP(stall))
    <3>1. After(regs', mem2wbk') = BeforeExe
      BY <1>3, <1>5, <2>2 DEF After, BeforeExe
    <3>2. exe2mem' = [v |-> TRUE, d |-> nop2]
      BY <1>4, <2>2
    <3> QED
      BY <3>1, <3>2 DEF BeforeExe, After, Write, nop2
  <2> QED
    BY <2>1, <2>2
<1>7. ArchIsAll'
  BY <1>4, <1>6 DEF ArchIsAll, After, Write, nop
<1>8. arch' \in RegFile
  <2>1. /\ mem2wbk \in FifoOf(Executed) /\ exe2mem \in FifoOf(Executed) /\ regs \in RegFile
        /\ mem2wbk.d \in Executed /\ exe2mem.d \in Executed
    BY <1>1 DEF TypeOK, FifoOf
  <2>2. /\ mem2wbk.d.rd \in Regs /\ mem2wbk.d.res \in BOOLEAN
        /\ exe2mem.d.rd \in Regs /\ exe2mem.d.res \in BOOLEAN
    BY <2>1 DEF Executed
  <2>3. After(regs, mem2wbk) \in RegFile
    BY <2>1, <2>2, AfterTyped
  <2>4. BeforeExe \in RegFile
    BY <2>1, <2>2, <2>3, AfterTyped DEF BeforeExe
  <2> QED
    BY <1>4, <2>4
<1>9. TypeOK'
  BY <1>1, <1>3, <1>4, <1>8 DEF TypeOK
<1> QED
  BY <1>7, <1>9 DEF Inv

LEMMA NextInv == Inv /\ [Next]_vars => Inv'
<1> SUFFICES ASSUME Inv, [Next]_vars PROVE Inv'
  OBVIOUS
<1>1. CASE Next
  <2>1. PICK stall \in mix.stalls, done \in BOOLEAN :
          Cycle(stall, done) \/ Exception(stall, done)
    BY <1>1 DEF Next
  <2>2. stall \in BOOLEAN /\ mix' = mix
    BY <1>1, MixTyped DEF Inv, Mix, Next
  <2> QED
    BY <2>1, <2>2, CycleInv, ExceptionInv
<1>2. CASE UNCHANGED vars
  BY <1>2 DEF vars, Inv, TypeOK, ArchIsAll, BeforeExe, After
<1> QED
  BY <1>1, <1>2

(* A register nobody in the pipeline is going to write is up to date.      *)
LEMMA UpToDate == Inv => RegistersUpToDate
<1> SUFFICES ASSUME Inv, NEW r \in Regs,
                    \A f \in {dec2exe, exe2mem, mem2wbk} : ~(f.v /\ f.d.rd = r)
             PROVE  regs[r] = arch[r]
  BY DEF RegistersUpToDate
<1>1. /\ mem2wbk \in FifoOf(Executed) /\ exe2mem \in FifoOf(Executed)
      /\ dec2exe \in FifoOf(Decoded) /\ regs \in RegFile
      /\ mem2wbk.d \in Executed /\ exe2mem.d \in Executed /\ dec2exe.d \in Decoded
  BY DEF Inv, TypeOK, FifoOf
<1>2. /\ mem2wbk.d.rd \in Regs /\ mem2wbk.d.res \in BOOLEAN
      /\ exe2mem.d.rd \in Regs /\ exe2mem.d.res \in BOOLEAN
      /\ dec2exe.d.rd \in Regs /\ dec2exe.d.res \in BOOLEAN
  BY <1>1 DEF Executed, Decoded
<1>3. After(regs, mem2wbk) \in RegFile /\ After(regs, mem2wbk)[r] = regs[r]
  BY <1>1, <1>2, AfterTyped
<1>4. BeforeExe \in RegFile /\ BeforeExe[r] = regs[r]
  BY <1>1, <1>2, <1>3, AfterTyped DEF BeforeExe
<1>5. After(BeforeExe, dec2exe)[r] = regs[r]
  BY <1>1, <1>2, <1>4, AfterTyped
<1> QED
  BY <1>5 DEF Inv, ArchIsAll

(* Registers, fifos and the divider's bit keep their ranges through every  *)
(* cycle and exception.                                                    *)
THEOREM TypeCorrect == Spec => []TypeOK
<1>1. Inv => TypeOK
  BY DEF Inv
<1> QED
  BY <1>1, InitInv, NextInv, PTL DEF Spec

(* REG_RR keeps to program order: a register that no instruction in the    *)
(* three fifos will write has the value it has in program order, whatever  *)
(* stalls and exceptions have come in between.                             *)
THEOREM RegistersAlwaysUpToDate == Spec => []RegistersUpToDate
  BY InitInv, NextInv, UpToDate, PTL DEF Spec

-----------------------------------------------------------------------------
(* The mixes whose operands are right: no stalls of the data cache, for    *)
(* rs1 no CSRRC and no multiplications, for rs2 no CSR instructions.       *)
Tame ==
  \A m \in Mixes :
    /\ m.watched # {} => m.stalls \subseteq {FALSE}
    /\ 1 \in m.watched => "csrrc" \notin m.kinds /\ "mul" \notin m.kinds
    /\ 2 \in m.watched => "csr" \notin m.kinds /\ "csrrc" \notin m.kinds

Steady == mix.stalls \subseteq {FALSE}

(* A fifo that is empty still shows its last instruction; what that one    *)
(* computed has gone on to the next fifo, or into its register.            *)
GoneIsBehind  == ~exe2mem.v => exe2mem.d = mem2wbk.d
GoneIsWritten == ~mem2wbk.v /\ mem2wbk.d.rd # 0 => regs[mem2wbk.d.rd] = mem2wbk.d.res

KindsOfMix ==
  /\ dec2exe.d.kind \in mix.kinds \cup {"alu"}
  /\ \A f \in {exe2mem, mem2wbk} :
       /\ f.d.class = "mul" => "mul" \in mix.kinds
       /\ f.d.class = "csr" => "csr" \in mix.kinds \/ "csrrc" \in mix.kinds

(* No load and no multiplication that EXE's instruction depends on is      *)
(* where its result cannot be had.                                         *)
ResultIn ==
  dec2exe.v => \A r \in {dec2exe.d.r1, dec2exe.d.r2} \ {0} :
    /\ exe2mem.v /\ exe2mem.d.rd = r => exe2mem.d.class \notin {"load", "mul"}
    /\ mem2wbk.v /\ mem2wbk.d.rd = r => mem2wbk.d.class # "mul"

(* EXE waits for an abandoned division only behind an exception, or when   *)
(* the instructions before have left.                                      *)
NothingInFront == divider /\ exe2mem.v /\ dec2exe.v => dec2exe.d = nop

Started == dec2exe.d.kind = "div" /\ divider

Wants ==
  dec2exe.v => /\ 1 \in mix.watched => dec2exe.d.want1 = BeforeExe[dec2exe.d.r1]
               /\ 2 \in mix.watched => dec2exe.d.want2 = BeforeExe[dec2exe.d.r2]

(* What DEC read is right where no bypass of EXE takes its place.          *)
Reading == dec2exe.v /\ dec2exe.d.kind # "jalr" /\ ~Started

Held1 == 1 \in mix.watched /\ Reading /\ ~from_mem1 /\ ~from_wbk1
           => dec2exe.d.op1 = dec2exe.d.want1
Held2 == 2 \in mix.watched /\ Reading /\ ~from_mem2 /\ ~from_wbk2
           => dec2exe.d.op2 = dec2exe.d.want2

OperandsInv ==
  /\ Inv
  /\ GoneIsBehind /\ GoneIsWritten /\ KindsOfMix
  /\ Steady => ResultIn /\ NothingInFront
  /\ Wants /\ Held1 /\ Held2
  /\ Rs1InOrder /\ Rs2InOrder

LEMMA TameMix ==
  ASSUME Tame, TypeOK
  PROVE  /\ 1 \in mix.watched => Steady /\ "csrrc" \notin mix.kinds /\ "mul" \notin mix.kinds
         /\ 2 \in mix.watched => Steady /\ "csr" \notin mix.kinds /\ "csrrc" \notin mix.kinds
  BY DEF Tame, Steady, TypeOK

LEMMA Fields ==
  ASSUME TypeOK
  PROVE  /\ dec2exe.v \in BOOLEAN /\ exe2mem.v \in BOOLEAN /\ mem2wbk.v \in BOOLEAN
         /\ dec2exe.d \in Decoded /\ exe2mem.d \in Executed /\ mem2wbk.d \in Executed
         /\ dec2exe.d.kind \in AllKinds
         /\ dec2exe.d.rd \in Regs /\ dec2exe.d.r1 \in Regs /\ dec2exe.d.r2 \in Regs
         /\ dec2exe.d.res \in BOOLEAN
         /\ exe2mem.d.rd \in Regs /\ exe2mem.d.res \in BOOLEAN
         /\ mem2wbk.d.rd \in Regs /\ mem2wbk.d.res \in BOOLEAN
         /\ exe2mem.d.class \in {"plain", "load", "mul", "csr"}
         /\ mem2wbk.d.class \in {"plain", "load", "mul", "csr"}
         /\ divider \in BOOLEAN
<1>1. /\ dec2exe.v \in BOOLEAN /\ exe2mem.v \in BOOLEAN /\ mem2wbk.v \in BOOLEAN
      /\ dec2exe.d \in Decoded /\ exe2mem.d \in Executed /\ mem2wbk.d \in Executed
      /\ divider \in BOOLEAN
  BY DEF TypeOK, FifoOf
<1> QED
  BY <1>1 DEF Decoded, Executed

(* BeforeExe, register by register.                                        *)
LEMMA BeforeExeOf ==
  ASSUME TypeOK, NEW r \in Regs
  PROVE  /\ BeforeExe \in RegFile
         /\ BeforeExe[r] = IF r # 0 /\ exe2mem.v /\ exe2mem.d.rd = r THEN exe2mem.d.res
                           ELSE IF r # 0 /\ mem2wbk.v /\ mem2wbk.d.rd = r THEN mem2wbk.d.res
                           ELSE regs[r]
<1>1. regs \in RegFile /\ exe2mem \in FifoOf(Executed) /\ mem2wbk \in FifoOf(Executed)
  BY DEF TypeOK
<1>2. /\ After(regs, mem2wbk) \in RegFile
      /\ After(regs, mem2wbk)[r] = IF mem2wbk.v /\ mem2wbk.d.rd = r /\ r # 0
                                   THEN mem2wbk.d.res ELSE regs[r]
  BY <1>1, Fields, AfterTyped
<1>3. /\ BeforeExe \in RegFile
      /\ BeforeExe[r] = IF exe2mem.v /\ exe2mem.d.rd = r /\ r # 0
                        THEN exe2mem.d.res ELSE After(regs, mem2wbk)[r]
  BY <1>1, <1>2, Fields, AfterTyped DEF BeforeExe
<1> QED
  BY <1>2, <1>3

(* The hazard of the bypasses that do not ask whether a fifo is empty:     *)
(* what exe2mem and mem2wbk show of a register is its latest value.        *)
LEMMA ShownIsLatest ==
  ASSUME TypeOK, GoneIsBehind, GoneIsWritten, NEW r \in Regs, r # 0
  PROVE  /\ exe2mem.d.rd = r => BeforeExe[r] = exe2mem.d.res
         /\ mem2wbk.d.rd = r /\ ~(exe2mem.v /\ exe2mem.d.rd = r)
              => BeforeExe[r] = mem2wbk.d.res
  BY BeforeExeOf DEF GoneIsBehind, GoneIsWritten

(* EXE's rs1, from wherever it comes.                                      *)
LEMMA Bypass1 ==
  ASSUME Tame, TypeOK, GoneIsBehind, GoneIsWritten, KindsOfMix, ResultIn, Wants, Held1,
         1 \in mix.watched, Reading
  PROVE  op1_se = dec2exe.d.want1
<1>1. "csrrc" \notin mix.kinds /\ "mul" \notin mix.kinds
  BY TameMix
<1>2. /\ dec2exe.d.kind # "csrrc" /\ exe2mem.d.class # "mul" /\ mem2wbk.d.class # "mul"
  BY <1>1 DEF KindsOfMix
<1>3. dec2exe.v /\ dec2exe.d.want1 = BeforeExe[dec2exe.d.r1]
  BY DEF Reading, Wants
<1>4. CASE from_mem1
  <2>1. /\ dec2exe.d.r1 # 0 /\ exe2mem.d.rd = dec2exe.d.r1 /\ exe2mem.d.class # "load"
    BY <1>4 DEF from_mem1, Reads
  <2>2. exe2mem.d.class \in {"plain", "csr"}
    BY <1>2, <2>1, Fields
  <2>3. op1_se = exe2mem.d.res
    BY <1>2, <1>4, <2>2 DEF op1_se, EXE_RES_RE, inverted
  <2> QED
    BY <1>3, <2>1, <2>3, Fields, ShownIsLatest
<1>5. CASE ~from_mem1 /\ from_wbk1
  <2>1. /\ dec2exe.d.r1 # 0 /\ mem2wbk.d.rd = dec2exe.d.r1
        /\ exe2mem.d.rd = dec2exe.d.r1 => exe2mem.d.class = "load"
    BY <1>5 DEF from_mem1, from_wbk1, Reads
  <2>2. ~(exe2mem.v /\ exe2mem.d.rd = dec2exe.d.r1)
    BY <1>3, <2>1 DEF ResultIn
  <2>3. op1_se = mem2wbk.d.res
    BY <1>2, <1>5, Fields DEF op1_se, MEM_RES_RM, inverted
  <2> QED
    BY <1>3, <2>1, <2>2, <2>3, Fields, ShownIsLatest
<1>6. CASE ~from_mem1 /\ ~from_wbk1
  BY <1>6 DEF op1_se, Held1
<1> QED
  BY <1>4, <1>5, <1>6

(* And its rs2.                                                            *)
LEMMA Bypass2 ==
  ASSUME Tame, TypeOK, GoneIsBehind, GoneIsWritten, KindsOfMix, ResultIn, Wants, Held2,
         2 \in mix.watched, Reading
  PROVE  op2_se = dec2exe.d.want2
<1>1. "csr" \notin mix.kinds /\ "csrrc" \notin mix.kinds
  BY TameMix
<1>2. exe2mem.d.class # "csr" /\ mem2wbk.d.class # "csr"
  BY <1>1 DEF KindsOfMix
<1>3. dec2exe.v /\ dec2exe.d.want2 = BeforeExe[dec2exe.d.r2]
  BY DEF Reading, Wants
<1>4. CASE from_mem2
  <2>1. /\ dec2exe.d.r2 # 0 /\ exe2mem.d.rd = dec2exe.d.r2 /\ exe2mem.d.class = "plain"
    BY <1>2, <1>4, Fields DEF from_mem2, Reads
  <2>2. op2_se = exe2mem.d.res
    BY <1>4, <2>1 DEF op2_se, EXE_RES_RE
  <2> QED
    BY <1>3, <2>1, <2>2, Fields, ShownIsLatest
<1>5. CASE ~from_mem2 /\ from_wbk2
  <2>1. /\ dec2exe.d.r2 # 0 /\ mem2wbk.d.rd = dec2exe.d.r2 /\ mem2wbk.d.class # "mul"
        /\ exe2mem.d.rd = dec2exe.d.r2 => exe2mem.d.class \in {"load", "mul"}
    BY <1>5 DEF from_mem2, from_wbk2, Reads
  <2>2. ~(exe2mem.v /\ exe2mem.d.rd = dec2exe.d.r2)
    BY <1>3, <2>1 DEF ResultIn
  <2>3. op2_se = mem2wbk.d.res
    BY <1>2, <1>5, <2>1, Fields DEF op2_se, MEM_RES_RM
  <2> QED
    BY <1>3, <2>1, <2>2, <2>3, Fields, ShownIsLatest
<1>6. CASE ~from_mem2 /\ ~from_wbk2
  BY <1>6 DEF op2_se, Held2
<1> QED
  BY <1>4, <1>5, <1>6

(* What DEC reads with a valid bit is the value in program order.          *)
LEMMA ReadRight ==
  ASSUME Inv, NEW r \in Regs, NEW kind, kind # "csrrc", r_valid_sd(r)
  PROVE  rdata_sd(r, kind) = {arch[r]}
<1>1. TypeOK /\ arch = After(BeforeExe, dec2exe)
  BY DEF Inv, ArchIsAll
<1>2. r # 0 => ~(dec2exe.v /\ dec2exe.d.rd = r)
  BY DEF r_valid_sd
<1>3. arch[r] = BeforeExe[r]
  <2>1. dec2exe \in FifoOf(Decoded) /\ BeforeExe \in RegFile
    BY <1>1, BeforeExeOf DEF TypeOK
  <2>2. After(BeforeExe, dec2exe)[r] = IF dec2exe.v /\ dec2exe.d.rd = r /\ r # 0
                                       THEN dec2exe.d.res ELSE BeforeExe[r]
    BY <1>1, <2>1, Fields, AfterTyped
  <2> QED
    BY <1>1, <1>2, <2>2
<1>4. CASE r # 0 /\ exe2mem.v /\ exe2mem.d.rd = r
  <2>1. exe2mem.d.class \in {"plain", "csr"}
    BY <1>1, <1>4, Fields DEF r_valid_sd
  <2>2. rdata_sd(r, kind) = {exe2mem.d.res}
    BY <1>4, <2>1 DEF rdata_sd, EXE_RES_RE, inverted
  <2> QED
    BY <1>1, <1>3, <1>4, <2>2, BeforeExeOf
<1>5. CASE r # 0 /\ ~(exe2mem.v /\ exe2mem.d.rd = r) /\ mem2wbk.v /\ mem2wbk.d.rd = r
  <2>1. mem2wbk.d.class \in {"plain", "load", "csr"}
    BY <1>1, <1>5, Fields DEF r_valid_sd
  <2>2. rdata_sd(r, kind) = {mem2wbk.d.res}
    BY <1>5, <2>1 DEF rdata_sd, MEM_RES_RM, inverted
  <2> QED
    BY <1>1, <1>3, <1>5, <2>2, BeforeExeOf
<1>6. CASE \/ r = 0
           \/ ~(exe2mem.v /\ exe2mem.d.rd = r) /\ ~(mem2wbk.v /\ mem2wbk.d.rd = r)
  <2>1. rdata_sd(r, kind) = {regs[r]}
    BY <1>6 DEF rdata_sd
  <2> QED
    BY <1>1, <1>3, <1>6, <2>1, BeforeExeOf
<1> QED
  BY <1>4, <1>5, <1>6

-----------------------------------------------------------------------------
LEMMA OperandsInit == Init => OperandsInv
<1> SUFFICES ASSUME Init PROVE OperandsInv
  OBVIOUS
<1>1. Inv
  BY InitInv
<1>2. /\ dec2exe = [v |-> FALSE, d |-> nop]
      /\ exe2mem = [v |-> FALSE, d |-> nop2] /\ mem2wbk = [v |-> FALSE, d |-> nop2]
  BY DEF Init, ResetFifo
<1>3. GoneIsBehind /\ GoneIsWritten /\ KindsOfMix
  BY <1>2, SMT DEF GoneIsBehind, GoneIsWritten, KindsOfMix, nop, nop2
<1>4. ResultIn /\ NothingInFront /\ Wants /\ Held1 /\ Held2
  BY <1>2 DEF ResultIn, NothingInFront, Wants, Held1, Held2, Reading
<1>5. Rs1InOrder /\ Rs2InOrder
  BY DEF Init, Rs1InOrder, Rs2InOrder
<1> QED
  BY <1>1, <1>3, <1>4, <1>5 DEF OperandsInv

(* What a fifo shows goes on as the fifo empties.                          *)
LEMMA GoneStep ==
  ASSUME TypeOK, GoneIsBehind, GoneIsWritten, NEW stall \in BOOLEAN, NEW done \in BOOLEAN,
         Cycle(stall, done) \/ Exception(stall, done)
  PROVE  GoneIsBehind' /\ GoneIsWritten'
<1>1. MemWbk(stall)
  BY DEF Cycle, Exception
<1>2. /\ regs' = After(regs, mem2wbk)
      /\ MEM_POP(stall) \in BOOLEAN /\ (MEM_POP(stall) => exe2mem.v)
      /\ MEM_POP(stall) => mem2wbk'.v /\ mem2wbk'.d = exe2mem.d
      /\ ~MEM_POP(stall) => ~mem2wbk'.v /\ mem2wbk'.d = mem2wbk.d
  BY <1>1, MemWbkStep
<1>3. GoneIsWritten'
  <2> SUFFICES ASSUME ~mem2wbk'.v, mem2wbk'.d.rd # 0
               PROVE  regs'[mem2wbk'.d.rd] = mem2wbk'.d.res
    BY DEF GoneIsWritten
  <2>1. mem2wbk'.d = mem2wbk.d
    BY <1>2
  <2>2. regs \in RegFile /\ mem2wbk \in FifoOf(Executed)
    BY DEF TypeOK
  <2>3. \A r \in Regs : After(regs, mem2wbk)[r] = IF mem2wbk.v /\ mem2wbk.d.rd = r /\ r # 0
                                                  THEN mem2wbk.d.res ELSE regs[r]
    BY <2>2, Fields, AfterTyped
  <2> QED
    BY <1>2, <2>1, <2>3, Fields DEF GoneIsWritten
<1>4. GoneIsBehind'
  <2> SUFFICES ASSUME ~exe2mem'.v PROVE exe2mem'.d = mem2wbk'.d
    BY DEF GoneIsBehind
  <2>1. CASE Cycle(stall, done)
    <3>1. /\ exe2mem'.d = exe2mem.d
          /\ exe2mem.v => MEM_POP(stall)
      BY <2>1, CycleEdge, Fields
    <3> QED
      BY <1>2, <3>1 DEF GoneIsBehind
  <2>2. CASE Exception(stall, done)
    <3>1. exe2mem'.v
      BY <2>2, ExceptionStep
    <3> QED
      BY <3>1
  <2> QED
    BY <2>1, <2>2
<1> QED
  BY <1>3, <1>4

(* Without stalls of the cache, an instruction EXE does not take waits for *)
(* the divider.                                                            *)
LEMMA Waiting ==
  ASSUME TypeOK, ResultIn, NEW done \in BOOLEAN, dec2exe.v, ~EXE_POP(FALSE, done)
  PROVE  DIV_BUSY_SE(done) /\ (dec2exe.d.kind # "div" => divider)
<1>1. ~FULL_S(exe2mem, MEM_POP(FALSE))
  BY DEF FULL_S, MEM_POP
<1>2. ~load_in_mem(dec2exe.d.r1) /\ ~load_in_mem(dec2exe.d.r2)
  BY DEF load_in_mem, Reads, ResultIn
<1>3. r1_valid_se
  BY DEF r1_valid_se, from_mem1, from_wbk1, Reads, ResultIn, EMPTY_S
<1>4. DIV_BUSY_SE(done)
  BY <1>1, <1>2, <1>3 DEF EXE_POP, stall_se, blocked, EMPTY_S
<1> QED
  BY <1>4 DEF DIV_BUSY_SE, START_SE

(* An instruction DEC pushes reads, or will be bypassed, a result that is  *)
(* not a load or a multiplication too young for that.                      *)
LEMMA Unstalled ==
  ASSUME TypeOK, NEW exe_pop \in BOOLEAN, NEW kind, NEW rd, NEW r1 \in Regs, NEW r2 \in Regs,
         Decode(kind, rd, r1, r2, exe_pop), NEW r \in {r1, r2}
  PROVE  /\ kind \in {"branch", "jalr"} => r_valid_sd(r)
         /\ r # 0 =>
              /\ dec2exe.v /\ dec2exe.d.rd = r => exe_pop /\ Class(dec2exe.d.kind) = "plain"
              /\ exe2mem.v /\ exe2mem.d.rd = r => exe2mem.d.class \in {"plain", "load"}
              /\ mem2wbk.v /\ mem2wbk.d.rd = r => mem2wbk.d.class # "mul"
         /\ ~r_valid_sd(r) =>
              /\ r # 0
              /\ \/ dec2exe.v /\ dec2exe.d.rd = r
                 \/ exe2mem.v /\ exe2mem.d.rd = r /\ exe2mem.d.class = "load"
<1>1. ~stall_sd(kind, r1, r2, FULL_S(dec2exe, exe_pop))
  BY DEF Decode
<1>2. /\ ~csr_in_progress /\ (dec2exe.v => exe_pop)
      /\ ~r_valid_sd(r) => /\ kind \notin {"branch", "jalr"}
                           /\ ~block_in_dec(r) /\ ~dependence_on_mult(r)
  BY <1>1 DEF stall_sd, FULL_S
<1>3. ~r_valid_sd(r) =>
        /\ r # 0
        /\ \/ dec2exe.v /\ dec2exe.d.rd = r
           \/ exe2mem.v /\ exe2mem.d.rd = r /\ exe2mem.d.class = "load"
  BY <1>2 DEF r_valid_sd, dependence_on_mult
<1>4. ASSUME r # 0, dec2exe.v, dec2exe.d.rd = r
      PROVE  exe_pop /\ Class(dec2exe.d.kind) = "plain"
  <2>1. ~r_valid_sd(r)
    BY <1>4 DEF r_valid_sd
  <2>2. dec2exe.d.kind \notin {"load", "mul"} /\ Class(dec2exe.d.kind) # "csr"
    BY <1>2, <1>4, <2>1 DEF block_in_dec, dependence_on_mult, csr_in_progress
  <2> QED
    BY <1>2, <1>4, <2>2, Fields DEF Class, AllKinds
<1>5. ASSUME r # 0, exe2mem.v, exe2mem.d.rd = r
      PROVE  exe2mem.d.class \in {"plain", "load"}
  <2>1. exe2mem.d.class # "csr"
    BY <1>2, <1>5 DEF csr_in_progress
  <2>2. exe2mem.d.class # "mul"
    BY <1>2, <1>5 DEF r_valid_sd, dependence_on_mult
  <2> QED
    BY <2>1, <2>2, Fields
<1>6. ASSUME r # 0, mem2wbk.v, mem2wbk.d.rd = r
      PROVE  mem2wbk.d.class # "mul"
  BY <1>2, <1>6 DEF r_valid_sd, dependence_on_mult
<1> QED
  BY <1>2, <1>3, <1>4, <1>5, <1>6

(* Behind an exception there are nops.                                     *)
LEMMA ExceptionOperands ==
  ASSUME OperandsInv, mix' = mix, NEW stall \in BOOLEAN, NEW done \in BOOLEAN,
         Exception(stall, done)
  PROVE  OperandsInv'
<1>1. TypeOK /\ Inv /\ Inv' /\ GoneIsBehind' /\ GoneIsWritten'
  BY ExceptionInv, GoneStep DEF OperandsInv, Inv
<1>2. /\ dec2exe' = [v |-> TRUE, d |-> nop]
      /\ exe2mem' = exe2mem \/ exe2mem' = [v |-> TRUE, d |-> nop2]
      /\ right1' = right1 /\ right2' = right2
  BY <1>1, ExceptionStep
<1>3. mem2wbk'.d = exe2mem.d \/ mem2wbk'.d = mem2wbk.d
  BY <1>1, MemWbkStep DEF Exception
<1>4. KindsOfMix'
  <2>1. dec2exe'.d.kind = "alu"
    BY <1>2 DEF nop
  <2>2. exe2mem'.d.class = "plain" \/ exe2mem'.d = exe2mem.d
    BY <1>2 DEF nop2
  <2> QED
    BY <1>3, <2>1, <2>2 DEF OperandsInv, KindsOfMix
<1>5. /\ dec2exe'.d = nop /\ dec2exe'.d.kind = "alu"
      /\ dec2exe'.d.r1 = 0 /\ dec2exe'.d.r2 = 0
      /\ dec2exe'.d.op1 = FALSE /\ dec2exe'.d.want1 = FALSE
      /\ dec2exe'.d.op2 = FALSE /\ dec2exe'.d.want2 = FALSE
  BY <1>2 DEF nop
<1>6. ResultIn' /\ NothingInFront'
  BY <1>5 DEF ResultIn, NothingInFront
<1>7. Wants'
  <2>1. arch' \in RegFile /\ arch' = After(BeforeExe', dec2exe')
    BY <1>1 DEF Inv, TypeOK, ArchIsAll
  <2>2. BeforeExe' = arch'
    BY <1>5, <2>1 DEF After, Write, nop
  <2>3. BeforeExe'[0] = FALSE
    BY <2>1, <2>2 DEF RegFile
  <2> QED
    BY <1>5, <2>3 DEF Wants
<1>8. Held1' /\ Held2'
  BY <1>5 DEF Held1, Held2
<1>9. Rs1InOrder' /\ Rs2InOrder'
  BY <1>2 DEF OperandsInv, Rs1InOrder, Rs2InOrder
<1> QED
  BY <1>1, <1>4, <1>6, <1>7, <1>8, <1>9 DEF OperandsInv

(* The instruction in dec2exe stays: EXE waits.                            *)
LEMMA StayOperands ==
  ASSUME Tame, OperandsInv, Inv', mix' = mix, NEW stall \in mix.stalls, NEW done \in BOOLEAN,
         Cycle(stall, done), Bubble(EXE_POP(stall, done)), dec2exe.v, ~EXE_POP(stall, done)
  PROVE  /\ Steady => ResultIn' /\ NothingInFront'
         /\ Wants' /\ Held1' /\ Held2'
<1>1. TypeOK /\ stall \in BOOLEAN /\ mem2wbk.v \in BOOLEAN
  BY MixTyped, Fields DEF OperandsInv, Inv, Mix
<1>2. dec2exe'.v /\ dec2exe'.d = dec2exe.d
  BY <1>1, CycleEdge, BubbleStep
<1>3. /\ exe2mem'.d = exe2mem.d /\ exe2mem'.v = (exe2mem.v /\ ~MEM_POP(stall))
      /\ BeforeExe' = BeforeExe /\ divider' = DIV_BUSY_SE(done)
      /\ MEM_POP(stall) => exe2mem.v /\ mem2wbk'.d = exe2mem.d
      /\ ~MEM_POP(stall) => ~mem2wbk'.v /\ mem2wbk'.d = mem2wbk.d
  BY <1>1, CycleEdge
<1>4. Wants'
  BY <1>2, <1>3 DEF OperandsInv, Wants
<1>5. ASSUME Steady
      PROVE  /\ ~exe2mem'.v /\ divider'
             /\ dec2exe.d.kind # "div" => divider
             /\ exe2mem.v => mem2wbk'.d = exe2mem.d
             /\ ~exe2mem.v => mem2wbk'.d = mem2wbk.d
             /\ ResultIn /\ NothingInFront
  <2>1. stall = FALSE
    BY <1>5 DEF Steady
  <2>2. MEM_POP(stall) = exe2mem.v
    BY <1>1, <2>1, Fields DEF MEM_POP
  <2>3. ResultIn /\ NothingInFront
    BY <1>5 DEF OperandsInv
  <2>4. DIV_BUSY_SE(done) /\ (dec2exe.d.kind # "div" => divider)
    BY <1>1, <2>1, <2>3, Waiting
  <2> QED
    BY <1>3, <2>2, <2>3, <2>4
<1>6. Steady => ResultIn' /\ NothingInFront'
  <2> SUFFICES ASSUME Steady PROVE ResultIn' /\ NothingInFront'
    OBVIOUS
  <2>1. NothingInFront'
    BY <1>5 DEF NothingInFront
  <2>2. ASSUME NEW r \in {dec2exe.d.r1, dec2exe.d.r2} \ {0}, mem2wbk'.v, mem2wbk'.d.rd = r
        PROVE  mem2wbk'.d.class # "mul"
    <3>1. exe2mem.v /\ mem2wbk'.d = exe2mem.d
      BY <1>3, <2>2
    <3> QED
      BY <1>5, <2>2, <3>1 DEF ResultIn
  <2>3. ResultIn'
    BY <1>2, <1>5, <2>2 DEF ResultIn
  <2> QED
    BY <2>1, <2>3
<1>7. ASSUME Steady, Reading'
      PROVE  Reading /\ (exe2mem.v => dec2exe.d = nop)
  BY <1>2, <1>5, <1>7 DEF Reading, Started, NothingInFront
<1>8. ASSUME ~exe2mem.v, Steady
      PROVE  /\ from_mem1' = from_mem1 /\ from_wbk1' = from_wbk1
             /\ from_mem2' = from_mem2 /\ from_wbk2' = from_wbk2
  BY <1>2, <1>3, <1>5, <1>8 DEF from_mem1, from_wbk1, from_mem2, from_wbk2, Reads
<1>9. Held1'
  <2> SUFFICES ASSUME 1 \in mix.watched, Reading', ~from_mem1', ~from_wbk1'
               PROVE  dec2exe.d.op1 = dec2exe.d.want1
    BY <1>2 DEF Held1
  <2>1. Steady
    BY <1>1, TameMix
  <2>2. CASE exe2mem.v
    <3>1. dec2exe.d = nop
      BY <1>7, <2>1, <2>2
    <3> QED
      BY <3>1 DEF nop
  <2>3. CASE ~exe2mem.v
    BY <1>7, <1>8, <2>1, <2>3 DEF OperandsInv, Held1
  <2> QED
    BY <2>2, <2>3
<1>10. Held2'
  <2> SUFFICES ASSUME 2 \in mix.watched, Reading', ~from_mem2', ~from_wbk2'
               PROVE  dec2exe.d.op2 = dec2exe.d.want2
    BY <1>2 DEF Held2
  <2>1. Steady
    BY <1>1, TameMix
  <2>2. CASE exe2mem.v
    <3>1. dec2exe.d = nop
      BY <1>7, <2>1, <2>2
    <3> QED
      BY <3>1 DEF nop
  <2>3. CASE ~exe2mem.v
    BY <1>7, <1>8, <2>1, <2>3 DEF OperandsInv, Held2
  <2> QED
    BY <2>2, <2>3
<1> QED
  BY <1>4, <1>6, <1>9, <1>10

(* What DEC read of an instruction it pushes is right, or EXE will bypass  *)
(* it.                                                                     *)
LEMMA PushOperands ==
  ASSUME Tame, OperandsInv, Inv', mix' = mix, NEW stall \in mix.stalls, NEW done \in BOOLEAN,
         Cycle(stall, done), NEW kind \in mix.kinds,
         NEW rd \in Regs, NEW r1 \in Regs, NEW r2 \in Regs,
         Decode(kind, rd, r1, r2, EXE_POP(stall, done))
  PROVE  /\ Steady => ResultIn' /\ NothingInFront'
         /\ Wants' /\ Held1' /\ Held2'
         /\ dec2exe'.d.kind \in mix.kinds \cup {"alu"}
         /\ \E ok1, ok2 : /\ Use(EXE_POP(stall, done), ok1, ok2)
                          /\ 1 \in mix.watched => ok1
                          /\ 2 \in mix.watched => ok2
<1> DEFINE pop == EXE_POP(stall, done)
<1>1. TypeOK /\ Inv /\ stall \in BOOLEAN /\ pop \in BOOLEAN /\ kind \in AllKinds
  BY MixTyped, CycleEdge DEF OperandsInv, Inv, Mix
<1>2. PICK x1 \in ReadInDec(1, r1, kind), x2 \in ReadInDec(2, r2, kind), res \in BOOLEAN :
        Pushed(kind, rd, r1, r2, x1, x2, res, pop)
  BY <1>1, DecodeStep
<1>3. dec2exe.v => pop
  BY <1>1, DecodeStep
<1>4. BeforeExe' = arch
  BY <1>1, <1>3, DecodeOrder
<1>5. /\ dec2exe'.v
      /\ dec2exe'.d.kind = IF kind = "branch" THEN "alu" ELSE kind
      /\ dec2exe'.d.r1 = r1 /\ dec2exe'.d.r2 = r2
      /\ dec2exe'.d.op1 = inverted(kind, x1) /\ dec2exe'.d.op2 = x2
      /\ dec2exe'.d.want1 = inverted(kind, Wanted(1, r1)) /\ dec2exe'.d.want2 = Wanted(2, r2)
  BY <1>2 DEF Pushed, Item
<1>6. /\ MEM_POP(stall) => exe2mem.v /\ mem2wbk'.d = exe2mem.d
      /\ ~MEM_POP(stall) => ~mem2wbk'.v /\ mem2wbk'.d = mem2wbk.d
      /\ divider' = DIV_BUSY_SE(done)
      /\ pop => /\ dec2exe.v /\ exe2mem'.d.class = Class(dec2exe.d.kind)
                /\ exe2mem'.d.rd = dec2exe.d.rd
      /\ ~pop => exe2mem'.v = (exe2mem.v /\ ~MEM_POP(stall)) /\ exe2mem'.d = exe2mem.d
  BY <1>1, CycleEdge
<1>7. Steady => MEM_POP(stall) = exe2mem.v
  BY <1>1, Fields DEF Steady, MEM_POP
<1>8. \A r \in {r1, r2} :
        /\ kind \in {"branch", "jalr"} => r_valid_sd(r)
        /\ r # 0 =>
             /\ dec2exe.v /\ dec2exe.d.rd = r => pop /\ Class(dec2exe.d.kind) = "plain"
             /\ exe2mem.v /\ exe2mem.d.rd = r => exe2mem.d.class \in {"plain", "load"}
             /\ mem2wbk.v /\ mem2wbk.d.rd = r => mem2wbk.d.class # "mul"
        /\ ~r_valid_sd(r) =>
             /\ r # 0
             /\ \/ dec2exe.v /\ dec2exe.d.rd = r
                \/ exe2mem.v /\ exe2mem.d.rd = r /\ exe2mem.d.class = "load"
  BY <1>1, Unstalled
<1>9. ASSUME Steady
      PROVE  ResultIn' /\ NothingInFront'
  <2>1. ASSUME NEW r \in {r1, r2} \ {0}, exe2mem'.v, exe2mem'.d.rd = r
        PROVE  exe2mem'.d.class \notin {"load", "mul"}
    <3>1. pop /\ dec2exe.v /\ dec2exe.d.rd = r
      BY <1>6, <1>7, <1>9, <2>1
    <3> QED
      BY <1>6, <1>8, <3>1
  <2>2. ASSUME NEW r \in {r1, r2} \ {0}, mem2wbk'.v, mem2wbk'.d.rd = r
        PROVE  mem2wbk'.d.class # "mul"
    <3>1. exe2mem.v /\ mem2wbk'.d = exe2mem.d
      BY <1>6, <1>7, <1>9, <2>2
    <3> QED
      BY <1>8, <2>2, <3>1
  <2>3. ResultIn'
    BY <1>5, <2>1, <2>2 DEF ResultIn
  <2>4. NothingInFront'
    <3> SUFFICES ASSUME divider', exe2mem'.v PROVE FALSE
      BY DEF NothingInFront
    <3>1. pop
      BY <1>6, <1>7, <1>9
    <3> QED
      BY <1>6, <3>1 DEF EXE_POP, stall_se
  <2> QED
    BY <2>3, <2>4
<1>10. 1 \in mix.watched => Steady /\ kind # "csrrc"
  BY <1>1, TameMix
<1>11. 2 \in mix.watched => Steady
  BY <1>1, TameMix
<1>12. /\ 1 \in mix.watched => Wanted(1, r1) = arch[r1]
       /\ 2 \in mix.watched => Wanted(2, r2) = arch[r2]
  <2>1. arch[r1] \in BOOLEAN /\ arch[r2] \in BOOLEAN
    BY <1>1 DEF TypeOK, RegFile
  <2> QED
    BY <2>1 DEF Wanted
<1>13. Wants'
  BY <1>4, <1>5, <1>10, <1>12 DEF Wants, inverted
<1>14. ASSUME 1 \in mix.watched, r_valid_sd(r1)
       PROVE  x1 = arch[r1]
  BY <1>1, <1>10, <1>14, ReadRight DEF ReadInDec
<1>15. ASSUME 2 \in mix.watched, r_valid_sd(r2)
       PROVE  x2 = arch[r2]
  <2>1. kind # "csrrc"
    BY <1>1, <1>15, TameMix
  <2> QED
    BY <1>1, <1>15, <2>1, ReadRight DEF ReadInDec
<1>16. ASSUME Steady, NEW r \in {r1, r2}, ~r_valid_sd(r)
       PROVE  /\ r # 0
              /\ \/ exe2mem'.d.rd = r /\ exe2mem'.d.class = "plain"
                 \/ mem2wbk'.d.rd = r /\ mem2wbk'.d.class = "load"
  <2>1. r # 0
    BY <1>8, <1>16
  <2>2. CASE dec2exe.v /\ dec2exe.d.rd = r
    BY <1>6, <1>8, <2>1, <2>2
  <2>3. CASE exe2mem.v /\ exe2mem.d.rd = r /\ exe2mem.d.class = "load"
    BY <1>6, <1>7, <1>16, <2>1, <2>3
  <2> QED
    BY <1>8, <1>16, <2>1, <2>2, <2>3
<1>17. Held1'
  <2> SUFFICES ASSUME 1 \in mix.watched, Reading', ~from_mem1', ~from_wbk1'
               PROVE  dec2exe'.d.op1 = dec2exe'.d.want1
    BY DEF Held1
  <2>1. r_valid_sd(r1)
    <3> SUFFICES ASSUME ~r_valid_sd(r1) PROVE FALSE
      OBVIOUS
    <3>1. /\ r1 # 0 /\ dec2exe'.d.kind # "jalr"
          /\ \/ exe2mem'.d.rd = r1 /\ exe2mem'.d.class = "plain"
             \/ mem2wbk'.d.rd = r1 /\ mem2wbk'.d.class = "load"
      BY <1>10, <1>16 DEF Reading
    <3> QED
      BY <1>5, <3>1 DEF from_mem1, from_wbk1, Reads
  <2> QED
    BY <1>5, <1>10, <1>12, <1>14, <2>1 DEF inverted
<1>18. Held2'
  <2> SUFFICES ASSUME 2 \in mix.watched, Reading', ~from_mem2', ~from_wbk2'
               PROVE  dec2exe'.d.op2 = dec2exe'.d.want2
    BY DEF Held2
  <2>1. r_valid_sd(r2)
    <3> SUFFICES ASSUME ~r_valid_sd(r2) PROVE FALSE
      OBVIOUS
    <3>1. /\ r2 # 0 /\ dec2exe'.d.kind # "jalr"
          /\ \/ exe2mem'.d.rd = r2 /\ exe2mem'.d.class = "plain"
             \/ mem2wbk'.d.rd = r2 /\ mem2wbk'.d.class = "load"
      BY <1>11, <1>16 DEF Reading
    <3> QED
      BY <1>5, <3>1 DEF from_mem2, from_wbk2, Reads
  <2> QED
    BY <1>5, <1>12, <1>15, <2>1
<1>19. dec2exe'.d.kind \in mix.kinds \cup {"alu"}
  BY <1>5
<1>20. /\ Use(pop, kind \in {"branch", "jalr"} => x1 = Wanted(1, r1),
                   kind \in {"branch", "jalr"} => x2 = Wanted(2, r2))
       /\ 1 \in mix.watched => (kind \in {"branch", "jalr"} => x1 = Wanted(1, r1))
       /\ 2 \in mix.watched => (kind \in {"branch", "jalr"} => x2 = Wanted(2, r2))
  <2>1. Use(pop, kind \in {"branch", "jalr"} => x1 = Wanted(1, r1),
                 kind \in {"branch", "jalr"} => x2 = Wanted(2, r2))
    BY <1>2, Zenon DEF Pushed
  <2> QED
    BY <1>8, <1>12, <1>14, <1>15, <2>1
<1> QED
  BY <1>9, <1>13, <1>17, <1>18, <1>19, <1>20

(* One cycle leaves the operands right.                                    *)
LEMMA CycleOperands ==
  ASSUME Tame, OperandsInv, mix' = mix, NEW stall \in mix.stalls, NEW done \in BOOLEAN,
         Cycle(stall, done)
  PROVE  OperandsInv'
<1> DEFINE pop == EXE_POP(stall, done)
<1>1. TypeOK /\ Inv /\ stall \in BOOLEAN
  BY MixTyped DEF OperandsInv, Inv, Mix
<1>2. Inv' /\ GoneIsBehind' /\ GoneIsWritten'
  BY <1>1, CycleInv, GoneStep DEF OperandsInv
<1>3. /\ pop \in BOOLEAN
      /\ mem2wbk'.d \in {exe2mem.d, mem2wbk.d}
      /\ pop => dec2exe.v /\ exe2mem'.d.class = Class(dec2exe.d.kind)
      /\ ~pop => exe2mem'.d = exe2mem.d
  BY <1>1, CycleEdge
<1>4. ASSUME ExeReads(pop), 1 \in mix.watched
      PROVE  op1_se = dec2exe.d.want1
  <2>1. Reading
    BY <1>3, <1>4 DEF ExeReads, START_SE, Reading, Started
  <2>2. ResultIn
    BY <1>1, <1>4, TameMix DEF OperandsInv
  <2> QED
    BY <1>1, <1>4, <2>1, <2>2, Bypass1 DEF OperandsInv
<1>5. ASSUME ExeReads(pop), 2 \in mix.watched
      PROVE  op2_se = dec2exe.d.want2
  <2>1. Reading
    BY <1>3, <1>5 DEF ExeReads, START_SE, Reading, Started
  <2>2. ResultIn
    BY <1>1, <1>5, TameMix DEF OperandsInv
  <2> QED
    BY <1>1, <1>5, <2>1, <2>2, Bypass2 DEF OperandsInv
<1>6. ASSUME NEW ok1, NEW ok2, Use(pop, ok1, ok2),
             1 \in mix.watched => ok1, 2 \in mix.watched => ok2
      PROVE  Rs1InOrder' /\ Rs2InOrder'
  BY <1>4, <1>5, <1>6 DEF Use, Rs1InOrder, Rs2InOrder, OperandsInv
<1>7. /\ Steady => ResultIn' /\ NothingInFront'
      /\ Wants' /\ Held1' /\ Held2'
      /\ dec2exe'.d.kind \in mix.kinds \cup {"alu"}
      /\ Rs1InOrder' /\ Rs2InOrder'
  <2>1. CASE Bubble(pop)
    <3>1. dec2exe'.v = (dec2exe.v /\ ~pop) /\ dec2exe'.d = dec2exe.d
      BY <1>1, <1>3, <2>1, BubbleStep
    <3>2. Rs1InOrder' /\ Rs2InOrder'
      BY <1>6, <2>1 DEF Bubble
    <3>3. CASE dec2exe.v /\ ~pop
      BY <1>2, <2>1, <3>1, <3>2, <3>3, StayOperands DEF OperandsInv, KindsOfMix
    <3>4. CASE ~(dec2exe.v /\ ~pop)
      <4>1. ~dec2exe'.v
        BY <3>1, <3>4
      <4>2. ResultIn' /\ NothingInFront' /\ Wants' /\ Held1' /\ Held2'
        BY <4>1 DEF ResultIn, NothingInFront, Wants, Held1, Held2, Reading
      <4> QED
        BY <3>1, <3>2, <4>2 DEF OperandsInv, KindsOfMix
    <3> QED
      BY <3>3, <3>4
  <2>2. ASSUME NEW kind \in mix.kinds, NEW rd \in Regs, NEW r1 \in Regs, NEW r2 \in Regs,
               Decode(kind, rd, r1, r2, pop)
        PROVE  /\ Steady => ResultIn' /\ NothingInFront'
               /\ Wants' /\ Held1' /\ Held2'
               /\ dec2exe'.d.kind \in mix.kinds \cup {"alu"}
               /\ Rs1InOrder' /\ Rs2InOrder'
    <3>1. /\ Steady => ResultIn' /\ NothingInFront'
          /\ Wants' /\ Held1' /\ Held2'
          /\ dec2exe'.d.kind \in mix.kinds \cup {"alu"}
          /\ \E ok1, ok2 : /\ Use(pop, ok1, ok2)
                           /\ 1 \in mix.watched => ok1
                           /\ 2 \in mix.watched => ok2
      BY <1>2, <2>2, PushOperands
    <3> QED
      BY <1>6, <3>1
  <2> QED
    BY <2>1, <2>2 DEF Cycle
<1>8. KindsOfMix'
  <2>1. \A k \in mix.kinds \cup {"alu"} :
          /\ Class(k) = "mul" => "mul" \in mix.kinds
          /\ Class(k) = "csr" => "csr" \in mix.kinds \/ "csrrc" \in mix.kinds
    BY DEF Class
  <2> QED
    BY <1>3, <1>7, <2>1 DEF OperandsInv, KindsOfMix
<1> QED
  BY <1>2, <1>7, <1>8 DEF OperandsInv, Steady

LEMMA OperandsNext == Tame /\ OperandsInv /\ [Next]_vars => OperandsInv'
<1> SUFFICES ASSUME Tame, OperandsInv, [Next]_vars PROVE OperandsInv'
  OBVIOUS
<1>1. CASE Next
  <2>1. PICK stall \in mix.stalls, done \in BOOLEAN :
          Cycle(stall, done) \/ Exception(stall, done)
    BY <1>1 DEF Next
  <2>2. stall \in BOOLEAN /\ mix' = mix
    BY <1>1, MixTyped DEF OperandsInv, Inv, Mix, Next
  <2> QED
    BY <2>1, <2>2, CycleOperands, ExceptionOperands
<1>2. CASE UNCHANGED vars
  <2> USE <1>2 DEF vars
  <2>1. Inv'
    BY NextInv DEF OperandsInv
  <2>2. /\ GoneIsBehind' /\ GoneIsWritten' /\ KindsOfMix'
        /\ Rs1InOrder' /\ Rs2InOrder'
    BY DEF OperandsInv, GoneIsBehind, GoneIsWritten, KindsOfMix, Rs1InOrder, Rs2InOrder
  <2>3. Steady' = Steady /\ ResultIn' = ResultIn /\ NothingInFront' = NothingInFront
    BY DEF Steady, ResultIn, NothingInFront
  <2>4. Wants' = Wants
    BY DEF Wants, BeforeExe, After
  <2>5. Held1' = Held1 /\ Held2' = Held2
    BY DEF Held1, Held2, Reading, Started, from_mem1, from_wbk1, from_mem2, from_wbk2, Reads
  <2> QED
    BY <2>1, <2>2, <2>3, <2>4, <2>5 DEF OperandsInv
<1> QED
  BY <1>1, <1>2

(* Every rs1 that EXE, the divider or DEC (branches, JALR) uses is the one *)
(* of program order, for every set of registers and every tame mix.  Each  *)
(* exclusion of Tame is needed: with CSRRC, with multiplications, or with  *)
(* stalls of the data cache behind a load TLC finds a wrong rs1.           *)
THEOREM Rs1AlwaysInOrder == ASSUME Tame PROVE Spec => []Rs1InOrder
<1>1. OperandsInv /\ [Next]_vars => OperandsInv'
  BY OperandsNext
<1>2. OperandsInv => Rs1InOrder
  BY DEF OperandsInv
<1> QED
  BY <1>1, <1>2, OperandsInit, PTL DEF Spec

(* The same of rs2, which a store sends to memory; multiplications are in  *)
(* here, CSR instructions are not: EXE takes MEM_RES_RM for their value.    *)
THEOREM Rs2AlwaysInOrder == ASSUME Tame PROVE Spec => []Rs2InOrder
<1>1. OperandsInv /\ [Next]_vars => OperandsInv'
  BY OperandsNext
<1>2. OperandsInv => Rs2InOrder
  BY DEF OperandsInv
<1> QED
  BY <1>1, <1>2, OperandsInit, PTL DEF Spec
=============================================================================
