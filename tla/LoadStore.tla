------------------------------ MODULE LoadStore ------------------------------
(***************************************************************************)
(* Loads and stores of bytes, half-words and words: EXE's alignment check, *)
(* MEM's shifting and masking before and after the access                  *)
(* (mem::mem_preprocess, mem::sign_extend), and the memory of the test     *)
(* bench, which is made of words.  One step is one access; x is the        *)
(* register it loads or stores.                                            *)
(***************************************************************************)
EXTENDS Bits

CONSTANTS Adr,      \* byte addresses of the memory, whole words
          Narrow    \* where programs load bytes and half-words from

B == W \div 4

ASSUME LoadStoreAssumption == /\ W = 4 * B
                              /\ Adr \subseteq Nat /\ Narrow \subseteq Adr
                              /\ \A a \in Adr : (a - (a % 4))..(a - (a % 4)) + 3 \subseteq Adr

VARIABLES ram, x

vars == <<ram, x>>

WordAdr == {a \in Adr : a % 4 = 0}
Sizes == {"byte", "half", "word"}         \* MEM_SIZE: 2, 1, 0

Init == ram \in [WordAdr -> {{}}] /\ x \in Word

-----------------------------------------------------------------------------
(* select_exec_res: an unaligned access is an exception, which takes its   *)
(* load or store away before MEM.                                          *)
Faulty_missaligned(size, a) == size = "word" /\ a % 4 # 0

missaligned(size, a) == \/ size = "word" /\ a % 4 # 0
                        \/ size = "half" /\ a % 2 # 0

range_size(size) == CASE size = "byte" -> B - 1
                      [] size = "half" -> 2 * B - 1
                      [] size = "word" -> W - 1

range_end(start, size) == Min({W - 1, start + range_size(size)})

(* mem_preprocess: the data go to their place in the word.  sign_extend    *)
(* may be anything: DEC leaves what the last load put there.               *)
MCACHE_DATA_SM(size, a, sign_extend) ==
  LET start == B * (a % 4)
      end   == range_end(start, size)
      fill  == IF sign_extend /\ end \in x THEN Bit ELSE {}
  IN (fill \ (start..end)) \cup (Placed(Slice(x, range_size(size), 0), start) \cap (start..end))

(* The memory keeps the bits of the word the access does not name.         *)
Faulty_temporary_value(old, data, size, a) ==
  IF size # "byte"
  THEN data
  ELSE LET mask == B * (a % 4) .. range_end(B * (a % 4), size)
       IN (old \ mask) \cup (data \cap mask)

temporary_value(old, data, size, a) ==
  IF size = "word"
  THEN data
  ELSE LET mask == B * (a % 4) .. range_end(B * (a % 4), size)
       IN (old \ mask) \cup (data \cap mask)

(* sign_extend: the bits the register gets out of the word.                *)
Faulty_dout(din, size, a, sign_extend) ==
  LET low == range_size(size)
  IN Slice(din, low + B * (a % 4), B * (a % 4))
       \cup IF sign_extend /\ low \in din THEN low+1..W-1 ELSE {}

dout(din, size, a, sign_extend) ==
  LET start == IF a % 8 < 4 THEN B * (a % 8) ELSE 0
      end   == range_end(start, size)
      fill  == IF sign_extend /\ end \in din THEN Bit ELSE {}
  IN (fill \ (0..range_size(size))) \cup Slice(din, end, start)

Aligned(a) == a - (a % 4)

Store(size, a, sign_extend) ==
  /\ ~missaligned(size, a)
  /\ UNCHANGED x
  /\ ram' = [ram EXCEPT ![Aligned(a)] =
               temporary_value(@, MCACHE_DATA_SM(size, a, sign_extend), size, a)]

Load(size, a, sign_extend) ==
  /\ ~missaligned(size, a)
  /\ size # "word" => a \in Narrow
  /\ size = "word" => ~sign_extend
  /\ UNCHANGED ram
  /\ x' = dout(ram[Aligned(a)], size, a, sign_extend)

(* Any other instruction: MEM passes EXE's result on.                      *)
Compute == UNCHANGED ram /\ x' \in Word

(* select_exec_res is not sensitive to MEM_SIZE_RD (exec.h:213-215): it    *)
(* need not run for an access behind another of its kind at the same       *)
(* address, lw x2, 2(x0) behind lh x1, 2(x0), and the older verdict lets   *)
(* the access pass.  Which access came before is left open, and so is what *)
(* a store then makes of its word; a load's register is Compute's.         *)
Misaligned == {Aligned(a) : a \in {b \in Adr : \E size \in Sizes : missaligned(size, b)}}

Unchecked == /\ UNCHANGED x
             /\ \E b \in Misaligned, w \in Word : ram' = [ram EXCEPT ![b] = w]

Next == \/ \E size \in Sizes, a \in Adr, sign_extend \in BOOLEAN :
              Store(size, a, sign_extend) \/ Load(size, a, sign_extend)
        \/ Unchecked
        \/ Compute

Spec == Init /\ [][Next]_vars

-----------------------------------------------------------------------------
ValueOf == [w \in Word |-> Value(w)]

ByteAt(a) == Slice(ram[Aligned(a)], B * (a % 4) + B - 1, B * (a % 4))

Memory == INSTANCE ByteMemory WITH bytes <- [a \in Adr |-> ValueOf[ByteAt(a)]],
                                   reg   <- ValueOf[x]

(* Every access the check has let through does to the bytes of memory what *)
(* the same access does in ByteMemory: a store changes its own bytes and   *)
(* no others, a load gives the bytes at its own address, extended as asked *)
(* (mem::mem_preprocess, mem::sign_extend).                                *)
AsBytes ==
  Memory!BInit /\ [][\A size \in Sizes, a \in Adr, signed \in BOOLEAN :
                      /\ Load(size, a, signed) => Memory!LoadBytes(size, a, signed)
                      /\ Store(size, a, signed) => Memory!StoreBytes(size, a)]_vars
=============================================================================
