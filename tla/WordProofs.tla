------------------------------ MODULE WordProofs ------------------------------
(***************************************************************************)
(* Arithmetic for words of every width: what the ones of a word are worth, *)
(* and with it EXE's and DEC's results and those of the mini core, loads   *)
(* and stores as accesses to bytes, the multiplier's tree of adders, the   *)
(* divider, and the instructions both decoders read out of their words.    *)
(*                                                                         *)
(* The divider's Width and its Numbers, the operands as numbers, are its   *)
(* own: nothing relates them to the W of the data path but that the core   *)
(* has 32 for both.                                                        *)
(***************************************************************************)
EXTENDS Datapath, Divider, Decode, FiniteSetTheorems, WellFoundedInduction, TLAPS

-----------------------------------------------------------------------------
(* Induction on the natural numbers, for the set of those that have a      *)
(* property.                                                               *)
LEMMA SetInduction ==
  ASSUME NEW S, 0 \in S, \A n \in Nat : n \in S => n + 1 \in S
  PROVE  Nat \subseteq S
<1> DEFINE T == Nat \ S
<1>1. SUFFICES ASSUME T # {} PROVE FALSE
  OBVIOUS
<1>2. PICK m \in T : \A y \in T : ~ (<<y, m>> \in OpToRel(<, Nat))
  <2>1. T \subseteq Nat
    OBVIOUS
  <2>2. QED
    BY <1>1, <2>1, NatLessThanWellFounded, WFMin
<1>3. m # 0 /\ m - 1 \in Nat /\ m - 1 < m /\ m - 1 + 1 = m
  OBVIOUS
<1>4. m - 1 \in T
  BY <1>3
<1>5. <<m - 1, m>> \in OpToRel(<, Nat)
  BY <1>3 DEF OpToRel
<1>6. QED
  BY <1>2, <1>4, <1>5

(* A power of two is a positive natural number: subsets are counted by     *)
(* one.                                                                    *)
LEMMA PowerNat == ASSUME NEW n \in Nat PROVE 2^n \in Nat /\ 2^n >= 1
<1>1. IsFiniteSet(1..n) /\ Cardinality(1..n) = n
  BY FS_Interval
<1>2. IsFiniteSet(SUBSET (1..n)) /\ Cardinality(SUBSET (1..n)) = 2^n
  BY <1>1, FS_SUBSET
<1>3. SUBSET (1..n) # {}
  OBVIOUS
<1>4. Cardinality(SUBSET (1..n)) \in Nat
  BY <1>2, FS_CardinalityType
<1>5. Cardinality(SUBSET (1..n)) # 0
  BY <1>2, <1>3, FS_EmptySet
<1>6. QED
  BY <1>2, <1>4, <1>5

(* Each further bit doubles the number of words.                           *)
LEMMA PowerStep == ASSUME NEW n \in Nat PROVE 2^(n + 1) = 2 * 2^n
<1> DEFINE A == SUBSET (1..n)
           C == {T \cup {n + 1} : T \in A}
<1>1. IsFiniteSet(1..n) /\ Cardinality(1..n) = n
      /\ IsFiniteSet(1..n+1) /\ Cardinality(1..n+1) = n + 1
  BY FS_Interval
<1>2. /\ IsFiniteSet(A) /\ Cardinality(A) = 2^n
      /\ IsFiniteSet(SUBSET (1..n+1)) /\ Cardinality(SUBSET (1..n+1)) = 2^(n+1)
  BY <1>1, FS_SUBSET
<1>3. SUBSET (1..n+1) = A \cup C /\ A \cap C = {}
  <2>1. ASSUME NEW T \in SUBSET (1..n+1), n + 1 \notin T PROVE T \in A
    BY <2>1
  <2>2. ASSUME NEW T \in SUBSET (1..n+1), n + 1 \in T PROVE T \in C
    <3>1. T \ {n + 1} \in A /\ T = (T \ {n + 1}) \cup {n + 1}
      BY <2>2
    <3>2. QED
      BY <3>1
  <2>3. A \subseteq SUBSET (1..n+1) /\ C \subseteq SUBSET (1..n+1)
    <3>1. 1..n \subseteq 1..n+1 /\ n + 1 \in 1..n+1
      OBVIOUS
    <3>2. QED
      BY <3>1
  <2>4. A \cap C = {}
    OBVIOUS
  <2>5. QED
    BY <2>1, <2>2, <2>3, <2>4
<1>4. ExistsBijection(A, C)
  <2> DEFINE f == [T \in A |-> T \cup {n + 1}]
  <2>1. f \in [A -> C]
    OBVIOUS
  <2>2. ASSUME NEW T \in A, NEW U \in A, f[T] = f[U] PROVE T = U
    BY <2>2
  <2>3. \A c \in C : \E T \in A : f[T] = c
    OBVIOUS
  <2>4. QED
    BY <2>1, <2>2, <2>3 DEF ExistsBijection, Bijection, Injection, IsInjective, Surjection
<1>5. IsFiniteSet(C) /\ Cardinality(C) = 2^n
  BY <1>2, <1>4, FS_Bijection
<1>6. 2^(n + 1) = Cardinality(A) + Cardinality(C) - Cardinality(A \cap C)
  BY <1>2, <1>3, <1>5, FS_Union
<1>7. Cardinality(A \cap C) = 0
  BY <1>3, FS_EmptySet
<1>8. QED
  BY <1>2, <1>5, <1>6, <1>7, PowerNat

(* f is the sum of the powers of two at the positions of a set, one        *)
(* position after another in any order.                                    *)
SumsUp(f, T) ==
  /\ f \in [SUBSET T -> Nat]
  /\ f[{}] = 0
  /\ \A s \in SUBSET T : \A k \in s : f[s] = 2^k + f[s \ {k}]

(* Such a function exists for the subsets of any interval of positions.    *)
LEMMA SumExists == \A n \in Nat : \E f : SumsUp(f, 0..n-1)
<1> DEFINE S == {n \in Nat : \E f : SumsUp(f, 0..n-1)}
<1>1. 0 \in S
  <2>1. 0..0-1 = {}
    OBVIOUS
  <2>2. SumsUp([s \in SUBSET {} |-> 0], {})
    BY DEF SumsUp
  <2>3. QED
    BY <2>1, <2>2
<1>2. ASSUME NEW n \in Nat, n \in S PROVE n + 1 \in S
  <2>1. PICK f : SumsUp(f, 0..n-1)
    BY <1>2
  <2> DEFINE g == [s \in SUBSET (0..n+1-1) |-> f[s \ {n}] + IF n \in s THEN 2^n ELSE 0]
  <2>2. \A s \in SUBSET (0..n+1-1) : s \ {n} \in SUBSET (0..n-1)
    OBVIOUS
  <2>3. g \in [SUBSET (0..n+1-1) -> Nat]
    BY <2>1, <2>2, PowerNat DEF SumsUp
  <2>4. g[{}] = 0
    BY <2>1 DEF SumsUp
  <2>5. ASSUME NEW s \in SUBSET (0..n+1-1), NEW k \in s
        PROVE  g[s] = 2^k + g[s \ {k}]
    <3>1. s \ {k} \in SUBSET (0..n+1-1) /\ k \in Nat
      OBVIOUS
    <3>2. f[s \ {n}] \in Nat /\ f[(s \ {k}) \ {n}] \in Nat /\ 2^n \in Nat /\ 2^k \in Nat
      BY <2>1, <2>2, <3>1, PowerNat DEF SumsUp
    <3>3. g[s] = f[s \ {n}] + (IF n \in s THEN 2^n ELSE 0)
          /\ g[s \ {k}] = f[(s \ {k}) \ {n}] + (IF n \in s \ {k} THEN 2^n ELSE 0)
      BY <3>1
    <3>4. CASE k = n
      <4>1. (s \ {k}) \ {n} = s \ {n}
        BY <3>4
      <4>2. QED
        BY <3>2, <3>3, <3>4, <4>1
    <3>5. CASE k # n
      <4>1. (s \ {k}) \ {n} = (s \ {n}) \ {k} /\ k \in s \ {n} /\ (n \in s <=> n \in s \ {k})
        BY <3>5
      <4>2. f[s \ {n}] = 2^k + f[(s \ {n}) \ {k}]
        BY <2>1, <2>2, <4>1 DEF SumsUp
      <4> HIDE DEF g
      <4>3. QED
        BY <3>2, <3>3, <4>1, <4>2
    <3>6. QED
      BY <3>4, <3>5
  <2>6. SumsUp(g, 0..n+1-1)
    BY <2>3, <2>4, <2>5 DEF SumsUp
  <2>7. QED
    BY <2>6
<1> HIDE DEF S
<1>3. Nat \subseteq S
  BY <1>1, <1>2, SetInduction
<1>4. QED
  BY <1>3 DEF S

(* Value, which takes the positions in the order CHOOSE gives them, is     *)
(* that sum.                                                               *)
LEMMA ValueIsSum ==
  ASSUME NEW n \in Nat, NEW a \in SUBSET (0..n-1), NEW f, SumsUp(f, 0..n-1)
  PROVE  Value(a) = f[a]
<1> DEFINE First(s) == CHOOSE k \in s : TRUE
           Iter(it) == it = [s \in SUBSET a |-> IF s = {} THEN 0
                                        ELSE 2^First(s) + it[s \ {First(s)}]]
           iter == CHOOSE it : Iter(it)
           g == [s \in SUBSET a |-> f[s]]
<1>1. Value(a) = iter[a]
  BY Zenon DEF Value, MapThenSumSet, MapThenFoldSet
<1>2. \A s \in SUBSET a : s # {} => First(s) \in s
  OBVIOUS
<1> HIDE DEF First
<1>3. Iter(g)
  <2>1. \A s \in SUBSET a : s \in SUBSET (0..n-1)
    OBVIOUS
  <2>2. ASSUME NEW s \in SUBSET a
        PROVE  g[s] = IF s = {} THEN 0 ELSE 2^First(s) + g[s \ {First(s)}]
    <3>1. CASE s = {}
      BY <3>1 DEF SumsUp
    <3>2. CASE s # {}
      BY <1>2, <2>1, <3>2 DEF SumsUp
    <3>3. QED
      BY <3>1, <3>2
  <2>3. QED
    BY <2>2
<1>4. Iter(iter)
  BY <1>3
<1> HIDE DEF iter
<1>5. ASSUME iter[a] # f[a] PROVE FALSE
  <2> DEFINE D == {s \in SUBSET a : iter[s] # f[s]}
  <2>1. IsFiniteSet(a)
    <3>1. IsFiniteSet(0..n-1)
      BY FS_Interval
    <3>2. QED
      BY <3>1, FS_Subset
  <2>2. D \subseteq FiniteSubsetsOf(a) /\ D # {}
    BY <1>5, <2>1, FS_Subset DEF FiniteSubsetsOf
  <2>3. PICK s \in D : \A t \in D : ~ (<<t, s>> \in StrictSubsetOrdering(a))
    BY <2>2, FS_StrictSubsetOrderingWellFounded, WFMin
  <2>4. s # {}
    <3>1. iter[{}] = 0 /\ f[{}] = 0
      BY <1>4 DEF SumsUp
    <3>2. QED
      BY <3>1
  <2>5. First(s) \in s /\ s \ {First(s)} \in SUBSET a
    BY <1>2, <2>4
  <2>6. <<s \ {First(s)}, s>> \in StrictSubsetOrdering(a)
    BY <2>5 DEF StrictSubsetOrdering
  <2>7. iter[s \ {First(s)}] = f[s \ {First(s)}]
    BY <2>3, <2>5, <2>6
  <2>8. iter[s] = 2^First(s) + iter[s \ {First(s)}]
    BY <1>4, <2>4
  <2>9. f[s] = 2^First(s) + f[s \ {First(s)}]
    BY <2>5 DEF SumsUp
  <2>10. QED
    BY <2>7, <2>8, <2>9
<1>6. QED
  BY <1>1, <1>5

(* The facts about Value everything else rests on: it is a natural number, *)
(* and each position contributes its power of two.                         *)
LEMMA ValueFacts ==
  ASSUME NEW n \in Nat, NEW a \in SUBSET (0..n-1)
  PROVE  /\ Value(a) \in Nat
         /\ \A k \in a : Value(a) = 2^k + Value(a \ {k})
<1>1. PICK f : SumsUp(f, 0..n-1)
  BY SumExists
<1>2. Value(a) = f[a] /\ \A k \in a : Value(a \ {k}) = f[a \ {k}]
  BY <1>1, ValueIsSum
<1>3. QED
  BY <1>1, <1>2 DEF SumsUp

(* What division with remainder by a positive number returns.              *)
LEMMA DivMod ==
  ASSUME NEW n \in Int, NEW p \in Nat \ {0}
  PROVE  /\ n \div p \in Int /\ n % p \in 0..p-1
         /\ n = p * (n \div p) + (n % p)
         /\ n >= 0 => n \div p \in Nat
  OBVIOUS

(* q and r are the quotient and the remainder of n by p.                   *)
IsDivision(n, p, q, r) ==
  /\ n \in Int /\ p \in Nat \ {0} /\ q \in Int /\ r \in 0..p-1
  /\ n = p * q + r

(* There is one quotient and one remainder.                                *)
LEMMA DivModUnique ==
  ASSUME NEW n, NEW p, NEW q, NEW r, IsDivision(n, p, q, r)
  PROVE  n \div p = q /\ n % p = r
  BY DEF IsDivision

(* No ones: zero.                                                          *)
LEMMA ValueEmpty == Value({}) = 0
<1>1. PICK f : SumsUp(f, 0..0-1)
  BY SumExists
<1>2. Value({}) = f[{}]
  BY <1>1, ValueIsSum
<1>3. QED
  BY <1>1, <1>2 DEF SumsUp

(* Splitting the top position off.                                         *)
LEMMA ValueTop ==
  ASSUME NEW n \in Nat, NEW a \in SUBSET (0..n)
  PROVE  /\ a \ {n} \in SUBSET (0..n-1)
         /\ Value(a) \in Nat /\ Value(a \ {n}) \in Nat
         /\ Value(a) = Value(a \ {n}) + IF n \in a THEN 2^n ELSE 0
<1>1. a \in SUBSET (0..(n+1)-1) /\ n + 1 \in Nat /\ a \ {n} \in SUBSET (0..n-1)
  OBVIOUS
<1>2. Value(a) \in Nat /\ Value(a \ {n}) \in Nat /\ \A k \in a : Value(a) = 2^k + Value(a \ {k})
  BY <1>1, ValueFacts
<1>3. n \notin a => a \ {n} = a
  OBVIOUS
<1>4. 2^n \in Nat
  BY PowerNat
<1>5. QED
  BY <1>1, <1>2, <1>3, <1>4

(* n positions hold numbers below 2^n.                                     *)
LEMMA ValueBound == \A n \in Nat : \A a \in SUBSET (0..n-1) : Value(a) < 2^n
<1> DEFINE S == {n \in Nat : \A a \in SUBSET (0..n-1) : Value(a) < 2^n}
<1>1. 0 \in S
  <2>1. SUFFICES ASSUME NEW a \in SUBSET (0..0-1) PROVE Value(a) < 2^0
    OBVIOUS
  <2>2. a = {} /\ 2^0 = 1
    OBVIOUS
  <2>3. QED
    BY <2>2, ValueEmpty
<1>2. ASSUME NEW n \in Nat, n \in S PROVE n + 1 \in S
  <2>1. SUFFICES ASSUME NEW a \in SUBSET (0..(n+1)-1) PROVE Value(a) < 2^(n+1)
    OBVIOUS
  <2>2. a \in SUBSET (0..n)
    OBVIOUS
  <2>3. Value(a \ {n}) < 2^n
    BY <1>2, <2>2, ValueTop
  <2>4. QED
    BY <2>2, <2>3, ValueTop, PowerNat, PowerStep
<1> HIDE DEF S
<1>3. Nat \subseteq S
  BY <1>1, <1>2, SetInduction
<1>4. QED
  BY <1>3 DEF S

(* The value of positions none of which is taken twice is the sum.         *)
LEMMA ValueUnion ==
  \A n \in Nat : \A a, b \in SUBSET (0..n-1) :
    a \cap b = {} => Value(a \cup b) = Value(a) + Value(b)
<1> DEFINE S == {n \in Nat : \A a, b \in SUBSET (0..n-1) :
                               a \cap b = {} => Value(a \cup b) = Value(a) + Value(b)}
<1>1. 0 \in S
  <2>1. SUFFICES ASSUME NEW a \in SUBSET (0..0-1), NEW b \in SUBSET (0..0-1)
                 PROVE  Value(a \cup b) = Value(a) + Value(b)
    OBVIOUS
  <2>2. a = {} /\ b = {} /\ a \cup b = {}
    OBVIOUS
  <2>3. QED
    BY <2>2, ValueEmpty
<1>2. ASSUME NEW n \in Nat, n \in S PROVE n + 1 \in S
  <2>1. SUFFICES ASSUME NEW a \in SUBSET (0..(n+1)-1), NEW b \in SUBSET (0..(n+1)-1), a \cap b = {}
                 PROVE  Value(a \cup b) = Value(a) + Value(b)
    OBVIOUS
  <2>2. a \in SUBSET (0..n) /\ b \in SUBSET (0..n) /\ a \cup b \in SUBSET (0..n)
    OBVIOUS
  <2>3. Value((a \ {n}) \cup (b \ {n})) = Value(a \ {n}) + Value(b \ {n})
    <3>1. a \ {n} \in SUBSET (0..n-1) /\ b \ {n} \in SUBSET (0..n-1) /\ (a \ {n}) \cap (b \ {n}) = {}
      BY <2>1
    <3>2. QED
      BY <1>2, <3>1
  <2>4. (a \cup b) \ {n} = (a \ {n}) \cup (b \ {n})
    OBVIOUS
  <2>5. 2^n \in Nat
    BY PowerNat
  <2>6. QED
    BY <2>1, <2>2, <2>3, <2>4, <2>5, ValueTop
<1> HIDE DEF S
<1>3. Nat \subseteq S
  BY <1>1, <1>2, SetInduction
<1>4. QED
  BY <1>3 DEF S

(* The power of a sum of exponents is the product of the powers.           *)
LEMMA PowerSum == \A m, n \in Nat : 2^(m + n) = 2^m * 2^n
<1> TAKE m \in Nat
<1> DEFINE S == {n \in Nat : 2^(m + n) = 2^m * 2^n}
<1>1. 0 \in S
  <2>1. 2^0 = 1 /\ m + 0 = m /\ 2^m \in Nat
    BY PowerNat
  <2>2. QED
    BY <2>1
<1>2. ASSUME NEW n \in Nat, n \in S PROVE n + 1 \in S
  <2>1. 2^((m + n) + 1) = 2 * 2^(m + n) /\ 2^(n + 1) = 2 * 2^n
    BY PowerStep
  <2>2. m + (n + 1) = (m + n) + 1 /\ 2^m \in Nat /\ 2^n \in Nat
    BY PowerNat
  <2>3. 2^(m + n) = 2^m * 2^n
    BY <1>2
  <2>4. 2 * (2^m * 2^n) = 2^m * (2 * 2^n)
    BY <2>2
  <2>5. QED
    BY <2>1, <2>2, <2>3, <2>4
<1> HIDE DEF S
<1>3. Nat \subseteq S
  BY <1>1, <1>2, SetInduction
<1>4. QED
  BY <1>3 DEF S

(* Moving the positions up multiplies.                                     *)
LEMMA ValuePlaced ==
  ASSUME NEW m \in Nat
  PROVE  \A n \in Nat : \A a \in SUBSET (0..n-1) : Value(Placed(a, m)) = 2^m * Value(a)
<1> DEFINE S == {n \in Nat : \A a \in SUBSET (0..n-1) : Value(Placed(a, m)) = 2^m * Value(a)}
<1>1. 0 \in S
  <2>1. SUFFICES ASSUME NEW a \in SUBSET (0..0-1) PROVE Value(Placed(a, m)) = 2^m * Value(a)
    OBVIOUS
  <2>2. a = {} /\ Placed({}, m) = {} /\ 2^m \in Nat
    BY PowerNat DEF Placed
  <2>3. QED
    BY <2>2, ValueEmpty
<1>2. ASSUME NEW n \in Nat, n \in S PROVE n + 1 \in S
  <2>1. SUFFICES ASSUME NEW a \in SUBSET (0..(n+1)-1)
                 PROVE  Value(Placed(a, m)) = 2^m * Value(a)
    OBVIOUS
  <2>2. a \in SUBSET (0..n) /\ Placed(a, m) \in SUBSET (0..n+m)
    BY DEF Placed
  <2>3. Placed(a, m) \ {n + m} = Placed(a \ {n}, m) /\ (n + m \in Placed(a, m) <=> n \in a)
    BY DEF Placed
  <2>4. a \ {n} \in SUBSET (0..n-1) /\ n + m \in Nat
    OBVIOUS
  <2>5. Value(Placed(a \ {n}, m)) = 2^m * Value(a \ {n})
    BY <1>2, <2>4
  <2>6. Value(Placed(a, m)) = 2^m * Value(a \ {n}) + IF n \in a THEN 2^(n + m) ELSE 0
    <3>1. Value(Placed(a, m)) = Value(Placed(a, m) \ {n + m})
                                  + IF n + m \in Placed(a, m) THEN 2^(n + m) ELSE 0
      BY <2>2, <2>4, ValueTop
    <3>2. QED
      BY <2>3, <2>5, <3>1
  <2>7. 2^(n + m) = 2^m * 2^n /\ 2^n \in Nat /\ 2^m \in Nat
    <3>1. n + m = m + n
      OBVIOUS
    <3>2. QED
      BY <3>1, PowerSum, PowerNat
  <2>8. Value(a) = Value(a \ {n}) + (IF n \in a THEN 2^n ELSE 0) /\ Value(a \ {n}) \in Nat
    BY <2>2, ValueTop
  <2>9. QED
    BY <2>6, <2>7, <2>8
<1> HIDE DEF S
<1>3. Nat \subseteq S
  BY <1>1, <1>2, SetInduction
<1>4. QED
  BY <1>3 DEF S

(* The low bits are the remainder, the high bits the quotient.             *)
LEMMA ValueSplit ==
  ASSUME NEW n \in Nat, NEW a \in SUBSET (0..n-1), NEW m \in Nat
  PROVE  /\ Value(a \cap (0..m-1)) = Value(a) % 2^m
         /\ Value({k \in 0..n-1 : k + m \in a}) = Value(a) \div 2^m
<1> DEFINE low  == a \cap (0..m-1)
           high == {k \in 0..n-1 : k + m \in a}
<1>1. low \in SUBSET (0..n-1) /\ low \in SUBSET (0..m-1) /\ high \in SUBSET (0..n-1)
  OBVIOUS
<1>2. a = low \cup Placed(high, m) /\ low \cap Placed(high, m) = {} /\ Placed(high, m) \in SUBSET (0..n-1)
  <2>1. ASSUME NEW k \in a, k \notin low PROVE k \in Placed(high, m)
    <3>1. k - m \in high /\ k = (k - m) + m
      BY <2>1
    <3>2. QED
      BY <3>1 DEF Placed
  <2>2. ASSUME NEW k \in Placed(high, m) PROVE k \in a /\ k \notin low
    BY DEF Placed
  <2>3. QED
    BY <2>1, <2>2
<1> HIDE DEF low, high
<1>3. Value(a) = Value(low) + Value(Placed(high, m))
  BY <1>1, <1>2, ValueUnion
<1>4. Value(Placed(high, m)) = 2^m * Value(high)
  BY <1>1, ValuePlaced
<1>5. Value(low) \in Nat /\ Value(low) < 2^m /\ Value(high) \in Nat /\ 2^m \in Nat \ {0} /\ Value(a) \in Nat
  <2>1. Value(low) < 2^m
    BY <1>1, ValueBound
  <2>2. Value(low) \in Nat /\ Value(high) \in Nat /\ Value(a) \in Nat
    BY <1>1, ValueFacts
  <2>3. QED
    BY <2>1, <2>2, PowerNat
<1>6. Value(low) \in 0..2^m - 1 /\ Value(a) = 2^m * Value(high) + Value(low)
  BY <1>3, <1>4, <1>5
<1>7. Value(a) \div 2^m = Value(high) /\ Value(a) % 2^m = Value(low)
  <2>1. IsDivision(Value(a), 2^m, Value(high), Value(low))
    BY <1>5, <1>6 DEF IsDivision
  <2>2. QED
    BY <2>1, DivModUnique
<1>8. QED
  BY <1>7 DEF low, high

(* n ones are 2^n - 1.                                                     *)
LEMMA ValueInterval ==
  \A n \in Nat : Value(0..n-1) = 2^n - 1
<1> DEFINE S == {n \in Nat : Value(0..n-1) = 2^n - 1}
<1>1. 0 \in S
  <2>1. 0..0-1 = {} /\ 2^0 = 1
    OBVIOUS
  <2>2. QED
    BY <2>1, ValueEmpty
<1>2. ASSUME NEW n \in Nat, n \in S PROVE n + 1 \in S
  <2>1. (0..(n+1)-1) \ {n} = 0..n-1 /\ n \in 0..(n+1)-1 /\ 0..(n+1)-1 \in SUBSET (0..n)
    OBVIOUS
  <2>2. Value(0..(n+1)-1) = Value(0..n-1) + 2^n
    BY <2>1, ValueTop
  <2>3. QED
    BY <1>2, <2>2, PowerNat, PowerStep
<1> HIDE DEF S
<1>3. Nat \subseteq S
  BY <1>1, <1>2, SetInduction
<1>4. QED
  BY <1>3 DEF S

(* The ones of a number's binary digits below n are the number modulo 2^n: *)
(* converting a number to sc_uint<n> drops what goes beyond.               *)
LEMMA ValueOfOnes ==
  ASSUME NEW v \in Nat
  PROVE  \A n \in Nat : Value({k \in 0..n-1 : (v \div 2^k) % 2 = 1}) = v % 2^n
<1> DEFINE Ones(n) == {k \in 0..n-1 : (v \div 2^k) % 2 = 1}
           S == {n \in Nat : Value(Ones(n)) = v % 2^n}
<1>1. 0 \in S
  <2>1. Ones(0) = {} /\ 2^0 = 1 /\ v % 1 = 0
    OBVIOUS
  <2>2. QED
    BY <2>1, ValueEmpty
<1>2. ASSUME NEW n \in Nat, n \in S PROVE n + 1 \in S
  <2>1. /\ Ones(n + 1) \in SUBSET (0..n) /\ Ones(n + 1) \ {n} = Ones(n)
        /\ n \in Ones(n + 1) <=> (v \div 2^n) % 2 = 1
    OBVIOUS
  <2> HIDE DEF Ones
  <2>2. Value(Ones(n + 1)) = (v % 2^n) + IF (v \div 2^n) % 2 = 1 THEN 2^n ELSE 0
    BY <1>2, <2>1, ValueTop
  <2>3. 2^n \in Nat \ {0} /\ 2^(n + 1) = 2 * 2^n
    BY PowerNat, PowerStep
  <2>4. ASSUME NEW p \in Nat \ {0}
        PROVE  v % (2 * p) = (v % p) + IF (v \div p) % 2 = 1 THEN p ELSE 0
    <3> DEFINE q == v \div p
               r == v % p
               h == q \div 2
               e == q % 2
    <3>1. v = p * q + r /\ r \in 0..p-1 /\ q \in Nat
      <4>1. v \in Int /\ v >= 0
        OBVIOUS
      <4>2. QED
        BY <4>1, DivMod, Zenon
    <3>2. q = 2 * h + e /\ e \in 0..1 /\ h \in Nat
      <4> HIDE DEF q
      <4>1. QED
        BY <3>1, DivMod
    <3> HIDE DEF q, r, h, e
    <3>3. v = (2 * p) * h + (p * e + r)
      BY <3>1, <3>2
    <3>4. p * e + r = (IF e = 1 THEN p ELSE 0) + r
      BY <3>1, <3>2
    <3>5. p * e + r \in 0..(2 * p) - 1
      BY <3>1, <3>2, <3>4
    <3>6. v % (2 * p) = p * e + r
      <4>1. IsDivision(v, 2 * p, h, p * e + r)
        BY <3>2, <3>3, <3>5 DEF IsDivision
      <4>2. QED
        BY <4>1, DivModUnique
    <3>7. QED
      BY <3>1, <3>4, <3>6 DEF q, r, e
  <2>5. v % 2^(n + 1) = Value(Ones(n + 1))
    BY <2>2, <2>3, <2>4
  <2>6. QED
    BY <2>5
<1> HIDE DEF S
<1>3. Nat \subseteq S
  BY <1>1, <1>2, SetInduction
<1>4. QED
  BY <1>3 DEF S

(* Two sets of positions with one value are one set.                       *)
LEMMA ValueInjective ==
  \A n \in Nat : \A a, b \in SUBSET (0..n-1) : Value(a) = Value(b) => a = b
<1> DEFINE S == {n \in Nat : \A a, b \in SUBSET (0..n-1) : Value(a) = Value(b) => a = b}
<1>1. 0 \in S
  <2>1. SUFFICES ASSUME NEW a \in SUBSET (0..0-1), NEW b \in SUBSET (0..0-1) PROVE a = b
    OBVIOUS
  <2>2. a = {} /\ b = {}
    OBVIOUS
  <2>3. QED
    BY <2>2
<1>2. ASSUME NEW n \in Nat, n \in S PROVE n + 1 \in S
  <2>1. SUFFICES ASSUME NEW a \in SUBSET (0..(n+1)-1), NEW b \in SUBSET (0..(n+1)-1),
                        Value(a) = Value(b)
                 PROVE  a = b
    OBVIOUS
  <2>2. a \in SUBSET (0..n) /\ b \in SUBSET (0..n)
    OBVIOUS
  <2>3. Value(a \ {n}) < 2^n /\ Value(b \ {n}) < 2^n
    BY <2>2, ValueTop, ValueBound
  <2>4. (n \in a <=> n \in b) /\ Value(a \ {n}) = Value(b \ {n})
    BY <2>1, <2>2, <2>3, ValueTop, PowerNat
  <2>5. a \ {n} = b \ {n}
    BY <1>2, <2>2, <2>4, ValueTop
  <2>6. QED
    BY <2>4, <2>5
<1> HIDE DEF S
<1>3. Nat \subseteq S
  BY <1>1, <1>2, SetInduction
<1>4. QED
  BY <1>3 DEF S

-----------------------------------------------------------------------------
(* A word's value fits W bits, and its top bit is set from 2^(W-1) on.     *)
LEMMA WordValue ==
  ASSUME NEW a \in Word
  PROVE  /\ Value(a) \in Nat /\ Value(a) < 2^W
         /\ 2^W \in Nat /\ 2^(W-1) \in Nat \ {0} /\ 2^W = 2 * 2^(W-1)
         /\ Sign(a) <=> Value(a) >= 2^(W-1)
<1>1. W - 1 \in Nat /\ (W - 1) + 1 = W /\ W \in Nat /\ a \in SUBSET (0..W-1)
  BY BitsAssumption DEF Word, Bit
<1>2. 2^(W-1) \in Nat \ {0} /\ 2^W = 2 * 2^(W-1) /\ 2^W \in Nat
  BY <1>1, PowerNat, PowerStep
<1>3. Value(a) \in Nat /\ Value(a) < 2^W
  BY <1>1, ValueFacts, ValueBound
<1>4. Value(a) = Value(a \ {W-1}) + (IF W-1 \in a THEN 2^(W-1) ELSE 0)
      /\ Value(a \ {W-1}) \in Nat /\ a \ {W-1} \in SUBSET (0..(W-1)-1)
  BY <1>1, ValueTop
<1>5. Value(a \ {W-1}) < 2^(W-1)
  BY <1>1, <1>4, ValueBound
<1>6. QED
  BY <1>2, <1>3, <1>4, <1>5 DEF Sign

(* Words are equal when their values are.                                  *)
LEMMA WordEqual ==
  ASSUME NEW a \in Word, NEW b \in Word
  PROVE  a = b <=> Value(a) = Value(b)
<1>1. W \in Nat /\ a \in SUBSET (0..W-1) /\ b \in SUBSET (0..W-1)
  BY BitsAssumption DEF Word, Bit
<1>2. QED
  BY <1>1, ValueInjective

(* ~a is 2^W - 1 - a.                                                      *)
LEMMA NotValue ==
  ASSUME NEW a \in Word
  PROVE  Not(a) \in Word /\ Value(Not(a)) = 2^W - 1 - Value(a)
<1>1. W \in Nat /\ a \in SUBSET (0..W-1) /\ Not(a) \in SUBSET (0..W-1)
      /\ a \cap Not(a) = {} /\ a \cup Not(a) = 0..W-1
  BY BitsAssumption DEF Word, Bit, Not
<1>2. Value(0..W-1) = Value(a) + Value(Not(a))
  BY <1>1, ValueUnion
<1>3. Value(0..W-1) = 2^W - 1
  BY <1>1, ValueInterval
<1>4. Not(a) \in Word
  BY <1>1 DEF Word, Bit
<1>5. QED
  BY <1>2, <1>3, <1>4, WordValue

(* The adder of the model adds modulo 2^W.                                 *)
LEMMA PlusValue ==
  ASSUME NEW a \in Word, NEW b \in Word, NEW cin \in {0, 1}
  PROVE  /\ Plus(a, b, cin) \in Word
         /\ Value(Plus(a, b, cin)) = (Value(a) + Value(b) + cin) % 2^W
<1>1. Value(a) + Value(b) + cin \in Nat /\ W \in Nat
  BY WordValue, BitsAssumption
<1>2. Plus(a, b, cin) = {k \in 0..W-1 : ((Value(a) + Value(b) + cin) \div 2^k) % 2 = 1}
  BY DEF Plus, OfValue, Bit
<1>3. Value({k \in 0..W-1 : ((Value(a) + Value(b) + cin) \div 2^k) % 2 = 1})
        = (Value(a) + Value(b) + cin) % 2^W
  BY <1>1, ValueOfOnes
<1>4. QED
  BY <1>2, <1>3 DEF Word, Bit

(* Subtraction as both cores do it, with ~b and a carry in.                *)
LEMMA DifferenceValue ==
  ASSUME NEW a \in Word, NEW b \in Word
  PROVE  /\ Plus(a, Not(b), 1) \in Word
         /\ Value(Plus(a, Not(b), 1)) = IF Value(a) >= Value(b) THEN Value(a) - Value(b)
                                        ELSE Value(a) - Value(b) + 2^W
         /\ Value(Plus(a, Not(b), 1)) = (Value(a) - Value(b)) % 2^W
         /\ Plus(a, Not(b), 1) = {} <=> a = b
<1> DEFINE u == Value(a)
           v == Value(b)
           d == Plus(a, Not(b), 1)
           p == 2^W
<1>1. u \in Nat /\ u < p /\ v \in Nat /\ v < p /\ p \in Nat \ {0}
  BY WordValue
<1>2. d \in Word /\ Value(d) = (u + (p - 1 - v) + 1) % p
  BY NotValue, PlusValue
<1> HIDE DEF u, v, d, p
<1>3. Value(d) = (IF u >= v THEN u - v ELSE u - v + p) /\ Value(d) = (u - v) % p
  <2>1. CASE u >= v
    <3>1. IsDivision(u + (p - 1 - v) + 1, p, 1, u - v) /\ IsDivision(u - v, p, 0, u - v)
      BY <1>1, <2>1 DEF IsDivision
    <3>2. Value(d) = u - v /\ (u - v) % p = u - v
      BY <1>2, <3>1, DivModUnique
    <3>3. QED
      BY <2>1, <3>2
  <2>2. CASE ~(u >= v)
    <3>1. /\ IsDivision(u + (p - 1 - v) + 1, p, 0, u - v + p)
          /\ IsDivision(u - v, p, -1, u - v + p)
      BY <1>1, <2>2 DEF IsDivision
    <3>2. Value(d) = u - v + p /\ (u - v) % p = u - v + p
      BY <1>2, <3>1, DivModUnique
    <3>3. QED
      BY <2>2, <3>2
  <2>3. QED
    BY <2>1, <2>2
<1>4. d = {} <=> a = b
  <2>1. Value(d) = 0 <=> u = v
    BY <1>1, <1>3
  <2>2. d = {} <=> Value(d) = 0
    BY <1>2, WordEqual, ValueEmpty DEF Word
  <2>3. a = b <=> u = v
    BY WordEqual DEF u, v
  <2>4. QED
    BY <2>1, <2>2, <2>3
<1>5. QED
  BY <1>2, <1>3, <1>4 DEF u, v, d, p

-----------------------------------------------------------------------------
(* DEC's comparison decides every branch as the instruction's definition   *)
(* does (decod::post_reg_read_decoding).                                   *)
LEMMA BranchRight ==
  ASSUME NEW op \in Branches, NEW a \in Word, NEW b \in Word
  PROVE  branch(op, a, b) = Taken(op, a, b)
<1> DEFINE u == Value(a)
           v == Value(b)
           d == Plus(a, Not(b), 1)
           p == 2^(W-1)
<1>1. /\ u \in Nat /\ u < 2 * p /\ v \in Nat /\ v < 2 * p /\ p \in Nat \ {0}
      /\ Sign(a) <=> u >= p
      /\ Sign(b) <=> v >= p
      /\ SignedValue(a) = u - (IF u >= p THEN 2 * p ELSE 0)
      /\ SignedValue(b) = v - (IF v >= p THEN 2 * p ELSE 0)
  BY WordValue DEF SignedValue
<1>2. /\ Sign(d) <=> (IF u >= v THEN u - v ELSE u - v + 2 * p) >= p
      /\ d = {} <=> u = v
  BY WordValue, DifferenceValue, WordEqual
<1>3. Sign(a) \in BOOLEAN /\ Sign(b) \in BOOLEAN /\ Sign(d) \in BOOLEAN
  BY DEF Sign
<1> HIDE DEF u, v, d, p
<1>4. branch(op, a, b) = CASE op = "bne"  -> d # {}
                           [] op = "beq"  -> d = {}
                           [] op = "blt"  -> IF Sign(a) # Sign(b) THEN Sign(a) ELSE Sign(d)
                           [] op = "bltu" -> IF Sign(a) # Sign(b) THEN Sign(b) ELSE Sign(d)
                           [] op = "bge"  -> IF Sign(a) # Sign(b) THEN Sign(b) ELSE ~Sign(d)
                           [] op = "bgeu" -> IF Sign(a) # Sign(b) THEN Sign(a) ELSE ~Sign(d)
  BY DEF branch, d
<1>5. Taken(op, a, b) = CASE op = "beq"  -> u = v
                          [] op = "bne"  -> u # v
                          [] op = "blt"  -> SignedValue(a) < SignedValue(b)
                          [] op = "bge"  -> SignedValue(a) >= SignedValue(b)
                          [] op = "bltu" -> u < v
                          [] op = "bgeu" -> u >= v
  BY DEF Taken, u, v
<1>6. CASE op \in {"beq", "bne"}
  BY <1>2, <1>4, <1>5, <1>6
<1>7. CASE op = "blt"
  BY <1>1, <1>2, <1>3, <1>4, <1>5, <1>7
<1>8. CASE op = "bltu"
  BY <1>1, <1>2, <1>3, <1>4, <1>5, <1>8
<1>9. CASE op = "bge"
  BY <1>1, <1>2, <1>3, <1>4, <1>5, <1>9
<1>10. CASE op = "bgeu"
  BY <1>1, <1>2, <1>3, <1>4, <1>5, <1>10
<1>11. QED
  BY <1>6, <1>7, <1>8, <1>9, <1>10 DEF Branches

(* Shifting left drops what goes beyond the word.                          *)
LEMMA ShiftLeft ==
  ASSUME NEW a \in Word, NEW n \in 0..W-1
  PROVE  Value(sll(a, n)) = (Value(a) * 2^n) % 2^W
<1>1. W \in Nat /\ n \in Nat /\ W + n \in Nat /\ a \in SUBSET (0..W-1)
  BY BitsAssumption DEF Word, Bit
<1>2. Placed(a, n) \in SUBSET (0..(W+n)-1) /\ sll(a, n) = Placed(a, n) \cap (0..W-1)
  BY <1>1 DEF Placed, sll, Bit
<1>3. Value(Placed(a, n) \cap (0..W-1)) = Value(Placed(a, n)) % 2^W
  BY <1>1, <1>2, ValueSplit
<1>4. Value(Placed(a, n)) = 2^n * Value(a)
  BY <1>1, ValuePlaced
<1>5. 2^n * Value(a) = Value(a) * 2^n
  BY <1>1, WordValue, PowerNat
<1>6. QED
  BY <1>2, <1>3, <1>4, <1>5

(* Shifting right, with zeros or ones from above.                          *)
LEMMA ShiftRight ==
  ASSUME NEW a \in Word, NEW n \in 0..W-1, NEW fill \in BOOLEAN
  PROVE  Value(sr(a, n, fill)) = (Value(a) \div 2^n) + IF fill THEN 2^W - 2^(W-n) ELSE 0
<1> DEFINE low  == {i \in 0..W-1 : i + n \in a}
           high == W-n..W-1
<1>1. W \in Nat /\ n \in Nat /\ W - n \in Nat /\ a \in SUBSET (0..W-1)
  BY BitsAssumption DEF Word, Bit
<1>2. Value(low) = Value(a) \div 2^n
  BY <1>1, ValueSplit
<1>3. low \in SUBSET (0..W-1) /\ high \in SUBSET (0..W-1) /\ low \cap high = {}
  BY <1>1
<1>4. sr(a, n, fill) = IF fill THEN low \cup high ELSE low
  <2>1. sr(a, n, fill) = {i \in 0..W-1 : IF i + n \in 0..W-1 THEN i + n \in a ELSE fill}
    BY DEF sr, Bit
  <2>2. ASSUME NEW i \in 0..W-1
        PROVE  (IF i + n \in 0..W-1 THEN i + n \in a ELSE fill) <=> i \in low \/ (fill /\ i \in high)
    BY <1>1
  <2> HIDE DEF low, high
  <2>3. QED
    BY <1>3, <2>1, <2>2
<1>5. Value(high) = 2^W - 2^(W-n)
  <2> DEFINE rest == 0..(W-n)-1
  <2>1. rest \in SUBSET (0..W-1) /\ rest \cap high = {} /\ rest \cup high = 0..W-1
    BY <1>1
  <2>2. Value(0..W-1) = 2^W - 1 /\ Value(rest) = 2^(W-n) - 1
    BY <1>1, ValueInterval
  <2> HIDE DEF high, rest
  <2>3. Value(0..W-1) = Value(rest) + Value(high)
    <3>1. /\ W \in Nat /\ rest \in SUBSET (0..W-1) /\ high \in SUBSET (0..W-1)
          /\ rest \cap high = {}
      BY <1>1, <1>3, <2>1
    <3>2. Value(rest \cup high) = Value(rest) + Value(high)
      BY <3>1, ValueUnion
    <3>3. QED
      BY <2>1, <3>2
  <2>4. Value(high) \in Nat /\ 2^W \in Nat /\ 2^(W-n) \in Nat
    BY <1>1, <1>3, ValueFacts, PowerNat
  <2>5. 2^W - 1 = (2^(W-n) - 1) + Value(high)
    BY <2>2, <2>3
  <2>6. QED
    BY <2>4, <2>5 DEF high
<1> HIDE DEF low, high
<1>6. Value(low \cup high) = Value(low) + Value(high)
  BY <1>1, <1>3, ValueUnion
<1>7. Value(low) \in Nat
  BY <1>1, <1>3, ValueFacts
<1>8. QED
  BY <1>2, <1>4, <1>5, <1>6, <1>7

(* The quotient of the signed value, as a word.                            *)
LEMMA SignedQuotient ==
  ASSUME NEW a \in Word, NEW n \in 0..W-1
  PROVE  (SignedValue(a) \div 2^n) % 2^W
           = (Value(a) \div 2^n) + IF Sign(a) THEN 2^W - 2^(W-n) ELSE 0
<1> DEFINE u == Value(a)
           p == 2^n
           k == 2^(W-n)
           h == u \div p
           r == u % p
<1>1. n \in Nat /\ W - n \in Nat /\ n + (W - n) = W
  BY BitsAssumption
<1>2. p \in Nat \ {0} /\ k \in Nat \ {0} /\ 2^W = p * k
  <2>1. 2^(n + (W - n)) = p * k
    BY <1>1, PowerSum
  <2>2. p \in Nat \ {0} /\ k \in Nat \ {0}
    BY <1>1, PowerNat
  <2> HIDE DEF p, k
  <2>3. QED
    BY <1>1, <2>1, <2>2
<1>3. u \in Nat /\ u < p * k
  BY <1>2, WordValue
<1>4. h \in Nat /\ r \in 0..p-1 /\ u = p * h + r
  <2>1. u \in Int /\ u >= 0
    BY <1>3
  <2> HIDE DEF u, p
  <2>2. QED
    BY <1>2, <2>1, DivMod
<1>5. SignedValue(a) = IF Sign(a) THEN u - p * k ELSE u
  BY <1>2, <1>3 DEF SignedValue
<1> HIDE DEF u, p, k, h, r
<1>6. h < k
  <2>1. SUFFICES ASSUME h >= k PROVE FALSE
    BY <1>2, <1>4
  <2>2. p * h >= p * k
    BY <1>2, <1>4, <2>1
  <2>3. QED
    BY <1>2, <1>3, <1>4, <2>2
<1>7. p * k \in Nat \ {0} /\ k <= p * k
  BY <1>2
<1>8. CASE Sign(a)
  <2>1. IsDivision(u - p * k, p, h - k, r)
    BY <1>2, <1>3, <1>4 DEF IsDivision
  <2>2. IsDivision(h - k, p * k, -1, h - k + p * k)
    BY <1>2, <1>4, <1>6, <1>7 DEF IsDivision
  <2>3. (SignedValue(a) \div p) % (p * k) = h - k + p * k
    BY <1>5, <1>8, <2>1, <2>2, DivModUnique
  <2>4. h - k + p * k = h + (p * k - k)
    BY <1>2, <1>4, <1>7
  <2>5. QED
    BY <1>2, <1>8, <2>3, <2>4 DEF p, k, h, u
<1>9. CASE ~Sign(a)
  <2>1. IsDivision(h, p * k, 0, h)
    <3>1. h < p * k /\ (p * k) * 0 = 0
      BY <1>2, <1>4, <1>6, <1>7
    <3>2. QED
      BY <1>4, <1>7, <3>1 DEF IsDivision
  <2>2. (SignedValue(a) \div p) % (p * k) = h
    BY <1>5, <1>9, <2>1, DivModUnique DEF h
  <2>3. QED
    BY <1>2, <1>4, <1>9, <2>2 DEF p, k, h, u
<1>10. QED
  BY <1>8, <1>9

(* The two numbers a comparison gives.                                     *)
LEMMA SmallValues == {} \in Word /\ {0} \in Word /\ Value({}) = 0 /\ Value({0}) = 1
<1>1. 0 \in Nat /\ {0} \in SUBSET (0..0) /\ {0} \ {0} = {} /\ 0 \in {0} /\ 2^0 = 1
  OBVIOUS
<1>2. Value({0}) = Value({0} \ {0}) + IF 0 \in {0} THEN 2^0 ELSE 0
  BY <1>1, ValueTop
<1>3. Value({0}) = 1
  BY <1>1, <1>2, ValueEmpty
<1>4. QED
  BY <1>3, ValueEmpty, BitsAssumption DEF Word, Bit

(* EXE's result is the instruction's, operation by operation               *)
(* (exec::select_exec_res, alu, shifter).                                  *)
LEMMA ResultRight ==
  ASSUME NEW op \in Logic \cup Shifts, NEW a \in Word, NEW b \in Word
  PROVE  exe_res(op, a, b) \in Word /\ Value(exe_res(op, a, b)) = Meaning(op, a, b)
<1> DEFINE u == Value(a)
           v == Value(b)
           d == Plus(a, Not(b), 1)
           n == v % W
           p == 2^(W-1)
<1>1. /\ u \in Nat /\ u < 2 * p /\ v \in Nat /\ v < 2 * p /\ p \in Nat \ {0} /\ 2^W = 2 * p
      /\ Sign(a) <=> u >= p
      /\ Sign(b) <=> v >= p
      /\ SignedValue(a) = u - (IF u >= p THEN 2 * p ELSE 0)
      /\ SignedValue(b) = v - (IF v >= p THEN 2 * p ELSE 0)
  BY WordValue DEF SignedValue
<1>2. n \in 0..W-1
  <2>1. v \in Int /\ W \in Nat \ {0}
    BY <1>1, BitsAssumption
  <2>2. QED
    BY <2>1, DivMod
<1>3. {} \in Word /\ {0} \in Word /\ Value({}) = 0 /\ Value({0}) = 1
  BY SmallValues
<1>4. CASE op = "add"
  <2>1. exe_res(op, a, b) = Plus(a, b, 0) /\ Meaning(op, a, b) = (u + v) % 2^W
    BY <1>4 DEF exe_res, Meaning, alu_out, CMD_RD, NEG_OP2_RD, Shifts
  <2>2. u + v + 0 = u + v
    BY <1>1
  <2>3. QED
    BY <2>1, <2>2, PlusValue
<1>5. CASE op = "sub"
  <2>1. exe_res(op, a, b) = d /\ Meaning(op, a, b) = (u - v) % 2^W
    BY <1>5 DEF exe_res, Meaning, alu_out, CMD_RD, NEG_OP2_RD, Shifts
  <2>2. QED
    BY <2>1, DifferenceValue
<1>6. CASE op \in {"slt", "sltu"}
  <2>1. exe_res(op, a, b) = IF Less(a, b, d, op = "slt") THEN {0} ELSE {}
    BY <1>6 DEF exe_res, alu_out, CMD_RD, NEG_OP2_RD, Shifts
  <2>2. Meaning(op, a, b) = IF op = "slt" THEN (IF SignedValue(a) < SignedValue(b) THEN 1 ELSE 0)
                            ELSE IF u < v THEN 1 ELSE 0
    BY <1>6 DEF Meaning
  <2>3. (a = b <=> u = v) /\ (Sign(d) <=> (IF u >= v THEN u - v ELSE u - v + 2 * p) >= p)
    BY WordValue, DifferenceValue, WordEqual
  <2>4. Sign(a) \in BOOLEAN /\ Sign(b) \in BOOLEAN /\ Sign(d) \in BOOLEAN
    BY DEF Sign
  <2> HIDE DEF u, v, d, p
  <2>5. CASE op = "slt"
    <3>1. Less(a, b, d, TRUE) <=> SignedValue(a) < SignedValue(b)
      BY <1>1, <2>3, <2>4 DEF Less
    <3>2. QED
      BY <1>3, <2>1, <2>2, <2>5, <3>1
  <2>6. CASE op = "sltu"
    <3>1. Less(a, b, d, FALSE) <=> u < v
      BY <1>1, <2>3, <2>4 DEF Less
    <3>2. QED
      BY <1>3, <2>1, <2>2, <2>6, <3>1
  <2>7. QED
    BY <1>6, <2>5, <2>6
<1>7. CASE op \in {"and", "or", "xor"}
  <2>1. exe_res(op, a, b) = IF op = "and" THEN a \cap b ELSE IF op = "or" THEN a \cup b ELSE Xor(a, b)
    BY <1>7 DEF exe_res, alu_out, CMD_RD, NEG_OP2_RD, Shifts
  <2>2. /\ a \cap b = {i \in Bit : i \in a /\ i \in b}
        /\ a \cup b = {i \in Bit : i \in a \/ i \in b}
        /\ Xor(a, b) = {i \in Bit : (i \in a) # (i \in b)}
    BY DEF Word, Xor
  <2>3. QED
    BY <1>7, <2>1, <2>2 DEF Meaning, Word
<1>8. CASE op = "sll"
  <2>1. exe_res(op, a, b) = sll(a, n) /\ Meaning(op, a, b) = (u * 2^n) % 2^W
    BY <1>8 DEF exe_res, Meaning, shifter_out, shift_val, CMD_RD, Shifts
  <2>2. sll(a, n) \in Word
    BY DEF sll, Word
  <2>3. QED
    BY <1>2, <2>1, <2>2, ShiftLeft
<1>9. CASE op = "srl"
  <2>1. exe_res(op, a, b) = sr(a, n, FALSE) /\ Meaning(op, a, b) = u \div 2^n
    <3>1. CMD_RD(op) = 1
      BY <1>9 DEF CMD_RD
    <3>2. exe_res(op, a, b) = shifter_out(1, a, n)
      BY <1>9, <3>1 DEF exe_res, shift_val, Shifts
    <3>3. shifter_out(1, a, n) = sr(a, n, FALSE)
      BY DEF shifter_out, sr, Sign
    <3>4. Meaning(op, a, b) = u \div 2^n
      BY <1>9 DEF Meaning
    <3>5. QED
      BY <3>2, <3>3, <3>4
  <2>2. sr(a, n, FALSE) \in Word
    BY DEF sr, Word
  <2>3. Value(sr(a, n, FALSE)) = (u \div 2^n) + 0
    BY <1>2, ShiftRight
  <2>4. u \div 2^n \in Int
    BY <1>1, <1>2, PowerNat, DivMod
  <2>5. (u \div 2^n) + 0 = u \div 2^n
    <3> DEFINE q == u \div 2^n
    <3> HIDE DEF q
    <3>1. q \in Int
      BY <2>4 DEF q
    <3>2. q + 0 = q
      BY <3>1
    <3>3. QED
      BY <3>2 DEF q
  <2>6. QED
    BY <2>1, <2>2, <2>3, <2>5
<1>10. CASE op = "sra"
  <2>1. exe_res(op, a, b) = sr(a, n, Sign(a)) /\ Meaning(op, a, b) = (SignedValue(a) \div 2^n) % 2^W
    <3>1. CMD_RD(op) = 2
      BY <1>10 DEF CMD_RD
    <3>2. exe_res(op, a, b) = shifter_out(2, a, n)
      BY <1>10, <3>1 DEF exe_res, shift_val, Shifts
    <3>3. shifter_out(2, a, n) = sr(a, n, Sign(a))
      <4>1. (2 # 1 /\ Sign(a)) = Sign(a)
        BY DEF Sign
      <4>2. QED
        BY <4>1 DEF shifter_out
    <3>4. Meaning(op, a, b) = (SignedValue(a) \div 2^n) % 2^W
      BY <1>10 DEF Meaning
    <3>5. QED
      BY <3>2, <3>3, <3>4
  <2>2. sr(a, n, Sign(a)) \in Word /\ Sign(a) \in BOOLEAN
    BY DEF sr, Word, Sign
  <2>3. QED
    BY <1>2, <2>1, <2>2, ShiftRight, SignedQuotient
<1>11. QED
  BY <1>4, <1>5, <1>6, <1>7, <1>8, <1>9, <1>10 DEF Logic, Shifts

-----------------------------------------------------------------------------
(* The least of two numbers.                                               *)
LEMMA MinOfTwo ==
  ASSUME NEW a \in Int, NEW b \in Int
  PROVE  Min({a, b}) = IF a <= b THEN a ELSE b
<1>1. \E y \in {a, b} : \A z \in {a, b} : y <= z
  OBVIOUS
<1>2. Min({a, b}) \in {a, b} /\ \A z \in {a, b} : Min({a, b}) <= z
  BY <1>1 DEF Min
<1>3. QED
  BY <1>2

(* Bytes, half-words and words within a word.                              *)
LEMMA Widths ==
  /\ B \in Nat \ {0} /\ W = 4 * B
  /\ \A size \in Sizes : range_size(size) \in 0..W-1
  /\ \A start \in Nat, size \in Sizes :
        /\ range_end(start, size) \in Int /\ range_end(start, size) <= W - 1
        /\ range_end(start, size) = IF W - 1 <= start + range_size(size) THEN W - 1
                                    ELSE start + range_size(size)
<1>1. B \in Nat \ {0} /\ W = 4 * B
  <2>1. W \in Nat \ {0} /\ W = 4 * B
    BY BitsAssumption, LoadStoreAssumption
  <2>2. B \in Int
    BY <2>1, DivMod DEF B
  <2>3. QED
    BY <2>1, <2>2
<1>2. ASSUME NEW size \in Sizes PROVE range_size(size) \in 0..W-1
  BY <1>1 DEF range_size, Sizes
<1>3. ASSUME NEW start \in Nat, NEW size \in Sizes
      PROVE  /\ range_end(start, size) \in Int /\ range_end(start, size) <= W - 1
             /\ range_end(start, size) = IF W - 1 <= start + range_size(size) THEN W - 1
                                         ELSE start + range_size(size)
  <2>1. range_size(size) \in Nat /\ W - 1 \in Int
    BY <1>1, <1>2
  <2>2. range_end(start, size) = IF W - 1 <= start + range_size(size) THEN W - 1
                                 ELSE start + range_size(size)
    BY <2>1, MinOfTwo DEF range_end
  <2>3. QED
    BY <2>1, <2>2
<1>4. QED
  BY <1>1, <1>2, <1>3

(* What a load hands to WBK fits a word.                                   *)
LEMMA DoutWord ==
  ASSUME NEW din \in Word, NEW size \in Sizes, NEW a \in Nat, NEW signed \in BOOLEAN
  PROVE  dout(din, size, a, signed) \in Word
<1> DEFINE start == IF a % 8 < 4 THEN B * (a % 8) ELSE 0
           end   == range_end(start, size)
           fill  == IF signed /\ end \in din THEN Bit ELSE {}
<1>1. start \in Nat
  <2>1. a % 8 \in 0..7
    BY DivMod
  <2>2. QED
    BY <2>1, Widths
<1>2. end \in Int
  BY <1>1, Widths
<1>3. dout(din, size, a, signed) = (fill \ (0..range_size(size))) \cup Slice(din, end, start)
  BY DEF dout
<1> HIDE DEF start, end
<1>4. Slice(din, end, start) \in Word
  BY <1>1, <1>2, BitsAssumption DEF Slice, Word, Bit
<1>5. fill \in Word
  BY DEF Word
<1>6. QED
  BY <1>3, <1>4, <1>5 DEF Word

(* What a store hands to the data cache fits a word.                       *)
LEMMA DataWord ==
  ASSUME x \in Word, NEW size \in Sizes, NEW a \in Nat, NEW signed \in BOOLEAN
  PROVE  MCACHE_DATA_SM(size, a, signed) \in Word
<1> DEFINE start == B * (a % 4)
           end   == range_end(start, size)
           fill  == IF signed /\ end \in x THEN Bit ELSE {}
           data  == Placed(Slice(x, range_size(size), 0), start)
<1>1. start \in Nat
  <2>1. a % 4 \in 0..3
    BY DivMod
  <2>2. QED
    BY <2>1, Widths
<1>2. end \in Int /\ end <= W - 1
  BY <1>1, Widths
<1>3. MCACHE_DATA_SM(size, a, signed) = (fill \ (start..end)) \cup (data \cap (start..end))
  BY DEF MCACHE_DATA_SM
<1> HIDE DEF start, end, data
<1>4. data \cap (start..end) \in Word
  BY <1>1, <1>2, BitsAssumption DEF Word, Bit
<1>5. fill \in Word
  BY DEF Word
<1>6. QED
  BY <1>3, <1>4, <1>5 DEF Word

(* The register holds a word and the memory words, the invariant of the    *)
(* data path.                                                              *)
WordsStay == x \in Word /\ ram \in [WordAdr -> Word]

(* The word an address lies in is a word of the memory.                    *)
LEMMA AlignedIsWord == ASSUME NEW a \in Adr PROVE a \in Nat /\ Aligned(a) \in WordAdr
<1>1. a \in Nat
  BY LoadStoreAssumption
<1>2. a - (a % 4) \in Nat /\ (a - (a % 4)) % 4 = 0
  <2>1. a % 4 \in 0..3 /\ a = 4 * (a \div 4) + (a % 4) /\ a \div 4 \in Nat
    BY <1>1, DivMod
  <2>2. a - (a % 4) = 4 * (a \div 4)
    BY <1>1, <2>1
  <2>3. IsDivision(a - (a % 4), 4, a \div 4, 0)
    BY <1>1, <2>1, <2>2 DEF IsDivision
  <2>4. QED
    BY <2>1, <2>2, <2>3, DivModUnique
<1>3. a - (a % 4) \in Adr
  <2>1. (a - (a % 4))..(a - (a % 4)) + 3 \subseteq Adr
    BY LoadStoreAssumption
  <2>2. QED
    BY <1>2, <2>1
<1>4. QED
  BY <1>1, <1>2, <1>3 DEF Aligned, WordAdr

(* Loads and stores keep it (mem::sign_extend, mem::mem_preprocess).       *)
LEMMA WordsInduct == WordsStay /\ [Next]_vars => WordsStay'
<1> SUFFICES ASSUME WordsStay, [Next]_vars PROVE WordsStay'
  OBVIOUS
<1>1. ASSUME NEW size \in Sizes, NEW a \in Adr, NEW signed \in BOOLEAN, Store(size, a, signed)
      PROVE  WordsStay'
  <2>1. a \in Nat /\ Aligned(a) \in WordAdr
    BY AlignedIsWord
  <2>2. MCACHE_DATA_SM(size, a, signed) \in Word /\ ram[Aligned(a)] \in Word
    BY <2>1, DataWord DEF WordsStay
  <2>3. temporary_value(ram[Aligned(a)], MCACHE_DATA_SM(size, a, signed), size, a) \in Word
    BY <2>2 DEF temporary_value, Word
  <2>4. QED
    BY <1>1, <2>1, <2>3 DEF Store, WordsStay
<1>2. ASSUME NEW size \in Sizes, NEW a \in Adr, NEW signed \in BOOLEAN, Load(size, a, signed)
      PROVE  WordsStay'
  <2>1. a \in Nat /\ Aligned(a) \in WordAdr
    BY AlignedIsWord
  <2>2. dout(ram[Aligned(a)], size, a, signed) \in Word
    BY <2>1, DoutWord DEF WordsStay
  <2>3. QED
    BY <1>2, <2>2 DEF Load, WordsStay
<1>3. CASE Compute
  BY <1>3 DEF Compute, WordsStay
<1>4. CASE Unchecked
  BY <1>4 DEF Unchecked, WordsStay
<1>5. CASE UNCHANGED vars
  BY <1>5 DEF WordsStay, vars
<1>6. QED
  BY <1>1, <1>2, <1>3, <1>4, <1>5 DEF Next

(* Only words are loaded and stored, for every width and every memory      *)
(* (mem::sign_extend, mem::mem_preprocess).                                *)
THEOREM AlwaysWords == Spec => []WordsStay
<1>1. Init => WordsStay
  BY DEF Init, WordsStay, Word
<1>2. QED
  BY <1>1, WordsInduct, PTL DEF Spec

(* For words of every width, DEC's comparison takes exactly the branches   *)
(* the instruction takes (decod::post_reg_read_decoding).                  *)
THEOREM AlwaysBranchesRight == Spec => []BranchesRight
<1>1. WordsStay => BranchesRight
  BY BranchRight DEF WordsStay, BranchesRight
<1>2. QED
  BY <1>1, AlwaysWords, PTL

(* For words of every width, EXE's result is the number the instruction    *)
(* asks for: overflow, equal operands, differing signs and shifts by more  *)
(* than the width included (exec::select_exec_res, alu, shifter).          *)
THEOREM AlwaysResultsRight == Spec => []ResultsRight
<1>1. WordsStay => ResultsRight
  BY ResultRight DEF WordsStay, ResultsRight
<1>2. QED
  BY <1>1, AlwaysWords, PTL

-----------------------------------------------------------------------------
(* The mini core's words are this core's.                                  *)
LEMMA MiniBits ==
  /\ Mini!Bit = Bit
  /\ \A a : Mini!Value(a) = Value(a)
  /\ \A a : Mini!Not(a) = Not(a)
  /\ \A a : Mini!Sign(a) = Sign(a)
  /\ \A a, b : Mini!Xor(a, b) = Xor(a, b)
  /\ \A a, b, cin : Mini!Plus(a, b, cin) = Plus(a, b, cin)
  /\ \A a, n : Mini!Placed(a, n) = Placed(a, n)
  /\ \A a, hi, lo : Mini!Slice(a, hi, lo) = Slice(a, hi, lo)
<1>1. Mini!Bit = Bit
  BY DEF Mini!Bit, Bit
<1>2. ASSUME NEW a PROVE Mini!Value(a) = Value(a)
  BY Zenon DEF Mini!Value, Value, Mini!MapThenSumSet, MapThenSumSet,
               Mini!MapThenFoldSet, MapThenFoldSet
<1>3. ASSUME NEW a PROVE Mini!Not(a) = Not(a)
  BY <1>1 DEF Mini!Not, Not
<1>4. ASSUME NEW a PROVE Mini!Sign(a) = Sign(a)
  BY DEF Mini!Sign, Sign
<1>5. ASSUME NEW a, NEW b PROVE Mini!Xor(a, b) = Xor(a, b)
  BY DEF Mini!Xor, Xor
<1>6. ASSUME NEW a, NEW b, NEW cin PROVE Mini!Plus(a, b, cin) = Plus(a, b, cin)
  BY <1>1, <1>2, Zenon DEF Mini!Plus, Plus, Mini!OfValue, OfValue
<1>7. ASSUME NEW a, NEW n PROVE Mini!Placed(a, n) = Placed(a, n)
  BY DEF Mini!Placed, Placed
<1>8. ASSUME NEW a, NEW hi, NEW lo PROVE Mini!Slice(a, hi, lo) = Slice(a, hi, lo)
  BY DEF Mini!Slice, Slice
<1>9. QED
  BY <1>1, <1>2, <1>3, <1>4, <1>5, <1>6, <1>7, <1>8

(* The mini core's DEC decides the branches right.                         *)
LEMMA MiniBranchRight ==
  ASSUME NEW op \in Branches, NEW a \in Word, NEW b \in Word
  PROVE  Mini!jump_sd(op, a, b) = Taken(op, a, b)
<1> DEFINE d == Plus(a, Not(b), 1)
<1>1. d = {} <=> a = b
  BY DifferenceValue
<1>2. Sign(a) \in BOOLEAN /\ Sign(b) \in BOOLEAN /\ Sign(d) \in BOOLEAN
  BY DEF Sign
<1> HIDE DEF d
<1>3. branch(op, a, b) = CASE op = "bne"  -> d # {}
                           [] op = "beq"  -> d = {}
                           [] op = "blt"  -> IF Sign(a) # Sign(b) THEN Sign(a) ELSE Sign(d)
                           [] op = "bltu" -> IF Sign(a) # Sign(b) THEN Sign(b) ELSE Sign(d)
                           [] op = "bge"  -> IF Sign(a) # Sign(b) THEN Sign(b) ELSE ~Sign(d)
                           [] op = "bgeu" -> IF Sign(a) # Sign(b) THEN Sign(a) ELSE ~Sign(d)
  BY DEF branch, d
<1>4. Mini!jump_sd(op, a, b)
        = CASE op = "bne"  -> a # b
            [] op = "beq"  -> a = b
            [] op = "blt"  -> IF Sign(a) # Sign(b) THEN Sign(a) ELSE Sign(d)
            [] op = "bltu" -> IF Sign(a) # Sign(b) THEN Sign(b) ELSE Sign(d)
            [] op = "bge"  -> ~(IF Sign(a) # Sign(b) THEN Sign(a) ELSE Sign(d))
            [] op = "bgeu" -> ~(IF Sign(a) # Sign(b) THEN Sign(b) ELSE Sign(d))
  BY MiniBits DEF Mini!jump_sd, d
<1>5. Mini!jump_sd(op, a, b) = branch(op, a, b)
  <2>1. CASE op \in {"bne", "beq"}
    BY <1>1, <1>3, <1>4, <2>1
  <2>2. CASE op \in {"blt", "bltu"}
    BY <1>3, <1>4, <2>2
  <2>3. CASE op = "bge"
    BY <1>2, <1>3, <1>4, <2>3
  <2>4. CASE op = "bgeu"
    BY <1>2, <1>3, <1>4, <2>4
  <2>5. QED
    BY <2>1, <2>2, <2>3, <2>4 DEF Branches
<1>6. QED
  BY <1>5, BranchRight

(* The shifter of the mini core, wrong only where MiniWrong says.          *)
LEMMA MiniShift ==
  ASSUME NEW a \in Word, NEW n \in 0..W-1
  PROVE  /\ Mini!shifter_out_se(0, a, n) = sll(a, n)
         /\ Mini!shifter_out_se(1, a, n) = sr(a, n, FALSE)
         /\ Mini!shifter_out_se(2, a, n) = sr(a, n, TRUE)
<1>1. W \in Nat /\ a \in SUBSET (0..W-1)
  BY BitsAssumption DEF Word, Bit
<1>2. Mini!shifter_out_se(0, a, n) = sll(a, n)
  BY MiniBits DEF Mini!shifter_out_se, sll, Placed
<1>3. Slice(a, W-1, n) = {i \in 0..W-1 : i + n \in a}
  BY <1>1 DEF Slice
<1>4. Placed({}, W-n) \cap Bit = {} /\ Placed(Bit, W-n) \cap Bit = W-n..W-1
  <2>1. ASSUME NEW i \in W-n..W-1 PROVE i \in Placed(Bit, W-n)
    <3>1. i - (W - n) \in Bit /\ i = (i - (W - n)) + (W - n)
      BY <1>1 DEF Bit
    <3>2. QED
      BY <3>1 DEF Placed
  <2>2. QED
    BY <1>1, <2>1 DEF Placed, Bit
<1>5. /\ Mini!sr_dout_se(1, a, n) = Slice(a, W-1, n) \cup (Placed({}, W-n) \cap Bit)
      /\ Mini!sr_dout_se(2, a, n) = Slice(a, W-1, n) \cup (Placed(Bit, W-n) \cap Bit)
  BY MiniBits DEF Mini!sr_dout_se
<1>6. sr(a, n, FALSE) = {i \in 0..W-1 : i + n \in a}
  BY <1>1 DEF sr, Bit
<1>7. sr(a, n, TRUE) = {i \in 0..W-1 : i + n \in a} \cup (W-n..W-1)
  BY <1>1 DEF sr, Bit
<1>8. /\ Mini!shifter_out_se(1, a, n) = Mini!sr_dout_se(1, a, n)
      /\ Mini!shifter_out_se(2, a, n) = Mini!sr_dout_se(2, a, n)
  BY DEF Mini!shifter_out_se
<1>9. QED
  BY <1>2, <1>3, <1>4, <1>5, <1>6, <1>7, <1>8

(* The command, the kind of operation and the inverted operand the mini    *)
(* core's DEC gives each instruction.                                      *)
LEMMA MiniCommands ==
  /\ \A f \in {"add", "addi"} :
       Mini!exe_cmd_sd(f) = 0 /\ Mini!optype_sd(f) = 0 /\ ~Mini!exe_neg_op2_sd(f)
  /\ Mini!exe_cmd_sd("sub") = 0 /\ Mini!optype_sd("sub") = 0 /\ Mini!exe_neg_op2_sd("sub")
  /\ \A f \in {"slt", "slti"} :
       Mini!exe_cmd_sd(f) = 0 /\ Mini!optype_sd(f) = 2 /\ Mini!exe_neg_op2_sd(f)
  /\ \A f \in {"sltu", "sltiu"} :
       Mini!exe_cmd_sd(f) = 1 /\ Mini!optype_sd(f) = 2 /\ Mini!exe_neg_op2_sd(f)
  /\ \A f \in {"and", "andi"} :
       Mini!exe_cmd_sd(f) = 1 /\ Mini!optype_sd(f) = 0 /\ ~Mini!exe_neg_op2_sd(f)
  /\ \A f \in {"or", "ori"} :
       Mini!exe_cmd_sd(f) = 2 /\ Mini!optype_sd(f) = 0 /\ ~Mini!exe_neg_op2_sd(f)
  /\ \A f \in {"xor", "xori"} :
       Mini!exe_cmd_sd(f) = 3 /\ Mini!optype_sd(f) = 0 /\ ~Mini!exe_neg_op2_sd(f)
  /\ \A f \in {"sll", "slli"} : Mini!exe_cmd_sd(f) = 0 /\ Mini!optype_sd(f) = 1
  /\ \A f \in {"srl", "srli"} : Mini!exe_cmd_sd(f) = 1 /\ Mini!optype_sd(f) = 1
  /\ \A f \in {"sra", "srai"} : Mini!exe_cmd_sd(f) = 2 /\ Mini!optype_sd(f) = 1
  BY DEF Mini!exe_cmd_sd, Mini!optype_sd, Mini!exe_neg_op2_sd

(* Which instructions there are for an operation.                          *)
LEMMA MiniFormsOf ==
  /\ MiniForms("add") = {"add", "addi"}   /\ MiniForms("sub") = {"sub"}
  /\ MiniForms("slt") = {"slt", "slti"}   /\ MiniForms("sltu") = {"sltu", "sltiu"}
  /\ MiniForms("and") = {"and", "andi"}   /\ MiniForms("or") = {"or", "ori"}
  /\ MiniForms("xor") = {"xor", "xori"}   /\ MiniForms("sll") = {"sll", "slli"}
  /\ MiniForms("srl") = {"srl", "srli"}   /\ MiniForms("sra") = {"sra", "srai"}
<1>1. DOMAIN ImmediateForm = {"add", "slt", "sltu", "and", "or", "xor", "sll", "srl", "sra"}
  BY DEF ImmediateForm
<1>2. /\ ImmediateForm["add"] = "addi" /\ ImmediateForm["slt"] = "slti"
      /\ ImmediateForm["sltu"] = "sltiu" /\ ImmediateForm["and"] = "andi"
      /\ ImmediateForm["or"] = "ori" /\ ImmediateForm["xor"] = "xori"
      /\ ImmediateForm["sll"] = "slli" /\ ImmediateForm["srl"] = "srli"
      /\ ImmediateForm["sra"] = "srai"
  BY DEF ImmediateForm
<1>3. ASSUME NEW op \in DOMAIN ImmediateForm
      PROVE  MiniForms(op) = {op, ImmediateForm[op]}
  BY <1>3 DEF MiniForms
<1>4. MiniForms("sub") = {"sub"}
  BY <1>1 DEF MiniForms
<1>5. QED
  BY <1>1, <1>2, <1>3, <1>4

(* The mini core's result is the instruction's but where MiniWrong says,   *)
(* and there it never is.                                                  *)
LEMMA MiniResultRight ==
  ASSUME NEW op \in Logic \cup Shifts, NEW f \in MiniForms(op), NEW a \in Word, NEW b \in Word
  PROVE  Value(Mini!exe_res_se(f, a, b)) = Meaning(op, a, b) <=> ~MiniWrong(op, a, b)
<1> DEFINE d == Plus(a, Not(b), 1)
           n == Value(b) % W
<1>1. Value(exe_res(op, a, b)) = Meaning(op, a, b)
  BY ResultRight
<1>2. Sign(a) \in BOOLEAN /\ Sign(b) \in BOOLEAN /\ Sign(d) \in BOOLEAN
  BY DEF Sign
<1>3. n \in 0..W-1
  <2>1. Value(b) \in Int /\ W \in Nat \ {0}
    BY WordValue, BitsAssumption
  <2>2. QED
    BY <2>1, DivMod
<1> HIDE DEF d, n
<1>4. CASE op \in {"add", "sub", "and", "or", "xor"}
  <2>1. Mini!exe_res_se(f, a, b) = exe_res(op, a, b)
    <3>1. CASE op = "add"
      <4>1. f \in {"add", "addi"}
        BY <3>1, MiniFormsOf
      <4>2. Mini!exe_res_se(f, a, b) = Plus(a, b, 0)
        <5>1. Mini!exe_cmd_sd(f) = 0 /\ Mini!optype_sd(f) = 0 /\ ~Mini!exe_neg_op2_sd(f)
          BY <4>1, MiniCommands
        <5>2. QED
          BY <5>1, MiniBits DEF d, Mini!exe_res_se, Mini!alu_out_se
      <4>3. QED
        BY <3>1, <4>2 DEF d, n, exe_res, alu_out, CMD_RD, NEG_OP2_RD, Shifts
    <3>2. CASE op = "sub"
      <4>1. f = "sub"
        BY <3>2, MiniFormsOf
      <4>2. Mini!exe_res_se(f, a, b) = d
        <5>1. Mini!exe_cmd_sd(f) = 0 /\ Mini!optype_sd(f) = 0 /\ Mini!exe_neg_op2_sd(f)
          BY <4>1, MiniCommands
        <5>2. QED
          BY <5>1, MiniBits DEF d, Mini!exe_res_se, Mini!alu_out_se
      <4>3. QED
        BY <3>2, <4>2 DEF d, n, exe_res, alu_out, CMD_RD, NEG_OP2_RD, Shifts
    <3>3. CASE op = "and"
      <4>1. f \in {"and", "andi"}
        BY <3>3, MiniFormsOf
      <4>2. Mini!exe_res_se(f, a, b) = a \cap b
        <5>1. Mini!exe_cmd_sd(f) = 1 /\ Mini!optype_sd(f) = 0 /\ ~Mini!exe_neg_op2_sd(f)
          BY <4>1, MiniCommands
        <5>2. QED
          BY <5>1, MiniBits DEF d, Mini!exe_res_se, Mini!alu_out_se
      <4>3. QED
        BY <3>3, <4>2 DEF d, n, exe_res, alu_out, CMD_RD, NEG_OP2_RD, Shifts
    <3>4. CASE op = "or"
      <4>1. f \in {"or", "ori"}
        BY <3>4, MiniFormsOf
      <4>2. Mini!exe_res_se(f, a, b) = a \cup b
        <5>1. Mini!exe_cmd_sd(f) = 2 /\ Mini!optype_sd(f) = 0 /\ ~Mini!exe_neg_op2_sd(f)
          BY <4>1, MiniCommands
        <5>2. QED
          BY <5>1, MiniBits DEF d, Mini!exe_res_se, Mini!alu_out_se
      <4>3. QED
        BY <3>4, <4>2 DEF d, n, exe_res, alu_out, CMD_RD, NEG_OP2_RD, Shifts
    <3>5. CASE op = "xor"
      <4>1. f \in {"xor", "xori"}
        BY <3>5, MiniFormsOf
      <4>2. Mini!exe_res_se(f, a, b) = Xor(a, b)
        <5>1. Mini!exe_cmd_sd(f) = 3 /\ Mini!optype_sd(f) = 0 /\ ~Mini!exe_neg_op2_sd(f)
          BY <4>1, MiniCommands
        <5>2. QED
          BY <5>1, MiniBits DEF d, Mini!exe_res_se, Mini!alu_out_se
      <4>3. QED
        BY <3>5, <4>2 DEF d, n, exe_res, alu_out, CMD_RD, NEG_OP2_RD, Shifts
    <3>6. QED
      BY <1>4, <3>1, <3>2, <3>3, <3>4, <3>5
  <2>2. ~MiniWrong(op, a, b)
    BY <1>4 DEF MiniWrong, n
  <2>3. QED
    BY <1>1, <2>1, <2>2
<1>5. CASE op = "slt"
  <2>1. f \in {"slt", "slti"}
    BY <1>5, MiniFormsOf
  <2>2. Mini!exe_res_se(f, a, b) = IF IF Sign(a) # Sign(b) THEN Sign(a) ELSE a # b /\ Sign(d)
                                   THEN {0} ELSE {}
    <3>1. Mini!exe_cmd_sd(f) = 0 /\ Mini!optype_sd(f) = 2 /\ Mini!exe_neg_op2_sd(f)
      BY <2>1, MiniCommands
    <3>2. QED
      BY <3>1, MiniBits DEF d, Mini!exe_res_se, Mini!alu_out_se
  <2>3. exe_res(op, a, b) = IF Less(a, b, d, op = "slt") THEN {0} ELSE {}
    BY <1>5 DEF d, n, exe_res, alu_out, CMD_RD, NEG_OP2_RD, Shifts
  <2>4. Mini!exe_res_se(f, a, b) = exe_res(op, a, b)
    BY <1>2, <1>5, <2>2, <2>3 DEF Less
  <2>5. ~MiniWrong(op, a, b)
    BY <1>5 DEF MiniWrong, n
  <2>6. QED
    BY <1>1, <2>4, <2>5
<1>6. CASE op = "sltu"
  <2>1. f \in {"sltu", "sltiu"}
    BY <1>6, MiniFormsOf
  <2>2. Mini!exe_res_se(f, a, b)
          = IF IF Sign(a) # Sign(b) THEN Sign(b) ELSE a # b /\ Sign(a \cap Not(b))
            THEN {0} ELSE {}
    <3>1. Mini!exe_cmd_sd(f) = 1 /\ Mini!optype_sd(f) = 2 /\ Mini!exe_neg_op2_sd(f)
      BY <2>1, MiniCommands
    <3>2. Mini!alu_out_se(1, a, Mini!Not(b), Mini!exe_neg_op2_sd(f)) = a \cap Not(b)
      BY MiniBits DEF Mini!alu_out_se
    <3>3. Mini!exe_res_se(f, a, b)
            = IF IF Mini!Sign(a) # Mini!Sign(b) THEN Mini!Sign(b)
                 ELSE a # b /\ Mini!Sign(Mini!alu_out_se(1, a, Mini!Not(b), Mini!exe_neg_op2_sd(f)))
              THEN {0} ELSE {}
      BY <3>1 DEF Mini!exe_res_se
    <3>4. QED
      BY <3>2, <3>3, MiniBits
  <2>3. Sign(a \cap Not(b)) <=> Sign(a) /\ ~Sign(b)
    BY BitsAssumption DEF Sign, Not, Bit, Word
  <2>4. Mini!exe_res_se(f, a, b) = IF Sign(a) # Sign(b) /\ Sign(b) THEN {0} ELSE {}
    BY <1>2, <2>2, <2>3
  <2>5. Meaning(op, a, b) = IF Value(a) < Value(b) THEN 1 ELSE 0
    BY <1>6 DEF Meaning
  <2>6. Sign(a) # Sign(b) => (Value(a) < Value(b) <=> Sign(b))
    <3>1. /\ Value(a) \in Nat /\ Value(b) \in Nat /\ 2^(W-1) \in Nat
          /\ Sign(a) <=> Value(a) >= 2^(W-1)
          /\ Sign(b) <=> Value(b) >= 2^(W-1)
      BY WordValue
    <3>2. QED
      BY <1>2, <3>1
  <2>7. Value({}) = 0 /\ Value({0}) = 1
    BY SmallValues
  <2>8. MiniWrong(op, a, b) <=> Sign(a) = Sign(b) /\ Value(a) < Value(b)
    BY <1>6 DEF MiniWrong, n
  <2>9. QED
    BY <1>2, <2>4, <2>5, <2>6, <2>7, <2>8
<1>7. CASE op \in {"sll", "srl"}
  <2>1. Mini!exe_res_se(f, a, b) = exe_res(op, a, b)
    <3>1. CASE op = "sll"
      <4>1. f \in {"sll", "slli"}
        BY <3>1, MiniFormsOf
      <4>2. Mini!exe_res_se(f, a, b) = sll(a, n)
        <5>1. Mini!exe_cmd_sd(f) = 0 /\ Mini!optype_sd(f) = 1
          BY <4>1, MiniCommands
        <5>2. Mini!exe_res_se(f, a, b) = Mini!shifter_out_se(0, a, n)
          BY <5>1, MiniBits DEF n, Mini!exe_res_se
        <5>3. QED
          BY <1>3, <5>2, MiniShift
      <4>3. QED
        BY <3>1, <4>2 DEF d, n, exe_res, shifter_out, shift_val, CMD_RD, Shifts
    <3>2. CASE op = "srl"
      <4>1. f \in {"srl", "srli"}
        BY <3>2, MiniFormsOf
      <4>2. Mini!exe_res_se(f, a, b) = sr(a, n, FALSE)
        <5>1. Mini!exe_cmd_sd(f) = 1 /\ Mini!optype_sd(f) = 1
          BY <4>1, MiniCommands
        <5>2. Mini!exe_res_se(f, a, b) = Mini!shifter_out_se(1, a, n)
          BY <5>1, MiniBits DEF n, Mini!exe_res_se
        <5>3. QED
          BY <1>3, <5>2, MiniShift
      <4>3. exe_res(op, a, b) = shifter_out(1, a, n)
        <5>1. CMD_RD(op) = 1
          BY <3>2 DEF CMD_RD
        <5>2. QED
          BY <3>2, <5>1 DEF d, n, exe_res, shift_val, Shifts
      <4>4. QED
        BY <4>2, <4>3 DEF shifter_out, sr
    <3>3. QED
      BY <1>7, <3>1, <3>2
  <2>2. ~MiniWrong(op, a, b)
    BY <1>7 DEF MiniWrong, n
  <2>3. QED
    BY <1>1, <2>1, <2>2
<1>8. CASE op = "sra"
  <2> DEFINE q == Value(a) \div 2^n
             k == 2^(W-n)
  <2>1. f \in {"sra", "srai"}
    BY <1>8, MiniFormsOf
  <2>2. Mini!exe_res_se(f, a, b) = sr(a, n, TRUE)
    <3>1. Mini!exe_cmd_sd(f) = 2 /\ Mini!optype_sd(f) = 1
      BY <2>1, MiniCommands
    <3>2. Mini!exe_res_se(f, a, b) = Mini!shifter_out_se(2, a, n)
      BY <3>1, MiniBits DEF n, Mini!exe_res_se
    <3>3. QED
      BY <1>3, <3>2, MiniShift
  <2>3. Value(sr(a, n, TRUE)) = q + (2^W - k)
    <3>1. Value(sr(a, n, TRUE)) = q + IF TRUE THEN 2^W - k ELSE 0
      BY <1>3, ShiftRight
    <3>2. QED
      BY <3>1
  <2>4. Meaning(op, a, b) = q + IF Sign(a) THEN 2^W - k ELSE 0
    <3>1. Meaning(op, a, b) = (SignedValue(a) \div 2^n) % 2^W
      BY <1>8 DEF Meaning, n
    <3>2. QED
      BY <1>3, <3>1, SignedQuotient
  <2>5. q \in Int /\ k \in Nat /\ 2^W \in Nat /\ (2^W = k <=> n = 0)
    <3>1. n \in Nat /\ W - n \in Nat /\ n + (W - n) = W
      BY <1>3, BitsAssumption
    <3>2. 2^n \in Nat \ {0} /\ k \in Nat \ {0} /\ 2^W = 2^n * k
      <4>1. 2^(n + (W - n)) = 2^n * k
        BY <3>1, PowerSum
      <4>2. 2^n \in Nat \ {0} /\ k \in Nat \ {0}
        BY <3>1, PowerNat
      <4> HIDE DEF k
      <4>3. QED
        BY <3>1, <4>1, <4>2
    <3>3. n # 0 => 2^n > 1
      <4>1. SUFFICES ASSUME n # 0 PROVE 2^n > 1
        OBVIOUS
      <4>2. n - 1 \in Nat /\ (n - 1) + 1 = n
        BY <3>1, <4>1
      <4>3. 2^n = 2 * 2^(n - 1) /\ 2^(n - 1) \in Nat /\ 2^(n - 1) >= 1
        BY <4>2, PowerStep, PowerNat
      <4>4. QED
        BY <4>3
    <3>4. q \in Int
      <4>1. Value(a) \in Int
        BY WordValue
      <4>2. QED
        BY <3>2, <4>1, DivMod
    <3>5. n = 0 => 2^n = 1
      <4>1. 2^0 = 1
        OBVIOUS
      <4>2. QED
        BY <4>1
    <3> HIDE DEF q, k
    <3>6. QED
      BY <3>2, <3>3, <3>4, <3>5
  <2>6. MiniWrong(op, a, b) <=> ~Sign(a) /\ n # 0
    BY <1>8 DEF MiniWrong, n
  <2> HIDE DEF q, k
  <2>7. CASE Sign(a)
    BY <2>2, <2>3, <2>4, <2>6, <2>7
  <2>8. CASE ~Sign(a)
    <3>1. q + (2^W - k) = q + 0 <=> n = 0
      BY <2>5
    <3>2. QED
      BY <2>2, <2>3, <2>4, <2>6, <2>8, <3>1
  <2>9. QED
    BY <2>7, <2>8
<1>9. QED
  BY <1>4, <1>5, <1>6, <1>7, <1>8 DEF Logic, Shifts

(* For words of every width, the mini core's EXE gives what its            *)
(* instructions ask for and its DEC takes the branches they take, but for  *)
(* SLTU of two operands of one sign and SRA of a non-negative one, which   *)
(* are always wrong (version1: exec::select_exec_res, alu, shifter,        *)
(* decod::post_reg_read_decoding).                                         *)
THEOREM AlwaysMiniResultsRight == Spec => []MiniResultsRight
<1>1. WordsStay => MiniResultsRight
  BY MiniResultRight, MiniBranchRight DEF WordsStay, MiniResultsRight
<1>2. QED
  BY <1>1, AlwaysWords, PTL

-----------------------------------------------------------------------------
(* Cutting positions out of a word.                                        *)
LEMMA SliceIs ==
  ASSUME NEW w \in Word, NEW lo \in Nat, NEW hi \in Int
  PROVE  /\ Slice(w, hi, lo) = {k \in 0..W-1 : k + lo \in w} \cap (0..(hi - lo + 1) - 1)
         /\ Slice(w, hi, lo) \in Word
<1>1. w \in SUBSET (0..W-1) /\ W \in Nat
  BY BitsAssumption DEF Word, Bit
<1>2. ASSUME NEW k \in Slice(w, hi, lo)
      PROVE  k \in 0..W-1 /\ k + lo \in w /\ k \in 0..(hi - lo + 1) - 1
  BY <1>1 DEF Slice
<1>3. ASSUME NEW k \in 0..W-1, k + lo \in w, k \in 0..(hi - lo + 1) - 1
      PROVE  k \in Slice(w, hi, lo)
  <2>1. k + lo \in w \cap (lo..hi) /\ k = (k + lo) - lo
    BY <1>3
  <2>2. QED
    BY <2>1 DEF Slice
<1>4. QED
  BY <1>2, <1>3 DEF Word, Bit

(* Cutting numbers out of a word.                                          *)
LEMMA SliceValue ==
  ASSUME NEW w \in Word, NEW lo \in Nat, NEW n \in Nat
  PROVE  Value(Slice(w, lo + n - 1, lo)) = (Value(w) \div 2^lo) % 2^n
<1> DEFINE high == {k \in 0..W-1 : k + lo \in w}
<1>1. W \in Nat /\ w \in SUBSET (0..W-1) /\ high \in SUBSET (0..W-1)
  BY BitsAssumption DEF Word, Bit
<1>2. Value(high) = Value(w) \div 2^lo
  BY <1>1, ValueSplit
<1>3. Slice(w, lo + n - 1, lo) = high \cap (0..n-1)
  <2>1. lo + n - 1 \in Int /\ (lo + n - 1) - lo + 1 = n
    OBVIOUS
  <2>2. QED
    BY <2>1, SliceIs
<1> HIDE DEF high
<1>4. Value(high \cap (0..n-1)) = Value(high) % 2^n
  BY <1>1, ValueSplit
<1>5. QED
  BY <1>2, <1>3, <1>4

(* A slice is its lower part and its upper part.                           *)
LEMMA SliceJoin ==
  ASSUME NEW w \in Word, NEW lo \in Nat, NEW m \in Nat, NEW n \in Nat
  PROVE  Value(Slice(w, lo + (m + n) - 1, lo))
           = Value(Slice(w, lo + m - 1, lo)) + 2^m * Value(Slice(w, (lo + m) + n - 1, lo + m))
<1> DEFINE all  == Slice(w, lo + (m + n) - 1, lo)
           low  == Slice(w, lo + m - 1, lo)
           high == Slice(w, (lo + m) + n - 1, lo + m)
<1>1. /\ all = {k \in 0..W-1 : k + lo \in w} \cap (0..(m + n) - 1)
      /\ low = {k \in 0..W-1 : k + lo \in w} \cap (0..m-1)
      /\ high = {k \in 0..W-1 : k + (lo + m) \in w} \cap (0..n-1)
      /\ all \in Word /\ low \in Word /\ high \in Word
  <2>1. /\ (lo + (m + n) - 1) - lo + 1 = m + n
        /\ (lo + m - 1) - lo + 1 = m
        /\ ((lo + m) + n - 1) - (lo + m) + 1 = n
        /\ lo + m \in Nat
    OBVIOUS
  <2>2. /\ lo + (m + n) - 1 \in Int /\ lo + m - 1 \in Int /\ (lo + m) + n - 1 \in Int
    OBVIOUS
  <2>3. QED
    BY <2>1, <2>2, SliceIs
<1> HIDE DEF all, low, high
<1>2. W \in Nat /\ all \in SUBSET (0..W-1) /\ low \in SUBSET (0..W-1) /\ high \in SUBSET (0..W-1)
  BY <1>1, BitsAssumption DEF Word, Bit
<1>3. all = low \cup Placed(high, m) /\ low \cap Placed(high, m) = {}
  <2>1. w \in SUBSET (0..W-1)
    BY DEF Word, Bit
  <2>2. ASSUME NEW k \in all, k \notin low PROVE k \in Placed(high, m)
    <3>1. k \in 0..W-1 /\ k \in 0..(m + n) - 1 /\ k + lo \in w /\ ~(k \in 0..m-1)
      BY <1>1, <2>2
    <3>2. k - m \in 0..W-1 /\ k - m \in 0..n-1 /\ (k - m) + (lo + m) = k + lo /\ k = (k - m) + m
      BY <1>2, <3>1
    <3>3. k - m \in high
      BY <1>1, <3>1, <3>2
    <3>4. QED
      BY <3>2, <3>3 DEF Placed
  <2>3. ASSUME NEW k \in high PROVE k + m \in all /\ k + m \notin low
    <3>1. k \in 0..W-1 /\ k \in 0..n-1 /\ (k + m) + lo = k + (lo + m) /\ k + (lo + m) \in w
      BY <1>1
    <3>2. k + m \in 0..W-1 /\ k + m \in 0..(m + n) - 1
      <4>1. k + (lo + m) \in 0..W-1
        BY <2>1, <3>1
      <4>2. QED
        BY <1>2, <3>1, <4>1
    <3>3. QED
      BY <1>1, <3>1, <3>2
  <2>4. low \subseteq all
    BY <1>1
  <2>5. QED
    BY <2>2, <2>3, <2>4 DEF Placed
<1>4. Placed(high, m) \in SUBSET (0..W-1)
  BY <1>2, <1>3
<1>5. Value(low \cup Placed(high, m)) = Value(low) + Value(Placed(high, m))
  BY <1>2, <1>3, <1>4, ValueUnion
<1>6. Value(Placed(high, m)) = 2^m * Value(high)
  BY <1>2, ValuePlaced
<1>7. QED
  BY <1>3, <1>5, <1>6 DEF all, low, high

(* Where an access that is not misaligned is.                              *)
LEMMA Places ==
  ASSUME NEW size \in Sizes, NEW a \in Adr, ~missaligned(size, a)
  PROVE  /\ a \in Nat /\ a % 4 \in 0..3
         /\ Memory!Length(size) \in {1, 2, 4} /\ (a % 4) + Memory!Length(size) <= 4
         /\ Memory!Aligned(size, a)
         /\ range_size(size) = B * Memory!Length(size) - 1
<1>1. a \in Nat /\ a % 4 \in 0..3 /\ a = 4 * (a \div 4) + (a % 4) /\ a \div 4 \in Int
  BY LoadStoreAssumption, DivMod
<1>2. B \in Nat \ {0} /\ W = 4 * B
  BY Widths
<1>3. CASE size = "byte"
  <2>1. Memory!Length(size) = 1 /\ range_size(size) = B - 1
    BY <1>3 DEF Memory!Length, range_size
  <2>2. a % 1 = 0
    BY <1>1
  <2>3. QED
    BY <1>1, <1>2, <2>1, <2>2 DEF Memory!Aligned
<1>4. CASE size = "half"
  <2>1. Memory!Length(size) = 2 /\ range_size(size) = 2 * B - 1
    BY <1>4 DEF Memory!Length, range_size
  <2>2. a % 2 = 0
    BY <1>4 DEF missaligned
  <2>3. a % 4 # 3
    <3>1. a = 2 * (a \div 2) /\ a \div 2 \in Int
      BY <1>1, <2>2
    <3>2. QED
      BY <1>1, <3>1
  <2>4. QED
    BY <1>1, <1>2, <2>1, <2>2, <2>3 DEF Memory!Aligned
<1>5. CASE size = "word"
  <2>1. Memory!Length(size) = 4 /\ range_size(size) = W - 1
    BY <1>5 DEF Memory!Length, range_size
  <2>2. a % 4 = 0
    BY <1>5 DEF missaligned
  <2>3. QED
    BY <1>1, <1>2, <2>1, <2>2 DEF Memory!Aligned
<1>6. QED
  BY <1>3, <1>4, <1>5 DEF Sizes

(* The end of the access, without range_end's limit.                       *)
LEMMA EndOfAccess ==
  ASSUME NEW size \in Sizes, NEW o \in 0..3, NEW n \in {1, 2, 4}, o + n <= 4,
         range_size(size) = B * n - 1
  PROVE  /\ B * o \in Nat /\ range_end(B * o, size) = B * o + B * n - 1
         /\ B * o + B * n - 1 <= W - 1
<1>1. B \in Nat \ {0} /\ W = 4 * B
  BY Widths
<1>2. B * o \in Nat /\ B * n \in Nat /\ B * o + B * n <= 4 * B
  BY <1>1
<1>3. range_end(B * o, size) = IF W - 1 <= B * o + (B * n - 1) THEN W - 1 ELSE B * o + (B * n - 1)
  BY <1>2, Widths
<1>4. QED
  BY <1>1, <1>2, <1>3

(* The byte k after the first of an access is in the same word.            *)
LEMMA NextBytes ==
  ASSUME NEW a \in Nat, NEW k \in 0..3, (a % 4) + k <= 3
  PROVE  (a + k) % 4 = (a % 4) + k /\ Aligned(a + k) = Aligned(a)
<1>1. a % 4 \in 0..3 /\ a = 4 * (a \div 4) + (a % 4) /\ a \div 4 \in Int
  BY DivMod
<1>2. IsDivision(a + k, 4, a \div 4, (a % 4) + k)
  BY <1>1 DEF IsDivision
<1>3. (a + k) % 4 = (a % 4) + k
  BY <1>2, DivModUnique
<1>4. QED
  BY <1>1, <1>3 DEF Aligned

(* Ones from position m on.                                                *)
LEMMA ValueHigh ==
  ASSUME NEW w \in Nat, NEW m \in 0..w
  PROVE  Value(m..w-1) = 2^w - 2^m
<1>1. w \in Nat /\ m \in Nat
  OBVIOUS
<1>2. 0..m-1 \in SUBSET (0..w-1) /\ m..w-1 \in SUBSET (0..w-1)
      /\ (0..m-1) \cap (m..w-1) = {} /\ (0..m-1) \cup (m..w-1) = 0..w-1
  BY <1>1
<1>3. Value((0..m-1) \cup (m..w-1)) = Value(0..m-1) + Value(m..w-1)
  <2> DEFINE low  == 0..m-1
             high == m..w-1
  <2>1. low \in SUBSET (0..w-1) /\ high \in SUBSET (0..w-1) /\ low \cap high = {}
    BY <1>2
  <2> HIDE DEF low, high
  <2>2. Value(low \cup high) = Value(low) + Value(high)
    BY <1>1, <2>1, ValueUnion
  <2>3. QED
    BY <2>2 DEF low, high
<1>4. Value(0..w-1) = 2^w - 1 /\ Value(0..m-1) = 2^m - 1
  BY <1>1, ValueInterval
<1>5. Value(m..w-1) \in Nat /\ 2^w \in Nat /\ 2^m \in Nat
  BY <1>1, <1>2, ValueFacts, PowerNat
<1>6. 2^w - 1 = (2^m - 1) + Value(m..w-1)
  BY <1>2, <1>3, <1>4
<1>7. QED
  BY <1>5, <1>6

(* The top position of a set of positions tells its value's size.          *)
LEMMA ValueTopBit ==
  ASSUME NEW n \in Nat \ {0}, NEW s \in SUBSET (0..n-1)
  PROVE  Value(s) \in Nat /\ (n - 1 \in s <=> Value(s) >= 2^(n-1))
<1>1. n - 1 \in Nat /\ s \in SUBSET (0..(n-1))
  OBVIOUS
<1>2. /\ s \ {n-1} \in SUBSET (0..(n-1)-1)
      /\ Value(s) \in Nat /\ Value(s \ {n-1}) \in Nat
      /\ Value(s) = Value(s \ {n-1}) + IF n - 1 \in s THEN 2^(n-1) ELSE 0
  BY <1>1, ValueTop
<1>3. Value(s \ {n-1}) < 2^(n-1)
  BY <1>1, <1>2, ValueBound
<1>4. 2^(n-1) \in Nat
  BY <1>1, PowerNat
<1>5. QED
  BY <1>2, <1>3, <1>4

(* What a load makes of the word: its bits of it, extended as asked.       *)
LEMMA LoadedValue ==
  ASSUME NEW w \in Word, NEW size \in Sizes, NEW a \in Nat, NEW signed \in BOOLEAN,
         NEW o \in 0..3, NEW n \in {1, 2, 4}, o + n <= 4, range_size(size) = B * n - 1,
         (IF a % 8 < 4 THEN B * (a % 8) ELSE 0) = B * o,
         NEW v, v = Value(Slice(w, B * o + B * n - 1, B * o))
  PROVE  Value(dout(w, size, a, signed)) = IF signed /\ v >= 2^(B * n - 1)
                                           THEN v + 2^W - 2^(B * n) ELSE v
<1> DEFINE lo  == B * o
           len == B * n
           s   == Slice(w, lo + len - 1, lo)
           fill == IF signed /\ lo + len - 1 \in w THEN Bit ELSE {}
<1>1. W \in Nat /\ lo \in Nat /\ len \in Nat \ {0} /\ lo + len - 1 <= W - 1 /\ len <= W
  <2>1. W \in Nat /\ B \in Nat \ {0}
    BY Widths
  <2>2. lo \in Nat /\ lo + len - 1 <= W - 1
    BY EndOfAccess
  <2>3. len \in Nat \ {0}
    BY <2>1
  <2> HIDE DEF lo, len
  <2>4. QED
    BY <2>1, <2>2, <2>3
<1>2. dout(w, size, a, signed) = (fill \ (0..len-1)) \cup s
  <2>1. range_end(lo, size) = lo + len - 1
    BY EndOfAccess
  <2>2. QED
    BY <2>1 DEF dout
<1> HIDE DEF lo, len
<1>3. /\ s = {k \in 0..W-1 : k + lo \in w} \cap (0..len-1)
      /\ s \in Word /\ s \in SUBSET (0..W-1) /\ s \in SUBSET (0..len-1)
  <2>1. lo + len - 1 \in Int /\ (lo + len - 1) - lo + 1 = len
    BY <1>1
  <2>2. s = {k \in 0..W-1 : k + lo \in w} \cap (0..len-1)
    BY <1>1, <2>1, SliceIs
  <2>3. QED
    BY <2>2 DEF Word, Bit
<1>4. len - 1 \in s <=> lo + len - 1 \in w
  <2>1. len - 1 \in 0..W-1 /\ len - 1 \in 0..len-1 /\ (len - 1) + lo = lo + len - 1
    BY <1>1
  <2>2. QED
    BY <1>3, <2>1
<1> HIDE DEF s
<1>5. v \in Nat /\ v = Value(s) /\ (len - 1 \in s <=> v >= 2^(len-1))
  <2>1. v = Value(s)
    BY DEF s, lo, len
  <2>2. QED
    BY <1>1, <1>3, <2>1, ValueTopBit
<1>6. CASE signed /\ lo + len - 1 \in w
  <2> DEFINE ones == len..W-1
  <2>1. fill \ (0..len-1) = ones
    BY <1>1, <1>6 DEF Bit
  <2>2. ones \in SUBSET (0..W-1) /\ ones \cap s = {}
    BY <1>1, <1>3
  <2>3. Value(ones) = 2^W - 2^len
    BY <1>1, ValueHigh
  <2> HIDE DEF ones
  <2>4. Value(ones \cup s) = Value(ones) + Value(s)
    <3>1. W \in Nat /\ ones \in SUBSET (0..W-1) /\ s \in SUBSET (0..W-1) /\ ones \cap s = {}
      BY <1>1, <1>3, <2>2
    <3>2. QED
      BY <3>1, ValueUnion
  <2>5. Value(dout(w, size, a, signed)) = 2^W - 2^len + v
    BY <1>2, <1>5, <2>1, <2>3, <2>4
  <2>6. 2^W \in Nat /\ 2^len \in Nat
    BY <1>1, PowerNat
  <2>7. Value(dout(w, size, a, signed)) = v + 2^W - 2^len
    BY <1>5, <2>5, <2>6
  <2>8. QED
    BY <1>4, <1>5, <1>6, <2>7 DEF len
<1>7. CASE ~(signed /\ lo + len - 1 \in w)
  <2>1. (fill \ (0..len-1)) \cup s = s
    BY <1>7
  <2>2. QED
    BY <1>2, <1>4, <1>5, <1>7, <2>1 DEF len
<1>8. QED
  BY <1>6, <1>7

(* The bytes of a word, one after another.                                 *)
LEMMA SliceBytes ==
  ASSUME NEW w \in Word, NEW o \in 0..3, NEW k \in Nat
  PROVE  Value(Slice(w, B * o + B * (k + 1) - 1, B * o))
           = Value(Slice(w, B * o + B * k - 1, B * o))
               + 2^(B * k) * Value(Slice(w, B * (o + k) + B - 1, B * (o + k)))
<1>1. B \in Nat
  BY Widths
<1>2. B * o \in Nat /\ B * k \in Nat /\ B * (k + 1) = B * k + B /\ B * (o + k) = B * o + B * k
  BY <1>1
<1>3. Value(Slice(w, B * o + (B * k + B) - 1, B * o))
           = Value(Slice(w, B * o + B * k - 1, B * o))
               + 2^(B * k) * Value(Slice(w, (B * o + B * k) + B - 1, B * o + B * k))
  BY <1>1, <1>2, SliceJoin
<1>4. QED
  BY <1>2, <1>3

(* Where programs load bytes and half-words from: not from 5 to 7 of a     *)
(* double word, where mem::sign_extend takes the byte or half-word at 4.   *)
NarrowWhereRight == \A a \in Narrow : a % 8 <= 4

(* There mem::sign_extend and the data cache agree on where the access     *)
(* starts.                                                                 *)
LEMMA LoadStart ==
  ASSUME NarrowWhereRight, NEW size \in Sizes, NEW a \in Adr, ~missaligned(size, a),
         size # "word" => a \in Narrow
  PROVE  (IF a % 8 < 4 THEN B * (a % 8) ELSE 0) = B * (a % 4)
<1>1. a \in Nat /\ B \in Nat
  BY LoadStoreAssumption, Widths
<1>2. /\ a % 4 \in 0..3 /\ a = 4 * (a \div 4) + (a % 4) /\ a \div 4 \in Int
      /\ a % 8 \in 0..7 /\ a = 8 * (a \div 8) + (a % 8) /\ a \div 8 \in Int
  BY <1>1, DivMod
<1>3. a % 8 < 4 => a % 8 = a % 4
  BY <1>1, <1>2
<1>4. ~(a % 8 < 4) => a % 4 = 0
  <2>1. CASE size = "word"
    BY <2>1 DEF missaligned
  <2>2. CASE size # "word"
    <3>1. a % 8 <= 4
      BY <2>2 DEF NarrowWhereRight
    <3>2. QED
      BY <1>1, <1>2, <3>1
  <2>3. QED
    BY <2>1, <2>2
<1>5. QED
  BY <1>1, <1>3, <1>4

(* The number a load gives is made of the bytes at its address.            *)
LEMMA BytesLoaded ==
  ASSUME WordsStay, NEW size \in Sizes, NEW a \in Adr, ~missaligned(size, a)
  PROVE  Memory!Unsigned(size, a)
           = Value(Slice(ram[Aligned(a)], B * (a % 4) + B * Memory!Length(size) - 1, B * (a % 4)))
<1> DEFINE w == ram[Aligned(a)]
           o == a % 4
           n == Memory!Length(size)
           P(k) == Value(Slice(w, B * (o + k) + B - 1, B * (o + k)))
           V(k) == Value(Slice(w, B * o + B * k - 1, B * o))
<1>1. /\ a \in Nat /\ o \in 0..3 /\ n \in {1, 2, 4} /\ o + n <= 4
  BY Places
<1>2. w \in Word
  BY AlignedIsWord DEF WordsStay
<1>3. B \in Nat /\ W = 4 * B
  BY Widths
<1> HIDE DEF w, o, n
<1>4. ASSUME NEW k \in 0..3, o + k <= 3
      PROVE  Memory!At(a, k + 1) = P(k) * 2^(B * k)
  <2>1. (a + k) % 4 = o + k /\ Aligned(a + k) = Aligned(a)
    BY <1>1, <1>4, NextBytes DEF o
  <2>2. a + k \in Adr
    <3>1. (a - (a % 4))..(a - (a % 4)) + 3 \subseteq Adr
      BY LoadStoreAssumption
    <3>2. a + k \in (a - (a % 4))..(a - (a % 4)) + 3
      BY <1>1, <1>4 DEF o
    <3>3. QED
      BY <3>1, <3>2
  <2>3. ByteAt(a + k) = Slice(w, B * (o + k) + B - 1, B * (o + k))
    BY <2>1 DEF ByteAt, w
  <2>4. ByteAt(a + k) \in Word
    <3>1. B * (o + k) \in Nat /\ B * (o + k) + B - 1 \in Int
      BY <1>1, <1>3
    <3>2. QED
      BY <1>2, <2>3, <3>1, SliceIs
  <2>5. ValueOf[ByteAt(a + k)] = P(k)
    BY <2>3, <2>4 DEF ValueOf
  <2>6. a + (k + 1) - 1 = a + k /\ (k + 1) - 1 = k /\ k + 1 > 0
    BY <1>1
  <2>7. Memory!At(a, k + 1) = [c \in Adr |-> ValueOf[ByteAt(c)]][a + k] * 2^(B * k)
    BY <2>6 DEF Memory!At
  <2>8. QED
    BY <2>2, <2>5, <2>7
<1>5. ASSUME NEW k \in 0..3
      PROVE  V(k + 1) = V(k) + 2^(B * k) * P(k) /\ V(k + 1) \in Nat /\ P(k) \in Nat /\ 2^(B * k) \in Nat
  <2>1. V(k + 1) = V(k) + 2^(B * k) * P(k)
    BY <1>1, <1>2, SliceBytes
  <2>2. /\ B * k \in Nat /\ B * (o + k) \in Nat /\ B * (o + k) + B - 1 \in Int
        /\ B * o \in Nat /\ B * o + B * (k + 1) - 1 \in Int
    BY <1>1, <1>3
  <2>3. V(k + 1) \in Nat /\ P(k) \in Nat
    BY <1>2, <2>2, SliceIs, WordValue
  <2>4. QED
    BY <2>1, <2>2, <2>3, PowerNat
<1>6. V(0) = 0
  <2>1. B * o \in Nat /\ B * o + B * 0 - 1 \in Int /\ (B * o + B * 0 - 1) - B * o + 1 = 0
    BY <1>1, <1>3
  <2>2. Slice(w, B * o + B * 0 - 1, B * o) = {}
    BY <1>2, <2>1, SliceIs
  <2>3. QED
    BY <2>2, ValueEmpty
<1> HIDE DEF V, P
<1>7. /\ n = 1 => size = "byte" /\ Memory!Unsigned(size, a) = Memory!At(a, 1) + 0
      /\ n = 2 => size = "half" /\ Memory!Unsigned(size, a) = Memory!At(a, 1) + (Memory!At(a, 2) + 0)
      /\ n = 4 => /\ size = "word"
                  /\ Memory!Unsigned(size, a)
                       = Memory!At(a, 1) + (Memory!At(a, 2) + (Memory!At(a, 3) + Memory!At(a, 4)))
  BY DEF Memory!Unsigned, n, Memory!Length, Sizes
<1>8. Memory!At(a, 1) = V(1)
  <2>1. Memory!At(a, 0 + 1) = P(0) * 2^(B * 0)
    BY <1>1, <1>4
  <2>2. V(0 + 1) = V(0) + 2^(B * 0) * P(0) /\ P(0) \in Nat /\ 2^(B * 0) \in Nat /\ V(0 + 1) \in Nat
    BY <1>5
  <2>3. QED
    BY <1>6, <2>1, <2>2
<1>9. n \in {2, 4} => V(1) + Memory!At(a, 2) = V(2)
  <2>1. SUFFICES ASSUME n \in {2, 4} PROVE V(1) + Memory!At(a, 2) = V(2)
    OBVIOUS
  <2>2. Memory!At(a, 1 + 1) = P(1) * 2^(B * 1)
    BY <1>1, <1>4, <2>1
  <2>3. V(1 + 1) = V(1) + 2^(B * 1) * P(1) /\ P(1) \in Nat /\ 2^(B * 1) \in Nat
    BY <1>5
  <2>4. QED
    BY <2>2, <2>3
<1>10. n = 4 => V(2) + Memory!At(a, 3) = V(3) /\ V(3) + Memory!At(a, 4) = V(4)
  <2>1. SUFFICES ASSUME n = 4
                 PROVE  V(2) + Memory!At(a, 3) = V(3) /\ V(3) + Memory!At(a, 4) = V(4)
    OBVIOUS
  <2>2. Memory!At(a, 2 + 1) = P(2) * 2^(B * 2) /\ Memory!At(a, 3 + 1) = P(3) * 2^(B * 3)
    BY <1>1, <1>4, <2>1
  <2>3. /\ V(2 + 1) = V(2) + 2^(B * 2) * P(2) /\ P(2) \in Nat /\ 2^(B * 2) \in Nat
        /\ V(3 + 1) = V(3) + 2^(B * 3) * P(3) /\ P(3) \in Nat /\ 2^(B * 3) \in Nat
    BY <1>5
  <2>4. QED
    BY <2>2, <2>3
<1>11. V(1) \in Nat /\ V(2) \in Nat /\ V(3) \in Nat /\ V(4) \in Nat
  <2>1. V(0 + 1) \in Nat /\ V(1 + 1) \in Nat /\ V(2 + 1) \in Nat /\ V(3 + 1) \in Nat
    BY <1>5
  <2>2. QED
    BY <2>1
<1>12. Memory!Unsigned(size, a) = V(n)
  <2>1. CASE n = 1
    BY <1>7, <1>8, <1>11, <2>1
  <2>2. CASE n = 2
    <3>1. Memory!At(a, 2) \in Int
      <4>1. Memory!At(a, 1 + 1) = P(1) * 2^(B * 1) /\ P(1) \in Nat /\ 2^(B * 1) \in Nat
        BY <1>1, <1>4, <1>5, <2>2
      <4>2. QED
        BY <4>1
    <3>2. QED
      BY <1>7, <1>8, <1>9, <1>11, <2>2, <3>1
  <2>3. CASE n = 4
    <3>1. Memory!At(a, 2) \in Int /\ Memory!At(a, 3) \in Int /\ Memory!At(a, 4) \in Int
      <4>1. ASSUME NEW k \in 1..3 PROVE Memory!At(a, k + 1) \in Int
        <5>1. Memory!At(a, k + 1) = P(k) * 2^(B * k) /\ P(k) \in Nat /\ 2^(B * k) \in Nat
          BY <1>1, <1>4, <1>5, <2>3
        <5>2. QED
          BY <5>1
      <4>2. Memory!At(a, 1 + 1) \in Int /\ Memory!At(a, 2 + 1) \in Int /\ Memory!At(a, 3 + 1) \in Int
        BY <4>1
      <4>3. QED
        BY <4>2
    <3>2. QED
      BY <1>7, <1>8, <1>9, <1>10, <1>11, <2>3, <3>1
  <2>4. QED
    BY <1>1, <2>1, <2>2, <2>3
<1>13. QED
  BY <1>12 DEF V, w, o, n

(* Every load does what ByteMemory's does.                                 *)
LEMMA LoadIsBytes ==
  ASSUME WordsStay, NarrowWhereRight, NEW size \in Sizes, NEW a \in Adr, NEW signed \in BOOLEAN,
         Load(size, a, signed)
  PROVE  Memory!LoadBytes(size, a, signed)
<1> DEFINE w == ram[Aligned(a)]
           o == a % 4
           n == Memory!Length(size)
           v == Value(Slice(w, B * o + B * n - 1, B * o))
<1>1. ~missaligned(size, a) /\ (size # "word" => a \in Narrow)
      /\ UNCHANGED ram /\ x' = dout(w, size, a, signed)
  BY DEF Load
<1>2. /\ a \in Nat /\ o \in 0..3 /\ n \in {1, 2, 4} /\ o + n <= 4
      /\ Memory!Aligned(size, a) /\ range_size(size) = B * n - 1
  BY <1>1, Places
<1>3. w \in Word /\ W = 4 * B
  BY AlignedIsWord, Widths DEF WordsStay
<1>4. (IF a % 8 < 4 THEN B * (a % 8) ELSE 0) = B * o
  BY <1>1, LoadStart
<1>5. Memory!Unsigned(size, a) = v
  BY <1>1, BytesLoaded
<1>6. dout(w, size, a, signed) \in Word
  BY <1>2, <1>3, DoutWord
<1> HIDE DEF w, o, n, v
<1>7. Value(dout(w, size, a, signed)) = IF signed /\ v >= 2^(B * n - 1) THEN v + 2^W - 2^(B * n) ELSE v
  BY <1>2, <1>3, <1>4, LoadedValue DEF v
<1>8. Memory!Extended(size, v, signed)
        = IF signed /\ v >= 2^(B * n - 1) THEN v + 2^W - 2^(B * n) ELSE v
  BY <1>3 DEF Memory!Extended, n
<1>9. ValueOf[x'] = Memory!Extended(size, Memory!Unsigned(size, a), signed)
  BY <1>1, <1>5, <1>6, <1>7, <1>8 DEF ValueOf
<1>10. [c \in Adr |-> ValueOf[ByteAt(c)]]' = [c \in Adr |-> ValueOf[ByteAt(c)]]
  BY <1>1 DEF ByteAt
<1>11. QED
  BY <1>2, <1>9, <1>10 DEF Memory!LoadBytes

(* The word a store leaves.                                                *)
LEMMA StoredWord ==
  ASSUME x \in Word, NEW old \in Word, NEW size \in Sizes, NEW a \in Nat, NEW signed \in BOOLEAN,
         NEW o \in 0..3, o = a % 4, NEW n \in {1, 2, 4}, o + n <= 4, range_size(size) = B * n - 1,
         size = "word" => n = 4
  PROVE  temporary_value(old, MCACHE_DATA_SM(size, a, signed), size, a)
           = {k \in 0..W-1 : IF k \in B * o .. B * o + B * n - 1 THEN k - B * o \in x ELSE k \in old}
<1> DEFINE lo == B * o
           len == B * n
           hi == lo + len - 1
           fill == IF signed /\ hi \in x THEN Bit ELSE {}
           low == Slice(x, len - 1, 0)
           data == (fill \ (lo..hi)) \cup (Placed(low, lo) \cap (lo..hi))
<1>1. B \in Nat \ {0} /\ W = 4 * B
  BY Widths
<1>2. lo \in Nat /\ len \in Nat \ {0} /\ hi <= W - 1 /\ range_end(lo, size) = hi
  <2>1. lo \in Nat /\ hi <= W - 1 /\ range_end(lo, size) = hi
    BY EndOfAccess
  <2>2. len \in Nat \ {0}
    BY <1>1
  <2>3. QED
    BY <2>1, <2>2
<1>3. MCACHE_DATA_SM(size, a, signed) = data
  BY <1>2 DEF MCACHE_DATA_SM
<1>4. size = "word" => lo = 0 /\ hi = W - 1
  BY <1>1
<1> HIDE DEF lo, len
<1>5. low = {k \in 0..W-1 : k \in x /\ k <= len - 1}
  <2>1. 0 \in Nat /\ len - 1 \in Int /\ (len - 1) - 0 + 1 = len
    BY <1>2
  <2>2. low = {k \in 0..W-1 : k + 0 \in x} \cap (0..len-1)
    BY <2>1, SliceIs
  <2>3. QED
    BY <1>2, <2>2
<1> HIDE DEF low
<1>6. ASSUME NEW k \in lo..hi PROVE k \in data <=> k - lo \in x
  <2>1. k \in Placed(low, lo) <=> k - lo \in low
    <3>1. ASSUME NEW j \in low, k = j + lo PROVE k - lo \in low
      <4>1. k - lo = j
        BY <1>2, <1>5, <3>1
      <4>2. QED
        BY <4>1
    <3>2. k = (k - lo) + lo
      BY <1>2
    <3>3. QED
      BY <3>1, <3>2 DEF Placed
  <2>2. k - lo \in 0..W-1 /\ k - lo <= len - 1
    BY <1>1, <1>2
  <2>3. QED
    BY <1>5, <2>1, <2>2
<1>7. /\ size = "word" => temporary_value(old, data, size, a) = data
      /\ size # "word" => temporary_value(old, data, size, a)
                            = (old \ (lo..hi)) \cup (data \cap (lo..hi))
  BY <1>2 DEF temporary_value, lo
<1>8. old \in SUBSET (0..W-1) /\ lo..hi \subseteq 0..W-1
  BY <1>1, <1>2 DEF Word, Bit
<1>9. size = "word" => data \subseteq lo..hi
  BY <1>4 DEF Bit
<1> HIDE DEF data
<1>10. temporary_value(old, data, size, a)
         = {k \in 0..W-1 : IF k \in lo..hi THEN k - lo \in x ELSE k \in old}
  <2>1. CASE size = "word"
    BY <1>4, <1>6, <1>7, <1>8, <1>9, <2>1
  <2>2. CASE size # "word"
    BY <1>6, <1>7, <1>8, <2>2
  <2>3. QED
    BY <2>1, <2>2
<1>11. QED
  BY <1>3, <1>10 DEF lo, len

(* The bytes a store leaves.                                               *)
LEMMA StoredByte ==
  ASSUME x \in Word, NEW old \in Word, NEW size \in Sizes, NEW a \in Nat, NEW signed \in BOOLEAN,
         NEW o \in 0..3, o = a % 4, NEW n \in {1, 2, 4}, o + n <= 4, range_size(size) = B * n - 1,
         size = "word" => n = 4,
         NEW new, new = temporary_value(old, MCACHE_DATA_SM(size, a, signed), size, a),
         NEW j \in 0..3
  PROVE  Slice(new, B * j + B - 1, B * j)
           = IF j \in o..o+n-1 THEN Slice(x, B * (j - o) + B - 1, B * (j - o))
             ELSE Slice(old, B * j + B - 1, B * j)
<1> DEFINE lo == B * o
           hi == lo + B * n - 1
           at == B * j
<1>1. B \in Nat \ {0} /\ W = 4 * B
  BY Widths
<1>2. new = {k \in 0..W-1 : IF k \in lo..hi THEN k - lo \in x ELSE k \in old}
  BY StoredWord
<1>3. /\ lo \in Nat /\ hi \in Int /\ at \in Nat /\ at + B - 1 <= W - 1
      /\ j \in o..o+n-1 => lo <= at /\ at + B - 1 <= hi /\ B * (j - o) = at - lo
      /\ ~(j \in o..o+n-1) => at + B - 1 < lo \/ hi < at
  <2>1. \A k, m \in 0..8 : k < m => B * k + B <= B * m
    BY <1>1
  <2>2. lo \in Nat /\ hi \in Int /\ at \in Nat
    BY <1>1
  <2>3. at + B - 1 <= W - 1
    BY <1>1, <2>1
  <2>4. B * (o + n) = B * o + B * n /\ o + n \in 0..8
    BY <1>1
  <2>5. ASSUME j \in o..o+n-1 PROVE lo <= at /\ at + B - 1 <= hi /\ B * (j - o) = at - lo
    <3>1. at + B <= B * (o + n)
      BY <2>1, <2>4, <2>5
    <3>2. o = j \/ B * o + B <= B * j
      BY <2>1, <2>5
    <3>3. QED
      BY <1>1, <2>2, <2>4, <3>1, <3>2
  <2>6. ASSUME ~(j \in o..o+n-1) PROVE at + B - 1 < lo \/ hi < at
    <3>1. j < o \/ o + n <= j
      BY <2>6
    <3>2. j < o => at + B <= lo
      BY <2>1
    <3>3. o + n <= j => B * (o + n) <= at
      <4>1. o + n = j \/ B * (o + n) + B <= B * j \/ ~(o + n <= j)
        BY <2>1, <2>4
      <4>2. QED
        BY <1>1, <2>4, <4>1
    <3>4. QED
      BY <1>1, <2>2, <2>4, <3>1, <3>2, <3>3
  <2>7. QED
    BY <2>2, <2>3, <2>5, <2>6
<1>4. new \in Word
  BY <1>2 DEF Word, Bit
<1> HIDE DEF lo, hi, at
<1>5. ASSUME NEW u \in Word, NEW p \in Nat
      PROVE  Slice(u, p + B - 1, p) = {k \in 0..W-1 : k + p \in u /\ k <= B - 1}
  <2>1. p + B - 1 \in Int /\ (p + B - 1) - p + 1 = B
    BY <1>1
  <2>2. Slice(u, p + B - 1, p) = {k \in 0..W-1 : k + p \in u} \cap (0..((p + B - 1) - p + 1) - 1)
    BY <2>1, SliceIs
  <2>3. QED
    BY <1>1, <2>1, <2>2
<1>6. CASE j \in o..o+n-1
  <2>1. at - lo \in Nat
    BY <1>3, <1>6
  <2>2. ASSUME NEW k \in 0..W-1, k <= B - 1 PROVE k + at \in new <=> k + (at - lo) \in x
    <3>1. k + at \in 0..W-1 /\ k + at \in lo..hi /\ (k + at) - lo = k + (at - lo)
      BY <1>1, <1>3, <1>6, <2>2
    <3>2. QED
      BY <1>2, <3>1
  <2>3. Slice(new, at + B - 1, at) = Slice(x, (at - lo) + B - 1, at - lo)
    <3>1. Slice(new, at + B - 1, at) = {k \in 0..W-1 : k + at \in new /\ k <= B - 1}
      BY <1>3, <1>4, <1>5
    <3>2. Slice(x, (at - lo) + B - 1, at - lo) = {k \in 0..W-1 : k + (at - lo) \in x /\ k <= B - 1}
      BY <1>5, <2>1
    <3>3. QED
      BY <2>2, <3>1, <3>2
  <2>4. QED
    BY <1>3, <1>6, <2>3 DEF at
<1>7. CASE ~(j \in o..o+n-1)
  <2>1. ASSUME NEW k \in 0..W-1, k <= B - 1 PROVE k + at \in new <=> k + at \in old
    <3>1. k + at \in 0..W-1 /\ ~(k + at \in lo..hi)
      BY <1>1, <1>3, <1>7, <2>1
    <3>2. QED
      BY <1>2, <3>1
  <2>2. Slice(new, at + B - 1, at) = Slice(old, at + B - 1, at)
    <3>1. /\ Slice(new, at + B - 1, at) = {k \in 0..W-1 : k + at \in new /\ k <= B - 1}
          /\ Slice(old, at + B - 1, at) = {k \in 0..W-1 : k + at \in old /\ k <= B - 1}
      BY <1>3, <1>4, <1>5
    <3>2. QED
      BY <2>1, <3>1
  <2>3. QED
    BY <1>7, <2>2 DEF at
<1>8. QED
  BY <1>6, <1>7

(* Every store does what ByteMemory's does.                                *)
LEMMA StoreIsBytes ==
  ASSUME WordsStay, NEW size \in Sizes, NEW a \in Adr, NEW signed \in BOOLEAN,
         Store(size, a, signed)
  PROVE  Memory!StoreBytes(size, a)
<1> DEFINE old == ram[Aligned(a)]
           new == temporary_value(old, MCACHE_DATA_SM(size, a, signed), size, a)
           o == a % 4
           n == Memory!Length(size)
<1>1. ~missaligned(size, a) /\ UNCHANGED x /\ ram' = [ram EXCEPT ![Aligned(a)] = new]
  BY DEF Store
<1>2. /\ a \in Nat /\ o \in 0..3 /\ n \in {1, 2, 4} /\ o + n <= 4
      /\ Memory!Aligned(size, a) /\ range_size(size) = B * n - 1
  BY <1>1, Places
<1>3. size = "word" => n = 4
  BY DEF Memory!Length
<1>4. old \in Word /\ x \in Word /\ Aligned(a) \in WordAdr /\ ram \in [WordAdr -> Word]
  BY AlignedIsWord DEF WordsStay
<1>5. B \in Nat
  BY Widths
<1> HIDE DEF old, o, n
<1>6. ASSUME NEW j \in 0..3
      PROVE  Slice(new, B * j + B - 1, B * j)
               = IF j \in o..o+n-1 THEN Slice(x, B * (j - o) + B - 1, B * (j - o))
                 ELSE Slice(old, B * j + B - 1, B * j)
  <2>1. o = a % 4
    BY DEF o
  <2>2. QED
    BY <1>2, <1>3, <1>4, <2>1, StoredByte
<1> HIDE DEF new
<1>7. ASSUME NEW c \in Adr
      PROVE  ValueOf[ByteAt(c)]'
               = IF c \in a..a+n-1 THEN (ValueOf[x] \div 2^(B * (c - a))) % 2^B
                 ELSE ValueOf[ByteAt(c)]
  <2> DEFINE j == c % 4
  <2>1. c \in Nat /\ Aligned(c) \in WordAdr
    BY AlignedIsWord
  <2>2. j \in 0..3 /\ c = Aligned(c) + j /\ Aligned(c) \in Int
    <3>1. c % 4 \in 0..3
      BY <2>1, DivMod
    <3>2. QED
      BY <2>1, <3>1 DEF Aligned
  <2>3. a = Aligned(a) + o /\ Aligned(a) \in Int
    BY <1>2 DEF Aligned, o
  <2>4. ByteAt(c)' = Slice(ram'[Aligned(c)], B * j + B - 1, B * j)
        /\ ByteAt(c) = Slice(ram[Aligned(c)], B * j + B - 1, B * j)
    BY DEF ByteAt
  <2> HIDE DEF j
  <2>5. CASE Aligned(c) = Aligned(a)
    <3>1. ram'[Aligned(c)] = new /\ ram[Aligned(c)] = old
      BY <1>1, <1>4, <2>5 DEF old
    <3>2. c - a = j - o /\ (c \in a..a+n-1 <=> j \in o..o+n-1)
      BY <1>2, <2>1, <2>2, <2>3, <2>5
    <3>3. CASE j \in o..o+n-1
      <4>1. ByteAt(c)' = Slice(x, B * (j - o) + B - 1, B * (j - o))
        BY <1>6, <2>2, <2>4, <3>1, <3>3
      <4>2. j - o \in Nat /\ B * (j - o) \in Nat /\ B * (j - o) + B - 1 \in Int
        <5>1. j - o \in Nat
          BY <1>2, <2>2, <3>3
        <5> DEFINE m == j - o
        <5> HIDE DEF m
        <5>2. B * m \in Nat
          BY <1>5, <5>1 DEF m
        <5>3. QED
          BY <1>5, <5>1, <5>2 DEF m
      <4>3. ByteAt(c)' \in Word
        BY <1>4, <4>1, <4>2, SliceIs
      <4>4. Value(Slice(x, B * (j - o) + B - 1, B * (j - o))) = (Value(x) \div 2^(B * (j - o))) % 2^B
        BY <1>4, <1>5, <4>2, SliceValue
      <4>5. ValueOf[ByteAt(c)]' = (ValueOf[x] \div 2^(B * (j - o))) % 2^B
        BY <1>4, <4>1, <4>3, <4>4 DEF ValueOf
      <4>6. QED
        BY <3>2, <3>3, <4>5
    <3>4. CASE ~(j \in o..o+n-1)
      <4>1. ByteAt(c)' = ByteAt(c)
        BY <1>6, <2>2, <2>4, <3>1, <3>4
      <4>2. ValueOf[ByteAt(c)]' = ValueOf[ByteAt(c)]
        BY <4>1 DEF ValueOf
      <4>3. QED
        BY <3>2, <3>4, <4>2
    <3>5. QED
      BY <3>3, <3>4
  <2>6. CASE Aligned(c) # Aligned(a)
    <3>1. ram'[Aligned(c)] = ram[Aligned(c)]
      BY <1>1, <1>4, <2>1, <2>6
    <3>2. ByteAt(c)' = ByteAt(c)
      BY <2>4, <3>1
    <3>3. ~(c \in a..a+n-1)
      <4>1. SUFFICES ASSUME c \in a..a+n-1 PROVE FALSE
        OBVIOUS
      <4>2. c - a \in 0..3 /\ (a % 4) + (c - a) <= 3 /\ a + (c - a) = c
        BY <1>2, <2>1, <4>1 DEF o
      <4>3. Aligned(a + (c - a)) = Aligned(a)
        BY <1>2, <4>2, NextBytes
      <4>4. QED
        BY <2>6, <4>2, <4>3
    <3>4. ValueOf[ByteAt(c)]' = ValueOf[ByteAt(c)]
      BY <3>2 DEF ValueOf
    <3>5. QED
      BY <3>3, <3>4
  <2>7. QED
    BY <2>5, <2>6
<1>8. [c \in Adr |-> ValueOf[ByteAt(c)]]'
        = [c \in Adr |-> IF c \in a..a+n-1 THEN (ValueOf[x] \div 2^(B * (c - a))) % 2^B
                         ELSE [d \in Adr |-> ValueOf[ByteAt(d)]][c]]
  BY <1>7
<1>9. ValueOf[x]' = ValueOf[x]
  BY <1>1 DEF ValueOf
<1>10. QED
  BY <1>2, <1>8, <1>9 DEF Memory!StoreBytes, n

(* For every width of a byte and every memory, loads and stores that have  *)
(* passed the alignment check are those                                    *)
(* of a memory of bytes: each load extends exactly the bytes at its        *)
(* address, each store writes exactly those (mem::mem_preprocess,          *)
(* mem::sign_extend, the memory of the test bench).  NarrowWhereRight is   *)
(* the programs that do not meet mem::sign_extend's mistake, which the run *)
(* bug_bytes shows; there is no condition on words and stores.             *)
THEOREM AlwaysAsBytes == ASSUME NarrowWhereRight PROVE Spec => AsBytes
<1>1. Init => Memory!BInit
  <2> SUFFICES ASSUME Init PROVE Memory!BInit
    OBVIOUS
  <2>1. ASSUME NEW c \in Adr PROVE ValueOf[ByteAt(c)] = 0
    <3>1. ram[Aligned(c)] = {}
      BY AlignedIsWord DEF Init
    <3>2. ByteAt(c) = {}
      BY <3>1 DEF ByteAt, Slice
    <3>3. QED
      BY <3>2, SmallValues DEF ValueOf
  <2>2. ValueOf[x] \in 0..2^(4 * B) - 1
    BY WordValue, Widths DEF Init, ValueOf
  <2>3. QED
    BY <2>1, <2>2 DEF Memory!BInit
<1>2. NarrowWhereRight
  OBVIOUS
<1>3. WordsStay => \A size \in Sizes, a \in Adr, signed \in BOOLEAN :
                      /\ Load(size, a, signed) => Memory!LoadBytes(size, a, signed)
                      /\ Store(size, a, signed) => Memory!StoreBytes(size, a)
  BY <1>2, LoadIsBytes, StoreIsBytes
<1>4. WordsStay => [\A size \in Sizes, a \in Adr, signed \in BOOLEAN :
                      /\ Load(size, a, signed) => Memory!LoadBytes(size, a, signed)
                      /\ Store(size, a, signed) => Memory!StoreBytes(size, a)]_vars
  BY <1>3
<1>5. QED
  BY <1>1, <1>4, AlwaysWords, PTL DEF Spec, AsBytes

-----------------------------------------------------------------------------
(* The multiplier. Double words and their powers of two.                   *)
LEMMA WidePowers ==
  /\ W \in Nat \ {0} /\ 2 * W \in Nat /\ W <= 2 * W
  /\ 2^W \in Nat \ {0} /\ 2^(2*W) \in Nat \ {0} /\ 2^(2*W) = 2^W * 2^W
<1>1. W \in Nat \ {0} /\ 2 * W = W + W /\ 2 * W \in Nat
  BY BitsAssumption
<1>2. 2^(W + W) = 2^W * 2^W
  BY <1>1, PowerSum
<1>3. QED
  BY <1>1, <1>2, PowerNat

(* Equal but for what goes beyond a double word.                           *)
Same(n, m) == n \in Int /\ m \in Int /\ \E k \in Int : n = m + k * 2^(2*W)

(* It is an equivalence,                                                   *)
LEMMA SameSelf == ASSUME NEW n \in Int PROVE Same(n, n)
<1>1. n = n + 0 * 2^(2*W)
  BY WidePowers
<1>2. QED
  BY <1>1 DEF Same

(* symmetric                                                               *)
LEMMA SameSym == ASSUME NEW n, NEW m, Same(n, m) PROVE Same(m, n)
<1> DEFINE p == 2^(2*W)
<1>1. p \in Int /\ n \in Int /\ m \in Int
  BY WidePowers DEF Same
<1>2. PICK k \in Int : n = m + k * p
  BY DEF Same
<1>3. m = n + (-k) * p /\ -k \in Int
  <2> HIDE DEF p
  <2>1. (-k) * p = -(k * p) /\ k * p \in Int
    BY <1>1
  <2>2. QED
    BY <1>1, <1>2, <2>1
<1>4. QED
  BY <1>1, <1>3 DEF Same

(* and transitive,                                                         *)
LEMMA SameTrans ==
  ASSUME NEW n, NEW m, NEW l, Same(n, m), Same(m, l)
  PROVE  Same(n, l)
<1> DEFINE p == 2^(2*W)
<1>1. p \in Int
  BY WidePowers
<1>2. n \in Int /\ m \in Int /\ l \in Int
  BY DEF Same
<1>3. PICK i \in Int : n = m + i * p
  BY DEF Same
<1>4. PICK j \in Int : m = l + j * p
  BY DEF Same
<1>5. n = l + (i + j) * p
  <2> HIDE DEF p
  <2>1. (i + j) * p = i * p + j * p /\ i * p \in Int /\ j * p \in Int
    BY <1>1
  <2>2. QED
    BY <1>2, <1>3, <1>4, <2>1
<1>6. i + j \in Int
  OBVIOUS
<1>7. QED
  BY <1>2, <1>5, <1>6 DEF Same

(* sums respect it,                                                        *)
LEMMA SamePlus ==
  ASSUME NEW n, NEW m, NEW i, NEW j, Same(n, m), Same(i, j)
  PROVE  Same(n + i, m + j)
<1> DEFINE p == 2^(2*W)
<1>1. p \in Int
  BY WidePowers
<1>2. n \in Int /\ m \in Int /\ i \in Int /\ j \in Int
  BY DEF Same
<1>3. PICK k \in Int : n = m + k * p
  BY DEF Same
<1>4. PICK l \in Int : i = j + l * p
  BY DEF Same
<1>5. n + i = (m + j) + (k + l) * p
  <2> HIDE DEF p
  <2>1. (k + l) * p = k * p + l * p /\ k * p \in Int /\ l * p \in Int
    BY <1>1
  <2>2. QED
    BY <1>2, <1>3, <1>4, <2>1
<1>6. k + l \in Int /\ n + i \in Int /\ m + j \in Int
  BY <1>2
<1>7. QED
  BY <1>5, <1>6 DEF Same

(* and it is what % does not see.                                          *)
LEMMA SameRemainder ==
  ASSUME NEW n, NEW m, Same(n, m)
  PROVE  n % 2^(2*W) = m % 2^(2*W)
<1> DEFINE p == 2^(2*W)
<1>1. p \in Nat \ {0} /\ n \in Int /\ m \in Int
  BY WidePowers DEF Same
<1>2. PICK k \in Int : n = m + k * p
  BY DEF Same
<1> HIDE DEF p
<1>3. m = p * (m \div p) + (m % p) /\ m % p \in 0..p-1 /\ m \div p \in Int
  BY <1>1, DivMod
<1>4. n = p * (m \div p + k) + (m % p)
  <2>1. p * (m \div p + k) = p * (m \div p) + k * p
    BY <1>1, <1>3
  <2>2. k * p \in Int /\ p * (m \div p) \in Int
    BY <1>1, <1>3
  <2>3. QED
    BY <1>2, <1>3, <2>1, <2>2
<1>5. IsDivision(n, p, m \div p + k, m % p)
  BY <1>1, <1>3, <1>4 DEF IsDivision
<1>6. QED
  BY <1>5, DivModUnique DEF p

(* Xor is the sum without the carries, \cap the carries.                   *)
LEMMA XorValue ==
  ASSUME NEW n \in Nat, NEW a \in SUBSET (0..n-1), NEW b \in SUBSET (0..n-1)
  PROVE  /\ Xor(a, b) \in SUBSET (0..n-1) /\ a \cap b \in SUBSET (0..n-1)
         /\ Value(Xor(a, b)) \in Nat /\ Value(a \cap b) \in Nat
         /\ Value(a) + Value(b) = Value(Xor(a, b)) + 2 * Value(a \cap b)
<1> DEFINE e == Xor(a, b)
           c == a \cap b
           d == b \ a
           u == a \cup b
<1>1. /\ e \in SUBSET (0..n-1) /\ c \in SUBSET (0..n-1) /\ d \in SUBSET (0..n-1) /\ u \in SUBSET (0..n-1)
      /\ u = e \cup c /\ e \cap c = {} /\ u = a \cup d /\ a \cap d = {} /\ b = d \cup c /\ d \cap c = {}
  BY DEF Xor
<1>2. /\ Value(e) \in Nat /\ Value(c) \in Nat /\ Value(d) \in Nat /\ Value(a) \in Nat
  BY <1>1, ValueFacts
<1> HIDE DEF e, c, d, u
<1>3. Value(e \cup c) = Value(e) + Value(c)
  <2>1. n \in Nat /\ e \in SUBSET (0..n-1) /\ c \in SUBSET (0..n-1) /\ e \cap c = {}
    BY <1>1
  <2>2. QED
    BY <2>1, ValueUnion
<1>4. Value(a \cup d) = Value(a) + Value(d)
  <2>1. n \in Nat /\ a \in SUBSET (0..n-1) /\ d \in SUBSET (0..n-1) /\ a \cap d = {}
    BY <1>1
  <2>2. QED
    BY <2>1, ValueUnion
<1>5. Value(d \cup c) = Value(d) + Value(c)
  <2>1. n \in Nat /\ d \in SUBSET (0..n-1) /\ c \in SUBSET (0..n-1) /\ d \cap c = {}
    BY <1>1
  <2>2. QED
    BY <2>1, ValueUnion
<1>6. Value(a) + Value(b) = Value(e) + 2 * Value(c)
  <2>1. Value(e \cup c) = Value(a \cup d) /\ Value(b) = Value(d \cup c)
    BY <1>1
  <2>2. Value(e) + Value(c) = Value(a) + Value(d) /\ Value(b) = Value(d) + Value(c)
    BY <1>3, <1>4, <1>5, <2>1
  <2> DEFINE ve == Value(e)
             vc == Value(c)
             vd == Value(d)
             va == Value(a)
             vb == Value(b)
  <2>3. ve \in Nat /\ vc \in Nat /\ vd \in Nat /\ va \in Nat /\ ve + vc = va + vd /\ vb = vd + vc
    BY <1>2, <2>2
  <2> HIDE DEF ve, vc, vd, va, vb
  <2>4. va + vb = ve + 2 * vc
    BY <2>3
  <2>5. QED
    BY <2>4 DEF va, vb, ve, vc
<1>7. QED
  BY <1>1, <1>2, <1>6 DEF e, c

(* A carry-save adder makes two numbers of three and keeps the sum; the    *)
(* carry it drops at the top is a multiple of 2^(2 * W)                    *)
(* (x0_multiplier::CSA_1 to CSA_27).                                       *)
LEMMA CSAValue ==
  ASSUME NEW a \in SUBSET Wide, NEW y \in SUBSET Wide, NEW z \in SUBSET Wide
  PROVE  \E s, c \in SUBSET Wide :
           /\ CSA(a, y, z) = <<s, c>>
           /\ Same(Value(s) + Value(c), Value(a) + Value(y) + Value(z))
<1> DEFINE n == 2 * W
           t == Xor(a, y)
           s == Xor(t, z)
           both == a \cap y
           third == t \cap z
           carry == both \cup third
           up == Placed(carry, 1)
           c == up \cap Wide
           p == 2^(2*W)
<1>1. n \in Nat /\ Wide = 0..n-1 /\ p \in Nat /\ p = 2^n
  BY WidePowers DEF Wide
<1>2. CSA(a, y, z) = <<s, c>>
  BY DEF CSA
<1>3. both \cap third = {} /\ carry \in SUBSET (0..n-1) /\ c \in SUBSET Wide
  <2>1. a \in SUBSET (0..n-1) /\ y \in SUBSET (0..n-1) /\ z \in SUBSET (0..n-1)
    BY <1>1
  <2>2. QED
    BY <2>1 DEF Xor
<1> HIDE DEF n, p
<1>4. /\ t \in SUBSET (0..n-1) /\ both \in SUBSET (0..n-1) /\ Value(t) \in Nat /\ Value(both) \in Nat
      /\ Value(a) + Value(y) = Value(t) + 2 * Value(both)
  BY <1>1, XorValue
<1> HIDE DEF t, both
<1>5. /\ s \in SUBSET (0..n-1) /\ third \in SUBSET (0..n-1) /\ Value(s) \in Nat /\ Value(third) \in Nat
      /\ Value(t) + Value(z) = Value(s) + 2 * Value(third)
  BY <1>1, <1>4, XorValue
<1> HIDE DEF s, third
<1>6. Value(carry) = Value(both) + Value(third)
  <2>1. n \in Nat /\ both \in SUBSET (0..n-1) /\ third \in SUBSET (0..n-1) /\ both \cap third = {}
    BY <1>1, <1>3, <1>4, <1>5
  <2>2. QED
    BY <2>1, ValueUnion
<1> HIDE DEF carry
<1>7. Value(up) = 2 * Value(carry) /\ up \in SUBSET (0..n) /\ n + 1 \in Nat
  <2>1. 1 \in Nat /\ 2^1 = 2
    OBVIOUS
  <2>2. Value(Placed(carry, 1)) = 2^1 * Value(carry)
    BY <1>1, <1>3, <2>1, ValuePlaced
  <2>3. QED
    BY <1>1, <1>3, <2>1, <2>2 DEF Placed
<1> HIDE DEF up
<1>8. Value(up) = Value(up \ {n}) + (IF n \in up THEN 2^n ELSE 0) /\ Value(up \ {n}) \in Nat
  BY <1>1, <1>7, ValueTop
<1>9. up \ {n} = c
  <2>1. \A k \in 0..n : k # n <=> k \in 0..n-1
    BY <1>1
  <2>2. QED
    BY <1>1, <1>7, <2>1
<1> HIDE DEF c
<1>10. /\ Value(a) \in Nat /\ Value(y) \in Nat /\ Value(z) \in Nat /\ Value(c) \in Nat /\ Value(carry) \in Nat
  BY <1>1, <1>3, ValueFacts
<1>11. Value(a) + Value(y) + Value(z) = Value(s) + Value(c) + (IF n \in up THEN p ELSE 0)
  <2> DEFINE over == IF n \in up THEN p ELSE 0
  <2>1. /\ Value(a) + Value(y) = Value(t) + 2 * Value(both)
        /\ Value(t) + Value(z) = Value(s) + 2 * Value(third)
        /\ Value(t) \in Nat /\ Value(both) \in Nat /\ Value(s) \in Nat /\ Value(third) \in Nat
    BY <1>4, <1>5
  <2>2. /\ Value(carry) = Value(both) + Value(third) /\ Value(up) = 2 * Value(carry)
        /\ Value(up) = Value(c) + over /\ over \in Nat
    BY <1>1, <1>6, <1>7, <1>8, <1>9
  <2> HIDE DEF over
  <2>3. Value(a) + Value(y) + Value(z) = Value(s) + Value(c) + over
    BY <1>10, <2>1, <2>2
  <2>4. QED
    BY <2>3 DEF over
<1>12. Same(Value(s) + Value(c), Value(a) + Value(y) + Value(z))
  <2>1. Value(s) + Value(c) \in Int /\ Value(a) + Value(y) + Value(z) \in Int
    BY <1>5, <1>10
  <2>2. \E k \in Int : Value(s) + Value(c) = Value(a) + Value(y) + Value(z) + k * p
    <3>1. CASE n \in up
      <4>1. (-1) * p = -p
        BY <1>1
      <4>2. Value(s) + Value(c) = Value(a) + Value(y) + Value(z) + (-1) * p
        BY <1>1, <1>5, <1>10, <1>11, <3>1, <4>1
      <4>3. QED
        BY <4>2
    <3>2. CASE n \notin up
      <4>1. 0 * p = 0
        BY <1>1
      <4>2. Value(s) + Value(c) = Value(a) + Value(y) + Value(z) + 0 * p
        BY <1>1, <1>5, <1>10, <1>11, <3>2, <4>1
      <4>3. QED
        BY <4>2
    <3>3. QED
      BY <3>1, <3>2
  <2>3. QED
    BY <2>1, <2>2 DEF Same, p
<1>13. QED
  BY <1>1, <1>2, <1>3, <1>5, <1>12

(* f adds up the numbers in s, but for what goes beyond a double word.     *)
Total(f, s) ==
  /\ f \in [0..Len(s) -> Int]
  /\ f[0] = 0
  /\ \A i \in 1..Len(s) : Same(f[i], f[i-1] + Value(s[i]))

(* Double words, and what they add up to.                                  *)
Rows == Seq(SUBSET Wide)

SumsTo(s, t) == s \in Rows /\ \E f : Total(f, s) /\ f[Len(s)] = t

(* Sequences one after the other add up to the sum.                        *)
LEMMA ConcatSums ==
  ASSUME NEW u, NEW v, NEW n, NEW m, SumsTo(u, n), SumsTo(v, m)
  PROVE  SumsTo(u \o v, n + m) /\ Len(u \o v) = Len(u) + Len(v)
<1> DEFINE w == u \o v
           i == Len(u)
           j == Len(v)
<1>1. u \in Rows /\ v \in Rows
  BY DEF SumsTo
<1>2. /\ i \in Nat /\ j \in Nat /\ w \in Rows /\ Len(w) = i + j
      /\ \A k \in 1..i : w[k] = u[k]
      /\ \A k \in i+1..i+j : w[k] = v[k - i]
  BY <1>1 DEF Rows
<1>3. PICK f : Total(f, u) /\ f[i] = n
  BY DEF SumsTo
<1>4. PICK g : Total(g, v) /\ g[j] = m
  BY DEF SumsTo
<1> DEFINE h == [k \in 0..i+j |-> IF k <= i THEN f[k] ELSE n + g[k - i]]
<1>5. /\ f \in [0..i -> Int] /\ f[0] = 0 /\ g \in [0..j -> Int] /\ g[0] = 0 /\ n \in Int /\ m \in Int
  BY <1>2, <1>3, <1>4 DEF Total
<1>6. /\ \A k \in 1..i : Same(f[k], f[k-1] + Value(u[k]))
      /\ \A k \in 1..j : Same(g[k], g[k-1] + Value(v[k]))
  BY <1>3, <1>4 DEF Total
<1> HIDE DEF w, i, j
<1>7. h \in [0..i+j -> Int] /\ h[0] = 0 /\ h[i+j] = n + m
  <2>1. \A k \in 0..i+j : ~(k <= i) => k - i \in 0..j
    BY <1>2
  <2>2. \A k \in 0..i+j : h[k] \in Int
    BY <1>2, <1>5, <2>1
  <2>3. h[0] = 0
    BY <1>2, <1>5
  <2>4. h[i+j] = n + m
    <3>1. CASE j = 0
      BY <1>2, <1>3, <1>4, <1>5, <3>1
    <3>2. CASE j # 0
      BY <1>2, <1>4, <1>5, <3>2
    <3>3. QED
      BY <3>1, <3>2
  <2>5. QED
    BY <2>2, <2>3, <2>4
<1>8. ASSUME NEW k \in 1..i+j PROVE Same(h[k], h[k-1] + Value(w[k]))
  <2>1. CASE k <= i
    <3>1. k \in 1..i /\ h[k] = f[k] /\ h[k-1] = f[k-1] /\ w[k] = u[k]
      BY <1>2, <2>1
    <3>2. QED
      BY <1>6, <3>1
  <2>2. CASE ~(k <= i)
    <3>1. k - i \in 1..j /\ k \in i+1..i+j /\ (k - 1) - i = (k - i) - 1 /\ k - 1 \in 0..i+j
      BY <1>2, <2>2
    <3>2. h[k] = n + g[k - i] /\ w[k] = v[k - i]
      BY <1>2, <2>2, <3>1
    <3>3. h[k-1] = n + g[(k - i) - 1]
      <4>1. CASE k - 1 = i
        BY <1>2, <1>3, <1>5, <3>1, <4>1
      <4>2. CASE k - 1 # i
        BY <1>2, <2>2, <3>1, <4>2
      <4>3. QED
        BY <4>1, <4>2
    <3>4. Same(g[k - i], g[(k - i) - 1] + Value(v[k - i])) /\ Same(n, n)
      BY <1>5, <1>6, <3>1, SameSelf
    <3>5. Same(n + g[k - i], n + (g[(k - i) - 1] + Value(v[k - i])))
      BY <3>4, SamePlus
    <3>6. v[k - i] \in SUBSET Wide
      BY <1>1, <3>1 DEF Rows, j
    <3>7. Value(v[k - i]) \in Nat /\ g[(k - i) - 1] \in Int
      <4>1. 2 * W \in Nat /\ v[k - i] \in SUBSET (0..2*W-1)
        BY <3>6, WidePowers DEF Wide
      <4>2. Value(v[k - i]) \in Nat
        BY <4>1, ValueFacts
      <4>3. (k - i) - 1 \in 0..j
        BY <1>2, <3>1
      <4>4. QED
        BY <1>5, <4>2, <4>3
    <3>8. n + (g[(k - i) - 1] + Value(v[k - i])) = (n + g[(k - i) - 1]) + Value(v[k - i])
      BY <1>5, <3>7
    <3>9. QED
      BY <3>2, <3>3, <3>5, <3>8
  <2>3. QED
    BY <2>1, <2>2
<1> HIDE DEF h
<1>9. Total(h, w)
  BY <1>2, <1>7, <1>8 DEF Total
<1>10. QED
  BY <1>2, <1>7, <1>9 DEF SumsTo, w, i, j

(* A part of a sequence adds up to what f grows by.                        *)
LEMMA PartSums ==
  ASSUME NEW s \in Rows, NEW f, Total(f, s), NEW i \in 0..Len(s), NEW j \in i..Len(s)
  PROVE  SumsTo(SubSeq(s, i + 1, j), f[j] - f[i]) /\ Len(SubSeq(s, i + 1, j)) = j - i
<1> DEFINE w == SubSeq(s, i + 1, j)
           n == j - i
           g == [k \in 0..n |-> f[i + k] - f[i]]
<1>1. /\ i \in Nat /\ j \in Nat /\ n \in Nat /\ Len(s) \in Nat /\ j <= Len(s)
      /\ f \in [0..Len(s) -> Int]
  BY DEF Rows, Total
<1>2. /\ w \in Rows /\ Len(w) = n
      /\ \A k \in 1..n : w[k] = s[i + k]
  BY <1>1 DEF Rows
<1> HIDE DEF w
<1>3. \A k \in 0..n : i + k \in 0..Len(s) /\ f[i + k] \in Int
  BY <1>1
<1>4. g \in [0..n -> Int] /\ g[0] = 0 /\ g[n] = f[j] - f[i]
  BY <1>1, <1>3
<1>5. ASSUME NEW k \in 1..n PROVE Same(g[k], g[k-1] + Value(w[k]))
  <2>1. k - 1 \in 0..n /\ k \in 0..n /\ i + k \in 1..Len(s) /\ (i + k) - 1 = i + (k - 1)
    BY <1>1
  <2>2. Same(f[i + k], f[(i + k) - 1] + Value(s[i + k]))
    BY <2>1 DEF Total
  <2>3. Same(-f[i], -f[i])
    BY <1>1, SameSelf
  <2>4. Same(f[i + k] + (-f[i]), (f[i + (k - 1)] + Value(s[i + k])) + (-f[i]))
    BY <2>1, <2>2, <2>3, SamePlus
  <2>5. Value(s[i + k]) \in Nat
    <3>1. s[i + k] \in SUBSET Wide
      BY <2>1 DEF Rows
    <3>2. 2 * W \in Nat /\ Wide = 0..2*W-1
      BY WidePowers DEF Wide
    <3>3. QED
      BY <3>1, <3>2, ValueFacts
  <2>6. /\ f[i + k] + (-f[i]) = g[k] /\ g[k-1] = f[i + (k - 1)] - f[i]
        /\ (f[i + (k - 1)] + Value(s[i + k])) + (-f[i]) = (f[i + (k - 1)] - f[i]) + Value(s[i + k])
    <3>1. f[i + k] \in Int /\ f[i + (k - 1)] \in Int /\ f[i] \in Int
      BY <1>1, <1>3, <2>1
    <3>2. g[k] = f[i + k] - f[i] /\ g[k-1] = f[i + (k - 1)] - f[i]
      BY <2>1
    <3>3. QED
      BY <2>5, <3>1, <3>2
  <2>7. QED
    BY <1>2, <2>4, <2>6
<1> HIDE DEF g
<1>6. Total(g, w)
  BY <1>2, <1>4, <1>5 DEF Total
<1>7. QED
  BY <1>2, <1>4, <1>6 DEF SumsTo, w

(* The two numbers an adder makes of three.                                *)
LEMMA PairSums ==
  ASSUME NEW s \in SUBSET Wide, NEW c \in SUBSET Wide, NEW t, Same(t, Value(s) + Value(c))
  PROVE  SumsTo(<<s, c>>, t)
<1> DEFINE f == [k \in 0..2 |-> IF k = 0 THEN 0 ELSE IF k = 1 THEN Value(s) ELSE t]
<1>1. Value(s) \in Nat /\ Value(c) \in Nat /\ t \in Int
  <2>1. 2 * W \in Nat /\ s \in SUBSET (0..2*W-1) /\ c \in SUBSET (0..2*W-1)
    BY WidePowers DEF Wide
  <2>2. QED
    BY <2>1, ValueFacts DEF Same
<1>2. f \in [0..2 -> Int] /\ f[0] = 0 /\ f[1] = Value(s) /\ f[2] = t
  BY <1>1
<1> HIDE DEF f
<1>3. Same(f[1], f[0] + Value(s)) /\ Same(f[2], f[1] + Value(c))
  <2>1. Same(Value(s), Value(s)) /\ 0 + Value(s) = Value(s)
    BY <1>1, SameSelf
  <2>2. QED
    BY <1>2, <2>1
<1>4. <<s, c>> \in Rows /\ Len(<<s, c>>) = 2 /\ <<s, c>>[1] = s /\ <<s, c>>[2] = c
  BY DEF Rows
<1>5. Total(f, <<s, c>>)
  <2>1. \A i \in 1..2 : (i = 1 /\ i - 1 = 0) \/ (i = 2 /\ i - 1 = 1)
    OBVIOUS
  <2>2. \A i \in 1..2 : Same(f[i], f[i-1] + Value(<<s, c>>[i]))
    BY <1>3, <1>4, <2>1
  <2>3. QED
    BY <1>2, <1>4, <2>2 DEF Total
<1>6. QED
  BY <1>2, <1>4, <1>5 DEF SumsTo

(* The sequences of a sequence, one after another.                         *)
LEMMA FlattenIs ==
  ASSUME NEW n \in Nat \ {0}, NEW p, Len(p) = n
  PROVE  \E g : /\ FlattenSeq(p) = g[n]
                /\ \A i \in 1..n : g[i] = IF i = 1 THEN p[i] ELSE g[i-1] \o p[i]
<1> DEFINE Iter(g) == g = [i \in 1..Len(p) |-> IF i = 1 THEN p[i] ELSE g[i-1] \o p[i]]
           flat == CHOOSE g : Iter(g)
           Upto(m, g) == g = [i \in 1..m |-> IF i = 1 THEN p[i] ELSE g[i-1] \o p[i]]
           S == {m \in Nat : \E g : Upto(m, g)}
<1>1. FlattenSeq(p) = flat[Len(p)]
  BY Zenon DEF FlattenSeq
<1>2. 0 \in S
  <2>1. Upto(0, [i \in 1..0 |-> p[i]])
    OBVIOUS
  <2>2. QED
    BY <2>1
<1>3. ASSUME NEW m \in Nat, m \in S PROVE m + 1 \in S
  <2>1. PICK g : Upto(m, g)
    BY <1>3
  <2> DEFINE h == [i \in 1..m+1 |-> IF i = 1 THEN p[i] ELSE g[i-1] \o p[i]]
  <2>2. \A i \in 1..m : h[i] = g[i]
    <3>1. \A i \in 1..m : g[i] = IF i = 1 THEN p[i] ELSE g[i-1] \o p[i]
      BY <2>1, Zenon
    <3>2. \A i \in 1..m : i \in 1..m+1
      OBVIOUS
    <3>3. QED
      BY <3>1, <3>2
  <2>3. \A i \in 1..m+1 : i # 1 => i - 1 \in 1..m
    OBVIOUS
  <2>4. Upto(m + 1, h)
    BY <2>2, <2>3
  <2> HIDE DEF Upto, h
  <2>5. m + 1 \in Nat /\ \E k : Upto(m + 1, k)
    BY <2>4
  <2>6. QED
    BY <2>5
<1> HIDE DEF S
<1>4. n \in S
  BY <1>2, <1>3, SetInduction
<1>5. \E g : Iter(g)
  BY <1>4 DEF S
<1>6. Iter(flat)
  BY <1>5
<1> HIDE DEF flat
<1>7. QED
  BY <1>1, <1>6

(* A level of the tree keeps the sum and takes away a third of the         *)
(* numbers.                                                                *)
LEMMA LevelSums ==
  ASSUME NEW s, NEW t, SumsTo(s, t)
  PROVE  SumsTo(Level(s), t) /\ Len(Level(s)) = Len(s) - (Len(s) \div 3)
<1> DEFINE n == Len(s) \div 3
           p == [k \in 1..n |-> CSA(s[3*k - 2], s[3*k - 1], s[3*k])]
           rest == SubSeq(s, 3*n + 1, Len(s))
<1>1. s \in Rows /\ Len(s) \in Nat
  BY DEF SumsTo, Rows
<1>2. n \in Nat /\ 3*n \in 0..Len(s) /\ Len(s) \in 3*n..Len(s)
  BY <1>1
<1>3. PICK f : Total(f, s) /\ f[Len(s)] = t
  BY DEF SumsTo
<1>4. f \in [0..Len(s) -> Int] /\ f[0] = 0 /\ t \in Int
  BY <1>1, <1>3 DEF Total
<1>5. Level(s) = FlattenSeq(p) \o rest
  BY DEF Level
<1>6. SumsTo(rest, t - f[3*n]) /\ Len(rest) = Len(s) - 3*n
  BY <1>1, <1>2, <1>3, PartSums
<1>7. SumsTo(FlattenSeq(p), f[3*n]) /\ Len(FlattenSeq(p)) = 2*n
  <2>1. CASE n = 0
    <3>1. p = <<>> /\ Len(p) = 0
      BY <2>1
    <3>2. FlattenSeq(p) = <<>>
      BY <3>1 DEF FlattenSeq
    <3>3. Total([k \in 0..0 |-> 0], <<>>) /\ <<>> \in Rows /\ Len(<<>>) = 0
      BY DEF Total, Rows
    <3>4. SumsTo(<<>>, 0)
      BY <3>3 DEF SumsTo
    <3>5. QED
      BY <1>4, <2>1, <3>2, <3>3, <3>4
  <2>2. CASE n # 0
    <3>1. n \in Nat \ {0} /\ Len(p) = n
      BY <1>2, <2>2
    <3>2. PICK g : /\ FlattenSeq(p) = g[n]
                   /\ \A i \in 1..n : g[i] = IF i = 1 THEN p[i] ELSE g[i-1] \o p[i]
      <4> HIDE DEF p, n
      <4>1. QED
        BY <3>1, FlattenIs
    <3>3. ASSUME NEW i \in 1..n
          PROVE  SumsTo(p[i], f[3*i] - f[3*i - 3]) /\ Len(p[i]) = 2
      <4> DEFINE x1 == s[3*i - 2]
                 x2 == s[3*i - 1]
                 x3 == s[3*i]
      <4>1. /\ 3*i \in 1..Len(s) /\ 3*i - 1 \in 1..Len(s) /\ 3*i - 2 \in 1..Len(s) /\ 3*i - 3 \in 0..Len(s)
            /\ (3*i - 1) - 1 = 3*i - 2 /\ (3*i - 2) - 1 = 3*i - 3
        BY <1>1, <1>2
      <4>2. x1 \in SUBSET Wide /\ x2 \in SUBSET Wide /\ x3 \in SUBSET Wide
        BY <1>1, <4>1 DEF Rows
      <4>3. p[i] = CSA(x1, x2, x3)
        OBVIOUS
      <4>4. /\ Same(f[3*i], f[3*i - 1] + Value(x3))
            /\ Same(f[3*i - 1], f[3*i - 2] + Value(x2))
            /\ Same(f[3*i - 2], f[3*i - 3] + Value(x1))
        BY <1>3, <4>1 DEF Total
      <4> HIDE DEF x1, x2, x3, p, n
      <4>5. /\ f[3*i] \in Int /\ f[3*i - 1] \in Int /\ f[3*i - 2] \in Int /\ f[3*i - 3] \in Int
        BY <1>4, <4>1
      <4>6. Value(x1) \in Nat /\ Value(x2) \in Nat /\ Value(x3) \in Nat
        <5>1. 2 * W \in Nat /\ Wide = 0..2*W-1
          BY WidePowers DEF Wide
        <5>2. QED
          BY <4>2, <5>1, ValueFacts
      <4>7. PICK a \in SUBSET Wide, c \in SUBSET Wide :
              /\ CSA(x1, x2, x3) = <<a, c>>
              /\ Same(Value(a) + Value(c), Value(x1) + Value(x2) + Value(x3))
        BY <4>2, CSAValue
      <4>8. Same(f[3*i] - f[3*i - 3], Value(x1) + Value(x2) + Value(x3))
        <5> DEFINE f0 == f[3*i - 3]
                   f1 == f[3*i - 2]
                   f2 == f[3*i - 1]
                   f3 == f[3*i]
                   v1 == Value(x1)
                   v2 == Value(x2)
                   v3 == Value(x3)
        <5>1. /\ f0 \in Int /\ f1 \in Int /\ f2 \in Int /\ f3 \in Int /\ v1 \in Int /\ v2 \in Int /\ v3 \in Int
              /\ Same(f3, f2 + v3) /\ Same(f2, f1 + v2) /\ Same(f1, f0 + v1)
          BY <4>4, <4>5, <4>6
        <5> HIDE DEF f0, f1, f2, f3, v1, v2, v3
        <5>2. Same(v3, v3) /\ Same(v2, v2) /\ Same(-f0, -f0)
          BY <5>1, SameSelf
        <5>3. Same(f1 + v2, f0 + v1 + v2)
          BY <5>1, <5>2, SamePlus
        <5>4. Same(f2, f0 + v1 + v2)
          BY <5>1, <5>3, SameTrans
        <5>5. Same(f2 + v3, f0 + v1 + v2 + v3)
          BY <5>2, <5>4, SamePlus
        <5>6. Same(f3, f0 + v1 + v2 + v3)
          BY <5>1, <5>5, SameTrans
        <5>7. Same(f3 + (-f0), (f0 + v1 + v2 + v3) + (-f0))
          BY <5>2, <5>6, SamePlus
        <5>8. f3 + (-f0) = f3 - f0 /\ (f0 + v1 + v2 + v3) + (-f0) = v1 + v2 + v3
          BY <5>1
        <5>9. Same(f3 - f0, v1 + v2 + v3)
          BY <5>7, <5>8
        <5>10. QED
          BY <5>9 DEF f0, f3, v1, v2, v3
      <4>9. Same(f[3*i] - f[3*i - 3], Value(a) + Value(c))
        BY <4>7, <4>8, SameSym, SameTrans
      <4>10. SumsTo(<<a, c>>, f[3*i] - f[3*i - 3])
        BY <4>9, PairSums
      <4>11. QED
        BY <4>3, <4>7, <4>10
    <3> DEFINE S == {m \in Nat : m + 1 \in 1..n => SumsTo(g[m+1], f[3*(m + 1)]) /\ Len(g[m+1]) = 2*(m + 1)}
    <3>4. 0 \in S
      <4>1. 1 \in 1..n /\ 3*1 - 3 = 0 /\ f[3*1] - f[0] = f[3]
        <5>1. 3 \in 0..Len(s)
          BY <1>1, <1>2, <3>1
        <5>2. QED
          BY <1>4, <3>1, <5>1
      <4>2. g[1] = p[1]
        BY <3>2, <4>1
      <4>3. SumsTo(g[1], f[3]) /\ Len(g[1]) = 2
        BY <3>3, <4>1, <4>2
      <4>4. QED
        BY <4>3
    <3>5. ASSUME NEW m \in Nat, m \in S PROVE m + 1 \in S
      <4>1. SUFFICES ASSUME (m + 1) + 1 \in 1..n
                     PROVE  SumsTo(g[(m+1)+1], f[3*((m + 1) + 1)]) /\ Len(g[(m+1)+1]) = 2*((m + 1) + 1)
        OBVIOUS
      <4>2. m + 1 \in 1..n /\ (m + 1) + 1 # 1 /\ ((m + 1) + 1) - 1 = m + 1 /\ 3*((m+1)+1) - 3 = 3*(m+1)
        BY <1>2, <4>1
      <4>3. g[(m+1)+1] = g[m+1] \o p[(m+1)+1]
        BY <3>2, <4>1, <4>2
      <4>4. SumsTo(g[m+1], f[3*(m + 1)]) /\ Len(g[m+1]) = 2*(m + 1)
        BY <3>5, <4>2
      <4>5. SumsTo(p[(m+1)+1], f[3*((m+1)+1)] - f[3*(m+1)]) /\ Len(p[(m+1)+1]) = 2
        BY <3>3, <4>1, <4>2
      <4> HIDE DEF p, n, S
      <4>6. /\ SumsTo(g[m+1] \o p[(m+1)+1], f[3*(m+1)] + (f[3*((m+1)+1)] - f[3*(m+1)]))
            /\ Len(g[m+1] \o p[(m+1)+1]) = 2*(m+1) + 2
        BY <4>4, <4>5, ConcatSums
      <4>7. f[3*(m+1)] \in Int /\ f[3*((m+1)+1)] \in Int
        BY <1>1, <1>2, <1>4, <4>1, <4>2
      <4>8. f[3*(m+1)] + (f[3*((m+1)+1)] - f[3*(m+1)]) = f[3*((m+1)+1)] /\ 2*(m+1) + 2 = 2*((m+1)+1)
        BY <4>7
      <4>9. QED
        BY <4>3, <4>6, <4>8
    <3> HIDE DEF S
    <3>6. n - 1 \in S /\ (n - 1) + 1 = n
      BY <3>1, <3>4, <3>5, SetInduction
    <3>7. QED
      BY <3>1, <3>2, <3>6 DEF S
  <2>3. QED
    BY <2>1, <2>2
<1> HIDE DEF p, rest
<1>8. SumsTo(FlattenSeq(p) \o rest, f[3*n] + (t - f[3*n])) /\ Len(FlattenSeq(p) \o rest) = 2*n + (Len(s) - 3*n)
  BY <1>6, <1>7, ConcatSums
<1>9. f[3*n] + (t - f[3*n]) = t /\ 2*n + (Len(s) - 3*n) = Len(s) - n
  BY <1>1, <1>2, <1>4
<1>10. QED
  BY <1>5, <1>8, <1>9

(* So it takes them from one bound to the next.                            *)
LEMMA LevelFits ==
  ASSUME NEW s, NEW t, SumsTo(s, t), NEW h \in Nat, Len(s) \in 2..h
  PROVE  SumsTo(Level(s), t) /\ Len(Level(s)) \in 2..h - (h \div 3)
<1>1. SumsTo(Level(s), t) /\ Len(Level(s)) = Len(s) - (Len(s) \div 3)
  BY LevelSums
<1>2. \A n \in 2..h : n - (n \div 3) \in 2..h - (h \div 3)
  OBVIOUS
<1>3. QED
  BY <1>1, <1>2

(* The five levels of X0 and the three of X1 leave two numbers of at most  *)
(* 42.                                                                     *)
LEMMA EightLevels ==
  ASSUME NEW s, NEW t, SumsTo(s, t), Len(s) \in 2..42
  PROVE  SumsTo(RES_RX1(FiveLevels(s)), t) /\ Len(RES_RX1(FiveLevels(s))) = 2
<1> DEFINE s1 == Level(s)
           s2 == Level(s1)
           s3 == Level(s2)
           s4 == Level(s3)
           s5 == Level(s4)
           s6 == Level(s5)
           s7 == Level(s6)
           s8 == Level(s7)
<1>1. /\ 42 - (42 \div 3) = 28 /\ 28 - (28 \div 3) = 19 /\ 19 - (19 \div 3) = 13 /\ 13 - (13 \div 3) = 9
      /\ 9 - (9 \div 3) = 6 /\ 6 - (6 \div 3) = 4 /\ 4 - (4 \div 3) = 3 /\ 3 - (3 \div 3) = 2
  OBVIOUS
<1>2. RES_RX1(FiveLevels(s)) = s8
  BY DEF RES_RX1, FiveLevels
<1>3. SumsTo(s1, t) /\ Len(s1) \in 2..28
  BY <1>1, LevelFits
<1> HIDE DEF s1
<1>4. SumsTo(s2, t) /\ Len(s2) \in 2..19
  BY <1>1, <1>3, LevelFits
<1> HIDE DEF s2
<1>5. SumsTo(s3, t) /\ Len(s3) \in 2..13
  BY <1>1, <1>4, LevelFits
<1> HIDE DEF s3
<1>6. SumsTo(s4, t) /\ Len(s4) \in 2..9
  BY <1>1, <1>5, LevelFits
<1> HIDE DEF s4
<1>7. SumsTo(s5, t) /\ Len(s5) \in 2..6
  BY <1>1, <1>6, LevelFits
<1> HIDE DEF s5
<1>8. SumsTo(s6, t) /\ Len(s6) \in 2..4
  BY <1>1, <1>7, LevelFits
<1> HIDE DEF s6
<1>9. SumsTo(s7, t) /\ Len(s7) \in 2..3
  BY <1>1, <1>8, LevelFits
<1> HIDE DEF s7
<1>10. SumsTo(s8, t) /\ Len(s8) \in 2..2
  BY <1>1, <1>9, LevelFits
<1> HIDE DEF s8
<1>11. QED
  BY <1>2, <1>10

(* X2's last addition, of two numbers.                                     *)
LEMMA TwoRows ==
  ASSUME NEW s, NEW t, SumsTo(s, t), Len(s) = 2
  PROVE  (Value(s[1]) + Value(s[2])) % 2^(2*W) = t % 2^(2*W)
<1>1. PICK f : Total(f, s) /\ f[2] = t
  BY DEF SumsTo
<1>2. f[0] = 0 /\ Same(f[1], f[0] + Value(s[1])) /\ Same(f[2], f[1] + Value(s[2]))
  <2>1. 1 \in 1..2 /\ 2 \in 1..2 /\ 1 - 1 = 0 /\ 2 - 1 = 1
    OBVIOUS
  <2>2. QED
    BY <1>1, <2>1 DEF Total
<1>3. Value(s[1]) \in Nat /\ Value(s[2]) \in Nat
  <2>1. s[1] \in SUBSET Wide /\ s[2] \in SUBSET Wide
    BY DEF SumsTo, Rows
  <2>2. 2 * W \in Nat /\ Wide = 0..2*W-1
    BY WidePowers DEF Wide
  <2>3. QED
    BY <2>1, <2>2, ValueFacts
<1>4. Same(f[1], Value(s[1])) /\ Same(Value(s[2]), Value(s[2]))
  BY <1>2, <1>3, SameSelf
<1>5. Same(f[1] + Value(s[2]), Value(s[1]) + Value(s[2]))
  BY <1>4, SamePlus
<1>6. Same(t, Value(s[1]) + Value(s[2]))
  BY <1>1, <1>2, <1>5, SameTrans
<1>7. QED
  BY <1>6, SameRemainder

(* The number the multiplier takes its first operand for.                  *)
AsTaken(o) == Value(o.op1) - (IF o.signed /\ Sign(o.op1) THEN 2^W ELSE 0)

(* Multiplying out.                                                        *)
LEMMA Distributes ==
  ASSUME NEW a \in Int, NEW b \in Int, NEW c \in Int
  PROVE  (a - b) * c = c * a - c * b
  OBVIOUS

(* A partial product is worth the first operand, shifted; its sign goes on *)
(* up to the end of the double word.                                       *)
LEMMA ProductValue ==
  ASSUME NEW o, o.op1 \in Word, o.signed \in BOOLEAN, NEW i \in 0..W-1, i \in o.op2
  PROVE  product(o, i) \in SUBSET Wide /\ Same(AsTaken(o) * 2^i, Value(product(o, i)))
<1> DEFINE n == 2 * W
           p == 2^(2*W)
           v == Value(o.op1)
           e == 2^i
           low == Placed(o.op1, i)
           ones == i+W..n-1
<1>1. /\ W \in Nat /\ n \in Nat /\ Wide = 0..n-1 /\ p = 2^n /\ p \in Nat /\ i \in Nat /\ i + W \in 0..n
      /\ v \in Nat /\ e \in Nat /\ 2^W \in Nat /\ i < W /\ n = W + W
      /\ o.op1 \in SUBSET (0..W-1)
  BY WidePowers, WordValue, PowerNat, BitsAssumption DEF Wide, Word, Bit
<1>2. low \in SUBSET (0..i+W-1) /\ low \in SUBSET (0..n-1)
  <2>1. ASSUME NEW k \in low PROVE k \in 0..i+W-1 /\ k \in 0..n-1
    <3>1. PICK j \in o.op1 : k = j + i
      BY DEF Placed
    <3>2. j \in 0..W-1
      BY <1>1
    <3> HIDE DEF n
    <3>3. QED
      BY <1>1, <3>1, <3>2
  <2>2. QED
    BY <2>1
<1>3. Value(low) = e * v
  BY <1>1, ValuePlaced
<1>4. e * v \in Nat /\ e * 2^W \in Nat
  BY <1>1
<1>5. CASE o.signed /\ Sign(o.op1)
  <2>1. product(o, i) = low \cup ones
    BY <1>5 DEF product
  <2>2. ones \in SUBSET (0..n-1) /\ low \cap ones = {} /\ low \cup ones \in SUBSET Wide
    <3>1. ones \in SUBSET (0..n-1)
      BY <1>1
    <3>2. low \cap ones = {}
      BY <1>1, <1>2
    <3>3. QED
      BY <1>1, <1>2, <3>1, <3>2
  <2>3. Value(ones) = p - 2^(i + W)
    BY <1>1, ValueHigh
  <2>4. 2^(i + W) = e * 2^W
    BY <1>1, PowerSum
  <2> HIDE DEF low, ones
  <2>5. Value(low \cup ones) = Value(low) + Value(ones)
    BY <1>1, <1>2, <2>2, ValueUnion
  <2>6. AsTaken(o) = v - 2^W
    BY <1>5 DEF AsTaken
  <2> HIDE DEF n, p, v, e
  <2>7. AsTaken(o) * e = e * v - e * 2^W /\ AsTaken(o) * e \in Int
    <3>1. (v - 2^W) * e = e * v - e * 2^W
      BY <1>1, Distributes
    <3>2. QED
      BY <1>4, <2>6, <3>1
  <2>8. Value(low \cup ones) \in Int /\ AsTaken(o) * e = Value(low \cup ones) + (-1) * p
    <3> DEFINE ev == e * v
               ew == e * 2^W
               t  == AsTaken(o) * e
    <3>1. Value(low) = ev /\ Value(ones) = p - ew /\ t = ev - ew /\ ev \in Int /\ ew \in Int /\ p \in Int
      BY <1>1, <1>3, <1>4, <2>3, <2>4, <2>7
    <3> HIDE DEF ev, ew, t
    <3>2. Value(low \cup ones) = ev + (p - ew) /\ (-1) * p = -p
      BY <2>5, <3>1
    <3>3. Value(low \cup ones) \in Int /\ t = Value(low \cup ones) + (-1) * p
      BY <3>1, <3>2
    <3>4. QED
      BY <3>3 DEF t
  <2>9. Same(AsTaken(o) * e, Value(low \cup ones))
    <3>1. -1 \in Int /\ \E k \in Int : AsTaken(o) * e = Value(low \cup ones) + k * p
      BY <2>8
    <3>2. QED
      BY <2>7, <2>8, <3>1 DEF Same, p
  <2>10. QED
    BY <2>1, <2>2, <2>9 DEF e
<1>6. CASE ~(o.signed /\ Sign(o.op1))
  <2>1. product(o, i) = low
    BY <1>6 DEF product
  <2>2. AsTaken(o) = v
    BY <1>1, <1>6 DEF AsTaken
  <2> HIDE DEF n, p, v, e, low
  <2>3. AsTaken(o) * e = Value(low) /\ Value(low) \in Int
    BY <1>1, <1>3, <1>4, <2>2
  <2>4. Same(AsTaken(o) * e, Value(low))
    BY <2>3, SameSelf
  <2>5. QED
    BY <1>1, <1>2, <2>1, <2>4 DEF e
<1>7. QED
  BY <1>5, <1>6

(* The partial products add up to the product of the operands as taken.    *)
LEMMA ProductRows ==
  ASSUME NEW o, o.op1 \in Word, o.op2 \in Word, o.signed \in BOOLEAN
  PROVE  /\ SumsTo([i \in 1..W |-> product(o, i - 1)], AsTaken(o) * Value(o.op2))
         /\ Len([i \in 1..W |-> product(o, i - 1)]) = W
<1> DEFINE s == [i \in 1..W |-> product(o, i - 1)]
           n == AsTaken(o)
           P(k) == Value(o.op2 \cap (0..k-1))
           f == [k \in 0..W |-> n * P(k)]
<1>1. W \in Nat /\ o.op2 \in SUBSET (0..W-1) /\ n \in Int
  BY WordValue, BitsAssumption DEF Word, Bit, AsTaken
<1>2. \A k \in 0..W : P(k) \in Nat
  BY <1>1, ValueFacts
<1>3. P(0) = 0 /\ P(W) = Value(o.op2)
  <2>1. o.op2 \cap (0..0-1) = {} /\ o.op2 \cap (0..W-1) = o.op2
    BY <1>1
  <2>2. QED
    BY <2>1, ValueEmpty
<1>4. ASSUME NEW i \in 1..W
      PROVE  product(o, i - 1) \in SUBSET Wide /\ Same(n * P(i), n * P(i - 1) + Value(product(o, i - 1)))
  <2> DEFINE a == o.op2 \cap (0..i-1)
             k == i - 1
  <2>1. k \in Nat /\ k \in 0..W-1 /\ k + 1 = i /\ k \in 0..W /\ i \in 0..W
        /\ a \in SUBSET (0..k) /\ a \ {k} = o.op2 \cap (0..k-1) /\ (k \in a <=> k \in o.op2)
    BY <1>1
  <2>2. P(i) = P(k) + (IF k \in o.op2 THEN 2^k ELSE 0)
    <3> HIDE DEF k
    <3>1. Value(a) = Value(a \ {k}) + (IF k \in a THEN 2^k ELSE 0)
      BY <2>1, ValueTop
    <3>2. QED
      BY <2>1, <3>1
  <2>3. P(k) \in Nat /\ 2^k \in Nat /\ n * P(k) \in Int /\ n * 2^k \in Int
    <3> HIDE DEF n, P, k
    <3>1. P(k) \in Nat /\ 2^k \in Nat
      BY <1>2, <2>1, PowerNat
    <3>2. QED
      BY <1>1, <3>1
  <2>4. CASE k \in o.op2
    <3>1. product(o, k) \in SUBSET Wide /\ Same(n * 2^k, Value(product(o, k)))
      BY <2>1, <2>4, ProductValue
    <3>2. Same(n * P(k), n * P(k))
      BY <2>3, SameSelf
    <3>3. Same(n * P(k) + n * 2^k, n * P(k) + Value(product(o, k)))
      BY <3>1, <3>2, SamePlus
    <3>4. P(i) = P(k) + 2^k
      BY <2>2, <2>4
    <3>5. n * P(i) = n * P(k) + n * 2^k
      <4> HIDE DEF n, P, k
      <4>1. n * (P(k) + 2^k) = n * P(k) + n * 2^k
        BY <1>1, <2>3
      <4>2. QED
        BY <3>4, <4>1
    <3>6. QED
      BY <3>1, <3>3, <3>5
  <2>5. CASE k \notin o.op2
    <3>1. product(o, k) = {} /\ Value({}) = 0 /\ {} \in SUBSET Wide
      BY <2>5, ValueEmpty DEF product
    <3>2. P(i) = P(k)
      BY <2>2, <2>3, <2>5
    <3>3. Same(n * P(k), n * P(k) + 0)
      <4>1. n * P(k) + 0 = n * P(k)
        BY <2>3
      <4>2. QED
        BY <2>3, <4>1, SameSelf
    <3>4. QED
      BY <3>1, <3>2, <3>3
  <2>6. QED
    BY <2>4, <2>5
<1>5. s \in Rows /\ Len(s) = W
  <2>1. s = [i \in 1..W |-> s[i]] /\ \A i \in 1..W : s[i] \in SUBSET Wide
    BY <1>4
  <2> HIDE DEF s
  <2>2. QED
    BY <1>1, <2>1 DEF Rows
<1>6. f \in [0..W -> Int] /\ f[0] = 0 /\ f[W] = n * Value(o.op2)
  <2>1. \A k \in 0..W : n * P(k) \in Int
    BY <1>1, <1>2
  <2>2. f[0] = n * P(0) /\ f[W] = n * P(W)
    BY <1>1
  <2>3. n * 0 = 0
    BY <1>1
  <2>4. QED
    BY <1>3, <2>1, <2>2, <2>3
<1>7. \A i \in 1..W : Same(f[i], f[i-1] + Value(s[i]))
  <2>1. \A i \in 1..W : i \in 0..W /\ i - 1 \in 0..W
    BY <1>1
  <2>2. QED
    BY <1>4, <2>1
<1> HIDE DEF f, s, n
<1>8. Total(f, s)
  BY <1>5, <1>6, <1>7 DEF Total
<1>9. SumsTo(s, n * Value(o.op2))
  BY <1>5, <1>6, <1>8 DEF SumsTo
<1>10. QED
  BY <1>5, <1>9 DEF s, n

(* Making an operand positive; the most negative one is a word all the     *)
(* same.                                                                   *)
LEMMA NegatedValue ==
  ASSUME NEW a \in Word, Sign(a)
  PROVE  Negated(a) \in Word /\ Value(Negated(a)) = -SignedValue(a)
<1> DEFINE p == 2^W
           v == Value(a)
<1>1. v \in Nat /\ v < p /\ p \in Nat \ {0} /\ v # 0 /\ SignedValue(a) = v - p
  BY WordValue DEF SignedValue
<1>2. Not(a) \in Word /\ Value(Not(a)) = p - 1 - v
  BY NotValue
<1>3. {} \in Word /\ Value({}) = 0
  BY ValueEmpty DEF Word
<1>4. Negated(a) \in Word /\ Value(Negated(a)) = (Value(Not(a)) + Value({}) + 1) % p
  BY <1>2, <1>3, PlusValue DEF Negated
<1> HIDE DEF p, v
<1>5. IsDivision(p - v, p, 0, p - v) /\ Value(Not(a)) + Value({}) + 1 = p - v
  BY <1>1, <1>2, <1>3 DEF IsDivision
<1>6. (p - v) % p = p - v
  BY <1>5, DivModUnique
<1>7. QED
  BY <1>1, <1>4, <1>5, <1>6

(* The signs x0_multiplier takes away or puts first leave the product as   *)
(* it is.                                                                  *)
LEMMA OperandsRight ==
  ASSUME NEW cmd \in Commands, NEW a \in Word, NEW b \in Word, NEW o, o = Operands(cmd, a, b),
         NEW s, s = (IF cmd = MULHU THEN Value(a) ELSE SignedValue(a)),
         NEW t, t = (IF cmd \in {MULHU, MULHSU} THEN Value(b) ELSE SignedValue(b))
  PROVE  /\ o.op1 \in Word /\ o.op2 \in Word /\ o.signed \in BOOLEAN
         /\ s \in Int /\ t \in Int /\ AsTaken(o) * Value(o.op2) = s * t
<1>1. /\ Value(a) \in Nat /\ Value(b) \in Nat /\ 2^W \in Nat
      /\ Sign(a) \in BOOLEAN /\ Sign(b) \in BOOLEAN
      /\ SignedValue(a) = (IF Sign(a) THEN Value(a) - 2^W ELSE Value(a))
      /\ SignedValue(b) = (IF Sign(b) THEN Value(b) - 2^W ELSE Value(b))
  BY WordValue DEF SignedValue, Sign
<1>2. s \in Int /\ t \in Int
  BY <1>1
<1>3. CASE cmd \in {MUL, MULH}
  <2>1. s = SignedValue(a) /\ t = SignedValue(b) /\ cmd # MULHU
    BY <1>3 DEF MUL, MULH, MULHU, MULHSU
  <2>2. CASE Sign(a) /\ Sign(b)
    <3>1. o.op1 = Negated(a) /\ o.op2 = Negated(b) /\ ~o.signed /\ o.signed \in BOOLEAN
      BY <1>3, <2>2 DEF Operands
    <3>2. /\ Negated(a) \in Word /\ Value(Negated(a)) = -s
          /\ Negated(b) \in Word /\ Value(Negated(b)) = -t
      BY <2>1, <2>2, NegatedValue
    <3>3. AsTaken(o) = -s
      BY <1>2, <3>1, <3>2 DEF AsTaken
    <3>4. (-s) * (-t) = s * t
      BY <1>2
    <3>5. QED
      BY <1>2, <3>1, <3>2, <3>3, <3>4
  <2>3. CASE ~Sign(a) /\ Sign(b)
    <3>1. o.op1 = b /\ o.op2 = a /\ o.signed /\ o.signed \in BOOLEAN
      BY <1>3, <2>1, <2>3 DEF Operands
    <3>2. AsTaken(o) = t /\ Value(o.op2) = s
      BY <1>1, <2>1, <2>3, <3>1 DEF AsTaken
    <3>3. t * s = s * t
      BY <1>2
    <3>4. QED
      BY <1>2, <3>1, <3>2, <3>3
  <2>4. CASE ~Sign(b)
    <3>1. o.op1 = a /\ o.op2 = b /\ o.signed /\ o.signed \in BOOLEAN
      BY <1>3, <2>1, <2>4 DEF Operands
    <3>2. AsTaken(o) = s /\ Value(o.op2) = t
      BY <1>1, <2>1, <2>4, <3>1 DEF AsTaken
    <3>3. QED
      BY <1>2, <3>1, <3>2
  <2>5. QED
    BY <1>1, <2>2, <2>3, <2>4
<1>4. CASE cmd \in {MULHU, MULHSU}
  <2>1. /\ o.op1 = a /\ o.op2 = b /\ (o.signed <=> cmd # MULHU) /\ o.signed \in BOOLEAN
        /\ t = Value(b)
    <3>1. cmd \notin {MUL, MULH}
      BY <1>4 DEF MUL, MULH, MULHU, MULHSU
    <3>2. o.op1 = a /\ o.op2 = b /\ o.signed = (cmd # MULHU)
      BY <3>1 DEF Operands
    <3>3. QED
      BY <1>4, <3>2
  <2>2. AsTaken(o) = s
    BY <1>1, <2>1 DEF AsTaken
  <2>3. QED
    BY <1>2, <2>1, <2>2
<1>5. QED
  BY <1>3, <1>4 DEF Commands

(* The halves of a double word.                                            *)
LEMMA UpperHalf ==
  ASSUME NEW n \in Int
  PROVE  /\ (n % 2^(2*W)) \div 2^W = (n \div 2^W) % 2^W
         /\ (n % 2^(2*W)) % 2^W = n % 2^W
<1> DEFINE p == 2^W
           d == n % (p * p)
           k == n \div (p * p)
           h == d \div p
           l == d % p
<1>1. p \in Nat \ {0} /\ p * p \in Nat \ {0} /\ 2^(2*W) = p * p
  BY WidePowers
<1> HIDE DEF p
<1>2. n = (p * p) * k + d /\ d \in 0..(p * p)-1 /\ k \in Int
  BY <1>1, DivMod
<1> HIDE DEF d, k
<1>3. d \in Int /\ d >= 0
  BY <1>1, <1>2
<1>4. d = p * h + l /\ l \in 0..p-1 /\ h \in Nat
  BY <1>1, <1>3, DivMod
<1> HIDE DEF h, l
<1>5. h \in 0..p-1
  <2>1. ASSUME h >= p PROVE FALSE
    <3>1. p * h >= p * p
      BY <1>1, <1>4, <2>1
    <3>2. QED
      BY <1>1, <1>2, <1>4, <3>1
  <2>2. QED
    BY <1>1, <1>4, <2>1
<1>6. n = p * (p * k + h) + l /\ p * k + h \in Int
  <2>1. p * (p * k + h) = (p * p) * k + p * h /\ p * k \in Int
    BY <1>1, <1>2, <1>4
  <2>2. QED
    BY <1>1, <1>2, <1>4, <2>1
<1>7. IsDivision(n, p, p * k + h, l) /\ IsDivision(p * k + h, p, k, h)
  BY <1>1, <1>2, <1>4, <1>5, <1>6 DEF IsDivision
<1>8. n \div p = p * k + h /\ n % p = l /\ (p * k + h) % p = h
  BY <1>7, DivModUnique
<1>9. QED
  BY <1>1, <1>8 DEF d, h, l, p

(* The levels are enough: 42 is the largest number of partial products     *)
(* eight of them reduce to two. The core has 32.                           *)
TreeFits == W <= 42

(* Operand signs, partial products, tree and last addition together.       *)
LEMMA ProductRight ==
  ASSUME TreeFits, NEW cmd \in Commands, NEW a \in Word, NEW b \in Word
  PROVE  RES_RX2(cmd, RES_RX1(RES_RX0(cmd, a, b))) = Product(cmd, a, b)
<1> DEFINE o == Operands(cmd, a, b)
           s == IF cmd = MULHU THEN Value(a) ELSE SignedValue(a)
           t == IF cmd \in {MULHU, MULHSU} THEN Value(b) ELSE SignedValue(b)
           rows == [i \in 1..W |-> product(o, i - 1)]
           m == RES_RX1(FiveLevels(rows))
           add == (Value(m[1]) + Value(m[2])) % 2^(2*W)
<1>1. /\ o.op1 \in Word /\ o.op2 \in Word /\ o.signed \in BOOLEAN
      /\ s \in Int /\ t \in Int /\ AsTaken(o) * Value(o.op2) = s * t
  <2> HIDE DEF o, s, t
  <2>1. /\ o = Operands(cmd, a, b)
        /\ s = (IF cmd = MULHU THEN Value(a) ELSE SignedValue(a))
        /\ t = (IF cmd \in {MULHU, MULHSU} THEN Value(b) ELSE SignedValue(b))
    BY DEF o, s, t
  <2>2. QED
    BY <2>1, OperandsRight
<1>2. RES_RX0(cmd, a, b) = FiveLevels(rows)
  BY DEF RES_RX0
<1> HIDE DEF o
<1>3. SumsTo(rows, s * t) /\ Len(rows) = W
  BY <1>1, ProductRows
<1>4. W \in 2..42
  <2>1. W \in Nat \ {0} /\ W = 4 * B /\ B \in Nat \ {0}
    BY Widths, BitsAssumption
  <2>2. QED
    BY <2>1 DEF TreeFits
<1> HIDE DEF rows
<1>5. SumsTo(m, s * t) /\ Len(m) = 2
  BY <1>3, <1>4, EightLevels
<1> HIDE DEF m
<1>6. add = (s * t) % 2^(2*W)
  BY <1>5, TwoRows
<1>7. s * t \in Int
  BY <1>1
<1>8. add \div 2^W = ((s * t) \div 2^W) % 2^W /\ add % 2^W = (s * t) % 2^W
  BY <1>6, <1>7, UpperHalf
<1>9. RES_RX2(cmd, m) = IF cmd # MUL THEN add \div 2^W ELSE add % 2^W
  BY DEF RES_RX2
<1>10. Product(cmd, a, b) = (IF cmd = MUL THEN s * t ELSE (s * t) \div 2^W) % 2^W
  BY DEF Product
<1>11. RES_RX2(cmd, m) = Product(cmd, a, b)
  <2> HIDE DEF add, s, t
  <2>1. QED
    BY <1>8, <1>9, <1>10
<1>12. QED
  BY <1>2, <1>11 DEF m

(* For words of every width the tree has levels for, every multiplication  *)
(* returns its half of the product, the most negative operands included    *)
(* (x0_multiplier, x1_multiplier, x2_multiplier).                          *)
THEOREM AlwaysProductsRight == ASSUME TreeFits PROVE Spec => []ProductsRight
<1>1. TreeFits
  OBVIOUS
<1>2. WordsStay => ProductsRight
  BY <1>1, ProductRight DEF WordsStay, ProductsRight
<1>3. QED
  BY <1>2, AlwaysWords, PTL

-----------------------------------------------------------------------------
(* The divider.                                                            *)

(* The powers of two the divider counts with.                              *)
LEMMA WidthPowers ==
  /\ 2^Width \in Nat \ {0} /\ 2^(Width-1) \in Nat \ {0} /\ 2^Width = 2 * 2^(Width-1)
  /\ 2^(2*Width) = 2^Width * 2^Width
<1>1. Width \in Nat /\ Width - 1 \in Nat /\ (Width - 1) + 1 = Width /\ 2 * Width = Width + Width
  BY WidthAssumption
<1>2. 2^(Width-1) \in Nat \ {0} /\ 2^Width \in Nat \ {0}
  BY <1>1, PowerNat
<1>3. 2^((Width - 1) + 1) = 2 * 2^(Width-1)
  BY <1>1, PowerStep
<1>4. 2^(Width + Width) = 2^Width * 2^Width
  BY <1>1, PowerSum
<1>5. QED
  BY <1>1, <1>2, <1>3, <1>4

(* Complement negates modulo 2^Width.                                      *)
LEMMA ComplementIs ==
  ASSUME NEW u \in 0..2^Width - 1
  PROVE  /\ Complement(u) = (-u) % 2^Width /\ Complement(u) \in 0..2^Width - 1
         /\ u # 0 => Complement(u) = 2^Width - u
<1> DEFINE p == 2^Width
<1>1. p \in Nat \ {0} /\ u \in 0..p-1
  BY WidthPowers
<1>2. Complement(u) = (p - u) % p
  BY DEF Complement
<1> HIDE DEF p
<1>3. CASE u = 0
  <2>1. IsDivision(p - u, p, 1, 0) /\ IsDivision(-u, p, 0, 0)
    BY <1>1, <1>3 DEF IsDivision
  <2>2. (p - u) % p = 0 /\ (-u) % p = 0
    BY <2>1, DivModUnique
  <2>3. QED
    BY <1>1, <1>2, <1>3, <2>2 DEF p
<1>4. CASE u # 0
  <2>1. IsDivision(p - u, p, 0, p - u) /\ IsDivision(-u, p, -1, p - u)
    BY <1>1, <1>4 DEF IsDivision
  <2>2. (p - u) % p = p - u /\ (-u) % p = p - u
    BY <2>1, DivModUnique
  <2>3. p - u \in 0..p-1
    BY <1>1, <1>4
  <2>4. QED
    BY <1>2, <1>4, <2>2, <2>3 DEF p
<1>5. QED
  BY <1>3, <1>4

(* The magnitude fits a word, the most negative number's too, and gives    *)
(* the value with its sign.                                                *)
LEMMA MagnitudeIs ==
  ASSUME NEW u \in Numbers, NEW s \in BOOLEAN
  PROVE  /\ Magnitude(u, s) \in 0..2^Width - 1
         /\ u # 0 => Magnitude(u, s) >= 1
         /\ Negative(u) \in BOOLEAN
         /\ s /\ Negative(u) => Number(u, s) = -Magnitude(u, s) /\ Magnitude(u, s) >= 1
         /\ ~(s /\ Negative(u)) => Number(u, s) = Magnitude(u, s)
<1> DEFINE p == 2^Width
           h == 2^(Width-1)
<1>1. p \in Nat \ {0} /\ h \in Nat \ {0} /\ u \in 0..p-1
  BY WidthAssumption, WidthPowers
<1>2. Negative(u) \in BOOLEAN /\ (Negative(u) <=> u >= h)
  BY DEF Negative
<1>3. u # 0 => Complement(u) = p - u
  BY <1>1, ComplementIs
<1>4. /\ Magnitude(u, s) = IF s /\ Negative(u) THEN Complement(u) ELSE u
      /\ Number(u, s) = IF s /\ Negative(u) THEN u - p ELSE u
  BY DEF Magnitude, Number
<1> HIDE DEF p, h
<1>5. CASE s /\ Negative(u)
  <2>1. u # 0
    BY <1>1, <1>2, <1>5
  <2>2. Magnitude(u, s) = p - u /\ Number(u, s) = u - p
    BY <1>3, <1>4, <1>5, <2>1
  <2>3. p - u \in 0..p-1 /\ p - u >= 1 /\ u - p = -(p - u)
    BY <1>1, <2>1
  <2>4. QED
    BY <1>2, <1>5, <2>2, <2>3 DEF p
<1>6. CASE ~(s /\ Negative(u))
  BY <1>1, <1>2, <1>4, <1>6 DEF p
<1>7. QED
  BY <1>5, <1>6

(* What the instructions return, in terms of the magnitudes' division.     *)
LEMMA ResultIs ==
  ASSUME NEW u \in Numbers, NEW v \in Numbers, NEW cmd \in Command,
         NEW s \in BOOLEAN, s = signed_inst(cmd), v # 0,
         NEW q \in Nat, NEW t \in Nat,
         IsDivision(Magnitude(u, s), Magnitude(v, s), q, t)
  PROVE  Result([op1 |-> u, op2 |-> v, cmd |-> cmd])
           = (IF cmd \in {Div, Divu}
              THEN IF s /\ Negative(u) # Negative(v) THEN -q ELSE q
              ELSE IF s /\ Negative(u) THEN -t ELSE t) % 2^Width
<1> DEFINE n == Magnitude(u, s)
           d == Magnitude(v, s)
           a == Number(u, s)
           b == Number(v, s)
           r == IF b = 0 THEN -1
                ELSE IF SameSign(a, b) THEN Abs(a) \div Abs(b)
                ELSE -(Abs(a) \div Abs(b))
           m == IF b = 0 THEN a ELSE a - r * b
           nu == s /\ Negative(u)
           nv == s /\ Negative(v)
<1>1. /\ n \in Nat /\ d \in Nat /\ d >= 1 /\ nu \in BOOLEAN /\ nv \in BOOLEAN
      /\ nu => a = -n /\ n >= 1
      /\ ~nu => a = n
      /\ nv => b = -d
      /\ ~nv => b = d
  BY MagnitudeIs
<1>2. n \div d = q /\ n = d * q + t
  BY DivModUnique DEF IsDivision
<1>3. Result([op1 |-> u, op2 |-> v, cmd |-> cmd])
        = (IF cmd \in {Div, Divu} THEN r ELSE m) % 2^Width
  BY DEF Result
<1>4. b # 0 /\ Abs(a) = n /\ Abs(b) = d /\ (SameSign(a, b) <=> nu = nv)
  <2> HIDE DEF n, d, a, b, nu, nv
  <2>1. QED
    BY <1>1 DEF Abs, SameSign
<1>5. r = IF nu <=> nv THEN q ELSE -q
  <2> HIDE DEF n, d, a, b, nu, nv
  <2>1. QED
    BY <1>1, <1>2, <1>4
<1>6. m = IF nu THEN -t ELSE t
  <2>1. m = a - r * b
    BY <1>4
  <2> HIDE DEF n, d, a, b, nu, nv, r, m
  <2>2. d * q \in Int /\ q * d = d * q /\ (-q) * (-d) = d * q /\ q * (-d) = -(d * q) /\ (-q) * d = -(d * q)
    BY <1>1
  <2>3. CASE nu /\ nv
    BY <1>1, <1>2, <1>5, <2>1, <2>2, <2>3
  <2>4. CASE nu /\ ~nv
    BY <1>1, <1>2, <1>5, <2>1, <2>2, <2>4
  <2>5. CASE ~nu /\ nv
    BY <1>1, <1>2, <1>5, <2>1, <2>2, <2>5
  <2>6. CASE ~nu /\ ~nv
    BY <1>1, <1>2, <1>5, <2>1, <2>2, <2>6
  <2>7. QED
    BY <1>1, <2>3, <2>4, <2>5, <2>6
<1>7. (nu = nv) <=> ~(s /\ Negative(u) # Negative(v))
  BY MagnitudeIs
<1> HIDE DEF r, m
<1>8. QED
  BY <1>3, <1>5, <1>6, <1>7

(* What the instructions return for a zero divisor.                        *)
LEMMA ResultByZero ==
  ASSUME NEW u \in Numbers, NEW cmd \in Command, 0 \in Numbers
  PROVE  Result([op1 |-> u, op2 |-> 0, cmd |-> cmd])
           = IF cmd \in {Div, Divu} THEN 2^Width - 1 ELSE u
<1> DEFINE p == 2^Width
           h == 2^(Width-1)
           s == signed_inst(cmd)
           a == Number(u, s)
<1>1. p \in Nat \ {0} /\ h \in Nat \ {0} /\ u \in 0..p-1
  BY WidthAssumption, WidthPowers
<1>2. ~Negative(0)
  BY <1>1 DEF Negative
<1>3. Number(0, s) = 0
  BY <1>2 DEF Number
<1>4. Result([op1 |-> u, op2 |-> 0, cmd |-> cmd])
        = (IF cmd \in {Div, Divu} THEN -1 ELSE a) % p
  BY <1>3 DEF Result
<1>5. a = u - p \/ a = u
  BY DEF Number
<1> HIDE DEF p, a, h, s
<1>6. (-1) % p = p - 1 /\ u % p = u /\ (u - p) % p = u
  <2>1. IsDivision(-1, p, -1, p - 1) /\ IsDivision(u, p, 0, u) /\ IsDivision(u - p, p, -1, u)
    BY <1>1 DEF IsDivision
  <2>2. QED
    BY <2>1, DivModUnique
<1>7. QED
  BY <1>4, <1>5, <1>6 DEF p

(* The division in dec2exe: its operands' magnitudes.                      *)
InSigned  == signed_inst(req.cmd)
Dividend  == Magnitude(req.op1, InSigned)
DivideBy  == Magnitude(req.op2, InSigned)

(* The signs taken when the division started are those of its operands.    *)
SignsRight ==
  /\ quotient_sign <=> req.op2 # 0 /\ InSigned /\ Negative(req.op1) # Negative(req.op2)
  /\ reminder_sign <=> req.op2 # 0 /\ InSigned /\ Negative(req.op1)

(* After k bits of the quotient: as many bits are known, and what is left  *)
(* of the dividend is the remainder.                                       *)
AfterBits(k) == /\ quotient < 2^k
                /\ Dividend = quotient * (DivideBy * 2^(Width-k)) + reminder
                /\ reminder < DivideBy * 2^(Width-k)

(* The divider's registers belong to the division in dec2exe, as long as   *)
(* there is one: they hold its first k bits, and once DONE_SE shows, all   *)
(* of them. A division an exception dropped may still be under way;        *)
(* nothing is said of it but that it ends before the counter leaves its    *)
(* range.                                                                  *)
DivisionInv ==
  /\ TypeOK
  /\ calculating => shift_cpt < Width
  /\ valid /\ calculating => /\ req.op2 # 0 /\ SignsRight /\ AfterBits(shift_cpt)
                             /\ divisor = DivideBy * 2^(Width-1-shift_cpt)
  /\ valid /\ ~calculating /\ shift_cpt = Width =>
       /\ SignsRight
       /\ req.op2 # 0 => AfterBits(Width)
       /\ req.op2 = 0 => quotient = 2^Width - 1 /\ reminder = req.op1

(* One step of the loop, on numbers.                                       *)
LEMMA OneBit ==
  ASSUME NEW n \in Nat, NEW q \in Nat, NEW d \in Nat, NEW r \in Nat,
         n = q * (2 * d) + r, r < 2 * d
  PROVE  /\ d > r => n = (2 * q) * d + r
         /\ ~(d > r) => n = (2 * q + 1) * d + (r - d) /\ r - d \in Nat /\ r - d < d
<1>1. q * (2 * d) = (2 * q) * d /\ (2 * q + 1) * d = (2 * q) * d + d
  OBVIOUS
<1>2. (2 * q) * d \in Nat
  OBVIOUS
<1>3. QED
  BY <1>1, <1>2

(* What Load writes fits the registers.                                    *)
LEMMA LoadTyped ==
  ASSUME TypeOK, NEW op1 \in Numbers, NEW op2 \in Numbers,
         LoadRegs(op1, op2, req.cmd)
  PROVE  /\ divisor' \in WideWord /\ reminder' \in WideWord /\ quotient' \in Operand
         /\ quotient_sign' \in BOOLEAN /\ reminder_sign' \in BOOLEAN
<1> DEFINE p == 2^Width
           s == signed_inst(req.cmd)
           n == Magnitude(op1, s)
           d == Magnitude(op2, s)
<1>1. /\ Width \in Nat /\ Width >= 2 /\ op1 \in 0..p-1
      /\ p \in Nat \ {0} /\ 2^(Width-1) \in Nat \ {0} /\ p = 2 * 2^(Width-1) /\ 2^(2*Width) = p * p
  BY WidthAssumption, WidthPowers
<1>2. n \in 0..p-1 /\ d \in 0..p-1
  <2>1. s \in BOOLEAN
    BY DEF signed_inst
  <2>2. QED
    BY <2>1, MagnitudeIs
<1>3. /\ op2 # 0 => divisor' = d * 2^(Width-1) /\ reminder' = n /\ quotient' = 0
      /\ op2 = 0 => divisor' = divisor /\ reminder' = op1 /\ quotient' = p - 1
  BY DEF LoadRegs
<1>4. divisor \in 0..p*p-1
  BY <1>1 DEF TypeOK, WideWord
<1> HIDE DEF p, n, d, s
<1>5. p <= p * p
  BY <1>1
<1>6. d * 2^(Width-1) \in 0..p*p-1
  <2>1. d * 2^(Width-1) \in Nat /\ d * 2^(Width-1) <= d * p
    BY <1>1, <1>2
  <2>2. d * p <= (p - 1) * p /\ (p - 1) * p = p * p - p
    BY <1>1, <1>2
  <2>3. QED
    BY <1>1, <1>2, <2>1, <2>2
<1>7. /\ divisor' \in 0..p*p-1 /\ reminder' \in 0..p*p-1 /\ quotient' \in 0..p-1
  BY <1>1, <1>2, <1>3, <1>4, <1>5, <1>6
<1>8. quotient_sign' \in BOOLEAN /\ reminder_sign' \in BOOLEAN
  BY DEF LoadRegs
<1>9. QED
  BY <1>1, <1>7, <1>8 DEF WideWord, Operand, p

(* What RET writes is a word.                                              *)
LEMMA OutputTyped ==
  ASSUME TypeOK, Output, req' \in Request, reminder' \in WideWord, quotient' \in Operand
  PROVE  DIVIDER_RES_OUTPUT' \in Operand
<1> DEFINE p == 2^Width
<1>1. p \in Nat \ {0} /\ 2^(2*Width) \in Nat
  BY WidthAssumption, WidthPowers
<1>2. reminder' \in Nat /\ quotient' \in 0..p-1
  BY <1>1 DEF WideWord, Operand
<1>3. reminder' % p \in 0..p-1
  <2> HIDE DEF p
  <2>1. reminder' \in Int
    BY <1>2
  <2>2. QED
    BY <1>1, <2>1, DivMod
<1>4. /\ Complement(reminder' % p) \in 0..p-1
      /\ Complement(quotient') \in 0..p-1
  BY <1>2, <1>3, ComplementIs
<1>5. RET' \in 0..p-1
  BY <1>2, <1>3, <1>4 DEF RET
<1>6. QED
  BY <1>5 DEF Output, TypeOK, Operand

(* Starting establishes it: Shown gives the operands while DONE_SE is not  *)
(* there.                                                                  *)
LEMMA DivisionBegins ==
  ASSUME DivisionInv, NEW op1 \in Numbers, NEW op2 \in Numbers,
         op1 = req.op1, op2 = req.op2, Start(op1, op2, req.cmd),
         req' \in Request, valid' \in BOOLEAN, full' \in BOOLEAN, Output,
         valid' => UNCHANGED req
  PROVE  DivisionInv'
<1> DEFINE p == 2^Width
<1>1. /\ Width \in Nat /\ Width >= 2 /\ op1 \in 0..p-1 /\ op2 \in 0..p-1
      /\ p \in Nat \ {0} /\ 2^(Width-1) \in Nat \ {0} /\ p = 2 * 2^(Width-1) /\ 2^(2*Width) = p * p
  BY WidthAssumption, WidthPowers
<1>2. InSigned \in BOOLEAN /\ req.cmd \in Command
  BY DEF InSigned, signed_inst, DivisionInv, TypeOK, Request
<1>3. /\ DivideBy \in 0..p-1 /\ Dividend \in 0..p-1 /\ (op2 # 0 => DivideBy >= 1)
  BY <1>2, MagnitudeIs DEF DivideBy, Dividend
<1>4. /\ op2 # 0 => divisor' = DivideBy * 2^(Width-1) /\ reminder' = Dividend /\ quotient' = 0
      /\ op2 = 0 => divisor' = divisor /\ reminder' = op1 /\ quotient' = p - 1
      /\ calculating' \in BOOLEAN /\ (calculating' <=> op2 # 0)
      /\ shift_cpt' = IF op2 # 0 THEN 0 ELSE Width
  BY DEF Start, LoadRegs, DivideBy, Dividend, InSigned
<1>5. valid' => SignsRight'
  BY DEF Start, LoadRegs, SignsRight, InSigned
<1>6. valid' => InSigned' = InSigned /\ Dividend' = Dividend /\ DivideBy' = DivideBy
  BY DEF InSigned, Dividend, DivideBy
<1> HIDE DEF p
<1>7. TypeOK'
  <2>1. /\ divisor' \in WideWord /\ reminder' \in WideWord /\ quotient' \in Operand
        /\ quotient_sign' \in BOOLEAN /\ reminder_sign' \in BOOLEAN
    BY LoadTyped DEF DivisionInv, Start
  <2>2. calculating' \in BOOLEAN /\ shift_cpt' \in 0..Width
    BY <1>1, <1>4
  <2>3. DIVIDER_RES_OUTPUT' \in Operand
    BY <2>1, OutputTyped DEF DivisionInv
  <2>4. QED
    BY <2>1, <2>2, <2>3 DEF TypeOK
<1>8. op2 # 0 /\ valid' => AfterBits(0)' /\ divisor' = DivideBy' * 2^(Width-1-0)
  <2>1. SUFFICES ASSUME op2 # 0, valid' PROVE AfterBits(0)' /\ divisor' = DivideBy' * 2^(Width-1-0)
    OBVIOUS
  <2>2. quotient' < 2^0 /\ Width - 0 = Width /\ Width - 1 - 0 = Width - 1
    BY <1>1, <1>4, <2>1
  <2>3. Dividend = 0 * (DivideBy * p) + Dividend /\ Dividend < DivideBy * p
    BY <1>1, <1>3, <2>1
  <2>4. QED
    BY <1>4, <1>6, <2>1, <2>2, <2>3 DEF AfterBits, p
<1>9. CASE op2 # 0
  <2>1. calculating' /\ shift_cpt' = 0 /\ 0 < Width
    BY <1>1, <1>4, <1>9
  <2>2. QED
    BY <1>5, <1>7, <1>8, <1>9, <2>1 DEF DivisionInv
<1>10. CASE op2 = 0
  <2>1. /\ ~calculating' /\ shift_cpt' = Width
        /\ valid' => quotient' = 2^Width - 1 /\ reminder' = req'.op1
    BY <1>4, <1>10 DEF p
  <2>2. QED
    BY <1>5, <1>7, <1>10, <2>1 DEF DivisionInv
<1>11. QED
  BY <1>9, <1>10

(* One more bit of the quotient keeps it.                                  *)
LEMMA DivisionShifts ==
  ASSUME DivisionInv, Shift, NEW k \in Nat, k = shift_cpt,
         req' \in Request, valid' \in BOOLEAN, full' \in BOOLEAN, Output,
         valid' => valid /\ UNCHANGED req
  PROVE  DivisionInv'
<1> DEFINE p == 2^Width
           m == 2^(Width-1-k)
           d == DivideBy * m
<1>1. /\ Width \in Nat /\ Width >= 2
      /\ p \in Nat \ {0} /\ p = 2 * 2^(Width-1) /\ 2^(2*Width) = p * p
  BY WidthAssumption, WidthPowers
<1>2. /\ calculating /\ k \in 0..Width-1 /\ k + 1 \in 1..Width /\ Width - 1 - k \in Nat
      /\ quotient \in 0..p-1 /\ divisor \in 0..p*p-1 /\ reminder \in 0..p*p-1
      /\ req \in Request /\ valid \in BOOLEAN
      /\ quotient_sign \in BOOLEAN /\ reminder_sign \in BOOLEAN
  BY <1>1 DEF Shift, DivisionInv, TypeOK, Operand, WideWord
<1>3. /\ divisor' = divisor \div 2 /\ shift_cpt' = k + 1
      /\ calculating' \in BOOLEAN /\ (calculating' <=> k # Width - 1)
      /\ UNCHANGED <<quotient_sign, reminder_sign>>
  BY DEF Shift
<1>4. /\ divisor > reminder => quotient' = (2 * quotient) % p /\ reminder' = reminder
      /\ ~(divisor > reminder) => quotient' = (2 * quotient + 1) % p /\ reminder' = reminder - divisor
  BY DEF Shift
<1>5. UNCHANGED req => /\ InSigned' = InSigned /\ Dividend' = Dividend /\ DivideBy' = DivideBy
                       /\ SignsRight => SignsRight'
  BY <1>3 DEF InSigned, Dividend, DivideBy, SignsRight
<1> HIDE DEF p, m, d
<1>6. TypeOK'
  <2>1. divisor' \in 0..p*p-1
    <3>1. divisor \in Int /\ divisor >= 0 /\ 2 \in Nat \ {0}
      BY <1>2
    <3>2. divisor = 2 * (divisor \div 2) + (divisor % 2) /\ divisor \div 2 \in Nat /\ divisor % 2 \in 0..1
      BY <3>1, DivMod
    <3>3. QED
      BY <1>1, <1>2, <1>3, <3>2
  <2>2. reminder' \in 0..p*p-1
    BY <1>1, <1>2, <1>4
  <2>3. quotient' \in 0..p-1
    <3>1. 2 * quotient \in Int /\ 2 * quotient + 1 \in Int
      BY <1>2
    <3>2. (2 * quotient) % p \in 0..p-1 /\ (2 * quotient + 1) % p \in 0..p-1
      BY <1>1, <3>1, DivMod
    <3>3. QED
      BY <1>4, <3>2
  <2>4. quotient' \in Operand /\ divisor' \in WideWord /\ reminder' \in WideWord
    BY <1>1, <2>1, <2>2, <2>3 DEF Operand, WideWord, p
  <2>5. shift_cpt' \in 0..Width
    BY <1>1, <1>2, <1>3
  <2>6. DIVIDER_RES_OUTPUT' \in Operand
    BY <2>4, OutputTyped DEF DivisionInv
  <2>7. QED
    BY <1>2, <1>3, <2>4, <2>5, <2>6 DEF TypeOK
<1>7. ASSUME valid, UNCHANGED req
      PROVE  /\ req.op2 # 0 /\ SignsRight' /\ AfterBits(k + 1)'
             /\ k + 1 < Width => divisor' = DivideBy * 2^(Width-1-(k + 1))
  <2>1. /\ req.op2 # 0 /\ SignsRight /\ divisor = d
        /\ quotient < 2^k /\ Dividend = quotient * (DivideBy * 2^(Width-k)) + reminder
        /\ reminder < DivideBy * 2^(Width-k)
    BY <1>2, <1>7 DEF DivisionInv, AfterBits, d, m
  <2>2. DivideBy \in 0..p-1 /\ Dividend \in 0..p-1
    <3>1. InSigned \in BOOLEAN /\ req.op1 \in Numbers /\ req.op2 \in Numbers
      BY <1>2 DEF InSigned, signed_inst, Request
    <3>2. QED
      BY <3>1, MagnitudeIs DEF DivideBy, Dividend, p
  <2>3. m \in Nat \ {0} /\ 2^(Width-k) = 2 * m /\ d \in Nat
    <3>1. Width - k = (Width - 1 - k) + 1
      BY <1>1, <1>2
    <3>2. m \in Nat \ {0} /\ 2^((Width - 1 - k) + 1) = 2 * m
      BY <1>2, PowerNat, PowerStep DEF m
    <3>3. QED
      BY <1>1, <2>2, <3>1, <3>2 DEF d
  <2>4. DivideBy * 2^(Width-k) = 2 * d
    BY <1>1, <2>2, <2>3 DEF d
  <2>5. /\ d > reminder => Dividend = (2 * quotient) * d + reminder
        /\ ~(d > reminder) => /\ Dividend = (2 * quotient + 1) * d + (reminder - d)
                              /\ reminder - d \in Nat /\ reminder - d < d
    <3>1. Dividend \in Nat /\ quotient \in Nat /\ d \in Nat /\ reminder \in Nat
      BY <1>1, <1>2, <2>2, <2>3
    <3>2. Dividend = quotient * (2 * d) + reminder /\ reminder < 2 * d
      BY <2>1, <2>4
    <3>3. QED
      BY <3>1, <3>2, OneBit
  <2>6. 2 * quotient + 1 < 2^(k + 1) /\ 2^(k + 1) <= p
    <3>1. 2^(k + 1) = 2 * 2^k /\ 2^k \in Nat
      BY <1>2, PowerNat, PowerStep
    <3>2. p = 2^(k + 1) * m /\ 2^(k + 1) \in Nat
      <4>1. k + 1 \in Nat /\ Width - 1 - k \in Nat /\ (k + 1) + (Width - 1 - k) = Width
        BY <1>1, <1>2
      <4>2. 2^((k + 1) + (Width - 1 - k)) = 2^(k + 1) * 2^(Width - 1 - k)
        BY <4>1, PowerSum
      <4>3. QED
        BY <4>1, <4>2, PowerNat DEF p, m
    <3>3. 2^(k + 1) <= 2^(k + 1) * m
      BY <2>3, <3>2
    <3>4. QED
      BY <1>2, <2>1, <3>1, <3>2, <3>3
  <2>7. (2 * quotient) % p = 2 * quotient /\ (2 * quotient + 1) % p = 2 * quotient + 1
    <3>1. 2 * quotient \in 0..p-1 /\ 2 * quotient + 1 \in 0..p-1
      BY <1>1, <1>2, <2>6
    <3>2. IsDivision(2 * quotient, p, 0, 2 * quotient) /\ IsDivision(2 * quotient + 1, p, 0, 2 * quotient + 1)
      BY <1>1, <3>1 DEF IsDivision
    <3>3. QED
      BY <3>2, DivModUnique
  <2>8. quotient' < 2^(k + 1) /\ Dividend = quotient' * d + reminder' /\ reminder' < d
    <3>1. CASE d > reminder
      BY <1>2, <1>4, <2>1, <2>5, <2>6, <2>7, <3>1
    <3>2. CASE ~(d > reminder)
      BY <1>2, <1>4, <2>1, <2>5, <2>6, <2>7, <3>2
    <3>3. QED
      BY <3>1, <3>2
  <2>9. AfterBits(k + 1)'
    <3>1. Width - (k + 1) = Width - 1 - k
      BY <1>1, <1>2
    <3>2. DivideBy * 2^(Width-(k + 1)) = d
      BY <3>1 DEF d, m
    <3>3. QED
      BY <1>5, <1>7, <2>8, <3>2 DEF AfterBits
  <2>10. k + 1 < Width => divisor' = DivideBy * 2^(Width-1-(k + 1))
    <3>1. SUFFICES ASSUME k + 1 < Width PROVE divisor' = DivideBy * 2^(Width-1-(k + 1))
      OBVIOUS
    <3>2. Width - 1 - (k + 1) \in Nat /\ Width - 1 - k = (Width - 1 - (k + 1)) + 1
      BY <1>1, <1>2, <3>1
    <3>3. m = 2 * 2^(Width-1-(k + 1)) /\ 2^(Width-1-(k + 1)) \in Nat
      BY <3>2, PowerNat, PowerStep DEF m
    <3>4. IsDivision(d, 2, DivideBy * 2^(Width-1-(k + 1)), 0)
      BY <1>1, <2>2, <3>3 DEF IsDivision, d
    <3>5. QED
      BY <1>3, <2>1, <3>4, DivModUnique
  <2>11. QED
    BY <1>5, <1>7, <2>1, <2>9, <2>10
<1>8. CASE k # Width - 1
  <2>1. calculating' /\ k + 1 < Width /\ shift_cpt' < Width
    BY <1>1, <1>2, <1>3, <1>8
  <2>2. valid' => valid /\ UNCHANGED req
    OBVIOUS
  <2>3. valid' => /\ req'.op2 # 0 /\ SignsRight' /\ AfterBits(shift_cpt)'
                  /\ divisor' = DivideBy' * 2^(Width-1-shift_cpt')
    BY <1>3, <1>5, <1>7, <2>1, <2>2 DEF AfterBits
  <2>4. QED
    BY <1>6, <2>1, <2>3 DEF DivisionInv
<1>9. CASE k = Width - 1
  <2>1. ~calculating' /\ k + 1 = Width
    BY <1>1, <1>3, <1>9
  <2>2. valid' => valid /\ UNCHANGED req
    OBVIOUS
  <2>3. valid' => req'.op2 # 0 /\ SignsRight' /\ AfterBits(Width)'
    BY <1>7, <2>1, <2>2 DEF AfterBits
  <2>4. QED
    BY <1>6, <2>1, <2>3 DEF DivisionInv
<1>10. QED
  BY <1>8, <1>9

(* Idle and done: no division is in the registers afterwards.              *)
LEMMA DivisionRests ==
  ASSUME DivisionInv, Rest, req' \in Request, valid' \in BOOLEAN, full' \in BOOLEAN,
         \/ UNCHANGED <<divisor, quotient, reminder, quotient_sign, reminder_sign>>
         \/ \E op1, op2 \in Numbers : LoadRegs(op1, op2, req.cmd),
         Output
  PROVE  DivisionInv'
<1>1. Width \in Nat /\ Width >= 2
  BY WidthAssumption
<1>2. /\ divisor' \in WideWord /\ reminder' \in WideWord /\ quotient' \in Operand
      /\ quotient_sign' \in BOOLEAN /\ reminder_sign' \in BOOLEAN
  <2>1. CASE UNCHANGED <<divisor, quotient, reminder, quotient_sign, reminder_sign>>
    BY <2>1 DEF DivisionInv, TypeOK
  <2>2. CASE \E op1, op2 \in Numbers : LoadRegs(op1, op2, req.cmd)
    BY <2>2, LoadTyped DEF DivisionInv
  <2>3. QED
    BY <2>1, <2>2
<1>3. ~calculating /\ calculating' = calculating /\ shift_cpt' = 0
  BY DEF Rest
<1>4. shift_cpt' \in 0..Width /\ shift_cpt' # Width
  BY <1>1, <1>3
<1>5. DIVIDER_RES_OUTPUT' \in Operand
  BY <1>2, OutputTyped DEF DivisionInv
<1>6. TypeOK'
  BY <1>2, <1>3, <1>4, <1>5 DEF DivisionInv, TypeOK
<1>7. QED
  BY <1>3, <1>4, <1>6 DEF DivisionInv

(* The invariant of the divider is inductive.                              *)
LEMMA DivisionInduct ==
  ASSUME DivisionInv, [DivNext]_divVars
  PROVE  DivisionInv'
<1>1. CASE UNCHANGED divVars
  BY <1>1 DEF divVars, DivisionInv, TypeOK, SignsRight, AfterBits, Dividend, DivideBy, InSigned
<1>2. CASE DivNext
  <2>1. Divide /\ (NextInstruction \/ NoDivision) /\ Output
    BY <1>2 DEF DivNext, Cycle, Exception
  <2>2. /\ valid \in BOOLEAN /\ full \in BOOLEAN /\ req \in Request /\ shift_cpt \in Nat
        /\ calculating \in BOOLEAN /\ (calculating => shift_cpt < Width)
    BY WidthAssumption DEF DivisionInv, TypeOK
  <2>3. req' \in Request /\ valid' \in BOOLEAN /\ full' \in BOOLEAN
    <3>1. ASSUME NoDivision PROVE req' \in Request /\ valid' = FALSE /\ full' = FALSE
      <4>1. PICK c \in Command : req' = [req EXCEPT !.cmd = c]
        BY <3>1 DEF NoDivision
      <4>2. QED
        BY <2>2, <3>1, <4>1 DEF NoDivision, Request
    <3>2. NextInstruction => NoDivision \/ (req' \in Request /\ valid' \in BOOLEAN /\ full' \in BOOLEAN)
      BY <2>2 DEF NextInstruction
    <3>3. QED
      BY <2>1, <3>1, <3>2
  <2>4. BUSY_SE => (valid' => valid /\ UNCHANGED req)
    BY <2>1 DEF NextInstruction, exe_pop, NoDivision
  <2>5. CASE Idle
    BY <2>1, <2>3, <2>5, DivisionRests DEF Idle
  <2>6. CASE Shift
    BY <2>1, <2>2, <2>3, <2>4, <2>6, DivisionShifts DEF BUSY_SE, Shift
  <2>7. ASSUME NEW op1 \in Numbers, NEW op2 \in Numbers, Shown(op1, op2),
               Start(op1, op2, req.cmd)
        PROVE  DivisionInv'
    <3>1. BUSY_SE /\ ~DONE_SE
      BY <2>7 DEF Start, BUSY_SE, START_SE
    <3>2. op1 = req.op1 /\ op2 = req.op2
      BY <2>7, <3>1 DEF Shown
    <3>3. QED
      BY <2>1, <2>3, <2>4, <2>7, <3>1, <3>2, DivisionBegins
  <2>8. ASSUME NEW op1 \in Numbers, NEW op2 \in Numbers, Done(op1, op2, req.cmd)
        PROVE  DivisionInv'
    BY <2>1, <2>3, <2>8, DivisionRests DEF Done
  <2>9. QED
    BY <2>1, <2>5, <2>6, <2>7, <2>8 DEF Divide
<1>3. QED
  BY <1>1, <1>2

(* It holds before the first division.                                     *)
LEMMA DivisionInitial ==
  ASSUME DivInit
  PROVE  DivisionInv
<1>1. Width \in Nat /\ Width >= 2 /\ 2^Width \in Nat \ {0} /\ 2^(2*Width) \in Nat \ {0}
  BY WidthAssumption, WidthPowers
<1>2. 0 \in 0..2^Width - 1 /\ 0 \in 0..2^(2*Width) - 1 /\ 0 \in 0..Width /\ 0 # Width
  BY <1>1
<1>3. QED
  BY <1>2 DEF DivInit, DivisionInv, TypeOK, Operand, WideWord

(* A division with a negative operand leaves the quotient's highest bit to *)
(* the most negative number: only unsigned divisions, and those by zero,   *)
(* which have no signs, give a quotient of ones.                           *)
SignedBound ==
  quotient_sign \/ reminder_sign =>
    IF calculating
    THEN /\ divisor >= 2^(Width-1-shift_cpt)
         /\ quotient * (2 * divisor) + reminder <= 2^(Width-1)
    ELSE quotient <= 2^(Width-1)

(* RET's output without, and with, the other sign.                         *)
Flipped == IF reminder_sign THEN reminder % 2^Width ELSE Complement(reminder % 2^Width)

(* The output is that of the registers and the signs as they are, unless   *)
(* the quotient is 0; the reminder's sign may then be one from before the  *)
(* registers were loaded with what they held.                              *)
OutputInv ==
  \/ DIVIDER_RES_OUTPUT = RET
  \/ quotient = 0 /\ req.cmd \in {Rem, Remu} /\ DIVIDER_RES_OUTPUT = Flipped

(* One more bit of the quotient, on numbers: what is bounded stays so.     *)
LEMMA OneBitBounded ==
  ASSUME NEW q \in Nat, NEW d \in Nat, NEW r \in Nat, NEW h \in Nat,
         NEW e \in Nat, NEW q1 \in Nat, NEW r1 \in Nat,
         2 * e <= d, q * (2 * d) + r <= h,
         (q1 <= 2 * q /\ r1 = r) \/ (q1 <= 2 * q + 1 /\ r1 = r - d)
  PROVE  q1 * (2 * e) + r1 <= h /\ (1 <= d => q1 <= h)
<1>1. q * (2 * d) = (2 * q) * d /\ (2 * q + 1) * d = (2 * q) * d + d
  OBVIOUS
<1>2. \A u, v, n \in Nat : u <= v => u * n <= v * n /\ u * n \in Nat /\ v * n \in Nat
  <2>1. TAKE u, v, n \in Nat
  <2>2. HAVE u <= v
  <2>3. v - u \in Nat /\ (v - u) * n \in Nat /\ v * n = u * n + (v - u) * n /\ u * n \in Nat
    BY <2>2
  <2>4. QED
    BY <2>3
<1>3. q1 * d + r1 <= h
  <2>1. CASE q1 <= 2 * q /\ r1 = r
    <3>1. q1 * d <= (2 * q) * d
      BY <1>2, <2>1
    <3>2. QED
      BY <1>1, <2>1, <3>1
  <2>2. CASE q1 <= 2 * q + 1 /\ r1 = r - d
    <3>1. q1 * d <= (2 * q + 1) * d
      BY <1>2, <2>2
    <3>2. QED
      BY <1>1, <2>2, <3>1
  <2>3. QED
    BY <2>1, <2>2
<1>4. (2 * e) * q1 <= d * q1
  BY <1>2
<1>5. 1 <= d => 1 * q1 <= d * q1
  BY <1>2
<1>6. (2 * e) * q1 = q1 * (2 * e) /\ d * q1 = q1 * d /\ 1 * q1 = q1
  OBVIOUS
<1>7. q1 * d \in Nat /\ q1 * (2 * e) \in Nat
  OBVIOUS
<1>8. QED
  BY <1>3, <1>4, <1>5, <1>6, <1>7

(* Signs come with magnitudes that fit beside them.                        *)
LEMMA LoadBounded ==
  ASSUME TypeOK, NEW op1 \in Numbers, NEW op2 \in Numbers,
         LoadRegs(op1, op2, req.cmd)
  PROVE  quotient_sign' \/ reminder_sign' =>
           divisor' >= 2^(Width-1) /\ quotient' = 0 /\ reminder' <= 2^(Width-1)
<1> DEFINE h == 2^(Width-1)
           p == 2^Width
           n == Magnitude(op1, TRUE)
           d == Magnitude(op2, TRUE)
<1>1. h \in Nat \ {0} /\ p = 2 * h /\ op1 \in 0..p-1 /\ op2 \in 0..p-1
  BY WidthAssumption, WidthPowers
<1>2. SUFFICES ASSUME quotient_sign' \/ reminder_sign'
      PROVE  divisor' >= h /\ quotient' = 0 /\ reminder' <= h
  OBVIOUS
<1>3. op2 # 0 /\ signed_inst(req.cmd) = TRUE
  BY <1>2 DEF LoadRegs, signed_inst
<1>4. divisor' = d * h /\ reminder' = n /\ quotient' = 0
  BY <1>3 DEF LoadRegs
<1>5. d \in 0..p-1 /\ d >= 1
  BY <1>3, MagnitudeIs
<1>6. n <= h
  <2>1. /\ op1 # 0 => Complement(op1) = p - op1
        /\ n = IF op1 >= h THEN Complement(op1) ELSE op1
    BY <1>1, ComplementIs DEF Magnitude, Negative
  <2> HIDE DEF h, p, n, d
  <2>2. QED
    BY <1>1, <2>1
<1>7. d * h >= h
  <2> HIDE DEF h, d
  <2>1. QED
    BY <1>1, <1>5
<1>8. QED
  BY <1>4, <1>6, <1>7

(* Another bit of the quotient leaves the bound.                           *)
LEMMA ShiftBounded ==
  ASSUME TypeOK, calculating, shift_cpt < Width, SignedBound, Shift
  PROVE  SignedBound'
<1> DEFINE k == shift_cpt
           h == 2^(Width-1)
           p == 2^Width
           m == 2^(Width-1-k)
           e == divisor \div 2
<1>1. /\ Width \in Nat /\ Width >= 2 /\ k \in 0..Width-1 /\ Width - 1 - k \in Nat
      /\ h \in Nat \ {0} /\ p \in Nat \ {0} /\ m \in Nat \ {0}
      /\ quotient \in Nat /\ divisor \in Nat /\ reminder \in Nat
  <2>1. Width \in Nat /\ Width >= 2 /\ k \in 0..Width-1 /\ Width - 1 - k \in Nat
    BY WidthAssumption DEF TypeOK
  <2>2. 2^(2*Width) \in Nat /\ h \in Nat \ {0} /\ p \in Nat \ {0}
    BY WidthPowers
  <2>3. QED
    BY <2>1, <2>2, PowerNat DEF TypeOK, Operand, WideWord
<1>2. SUFFICES ASSUME quotient_sign' \/ reminder_sign' PROVE SignedBound'
  BY DEF SignedBound
<1>3. divisor >= m /\ quotient * (2 * divisor) + reminder <= h
  BY <1>2 DEF SignedBound, Shift
<1>4. /\ divisor' = e /\ shift_cpt' = k + 1 /\ calculating' = (k # Width - 1)
      /\ \/ quotient' = (2 * quotient) % p /\ reminder' = reminder
         \/ quotient' = (2 * quotient + 1) % p /\ reminder' = reminder - divisor /\ divisor <= reminder
  BY <1>1 DEF Shift
<1>5. e \in Nat /\ 2 * e <= divisor /\ divisor <= 2 * e + 1
  <2> HIDE DEF e
  <2>1. divisor \in Int /\ 2 \in Nat \ {0}
    BY <1>1
  <2>2. /\ divisor = 2 * (divisor \div 2) + (divisor % 2)
        /\ divisor \div 2 \in Int /\ divisor % 2 \in 0..1
    BY <2>1, DivMod
  <2>3. QED
    BY <1>1, <2>2 DEF e
<1>6. /\ quotient' \in Nat /\ reminder' \in Nat
      /\ quotient' * (2 * e) + reminder' <= h /\ (1 <= divisor => quotient' <= h)
  <2>1. \A u \in Nat : u % p \in 0..u
    <3> HIDE DEF p
    <3>1. TAKE u \in Nat
    <3>2. u \in Int /\ u >= 0
      OBVIOUS
    <3>3. u = p * (u \div p) + (u % p) /\ u \div p \in Nat /\ u % p \in 0..p-1
      BY <1>1, <3>2, DivMod
    <3>4. p * (u \div p) \in Nat
      BY <1>1, <3>3
    <3>5. QED
      BY <1>1, <3>3, <3>4
  <2> HIDE DEF p, h, e, m
  <2>2. (2 * quotient) % p \in 0..2*quotient /\ (2 * quotient + 1) % p \in 0..2*quotient+1
    BY <1>1, <2>1
  <2>3. /\ quotient' \in Nat /\ reminder' \in Nat
        /\ \/ quotient' <= 2 * quotient /\ reminder' = reminder
           \/ quotient' <= 2 * quotient + 1 /\ reminder' = reminder - divisor
    BY <1>1, <1>4, <2>2
  <2>4. /\ quotient \in Nat /\ divisor \in Nat /\ reminder \in Nat /\ h \in Nat /\ e \in Nat
        /\ 2 * e <= divisor /\ quotient * (2 * divisor) + reminder <= h
    BY <1>1, <1>3, <1>5
  <2>5. PICK q1 \in Nat, r1 \in Nat : quotient' = q1 /\ reminder' = r1
    BY <2>3
  <2>6. (q1 <= 2 * quotient /\ r1 = reminder) \/ (q1 <= 2 * quotient + 1 /\ r1 = reminder - divisor)
    BY <2>3, <2>5
  <2>7. q1 * (2 * e) + r1 <= h /\ (1 <= divisor => q1 <= h)
    BY <2>4, <2>6, OneBitBounded
  <2>8. QED
    BY <2>5, <2>7
<1>7. CASE k # Width - 1
  <2>1. Width - 1 - (k + 1) \in Nat /\ Width - 1 - k = (Width - 1 - (k + 1)) + 1
    BY <1>1, <1>7
  <2>2. m = 2 * 2^(Width-1-(k + 1)) /\ 2^(Width-1-(k + 1)) \in Nat
    BY <2>1, PowerNat, PowerStep
  <2> HIDE DEF m, h, e, p
  <2>3. e >= 2^(Width-1-(k + 1))
    BY <1>1, <1>3, <1>5, <2>2
  <2>4. calculating' /\ divisor' = e /\ shift_cpt' = k + 1
    BY <1>4, <1>7
  <2>5. QED
    BY <1>6, <2>3, <2>4 DEF SignedBound, h
<1>8. CASE k = Width - 1
  <2>1. m = 1
    <3>1. Width - 1 - k = 0
      BY <1>1, <1>8
    <3>2. 2^0 = 1
      OBVIOUS
    <3>3. QED
      BY <3>1, <3>2
  <2> HIDE DEF m, h, e, p
  <2>2. quotient' <= h
    BY <1>1, <1>3, <1>6, <2>1
  <2>3. QED
    BY <1>4, <1>8, <2>2 DEF SignedBound, h
<1>9. QED
  BY <1>7, <1>8

(* Every cycle leaves both.                                                *)
LEMMA OutputInduct ==
  ASSUME DivisionInv, SignedBound, OutputInv, [DivNext]_divVars
  PROVE  SignedBound' /\ OutputInv'
<1>1. CASE UNCHANGED divVars
  BY <1>1 DEF divVars, SignedBound, OutputInv, RET, Flipped
<1>2. ASSUME Divide, Output, req'.cmd \in Command
      PROVE  SignedBound' /\ OutputInv'
  <2> DEFINE p == 2^Width
             same == reminder' = reminder /\ quotient' = quotient /\ req'.cmd = req.cmd
  <2>1. /\ TypeOK /\ Width \in Nat /\ Width >= 2 /\ calculating \in BOOLEAN
        /\ 2^(Width-1) \in Nat \ {0} /\ p = 2 * 2^(Width-1) /\ quotient \in 0..p-1
        /\ reminder \in Nat /\ 2^(Width-1) # 1
    <3>1. 2^(2*Width) \in Nat
      BY WidthPowers
    <3>2. Width - 2 \in Nat /\ Width - 1 = (Width - 2) + 1
      BY WidthAssumption
    <3>3. 2^(Width-2) \in Nat /\ 2^(Width-1) = 2 * 2^(Width-2)
      BY <3>2, PowerNat, PowerStep
    <3>4. QED
      BY <3>1, <3>3, WidthAssumption, WidthPowers DEF DivisionInv, TypeOK, Operand, WideWord
  <2>2. ~same => OutputInv'
    BY <1>2 DEF Output, OutputInv
  <2>3. same /\ UNCHANGED <<quotient_sign, reminder_sign>> => OutputInv'
    BY <1>2 DEF Output, OutputInv, RET, Flipped
  <2>4. CASE Idle
    <3>1. SignedBound'
      BY <2>4 DEF Idle, Rest, SignedBound
    <3>2. QED
      BY <2>2, <2>3, <2>4, <3>1 DEF Idle
  <2>5. CASE Shift
    <3>1. SignedBound'
      BY <2>1, <2>5, ShiftBounded DEF Shift, DivisionInv
    <3>2. QED
      BY <2>2, <2>3, <2>5, <3>1 DEF Shift
  <2>6. ASSUME NEW op1 \in Numbers, NEW op2 \in Numbers, ~calculating,
               LoadRegs(op1, op2, req.cmd),
               \/ calculating' = FALSE
               \/ shift_cpt' = 0
        PROVE  SignedBound' /\ OutputInv'
    <3>1. quotient_sign' \/ reminder_sign' =>
            divisor' >= 2^(Width-1) /\ quotient' = 0 /\ reminder' <= 2^(Width-1)
      BY <2>1, <2>6, LoadBounded
    <3>2. SignedBound'
      <4>1. /\ divisor' \in Nat /\ reminder' \in Nat
        <5>1. 2^(2*Width) \in Nat
          BY WidthPowers
        <5>2. QED
          BY <2>1, <2>6, <5>1, LoadTyped DEF WideWord
      <4>2. 0 * (2 * divisor') + reminder' = reminder' /\ Width - 1 - 0 = Width - 1
        <5>1. PICK u \in Nat, v \in Nat : divisor' = u /\ reminder' = v
          BY <4>1
        <5>2. 0 * (2 * u) + v = v
          OBVIOUS
        <5>3. QED
          BY <2>1, <5>1, <5>2
      <4>3. SUFFICES ASSUME quotient_sign' \/ reminder_sign' PROVE SignedBound'
        BY DEF SignedBound
      <4>4. /\ divisor' >= 2^(Width-1) /\ quotient' = 0 /\ reminder' <= 2^(Width-1)
            /\ quotient' <= 2^(Width-1)
        BY <2>1, <3>1, <4>3
      <4>5. CASE calculating' = FALSE
        BY <4>4, <4>5 DEF SignedBound
      <4>6. CASE shift_cpt' = 0
        BY <4>2, <4>4, <4>6 DEF SignedBound
      <4>7. QED
        BY <2>6, <4>5, <4>6
    <3>3. CASE same /\ op2 # 0
      <4>1. quotient = 0 /\ quotient' = 0 /\ Complement(0) = 0
        <5>1. Complement(0) = p % p
          BY <2>1 DEF Complement
        <5>2. IsDivision(p, p, 1, 0)
          BY <2>1 DEF IsDivision
        <5>3. QED
          BY <2>1, <2>6, <3>3, <5>1, <5>2, DivModUnique DEF LoadRegs
      <4>2. DIVIDER_RES_OUTPUT' = DIVIDER_RES_OUTPUT
        BY <1>2, <3>3 DEF Output
      <4>3. CASE req.cmd \in {Rem, Remu}
        <5> DEFINE rem == reminder % 2^Width
        <5>1. DIVIDER_RES_OUTPUT \in {rem, Complement(rem)}
          BY <4>3 DEF OutputInv, RET, Flipped
        <5>2. {RET', Flipped'} = {rem, Complement(rem)}
          <6>1. RET' = IF reminder_sign' THEN Complement(rem) ELSE rem
            BY <3>3, <4>3 DEF RET
          <6>2. Flipped' = IF reminder_sign' THEN rem ELSE Complement(rem)
            BY <3>3 DEF Flipped
          <6>3. QED
            BY <6>1, <6>2
        <5>3. DIVIDER_RES_OUTPUT' \in {RET', Flipped'}
          BY <4>2, <5>1, <5>2
        <5>4. req'.cmd \in {Rem, Remu}
          BY <3>3, <4>3
        <5>5. QED
          BY <3>2, <4>1, <5>3, <5>4 DEF OutputInv
      <4>4. CASE ~(req.cmd \in {Rem, Remu})
        <5>1. DIVIDER_RES_OUTPUT = 0
          BY <4>1, <4>4 DEF OutputInv, RET
        <5>2. RET' = 0
          BY <3>3, <4>1, <4>4 DEF RET
        <5>3. QED
          BY <3>2, <4>2, <5>1, <5>2 DEF OutputInv
      <4>5. QED
        BY <4>3, <4>4
    <3>4. CASE same /\ op2 = 0
      <4>1. quotient = p - 1 /\ quotient_sign' = FALSE /\ reminder_sign' = FALSE
        BY <2>6, <3>4 DEF LoadRegs
      <4>2. ~(quotient <= 2^(Width-1)) /\ quotient # 0
        <5> HIDE DEF p
        <5>1. QED
          BY <2>1, <4>1
      <4>3. quotient_sign = FALSE /\ reminder_sign = FALSE
        BY <2>1, <2>6, <4>2 DEF SignedBound, TypeOK
      <4>4. QED
        BY <2>3, <3>2, <3>4, <4>1, <4>3
    <3>5. QED
      BY <2>2, <3>2, <3>3, <3>4
  <2>7. ASSUME NEW op1 \in Numbers, NEW op2 \in Numbers,
               Start(op1, op2, req.cmd) \/ Done(op1, op2, req.cmd)
        PROVE  SignedBound' /\ OutputInv'
    <3>1. /\ ~calculating /\ LoadRegs(op1, op2, req.cmd)
          /\ calculating' = FALSE \/ shift_cpt' = 0
      BY <2>1, <2>7 DEF Start, Done, Rest
    <3>2. QED
      BY <2>6, <3>1
  <2>8. QED
    BY <1>2, <2>4, <2>5, <2>7 DEF Divide
<1>3. CASE DivNext
  <2>1. Divide /\ Output
    BY <1>3 DEF DivNext, Cycle, Exception
  <2>2. req'.cmd \in Command
    BY DivisionInduct DEF DivisionInv, TypeOK, Request
  <2>3. QED
    BY <1>2, <2>1, <2>2
<1>4. QED
  BY <1>1, <1>3

(* Complementing twice changes nothing.                                    *)
LEMMA ComplementTwice ==
  ASSUME NEW u \in 0..2^Width - 1
  PROVE  Complement(Complement(u)) = u
<1> DEFINE p == 2^Width
<1>1. p \in Nat \ {0} /\ u \in 0..p-1 /\ 0 \in 0..p-1
  BY WidthPowers
<1>2. CASE u = 0
  <2>1. Complement(0) = p % p
    BY <1>1 DEF Complement
  <2>2. IsDivision(p, p, 1, 0)
    BY <1>1 DEF IsDivision
  <2>3. QED
    BY <1>1, <1>2, <2>1, <2>2, DivModUnique
<1>3. CASE u # 0
  <2>1. Complement(u) = p - u
    BY <1>3, ComplementIs
  <2>2. p - u \in 0..p-1 /\ p - u # 0 /\ p - (p - u) = u
    <3> HIDE DEF p
    <3>1. QED
      BY <1>1, <1>3
  <2>3. Complement(p - u) = p - (p - u)
    BY <2>2, ComplementIs
  <2>4. QED
    BY <2>1, <2>2, <2>3
<1>4. QED
  BY <1>2, <1>3

(* In its states the divider hands on the right result, but for the sign   *)
(* of a reminder with quotient 0.                                          *)
LEMMA DivisionDone ==
  ASSUME DivisionInv, OutputInv
  PROVE  DivisionRight
<1> DEFINE p == 2^Width
           stale == quotient = 0 /\ req.cmd \in {Rem, Remu} /\ DIVIDER_RES_OUTPUT = Flipped
<1>1. SUFFICES ASSUME valid, exe_pop
               PROVE  /\ RET = Result(req)
                      /\ stale => Undivided(req) /\ Flipped = Complement(RET)
  BY DEF DivisionRight, OutputInv
<1>2. ~calculating /\ shift_cpt = Width
  BY <1>1 DEF exe_pop, BUSY_SE, START_SE, DONE_SE
<1>3. /\ req \in Request /\ req = [op1 |-> req.op1, op2 |-> req.op2, cmd |-> req.cmd]
      /\ req.op1 \in Numbers /\ req.op2 \in Numbers /\ req.cmd \in Command
      /\ quotient_sign \in BOOLEAN /\ reminder_sign \in BOOLEAN
      /\ quotient \in 0..p-1 /\ reminder \in Nat /\ p \in Nat \ {0} /\ req.op1 \in 0..p-1
  <2>1. 2^Width \in Nat \ {0} /\ 2^(2*Width) \in Nat /\ Numbers \subseteq 0..2^Width - 1
    BY WidthAssumption, WidthPowers
  <2>2. /\ req \in Request /\ quotient_sign \in BOOLEAN /\ reminder_sign \in BOOLEAN
        /\ quotient \in 0..p-1 /\ reminder \in 0..2^(2*Width)-1
    BY DEF DivisionInv, TypeOK, Operand, WideWord
  <2>3. /\ req = [op1 |-> req.op1, op2 |-> req.op2, cmd |-> req.cmd]
        /\ req.op1 \in Numbers /\ req.op2 \in Numbers /\ req.cmd \in Command
    BY <2>2 DEF Request
  <2>4. QED
    BY <2>1, <2>2, <2>3
<1>4. SignsRight
  BY <1>1, <1>2 DEF DivisionInv
<1>5. InSigned \in BOOLEAN /\ InSigned = signed_inst(req.cmd)
  BY DEF InSigned, signed_inst
<1>6. (req.cmd \in {Div, Divu}) <=> ~(req.cmd \in {Rem, Remu})
  BY <1>3 DEF Command, Div, Divu, Rem, Remu
<1>7. CASE req.op2 # 0
  <2>1. /\ Dividend = quotient * (DivideBy * 2^0) + reminder /\ reminder < DivideBy * 2^0
    <3>1. Width - Width = 0
      BY WidthAssumption
    <3>2. AfterBits(Width)
      BY <1>1, <1>2, <1>7 DEF DivisionInv
    <3>3. QED
      BY <3>1, <3>2 DEF AfterBits
  <2>2. DivideBy \in 1..p-1 /\ Dividend \in 0..p-1
    BY <1>3, <1>5, <1>7, MagnitudeIs DEF DivideBy, Dividend
  <2>3. DivideBy * 2^0 = DivideBy
    BY <2>2
  <2>4. IsDivision(Dividend, DivideBy, quotient, reminder)
    BY <1>3, <2>1, <2>2, <2>3 DEF IsDivision
  <2>5. Result(req)
           = (IF req.cmd \in {Div, Divu}
              THEN IF InSigned /\ Negative(req.op1) # Negative(req.op2) THEN -quotient ELSE quotient
              ELSE IF InSigned /\ Negative(req.op1) THEN -reminder ELSE reminder) % 2^Width
    BY <1>3, <1>5, <1>7, <2>4, ResultIs DEF Dividend, DivideBy
  <2>6. reminder \in 0..p-1
    BY <1>3, <2>1, <2>2, <2>3
  <2>7. reminder % p = reminder /\ quotient % p = quotient
    <3>1. IsDivision(reminder, p, 0, reminder) /\ IsDivision(quotient, p, 0, quotient)
      BY <1>3, <2>6 DEF IsDivision
    <3>2. QED
      BY <3>1, DivModUnique
  <2>8. /\ Complement(reminder) = (-reminder) % 2^Width
        /\ Complement(quotient) = (-quotient) % 2^Width
    BY <1>3, <2>6, ComplementIs
  <2>9. RET = Result(req)
    BY <1>4, <1>6, <1>7, <2>5, <2>7, <2>8 DEF SignsRight, RET
  <2>10. stale => Undivided(req)
    <3>1. SUFFICES ASSUME quotient = 0 PROVE Undivided(req)
      OBVIOUS
    <3>2. Dividend = reminder /\ reminder < DivideBy
      BY <1>3, <2>1, <2>2, <2>3, <3>1
    <3>3. QED
      BY <1>7, <3>2 DEF Undivided, Dividend, DivideBy, InSigned
  <2>11. stale => Flipped = Complement(RET)
    <3>1. Complement(Complement(reminder)) = reminder
      BY <2>6, ComplementTwice
    <3>2. stale => RET = IF reminder_sign THEN Complement(reminder) ELSE reminder
      BY <2>7 DEF RET
    <3>3. Flipped = IF reminder_sign THEN reminder ELSE Complement(reminder)
      BY <2>7 DEF Flipped
    <3>4. QED
      BY <3>1, <3>2, <3>3
  <2>12. QED
    BY <2>9, <2>10, <2>11
<1>8. CASE req.op2 = 0
  <2>1. quotient = p - 1 /\ reminder = req.op1
    BY <1>1, <1>2, <1>8 DEF DivisionInv
  <2>2. ~quotient_sign /\ ~reminder_sign
    BY <1>4, <1>8 DEF SignsRight
  <2>3. Result(req) = IF req.cmd \in {Div, Divu} THEN 2^Width - 1 ELSE req.op1
    BY <1>3, <1>8, ResultByZero
  <2>4. reminder % p = reminder
    <3>1. IsDivision(reminder, p, 0, reminder)
      BY <1>3, <2>1 DEF IsDivision
    <3>2. QED
      BY <3>1, DivModUnique
  <2>5. RET = Result(req)
    BY <1>6, <2>1, <2>2, <2>3, <2>4 DEF RET
  <2>6. quotient # 0
    <3>1. p = 2 * 2^(Width-1) /\ 2^(Width-1) \in Nat \ {0}
      BY WidthPowers
    <3> HIDE DEF p
    <3>2. QED
      BY <2>1, <3>1
  <2>7. QED
    BY <2>5, <2>6
<1>9. QED
  BY <1>7, <1>8

(* For every width, the divider's registers and its bit counter stay in    *)
(* range, whatever exceptions drop divisions on the way                    *)
(* (CORE/EXE/Diviseur).                                                    *)
THEOREM DividerTyped == DivSpec => []TypeOK
<1>1. DivInit => DivisionInv
  BY DivisionInitial
<1>2. DivisionInv /\ [DivNext]_divVars => DivisionInv'
  BY DivisionInduct
<1>3. DivisionInv => TypeOK
  BY DEF DivisionInv
<1>4. QED
  BY <1>1, <1>2, <1>3, PTL DEF DivSpec

(* For every width and all operands, EXE hands on the quotient or the      *)
(* remainder the instruction asks for: every sign, zero divisors, the      *)
(* quotient that does not fit, a division begun just after another was     *)
(* dropped; except that the remainder of a dividend smaller in magnitude   *)
(* than its divisor may have another sign, for RET is not sensitive to     *)
(* the signs (CORE/EXE/Diviseur, exec::manage_divider, exec::manage_fifo). *)
THEOREM DividesRight == DivSpec => []DivisionRight
<1> DEFINE I == DivisionInv /\ SignedBound /\ OutputInv
<1>1. DivInit => I
  <2>1. 2^Width \in Nat \ {0}
    BY WidthPowers
  <2>2. 0 % 2^Width = 0
    <3>1. IsDivision(0, 2^Width, 0, 0)
      BY <2>1 DEF IsDivision
    <3>2. QED
      BY <2>1, <3>1, DivModUnique
  <2>3. DivInit => SignedBound /\ OutputInv
    BY <2>2 DEF DivInit, SignedBound, OutputInv, RET
  <2>4. QED
    BY <2>3, DivisionInitial
<1>2. I /\ [DivNext]_divVars => I'
  BY DivisionInduct, OutputInduct
<1>3. I => DivisionRight
  BY DivisionDone
<1> HIDE DEF I
<1>4. QED
  BY <1>1, <1>2, <1>3, PTL DEF DivSpec

-----------------------------------------------------------------------------
(* A field holds its number; small numbers leave its upper bits alone.     *)
LEMMA FieldIs ==
  ASSUME NEW n \in 0..127
  PROVE  /\ Field(n) \subseteq 0..6 /\ Value(Field(n)) = n
         /\ n < 32 => Field(n) \subseteq 0..4
         /\ n < 8 => Field(n) \subseteq 0..2
         /\ n = 0 => Field(n) = {}
<1>1. Field(n) = {k \in 0..7-1 : (n \div 2^k) % 2 = 1} /\ n \in Nat
  BY DEF Field
<1>2. Value(Field(n)) = n % 2^7
  BY <1>1, ValueOfOnes
<1>3. 2^7 = 128 /\ n % 128 = n
  BY SMT
<1>4. 2^0 = 1 /\ 2^1 = 2 /\ 2^2 = 4 /\ 2^3 = 8 /\ 2^4 = 16 /\ 2^5 = 32 /\ 2^6 = 64
  OBVIOUS
<1>5. Field(n) \subseteq 0..6
  BY <1>1
<1>6. ASSUME n < 32 PROVE Field(n) \subseteq 0..4
  <2>1. n \div 32 = 0 /\ n \div 64 = 0
    BY <1>6
  <2>2. (n \div 2^5) % 2 # 1 /\ (n \div 2^6) % 2 # 1
    BY <1>4, <2>1
  <2>3. 5 \notin Field(n) /\ 6 \notin Field(n)
    BY <2>2 DEF Field
  <2>4. QED
    BY <1>5, <2>3
<1>7. ASSUME n < 8 PROVE Field(n) \subseteq 0..2
  <2>1. n \div 8 = 0 /\ n \div 16 = 0
    BY <1>7
  <2>2. (n \div 2^3) % 2 # 1 /\ (n \div 2^4) % 2 # 1
    BY <1>4, <2>1
  <2>3. 3 \notin Field(n) /\ 4 \notin Field(n)
    BY <2>2 DEF Field
  <2>4. QED
    BY <1>6, <1>7, <2>3
<1>8. ASSUME n = 0 PROVE Field(n) = {}
  <2>1. (0 \div 2^0) % 2 # 1 /\ (0 \div 2^1) % 2 # 1 /\ (0 \div 2^2) % 2 # 1
    BY <1>4
  <2>2. 0 \notin Field(n) /\ 1 \notin Field(n) /\ 2 \notin Field(n)
    BY <1>8, <2>1 DEF Field
  <2>3. QED
    BY <1>7, <1>8, <2>2
<1>9. QED
  BY <1>2, <1>3, <1>5, <1>6, <1>7, <1>8

(* The positions of a slice, of a placed field and of a slice moved.       *)
LEMMA SliceBits ==
  ASSUME NEW w, NEW hi \in Int, NEW lo \in Int
  PROVE  \A k : k \in Slice(w, hi, lo) <=> k \in 0..hi - lo /\ k + lo \in w
<1>1. ASSUME NEW k, k \in Slice(w, hi, lo) PROVE k \in 0..hi - lo /\ k + lo \in w
  BY <1>1 DEF Slice
<1>2. ASSUME NEW k, k \in 0..hi - lo, k + lo \in w PROVE k \in Slice(w, hi, lo)
  <2>1. k + lo \in lo..hi /\ k = (k + lo) - lo
    BY <1>2
  <2>2. k + lo \in w \cap (lo..hi)
    BY <1>2, <2>1
  <2>3. QED
    BY <2>1, <2>2 DEF Slice
<1>3. QED
  BY <1>1, <1>2

(* The positions of a field that is placed at lo.                          *)
LEMMA PlacedBits ==
  ASSUME NEW a, a \subseteq Int, NEW lo \in Int
  PROVE  \A b : b \in Placed(a, lo) <=> b \in Int /\ b - lo \in a
<1>1. ASSUME NEW b \in Int, b - lo \in a PROVE b \in Placed(a, lo)
  <2>1. b = (b - lo) + lo
    OBVIOUS
  <2>2. QED
    BY <1>1, <2>1 DEF Placed
<1>2. ASSUME NEW b, b \in Placed(a, lo) PROVE b \in Int /\ b - lo \in a
  BY <1>2 DEF Placed
<1>3. QED
  BY <1>1, <1>2

(* The positions of a slice of a word that is placed elsewhere.            *)
LEMMA MovedBits ==
  ASSUME NEW w, NEW hi \in Int, NEW lo \in Int, NEW to \in Int
  PROVE  \A b : b \in Placed(Slice(w, hi, lo), to)
                  <=> b \in to..to + (hi - lo) /\ b + (lo - to) \in w
<1>1. \A k : k \in Slice(w, hi, lo) <=> k \in 0..hi - lo /\ k + lo \in w
  BY SliceBits
<1>2. Slice(w, hi, lo) \subseteq Int
  <2>1. \A k \in Slice(w, hi, lo) : k \in Int
    BY <1>1
  <2>2. QED
    BY <2>1
<1>3. \A b : b \in Placed(Slice(w, hi, lo), to) <=> b \in Int /\ b - to \in Slice(w, hi, lo)
  BY <1>2, PlacedBits
<1>4. \A b \in Int : b - to \in 0..hi - lo /\ (b - to) + lo \in w
                       <=> b \in to..to + (hi - lo) /\ b + (lo - to) \in w
  <2>1. \A b \in Int : (b - to) + lo = b + (lo - to)
    OBVIOUS
  <2>2. \A b \in Int : b - to \in 0..hi - lo <=> b \in to..to + (hi - lo)
    OBVIOUS
  <2>3. QED
    BY <2>1, <2>2
<1>5. \A b \in Int : b - to \in Slice(w, hi, lo)
                       <=> b \in to..to + (hi - lo) /\ b + (lo - to) \in w
  BY <1>1, <1>4
<1>6. \A b : b \in to..to + (hi - lo) => b \in Int
  OBVIOUS
<1>7. QED
  BY <1>3, <1>5, <1>6

(* Where the encoding puts the fields it has in every format.              *)
IsEncoding(w, op, d, f3, r1, high) ==
  /\ \A b \in w : b \in 0..31
  /\ \A k \in 0..6 : k \in w <=> k \in Field(op)
  /\ \A k \in 0..4 : k + 7 \in w <=> k \in Field(d) \/ k + 7 \in high
  /\ \A k \in 0..2 : k + 12 \in w <=> k \in Field(f3) \/ k + 12 \in high
  /\ \A k \in 0..4 : k + 15 \in w <=> k \in Field(r1) \/ k + 15 \in high
  /\ \A b \in 20..31 : b \in w <=> b \in high

(* The ranges of a register's number and of the fields of three and seven  *)
(* bits; the bits above the opcode.                                        *)
Register == 0..31
Number3  == 0..7
Number7  == 0..127
Upwards  == 7..31

(* Where Encoded puts the opcode, the registers and funct3 it is given.    *)
LEMMA EncodedBits ==
  ASSUME NEW op \in 0..127, NEW d \in Register, NEW f3 \in 0..7, NEW r1 \in Register,
         NEW high, high \subseteq Upwards
  PROVE  IsEncoding(Encoded(op, d, f3, r1, high), op, d, f3, r1, high)
<1> DEFINE w == Encoded(op, d, f3, r1, high)
<1>1. /\ Field(op) \subseteq 0..6 /\ Field(d) \subseteq 0..4 /\ Field(f3) \subseteq 0..2
      /\ Field(r1) \subseteq 0..4
  BY FieldIs DEF Register
<1>2. w = Field(op) \cup Placed(Field(d), 7) \cup Placed(Field(f3), 12)
            \cup Placed(Field(r1), 15) \cup high
  BY DEF Encoded
<1> HIDE DEF w
<1>3. Field(d) \subseteq Int /\ Field(f3) \subseteq Int /\ Field(r1) \subseteq Int
  BY <1>1
<1>4. \A b : /\ b \in Placed(Field(d), 7) <=> b \in Int /\ b - 7 \in Field(d)
             /\ b \in Placed(Field(f3), 12) <=> b \in Int /\ b - 12 \in Field(f3)
             /\ b \in Placed(Field(r1), 15) <=> b \in Int /\ b - 15 \in Field(r1)
  BY <1>3, PlacedBits
<1>5. \A b : b \in w <=> \/ b \in Field(op)
                         \/ b \in Int /\ b - 7 \in Field(d)
                         \/ b \in Int /\ b - 12 \in Field(f3)
                         \/ b \in Int /\ b - 15 \in Field(r1)
                         \/ b \in high
  BY <1>2, <1>4
<1>6. ASSUME NEW b \in w PROVE b \in 0..31
  <2>1. CASE b \in Field(op)
    BY <1>1, <2>1
  <2>2. CASE b \in Int /\ b - 7 \in Field(d)
    BY <1>1, <2>2
  <2>3. CASE b \in Int /\ b - 12 \in Field(f3)
    BY <1>1, <2>3
  <2>4. CASE b \in Int /\ b - 15 \in Field(r1)
    BY <1>1, <2>4
  <2>5. CASE b \in high
    BY <2>5 DEF Upwards
  <2>6. QED
    BY <1>5, <2>1, <2>2, <2>3, <2>4, <2>5
<1>7. \A k \in 0..6 : k \in w <=> k \in Field(op)
  BY <1>1, <1>5 DEF Upwards
<1>8. \A k \in 0..4 : k + 7 \in w <=> k \in Field(d) \/ k + 7 \in high
  BY <1>1, <1>5
<1>9. \A k \in 0..2 : k + 12 \in w <=> k \in Field(f3) \/ k + 12 \in high
  BY <1>1, <1>5
<1>10. \A k \in 0..4 : k + 15 \in w <=> k \in Field(r1) \/ k + 15 \in high
  BY <1>1, <1>5
<1>11. \A b \in 20..31 : b \in w <=> b \in high
  BY <1>1, <1>5
<1>12. IsEncoding(w, op, d, f3, r1, high)
  BY <1>6, <1>7, <1>8, <1>9, <1>10, <1>11 DEF IsEncoding
<1>13. QED
  BY <1>12 DEF w

(* The fields the encoding has put there, when no bit of high is in them.  *)
Clear(high, lo, hi) == \A b \in lo..hi : b \notin high

(* The fields such a word is decoded into, where nothing else overlaps     *)
(* them.                                                                   *)
LEMMA EncodedFields ==
  ASSUME NEW op \in 0..127, NEW d \in Register, NEW f3 \in 0..7, NEW r1 \in Register,
         NEW high, NEW w, IsEncoding(w, op, d, f3, r1, high)
  PROVE  /\ opcode(w) = op
         /\ Clear(high, 7, 11) => rd(w) = d
         /\ Clear(high, 12, 14) => funct3(w) = f3
         /\ Clear(high, 15, 19) => rs1(w) = r1
<1>1. /\ Field(op) \subseteq 0..6 /\ Field(d) \subseteq 0..4 /\ Field(f3) \subseteq 0..2
      /\ Field(r1) \subseteq 0..4
  BY FieldIs DEF Register
<1>2. Value(Field(op)) = op /\ Value(Field(d)) = d /\ Value(Field(f3)) = f3 /\ Value(Field(r1)) = r1
  BY FieldIs DEF Register
<1>3. opcode(w) = op
  <2>1. \A k : k \in Slice(w, 6, 0) <=> k \in 0..6 - 0 /\ k + 0 \in w
    BY SliceBits
  <2>2. \A k \in 0..6 : k \in w <=> k \in Field(op)
    BY DEF IsEncoding
  <2>3. \A k : k \in Slice(w, 6, 0) <=> k \in Field(op)
    BY <1>1, <2>1, <2>2
  <2>4. Slice(w, 6, 0) = Field(op)
    BY <2>3
  <2>5. QED
    BY <1>2, <2>4 DEF opcode
<1>4. ASSUME Clear(high, 7, 11) PROVE rd(w) = d
  <2>1. \A k : k \in Slice(w, 11, 7) <=> k \in 0..11 - 7 /\ k + 7 \in w
    BY SliceBits
  <2>2. \A k \in 0..4 : k + 7 \in w <=> k \in Field(d)
    BY <1>4 DEF IsEncoding, Clear
  <2>3. \A k : k \in Slice(w, 11, 7) <=> k \in Field(d)
    BY <1>1, <2>1, <2>2
  <2>4. Slice(w, 11, 7) = Field(d)
    BY <2>3
  <2>5. QED
    BY <1>2, <2>4 DEF rd
<1>5. ASSUME Clear(high, 12, 14) PROVE funct3(w) = f3
  <2>1. \A k : k \in Slice(w, 14, 12) <=> k \in 0..14 - 12 /\ k + 12 \in w
    BY SliceBits
  <2>2. \A k \in 0..2 : k + 12 \in w <=> k \in Field(f3)
    BY <1>5 DEF IsEncoding, Clear
  <2>3. \A k : k \in Slice(w, 14, 12) <=> k \in Field(f3)
    BY <1>1, <2>1, <2>2
  <2>4. Slice(w, 14, 12) = Field(f3)
    BY <2>3
  <2>5. QED
    BY <1>2, <2>4 DEF funct3
<1>6. ASSUME Clear(high, 15, 19) PROVE rs1(w) = r1
  <2>1. \A k : k \in Slice(w, 19, 15) <=> k \in 0..19 - 15 /\ k + 15 \in w
    BY SliceBits
  <2>2. \A k \in 0..4 : k + 15 \in w <=> k \in Field(r1)
    BY <1>6 DEF IsEncoding, Clear
  <2>3. \A k : k \in Slice(w, 19, 15) <=> k \in Field(r1)
    BY <1>1, <2>1, <2>2
  <2>4. Slice(w, 19, 15) = Field(r1)
    BY <2>3
  <2>5. QED
    BY <1>2, <2>4 DEF rs1
<1>7. QED
  BY <1>3, <1>4, <1>5, <1>6

(* Numbers in the upper bits of a word.                                    *)
LEMMA UpperFields ==
  ASSUME NEW w, NEW op, NEW d, NEW f3, NEW r1, NEW high, IsEncoding(w, op, d, f3, r1, high)
  PROVE  /\ \A n \in 0..31 : (\A k \in 0..4 : k + 20 \in high <=> k \in Field(n)) => rs2(w) = n
         /\ \A n \in 0..127 : (\A k \in 0..6 : k + 25 \in high <=> k \in Field(n)) => funct7(w) = n
<1>1. \A b \in 20..31 : b \in w <=> b \in high
  BY DEF IsEncoding
<1>2. ASSUME NEW n \in 0..31, \A k \in 0..4 : k + 20 \in high <=> k \in Field(n) PROVE rs2(w) = n
  <2>1. \A k : k \in Slice(w, 24, 20) <=> k \in 0..24 - 20 /\ k + 20 \in w
    BY SliceBits
  <2>2. Field(n) \subseteq 0..4 /\ Value(Field(n)) = n
    BY FieldIs
  <2>3. \A k \in 0..4 : k + 20 \in w <=> k \in Field(n)
    BY <1>1, <1>2
  <2>4. \A k : k \in Slice(w, 24, 20) <=> k \in Field(n)
    BY <2>1, <2>2, <2>3
  <2>5. Slice(w, 24, 20) = Field(n)
    BY <2>4
  <2>6. QED
    BY <2>2, <2>5 DEF rs2
<1>3. ASSUME NEW n \in 0..127, \A k \in 0..6 : k + 25 \in high <=> k \in Field(n) PROVE funct7(w) = n
  <2>1. \A k : k \in Slice(w, 31, 25) <=> k \in 0..31 - 25 /\ k + 25 \in w
    BY SliceBits
  <2>2. Field(n) \subseteq 0..6 /\ Value(Field(n)) = n
    BY FieldIs
  <2>3. \A k \in 0..6 : k + 25 \in w <=> k \in Field(n)
    BY <1>1, <1>3
  <2>4. \A k : k \in Slice(w, 31, 25) <=> k \in Field(n)
    BY <2>1, <2>2, <2>3
  <2>5. Slice(w, 31, 25) = Field(n)
    BY <2>4
  <2>6. QED
    BY <2>2, <2>5 DEF funct7
<1>4. QED
  BY <1>2, <1>3

(* What stands above the common fields.                                    *)
LEMMA HighBits ==
  /\ \A n \in Register : \A b : b \in Rs2(n) <=> b \in 20..24 /\ b - 20 \in Field(n)
  /\ \A n \in 0..127 : \A b : b \in Funct7(n) <=> b \in 25..31 /\ b - 25 \in Field(n)
  /\ \A imm, b : b \in Imm12(imm) <=> b \in 20..31 /\ b - 20 \in imm
<1>1. ASSUME NEW n \in Register, NEW b PROVE b \in Rs2(n) <=> b \in 20..24 /\ b - 20 \in Field(n)
  <2>1. Field(n) \subseteq 0..4
    BY FieldIs DEF Register
  <2>2. Field(n) \subseteq Int
    BY <2>1
  <2>3. b \in Rs2(n) <=> b \in Int /\ b - 20 \in Field(n)
    BY <2>2, PlacedBits DEF Rs2
  <2>4. ASSUME b \in Int, b - 20 \in 0..4 PROVE b \in 20..24
    BY <2>4
  <2>5. QED
    BY <2>1, <2>3, <2>4
<1>2. ASSUME NEW n \in 0..127, NEW b PROVE b \in Funct7(n) <=> b \in 25..31 /\ b - 25 \in Field(n)
  <2>1. Field(n) \subseteq 0..6
    BY FieldIs
  <2>2. Field(n) \subseteq Int
    BY <2>1
  <2>3. b \in Funct7(n) <=> b \in Int /\ b - 25 \in Field(n)
    BY <2>2, PlacedBits DEF Funct7
  <2>4. ASSUME b \in Int, b - 25 \in 0..6 PROVE b \in 25..31
    BY <2>4
  <2>5. QED
    BY <2>1, <2>3, <2>4
<1>3. ASSUME NEW imm, NEW b PROVE b \in Imm12(imm) <=> b \in 20..31 /\ b - 20 \in imm
  <2>1. b \in Placed(Slice(imm, 11, 0), 20) <=> b \in 20..20 + (11 - 0) /\ b + (0 - 20) \in imm
    BY MovedBits
  <2>2. ASSUME b \in 20..31 PROVE b + (0 - 20) = b - 20
    BY <2>2
  <2>3. QED
    BY <2>1, <2>2 DEF Imm12
<1>4. QED
  BY <1>1, <1>2, <1>3

(* A register operation's word.                                            *)
LEMMA RTypeWord ==
  ASSUME NEW op \in Number7, NEW d \in Register, NEW f3 \in Number3, NEW r1 \in Register,
         NEW r2 \in Register, NEW f7 \in Number7,
         NEW w, w = Encoded(op, d, f3, r1, Rs2(r2) \cup Funct7(f7))
  PROVE  opcode(w) = op /\ rd(w) = d /\ funct3(w) = f3 /\ rs1(w) = r1 /\ rs2(w) = r2 /\ funct7(w) = f7
<1> op \in 0..127 /\ f3 \in 0..7 /\ f7 \in 0..127
  BY DEF Number3, Number7
<1> DEFINE high == Rs2(r2) \cup Funct7(f7)
<1>1. /\ \A b : b \in Rs2(r2) <=> b \in 20..24 /\ b - 20 \in Field(r2)
      /\ \A b : b \in Funct7(f7) <=> b \in 25..31 /\ b - 25 \in Field(f7)
  BY HighBits
<1>2. \A b : b \in high <=> \/ b \in 20..24 /\ b - 20 \in Field(r2)
                            \/ b \in 25..31 /\ b - 25 \in Field(f7)
  BY <1>1
<1> HIDE DEF high
<1>3. \A b \in high : b \in 20..31
  BY <1>2
<1>4. high \subseteq Upwards /\ Clear(high, 7, 11) /\ Clear(high, 12, 14) /\ Clear(high, 15, 19)
  BY <1>3 DEF Upwards, Clear
<1>5. IsEncoding(w, op, d, f3, r1, high)
  BY <1>4, EncodedBits DEF high
<1>6. opcode(w) = op /\ rd(w) = d /\ funct3(w) = f3 /\ rs1(w) = r1
  BY <1>4, <1>5, EncodedFields
<1>7. \A k \in 0..4 : k + 20 \in high <=> k \in Field(r2)
  BY <1>2
<1>8. \A k \in 0..6 : k + 25 \in high <=> k \in Field(f7)
  BY <1>2
<1>9. rs2(w) = r2 /\ funct7(w) = f7
  BY <1>5, <1>7, <1>8, UpperFields DEF Register
<1>10. QED
  BY <1>6, <1>9

(* A word with an immediate of twelve bits in one piece.                   *)
LEMMA ITypeWord ==
  ASSUME NEW op \in Number7, NEW d \in Register, NEW f3 \in Number3, NEW r1 \in Register,
         NEW imm, NEW w, w = Encoded(op, d, f3, r1, Imm12(imm))
  PROVE  /\ opcode(w) = op /\ rd(w) = d /\ funct3(w) = f3 /\ rs1(w) = r1
         /\ \A b \in 20..31 : b \in w <=> b - 20 \in imm
<1> op \in 0..127 /\ f3 \in 0..7
  BY DEF Number3, Number7
<1>1. \A b : b \in Imm12(imm) <=> b \in 20..31 /\ b - 20 \in imm
  BY HighBits
<1> DEFINE high == Imm12(imm)
<1> HIDE DEF high
<1>2. \A b \in high : b \in 20..31
  BY <1>1 DEF high
<1>3. high \subseteq Upwards /\ Clear(high, 7, 11) /\ Clear(high, 12, 14) /\ Clear(high, 15, 19)
  BY <1>2 DEF Upwards, Clear
<1>4. IsEncoding(w, op, d, f3, r1, high)
  BY <1>3, EncodedBits DEF high
<1>5. opcode(w) = op /\ rd(w) = d /\ funct3(w) = f3 /\ rs1(w) = r1
  BY <1>3, <1>4, EncodedFields
<1>6. \A b \in 20..31 : b \in w <=> b - 20 \in imm
  BY <1>1, <1>4 DEF IsEncoding, high
<1>7. QED
  BY <1>5, <1>6

(* A shift by a constant's word.                                           *)
LEMMA ShiftTypeWord ==
  ASSUME NEW d \in Register, NEW f3 \in Number3, NEW r1 \in Register, NEW f7 \in Number7,
         NEW imm, \A k \in imm : k \in 0..4,
         NEW w, w = Encoded(19, d, f3, r1, Imm12(imm) \cup Funct7(f7))
  PROVE  /\ opcode(w) = 19 /\ rd(w) = d /\ funct3(w) = f3 /\ rs1(w) = r1 /\ funct7(w) = f7
         /\ \A b \in 20..24 : b \in w <=> b - 20 \in imm
<1> f3 \in 0..7 /\ f7 \in 0..127
  BY DEF Number3, Number7
<1> DEFINE high == Imm12(imm) \cup Funct7(f7)
<1>1. /\ \A b : b \in Imm12(imm) <=> b \in 20..31 /\ b - 20 \in imm
      /\ \A b : b \in Funct7(f7) <=> b \in 25..31 /\ b - 25 \in Field(f7)
  BY HighBits
<1>2. \A b : b \in high <=> \/ b \in 20..31 /\ b - 20 \in imm
                            \/ b \in 25..31 /\ b - 25 \in Field(f7)
  BY <1>1
<1> HIDE DEF high
<1>3. \A b \in high : b \in 20..31
  BY <1>2
<1>4. high \subseteq Upwards /\ Clear(high, 7, 11) /\ Clear(high, 12, 14) /\ Clear(high, 15, 19)
  BY <1>3 DEF Upwards, Clear
<1>5. IsEncoding(w, 19, d, f3, r1, high)
  BY <1>4, EncodedBits DEF high
<1>6. opcode(w) = 19 /\ rd(w) = d /\ funct3(w) = f3 /\ rs1(w) = r1
  BY <1>4, <1>5, EncodedFields
<1>7. \A k \in 0..6 : k + 25 \in high <=> k \in Field(f7)
  <2>1. \A k \in 0..6 : ~((k + 25) - 20 \in 0..4)
    OBVIOUS
  <2>2. \A k \in 0..6 : (k + 25) - 20 \notin imm
    BY <2>1
  <2>3. QED
    BY <1>2, <2>2
<1>8. funct7(w) = f7
  BY <1>5, <1>7, UpperFields
<1>9. \A b \in 20..24 : b \in high <=> b - 20 \in imm
  BY <1>2
<1>10. \A b \in 20..24 : b \in w <=> b - 20 \in imm
  BY <1>5, <1>9 DEF IsEncoding
<1>11. QED
  BY <1>6, <1>8, <1>10

(* A store's word.                                                         *)
LEMMA STypeWord ==
  ASSUME NEW f3 \in Number3, NEW r1 \in Register, NEW r2 \in Register, NEW imm, NEW w,
         w = Encoded(35, 0, f3, r1, Rs2(r2) \cup Placed(Slice(imm, 4, 0), 7)
                                            \cup Placed(Slice(imm, 11, 5), 25))
  PROVE  /\ opcode(w) = 35 /\ funct3(w) = f3 /\ rs1(w) = r1 /\ rs2(w) = r2
         /\ \A k \in 0..4 : k + 7 \in w <=> k \in imm
         /\ \A b \in 25..31 : b \in w <=> b - 20 \in imm
<1> f3 \in 0..7
  BY DEF Number3, Number7
<1> DEFINE high == Rs2(r2) \cup Placed(Slice(imm, 4, 0), 7) \cup Placed(Slice(imm, 11, 5), 25)
<1>1. /\ \A b : b \in Rs2(r2) <=> b \in 20..24 /\ b - 20 \in Field(r2)
      /\ \A b : b \in Placed(Slice(imm, 4, 0), 7) <=> b \in 7..7 + (4 - 0) /\ b + (0 - 7) \in imm
      /\ \A b : b \in Placed(Slice(imm, 11, 5), 25) <=> b \in 25..25 + (11 - 5) /\ b + (5 - 25) \in imm
  BY HighBits, MovedBits
<1>2. \A b : b \in high <=> \/ b \in 20..24 /\ b - 20 \in Field(r2)
                            \/ b \in 7..11 /\ b - 7 \in imm
                            \/ b \in 25..31 /\ b - 20 \in imm
  BY <1>1
<1> HIDE DEF high
<1>3. \A b \in high : b \in 7..11 \cup 20..31
  BY <1>2
<1>4. high \subseteq Upwards /\ Clear(high, 12, 14) /\ Clear(high, 15, 19) /\ 0 \in Register
  BY <1>3 DEF Upwards, Clear, Register
<1>5. IsEncoding(w, 35, 0, f3, r1, high)
  BY <1>4, EncodedBits DEF high
<1>6. opcode(w) = 35 /\ funct3(w) = f3 /\ rs1(w) = r1
  BY <1>4, <1>5, EncodedFields
<1>7. \A k \in 0..4 : k + 20 \in high <=> k \in Field(r2)
  BY <1>2
<1>8. rs2(w) = r2
  BY <1>5, <1>7, UpperFields DEF Register
<1>9. \A k \in 0..4 : k + 7 \in w <=> k \in imm
  <2>1. Field(0) = {}
    BY FieldIs
  <2>2. \A k \in 0..4 : k + 7 \in high <=> k \in imm
    BY <1>2
  <2>3. QED
    BY <1>5, <2>1, <2>2 DEF IsEncoding
<1>10. \A b \in 25..31 : b \in w <=> b - 20 \in imm
  <2>1. \A b \in 25..31 : b \in high <=> b - 20 \in imm
    BY <1>2
  <2>2. QED
    BY <1>5, <2>1 DEF IsEncoding
<1>11. QED
  BY <1>6, <1>8, <1>9, <1>10

(* A branch's word.                                                        *)
BranchHigh(r2, imm) == Rs2(r2) \cup Placed(Slice(imm, 11, 11), 7) \cup Placed(Slice(imm, 4, 1), 8)
                         \cup Placed(Slice(imm, 10, 5), 25) \cup Placed(Slice(imm, 12, 12), 31)

(* A branch's word: both registers and the four parts of its offset.       *)
LEMMA BTypeWord ==
  ASSUME NEW f3 \in Number3, NEW r1 \in Register, NEW r2 \in Register, NEW imm, NEW w,
         w = Encoded(99, 0, f3, r1, BranchHigh(r2, imm))
  PROVE  /\ opcode(w) = 99 /\ funct3(w) = f3 /\ rs1(w) = r1 /\ rs2(w) = r2
         /\ 7 \in w <=> 11 \in imm
         /\ \A b \in 8..11 : b \in w <=> b - 7 \in imm
         /\ \A b \in 25..30 : b \in w <=> b - 20 \in imm
         /\ 31 \in w <=> 12 \in imm
<1> f3 \in 0..7
  BY DEF Number3, Number7
<1> DEFINE high == BranchHigh(r2, imm)
<1>1. \A b : b \in Rs2(r2) <=> b \in 20..24 /\ b - 20 \in Field(r2)
  BY HighBits
<1>2. /\ \A b : b \in Placed(Slice(imm, 11, 11), 7) <=> b \in 7..7 + (11 - 11) /\ b + (11 - 7) \in imm
      /\ \A b : b \in Placed(Slice(imm, 4, 1), 8) <=> b \in 8..8 + (4 - 1) /\ b + (1 - 8) \in imm
      /\ \A b : b \in Placed(Slice(imm, 10, 5), 25) <=> b \in 25..25 + (10 - 5) /\ b + (5 - 25) \in imm
      /\ \A b : b \in Placed(Slice(imm, 12, 12), 31) <=> b \in 31..31 + (12 - 12) /\ b + (12 - 31) \in imm
  BY MovedBits
<1>3. \A b : b \in high <=> \/ b \in 20..24 /\ b - 20 \in Field(r2)
                            \/ b = 7 /\ 11 \in imm
                            \/ b \in 8..11 /\ b - 7 \in imm
                            \/ b \in 25..30 /\ b - 20 \in imm
                            \/ b = 31 /\ 12 \in imm
  <2>1. \A b : b \in Placed(Slice(imm, 11, 11), 7) <=> b = 7 /\ 11 \in imm
    BY <1>2
  <2>2. \A b : b \in Placed(Slice(imm, 4, 1), 8) <=> b \in 8..11 /\ b - 7 \in imm
    BY <1>2
  <2>3. \A b : b \in Placed(Slice(imm, 10, 5), 25) <=> b \in 25..30 /\ b - 20 \in imm
    BY <1>2
  <2>4. \A b : b \in Placed(Slice(imm, 12, 12), 31) <=> b = 31 /\ 12 \in imm
    BY <1>2
  <2>5. QED
    BY <1>1, <2>1, <2>2, <2>3, <2>4 DEF BranchHigh
<1> HIDE DEF high
<1>4. \A b \in high : b \in 7..11 \cup 20..31
  BY <1>3
<1>5. high \subseteq Upwards /\ Clear(high, 12, 14) /\ Clear(high, 15, 19) /\ 0 \in Register
  BY <1>4 DEF Upwards, Clear, Register
<1>6. IsEncoding(w, 99, 0, f3, r1, high)
  BY <1>5, EncodedBits DEF high
<1>7. opcode(w) = 99 /\ funct3(w) = f3 /\ rs1(w) = r1
  BY <1>5, <1>6, EncodedFields
<1>8. \A k \in 0..4 : k + 20 \in high <=> k \in Field(r2)
  BY <1>3
<1>9. rs2(w) = r2
  BY <1>6, <1>8, UpperFields DEF Register
<1>10. \A k \in 0..4 : k + 7 \in w <=> k + 7 \in high
  <2>1. Field(0) = {}
    BY FieldIs
  <2>2. QED
    BY <1>6, <2>1 DEF IsEncoding
<1>11. 7 \in w <=> 11 \in imm
  <2>1. 0 + 7 = 7
    OBVIOUS
  <2>2. 7 \in high <=> 11 \in imm
    BY <1>3
  <2>3. QED
    BY <1>10, <2>1, <2>2
<1>12. \A b \in 8..11 : b \in w <=> b - 7 \in imm
  <2>1. \A b \in 8..11 : b - 7 \in 0..4 /\ (b - 7) + 7 = b
    OBVIOUS
  <2>2. \A b \in 8..11 : b \in high <=> b - 7 \in imm
    BY <1>3
  <2>3. QED
    BY <1>10, <2>1, <2>2
<1>13. \A b \in 25..30 : b \in w <=> b - 20 \in imm
  <2>1. \A b \in 25..30 : b \in high <=> b - 20 \in imm
    BY <1>3
  <2>2. QED
    BY <1>6, <2>1 DEF IsEncoding
<1>14. 31 \in w <=> 12 \in imm
  <2>1. 31 \in high <=> 12 \in imm
    BY <1>3
  <2>2. QED
    BY <1>6, <2>1 DEF IsEncoding
<1>15. QED
  BY <1>7, <1>9, <1>11, <1>12, <1>13, <1>14

(* The words of lui and auipc.                                             *)
LEMMA UTypeWord ==
  ASSUME NEW op \in Number7, NEW d \in Register, NEW imm, \A b \in imm : b \in 12..31,
         NEW w, w = Encoded(op, d, 0, 0, imm)
  PROVE  opcode(w) = op /\ rd(w) = d /\ w \cap (12..31) = imm
<1> op \in 0..127
  BY DEF Number3, Number7
<1>1. imm \subseteq Upwards /\ Clear(imm, 7, 11) /\ 0 \in Register
  BY DEF Upwards, Clear, Register
<1>2. IsEncoding(w, op, d, 0, 0, imm)
  BY <1>1, EncodedBits
<1>3. opcode(w) = op /\ rd(w) = d
  BY <1>1, <1>2, EncodedFields
<1>4. Field(0) = {}
  BY FieldIs
<1>5. \A b \in 12..31 : b \in w <=> b \in imm
  <2>1. \A k \in 0..2 : k + 12 \in w <=> k + 12 \in imm
    BY <1>2, <1>4 DEF IsEncoding
  <2>2. \A k \in 0..4 : k + 15 \in w <=> k + 15 \in imm
    BY <1>2, <1>4 DEF IsEncoding
  <2>3. \A b \in 20..31 : b \in w <=> b \in imm
    BY <1>2 DEF IsEncoding
  <2>4. \A b \in 12..14 : b - 12 \in 0..2 /\ (b - 12) + 12 = b
    OBVIOUS
  <2>5. \A b \in 15..19 : b - 15 \in 0..4 /\ (b - 15) + 15 = b
    OBVIOUS
  <2>6. \A b \in 12..14 : b \in w <=> b \in imm
    BY <2>1, <2>4
  <2>7. \A b \in 15..19 : b \in w <=> b \in imm
    BY <2>2, <2>5
  <2>8. \A b \in 12..31 : b \in 12..14 \/ b \in 15..19 \/ b \in 20..31
    OBVIOUS
  <2>9. QED
    BY <2>3, <2>6, <2>7, <2>8
<1>6. w \cap (12..31) = imm
  BY <1>5
<1>7. QED
  BY <1>3, <1>6

(* The word of jal.                                                        *)
JumpHigh(imm) == Placed(Slice(imm, 19, 12), 12) \cup Placed(Slice(imm, 11, 11), 20)
                   \cup Placed(Slice(imm, 10, 1), 21) \cup Placed(Slice(imm, 20, 20), 31)

(* The word of jal: its register and the four parts of its offset.         *)
LEMMA JTypeWord ==
  ASSUME NEW d \in Register, NEW imm, NEW w,
         w = Encoded(111, d, 0, 0, JumpHigh(imm))
  PROVE  /\ opcode(w) = 111 /\ rd(w) = d
         /\ \A b \in 12..19 : b \in w <=> b \in imm
         /\ 20 \in w <=> 11 \in imm
         /\ \A b \in 21..30 : b \in w <=> b - 20 \in imm
         /\ 31 \in w <=> 20 \in imm
<1> DEFINE high == JumpHigh(imm)
<1>1. /\ \A b : b \in Placed(Slice(imm, 19, 12), 12) <=> b \in 12..12 + (19 - 12) /\ b + (12 - 12) \in imm
      /\ \A b : b \in Placed(Slice(imm, 11, 11), 20) <=> b \in 20..20 + (11 - 11) /\ b + (11 - 20) \in imm
      /\ \A b : b \in Placed(Slice(imm, 10, 1), 21) <=> b \in 21..21 + (10 - 1) /\ b + (1 - 21) \in imm
      /\ \A b : b \in Placed(Slice(imm, 20, 20), 31) <=> b \in 31..31 + (20 - 20) /\ b + (20 - 31) \in imm
  BY MovedBits
<1>2. \A b : b \in high <=> \/ b \in 12..19 /\ b \in imm
                            \/ b = 20 /\ 11 \in imm
                            \/ b \in 21..30 /\ b - 20 \in imm
                            \/ b = 31 /\ 20 \in imm
  <2>1. \A b : b \in Placed(Slice(imm, 19, 12), 12) <=> b \in 12..19 /\ b \in imm
    BY <1>1
  <2>2. \A b : b \in Placed(Slice(imm, 11, 11), 20) <=> b = 20 /\ 11 \in imm
    BY <1>1
  <2>3. \A b : b \in Placed(Slice(imm, 10, 1), 21) <=> b \in 21..30 /\ b - 20 \in imm
    BY <1>1
  <2>4. \A b : b \in Placed(Slice(imm, 20, 20), 31) <=> b = 31 /\ 20 \in imm
    BY <1>1
  <2>5. QED
    BY <2>1, <2>2, <2>3, <2>4 DEF JumpHigh
<1> HIDE DEF high
<1>3. \A b \in high : b \in 12..31
  BY <1>2
<1>4. opcode(w) = 111 /\ rd(w) = d /\ w \cap (12..31) = high
  <2>1. w = Encoded(111, d, 0, 0, high)
    BY DEF high
  <2>2. 111 \in Number7
    BY DEF Number7
  <2>3. QED
    BY <1>3, <2>1, <2>2, UTypeWord
<1>5. \A b \in 12..31 : b \in w <=> b \in high
  BY <1>4
<1>6. \A b \in 12..19 : b \in w <=> b \in imm
  BY <1>2, <1>5
<1>7. 20 \in w <=> 11 \in imm
  BY <1>2, <1>5
<1>8. \A b \in 21..30 : b \in w <=> b - 20 \in imm
  BY <1>2, <1>5
<1>9. 31 \in w <=> 20 \in imm
  BY <1>2, <1>5
<1>10. QED
  BY <1>4, <1>6, <1>7, <1>8, <1>9

(* An immediate with its sign.                                             *)
IsSigned(imm, low, sign) == /\ \A b \in imm : b \in low..31
                            /\ \A b \in sign..31 : b \in imm <=> sign \in imm

(* An immediate with its sign: its bits from the sign up are all equal.    *)
LEMMA SignedIs ==
  ASSUME NEW low \in 0..31, NEW sign \in 0..31, NEW imm \in Signed(low, sign), low < sign
  PROVE  IsSigned(imm, low, sign)
<1>1. PICK p \in Patterns, s \in {{}, sign..31} : imm = (p \cap (low..sign-1)) \cup s
  BY DEF Signed
<1>2. ASSUME NEW b \in imm PROVE b \in low..31
  BY <1>1
<1>3. ASSUME NEW b \in sign..31 PROVE b \in imm <=> sign \in imm
  BY <1>1
<1>4. QED
  BY <1>2, <1>3 DEF IsSigned

(* What the decoder makes of the bits of each format.                      *)
LEMMA IImmediate ==
  ASSUME NEW w, NEW imm, IsSigned(imm, 0, 11), \A b \in 20..31 : b \in w <=> b - 20 \in imm
  PROVE  i_immediate(w) = imm
<1>1. \A k : k \in Slice(w, 31, 20) <=> k \in 0..31 - 20 /\ k + 20 \in w
  BY SliceBits
<1>2. \A k \in 0..11 : k + 20 \in w <=> k \in imm
  <2>1. \A k \in 0..11 : k + 20 \in 20..31 /\ (k + 20) - 20 = k
    OBVIOUS
  <2>2. QED
    BY <2>1
<1>3. \A k : k \in Slice(w, 31, 20) <=> k \in 0..11 /\ k \in imm
  BY <1>1, <1>2
<1>4. 31 \in w <=> 11 \in imm
  <2>1. 31 \in 20..31 /\ 31 - 20 = 11
    OBVIOUS
  <2>2. QED
    BY <2>1
<1>5. \A k : k \in Extended(w, 12) <=> k \in 12..31 /\ 11 \in imm
  BY <1>4 DEF Extended
<1>6. \A k : k \in i_immediate(w) <=> k \in imm
  <2>1. \A k \in imm : k \in 0..11 \/ k \in 12..31
    BY DEF IsSigned
  <2>2. \A k \in 12..31 : k \in imm <=> 11 \in imm
    BY DEF IsSigned
  <2>3. QED
    BY <1>3, <1>5, <2>1, <2>2 DEF i_immediate
<1>7. QED
  BY <1>6

(* The immediate a store's two parts make up.                              *)
LEMMA SImmediate ==
  ASSUME NEW w, NEW imm, IsSigned(imm, 0, 11), \A k \in 0..4 : k + 7 \in w <=> k \in imm,
         \A b \in 25..31 : b \in w <=> b - 20 \in imm
  PROVE  s_immediate(w) = imm
<1>1. \A k : k \in Slice(w, 11, 7) <=> k \in 0..11 - 7 /\ k + 7 \in w
  BY SliceBits
<1>2. \A k : k \in Slice(w, 11, 7) <=> k \in 0..4 /\ k \in imm
  BY <1>1
<1>3. \A k : k \in Placed(Slice(w, 31, 25), 5) <=> k \in 5..5 + (31 - 25) /\ k + (25 - 5) \in w
  BY MovedBits
<1>4. \A k \in 5..11 : k + 20 \in w <=> k \in imm
  <2>1. \A k \in 5..11 : k + 20 \in 25..31 /\ (k + 20) - 20 = k
    OBVIOUS
  <2>2. QED
    BY <2>1
<1>5. \A k : k \in Placed(Slice(w, 31, 25), 5) <=> k \in 5..11 /\ k \in imm
  BY <1>3, <1>4
<1>6. 31 \in w <=> 11 \in imm
  <2>1. 31 \in 25..31 /\ 31 - 20 = 11
    OBVIOUS
  <2>2. QED
    BY <2>1
<1>7. \A k : k \in Extended(w, 12) <=> k \in 12..31 /\ 11 \in imm
  BY <1>6 DEF Extended
<1>8. \A k : k \in s_immediate(w) <=> k \in imm
  <2>1. \A k \in imm : k \in 0..4 \/ k \in 5..11 \/ k \in 12..31
    BY DEF IsSigned
  <2>2. \A k \in 12..31 : k \in imm <=> 11 \in imm
    BY DEF IsSigned
  <2>3. QED
    BY <1>2, <1>5, <1>7, <2>1, <2>2 DEF s_immediate
<1>9. QED
  BY <1>8

(* The offset a branch's four parts make up.                               *)
LEMMA BImmediate ==
  ASSUME NEW w, NEW imm, IsSigned(imm, 1, 12), 7 \in w <=> 11 \in imm,
         \A b \in 8..11 : b \in w <=> b - 7 \in imm,
         \A b \in 25..30 : b \in w <=> b - 20 \in imm,
         31 \in w <=> 12 \in imm
  PROVE  b_immediate(w) = imm
<1>1. /\ \A k : k \in Placed(Slice(w, 7, 7), 11) <=> k \in 11..11 + (7 - 7) /\ k + (7 - 11) \in w
      /\ \A k : k \in Placed(Slice(w, 30, 25), 5) <=> k \in 5..5 + (30 - 25) /\ k + (25 - 5) \in w
      /\ \A k : k \in Placed(Slice(w, 11, 8), 1) <=> k \in 1..1 + (11 - 8) /\ k + (8 - 1) \in w
  BY MovedBits
<1>2. \A k : k \in Placed(Slice(w, 7, 7), 11) <=> k = 11 /\ 11 \in imm
  BY <1>1
<1>3. \A k : k \in Placed(Slice(w, 30, 25), 5) <=> k \in 5..10 /\ k \in imm
  <2>1. \A k \in 5..10 : k + 20 \in 25..30 /\ (k + 20) - 20 = k
    OBVIOUS
  <2>2. \A k \in 5..10 : k + 20 \in w <=> k \in imm
    BY <2>1
  <2>3. QED
    BY <1>1, <2>2
<1>4. \A k : k \in Placed(Slice(w, 11, 8), 1) <=> k \in 1..4 /\ k \in imm
  <2>1. \A k \in 1..4 : k + 7 \in 8..11 /\ (k + 7) - 7 = k
    OBVIOUS
  <2>2. \A k \in 1..4 : k + 7 \in w <=> k \in imm
    BY <2>1
  <2>3. QED
    BY <1>1, <2>2
<1>5. \A k : k \in Extended(w, 12) <=> k \in 12..31 /\ 12 \in imm
  BY DEF Extended
<1>6. \A k : k \in b_immediate(w) <=> k \in imm
  <2>1. \A k \in imm : k \in 1..4 \/ k \in 5..10 \/ k = 11 \/ k \in 12..31
    BY DEF IsSigned
  <2>2. \A k \in 12..31 : k \in imm <=> 12 \in imm
    BY DEF IsSigned
  <2>3. QED
    BY <1>2, <1>3, <1>4, <1>5, <2>1, <2>2 DEF b_immediate
<1>7. QED
  BY <1>6

(* The offset the four parts of jal make up.                               *)
LEMMA JImmediate ==
  ASSUME NEW w, NEW imm, IsSigned(imm, 1, 20), \A b \in 12..19 : b \in w <=> b \in imm,
         20 \in w <=> 11 \in imm,
         \A b \in 21..30 : b \in w <=> b - 20 \in imm,
         31 \in w <=> 20 \in imm
  PROVE  j_immediate(w) = imm
<1>1. /\ \A k : k \in Placed(Slice(w, 19, 12), 12) <=> k \in 12..12 + (19 - 12) /\ k + (12 - 12) \in w
      /\ \A k : k \in Placed(Slice(w, 20, 20), 11) <=> k \in 11..11 + (20 - 20) /\ k + (20 - 11) \in w
      /\ \A k : k \in Placed(Slice(w, 30, 21), 1) <=> k \in 1..1 + (30 - 21) /\ k + (21 - 1) \in w
  BY MovedBits
<1>2. \A k : k \in Placed(Slice(w, 19, 12), 12) <=> k \in 12..19 /\ k \in imm
  BY <1>1
<1>3. \A k : k \in Placed(Slice(w, 20, 20), 11) <=> k = 11 /\ 11 \in imm
  BY <1>1
<1>4. \A k : k \in Placed(Slice(w, 30, 21), 1) <=> k \in 1..10 /\ k \in imm
  <2>1. \A k \in 1..10 : k + 20 \in 21..30 /\ (k + 20) - 20 = k
    OBVIOUS
  <2>2. \A k \in 1..10 : k + 20 \in w <=> k \in imm
    BY <2>1
  <2>3. QED
    BY <1>1, <2>2
<1>5. \A k : k \in Extended(w, 20) <=> k \in 20..31 /\ 20 \in imm
  BY DEF Extended
<1>6. \A k : k \in j_immediate(w) <=> k \in imm
  <2>1. \A k \in imm : k \in 1..10 \/ k = 11 \/ k \in 12..19 \/ k \in 20..31
    BY DEF IsSigned
  <2>2. \A k \in 20..31 : k \in imm <=> 20 \in imm
    BY DEF IsSigned
  <2>3. QED
    BY <1>2, <1>3, <1>4, <1>5, <2>1, <2>2 DEF j_immediate
<1>7. QED
  BY <1>6

(* The mini core cuts its words as the core does.                          *)
LEMMA SameFields ==
  /\ \A w, hi, lo : Version1!Slice(w, hi, lo) = Slice(w, hi, lo)
  /\ \A a, lo : Version1!Placed(a, lo) = Placed(a, lo)
  /\ \A a : Version1!Value(a) = Value(a)
  /\ \A w : /\ Version1!opcode(w) = opcode(w)
            /\ Version1!funct3(w) = funct3(w)
            /\ Version1!funct7(w) = funct7(w)
<1>1. ASSUME NEW w, NEW hi, NEW lo PROVE Version1!Slice(w, hi, lo) = Slice(w, hi, lo)
  BY Zenon DEF Version1!Slice, Slice
<1>2. ASSUME NEW a, NEW lo PROVE Version1!Placed(a, lo) = Placed(a, lo)
  BY Zenon DEF Version1!Placed, Placed
<1>3. ASSUME NEW a PROVE Version1!Value(a) = Value(a)
  BY Zenon DEF Version1!Value, Value, Version1!MapThenSumSet, MapThenSumSet,
               Version1!MapThenFoldSet, MapThenFoldSet
<1>4. ASSUME NEW w
      PROVE  /\ Version1!opcode(w) = opcode(w)
             /\ Version1!funct3(w) = funct3(w)
             /\ Version1!funct7(w) = funct7(w)
  BY <1>1, <1>3, Zenon DEF Version1!opcode, opcode, Version1!funct3, funct3, Version1!funct7, funct7
<1>5. QED
  BY <1>1, <1>2, <1>3, <1>4

(* Only the word's own format raises a flag.                               *)
LEMMA OtherFlags ==
  ASSUME NEW w
  PROVE  /\ type(w) # "r" => r_flags(w) = {}
         /\ opcode(w) # 19 => i_flags(w) = {}
         /\ opcode(w) # 15 => fence_flags(w) = {}
         /\ opcode(w) # 3 => l_flags(w) = {}
         /\ type(w) # "b" => b_flags(w) = {}
         /\ opcode(w) \notin {55, 23} /\ type(w) \notin {"j", "jalr"} => uj_flags(w) = {}
         /\ type(w) # "s" => s_flags(w) = {}
         /\ type(w) # "system" => system_flags(w) = {}
         /\ type(w) # "m" => m_flags(w) = {}
<1>1. type(w) # "r" => r_flags(w) = {}
  BY DEF r_flags
<1>2. opcode(w) # 19 => i_flags(w) = {}
  BY DEF i_flags
<1>3. opcode(w) # 15 => fence_flags(w) = {}
  BY DEF fence_flags
<1>4. opcode(w) # 3 => l_flags(w) = {}
  BY DEF l_flags
<1>5. type(w) # "b" => b_flags(w) = {}
  BY DEF b_flags
<1>6. opcode(w) \notin {55, 23} /\ type(w) \notin {"j", "jalr"} => uj_flags(w) = {}
  BY DEF uj_flags
<1>7. type(w) # "s" => s_flags(w) = {}
  BY DEF s_flags
<1>8. type(w) # "system" => system_flags(w) = {}
  BY DEF system_flags
<1>9. type(w) # "m" => m_flags(w) = {}
  BY DEF m_flags
<1>10. QED
  BY <1>1, <1>2, <1>3, <1>4, <1>5, <1>6, <1>7, <1>8, <1>9

(* The formats of the mini core that an opcode rules out.                  *)
LEMMA OtherMiniFlags ==
  ASSUME NEW w
  PROVE  /\ Version1!opcode(w) # 51 => Version1!r_flags(w) = {}
         /\ Version1!opcode(w) # 19 => Version1!i_flags(w) = {}
         /\ Version1!opcode(w) # 3 => Version1!l_flags(w) = {}
         /\ Version1!opcode(w) # 99 => Version1!b_flags(w) = {}
         /\ Version1!opcode(w) \notin {55, 23, 111, 103, 35, 15} => Version1!other_flags(w) = {}
<1>1. Version1!opcode(w) # 51 => Version1!r_flags(w) = {}
  BY DEF Version1!r_flags
<1>2. Version1!opcode(w) # 19 => Version1!i_flags(w) = {}
  BY DEF Version1!i_flags
<1>3. Version1!opcode(w) # 3 => Version1!l_flags(w) = {}
  BY DEF Version1!l_flags
<1>4. Version1!opcode(w) # 99 => Version1!b_flags(w) = {}
  BY DEF Version1!b_flags
<1>5. Version1!opcode(w) \notin {55, 23, 111, 103, 35, 15} => Version1!other_flags(w) = {}
  BY DEF Version1!other_flags
<1>6. QED
  BY <1>1, <1>2, <1>3, <1>4, <1>5

(* The flags of each format, in the core's decoder and in the mini core's. *)
LEMMA RegisterFlags ==
  ASSUME NEW w, NEW I \in RegisterOps, opcode(w) = 51, funct3(w) = I[2], funct7(w) = I[3]
  PROVE  /\ type(w) = IF I[3] = 1 THEN "m" ELSE "r"
         /\ flags(w) = {I[1]}
<1>1. I[3] \in {0, 1, 32}
  BY DEF RegisterOps
<1>2. type(w) = IF I[3] = 1 THEN "m" ELSE "r"
  BY DEF type
<1>3. r_flags(w) = IF I[3] = 1 THEN {} ELSE {I[1]}
  BY <1>2 DEF r_flags, F3, RegisterOps
<1>4. m_flags(w) = IF I[3] = 1 THEN {I[1]} ELSE {}
  BY <1>2 DEF m_flags, F3, RegisterOps
<1>5. QED
  BY <1>1, <1>2, <1>3, <1>4, OtherFlags DEF flags

(* The same for the mini core, which has no multiplication.                *)
LEMMA RegisterMiniFlags ==
  ASSUME NEW w, NEW I \in RegisterOps,
         Version1!opcode(w) = 51, Version1!funct3(w) = I[2], Version1!funct7(w) = I[3]
  PROVE  /\ Version1!type(w) = IF I[3] = 1 THEN "none" ELSE "r"
         /\ Version1!flags(w) = IF I[3] = 1 THEN {} ELSE {I[1]}
<1>1. I[3] \in {0, 1, 32}
  BY DEF RegisterOps
<1>2. Version1!type(w) = IF I[3] = 1 THEN "none" ELSE "r"
  BY DEF Version1!type
<1>3. Version1!r_flags(w) = IF I[3] = 1 THEN {} ELSE {I[1]}
  BY DEF Version1!r_flags, Version1!F3, RegisterOps
<1>4. QED
  BY <1>2, <1>3, OtherMiniFlags DEF Version1!flags

(* The flag of an instruction with an immediate or a shift by one.         *)
LEMMA ImmediateFlags ==
  ASSUME NEW w, opcode(w) = 19
  PROVE  /\ type(w) = "i"
         /\ \A I \in ImmediateOps : funct3(w) = I[2] => flags(w) = {I[1]}
         /\ \A I \in ShiftOps : funct3(w) = I[2] /\ funct7(w) = I[3] => flags(w) = {I[1]}
<1>1. type(w) = "i"
  BY DEF type
<1>2. flags(w) = i_flags(w)
  BY <1>1, OtherFlags DEF flags
<1>3. ASSUME NEW I \in ImmediateOps, funct3(w) = I[2] PROVE i_flags(w) = {I[1]}
  BY <1>3 DEF i_flags, F3, ImmediateOps
<1>4. ASSUME NEW I \in ShiftOps, funct3(w) = I[2], funct7(w) = I[3] PROVE i_flags(w) = {I[1]}
  BY <1>4 DEF i_flags, F3, ShiftOps
<1>5. QED
  BY <1>1, <1>2, <1>3, <1>4

(* The same for the mini core.                                             *)
LEMMA ImmediateMiniFlags ==
  ASSUME NEW w, Version1!opcode(w) = 19
  PROVE  /\ Version1!type(w) = "i"
         /\ \A I \in ImmediateOps : Version1!funct3(w) = I[2] => Version1!flags(w) = {I[1]}
         /\ \A I \in ShiftOps : Version1!funct3(w) = I[2] /\ Version1!funct7(w) = I[3]
                                  => Version1!flags(w) = {I[1]}
<1>1. Version1!type(w) = "i"
  BY DEF Version1!type
<1>2. Version1!flags(w) = Version1!i_flags(w)
  BY OtherMiniFlags DEF Version1!flags
<1>3. ASSUME NEW I \in ImmediateOps, Version1!funct3(w) = I[2] PROVE Version1!i_flags(w) = {I[1]}
  BY <1>3 DEF Version1!i_flags, Version1!F3, ImmediateOps
<1>4. ASSUME NEW I \in ShiftOps, Version1!funct3(w) = I[2], Version1!funct7(w) = I[3]
      PROVE  Version1!i_flags(w) = {I[1]}
  BY <1>4 DEF Version1!i_flags, Version1!F3, ShiftOps
<1>5. QED
  BY <1>1, <1>2, <1>3, <1>4

(* The flag of a load, in both decoders.                                   *)
LEMMA LoadFlags ==
  ASSUME NEW w, opcode(w) = 3, NEW I \in LoadOps, funct3(w) = I[2]
  PROVE  /\ type(w) = "i" /\ flags(w) = {I[1]}
         /\ Version1!type(w) = "i" /\ Version1!l_flags(w) = {I[1]} /\ Version1!flags(w) = {I[1]}
<1>1. type(w) = "i"
  BY DEF type
<1>2. l_flags(w) = {I[1]}
  BY DEF l_flags, F3, LoadOps
<1>3. flags(w) = {I[1]}
  BY <1>1, <1>2, OtherFlags DEF flags
<1>4. Version1!opcode(w) = 3 /\ Version1!funct3(w) = I[2]
  BY SameFields
<1>5. Version1!type(w) = "i"
  BY <1>4 DEF Version1!type
<1>6. Version1!l_flags(w) = {I[1]}
  BY <1>4 DEF Version1!l_flags, Version1!F3, LoadOps
<1>7. Version1!flags(w) = {I[1]}
  BY <1>4, <1>6, OtherMiniFlags DEF Version1!flags
<1>8. QED
  BY <1>1, <1>3, <1>5, <1>6, <1>7

(* The flag of a store, in both decoders.                                  *)
LEMMA StoreFlags ==
  ASSUME NEW w, opcode(w) = 35, NEW I \in StoreOps, funct3(w) = I[2]
  PROVE  /\ type(w) = "s" /\ flags(w) = {I[1]}
         /\ Version1!type(w) = "s" /\ Version1!flags(w) = {I[1]}
<1>1. type(w) = "s"
  BY DEF type
<1>2. s_flags(w) = {I[1]}
  BY <1>1 DEF s_flags, F3, StoreOps
<1>3. flags(w) = {I[1]}
  BY <1>1, <1>2, OtherFlags DEF flags
<1>4. Version1!opcode(w) = 35 /\ Version1!funct3(w) = I[2]
  BY SameFields
<1>5. Version1!type(w) = "s"
  BY <1>4 DEF Version1!type
<1>6. Version1!other_flags(w) = {I[1]}
  BY <1>4 DEF Version1!other_flags, Version1!F3, StoreOps
<1>7. Version1!flags(w) = {I[1]}
  BY <1>4, <1>6, OtherMiniFlags DEF Version1!flags
<1>8. QED
  BY <1>1, <1>3, <1>5, <1>7

(* The flag of a branch, in both decoders.                                 *)
LEMMA BranchFlags ==
  ASSUME NEW w, opcode(w) = 99, NEW I \in BranchOps, funct3(w) = I[2]
  PROVE  /\ type(w) = "b" /\ flags(w) = {I[1]}
         /\ Version1!type(w) = "b" /\ Version1!flags(w) = {I[1]}
<1>1. type(w) = "b"
  BY DEF type
<1>2. b_flags(w) = {I[1]}
  BY <1>1 DEF b_flags, F3, BranchOps
<1>3. flags(w) = {I[1]}
  BY <1>1, <1>2, OtherFlags DEF flags
<1>4. Version1!opcode(w) = 99 /\ Version1!funct3(w) = I[2]
  BY SameFields
<1>5. Version1!type(w) = "b"
  BY <1>4 DEF Version1!type
<1>6. Version1!b_flags(w) = {I[1]}
  BY <1>4 DEF Version1!b_flags, Version1!F3, BranchOps
<1>7. Version1!flags(w) = {I[1]}
  BY <1>4, <1>6, OtherMiniFlags DEF Version1!flags
<1>8. QED
  BY <1>1, <1>3, <1>5, <1>7

(* The flag of an access to a CSR, which the mini core has not.            *)
LEMMA CsrFlags ==
  ASSUME NEW w, opcode(w) = 115, NEW I \in CsrOps \cup CsrImmOps, funct3(w) = I[2]
  PROVE  /\ type(w) = "system" /\ flags(w) = {I[1]} /\ IsCsr(w)
         /\ Version1!type(w) = "none" /\ Version1!flags(w) = {}
<1>1. type(w) = "system"
  BY DEF type
<1>2. I[2] \notin {0, 4}
  BY DEF CsrOps, CsrImmOps
<1>3. F3(w, [csrrw |-> 1, csrrs |-> 2, csrrc |-> 3, csrrwi |-> 5, csrrsi |-> 6, csrrci |-> 7]) = {I[1]}
  BY DEF F3, CsrOps, CsrImmOps
<1>4. system_flags(w) = {I[1]}
  BY <1>1, <1>2, <1>3 DEF system_flags
<1>5. flags(w) = {I[1]}
  BY <1>1, <1>4, OtherFlags DEF flags
<1>6. Version1!opcode(w) = 115
  BY SameFields
<1>7. Version1!type(w) = "none"
  BY <1>6 DEF Version1!type
<1>8. Version1!flags(w) = {}
  BY <1>6, OtherMiniFlags DEF Version1!flags
<1>9. QED
  BY <1>1, <1>2, <1>5, <1>7, <1>8 DEF IsCsr

(* The flag of lui and auipc, in both decoders.                            *)
LEMMA UpperFlags ==
  ASSUME NEW w, NEW op, <<opcode(w), op>> \in {<<55, "lui">>, <<23, "auipc">>}
  PROVE  /\ type(w) = "u" /\ flags(w) = {op}
         /\ Version1!type(w) = "u" /\ Version1!flags(w) = {op}
<1>1. type(w) = "u"
  BY DEF type
<1>2. uj_flags(w) = {op}
  BY <1>1 DEF uj_flags
<1>3. flags(w) = {op}
  BY <1>1, <1>2, OtherFlags DEF flags
<1>4. Version1!opcode(w) = opcode(w)
  BY SameFields
<1>5. Version1!type(w) = "u"
  BY <1>4 DEF Version1!type
<1>6. Version1!other_flags(w) = {op}
  BY <1>4 DEF Version1!other_flags
<1>7. Version1!flags(w) = {op}
  BY <1>4, <1>6, OtherMiniFlags DEF Version1!flags
<1>8. QED
  BY <1>1, <1>3, <1>5, <1>7

(* The flag of jal and jalr, in both decoders.                             *)
LEMMA JumpFlags ==
  ASSUME NEW w, NEW op, <<opcode(w), op>> \in {<<111, "jal">>, <<103, "jalr">>}
  PROVE  /\ type(w) = (IF op = "jal" THEN "j" ELSE "jalr") /\ flags(w) = {op}
         /\ Version1!type(w) = (IF op = "jal" THEN "j" ELSE "jalr") /\ Version1!flags(w) = {op}
<1>1. type(w) = IF op = "jal" THEN "j" ELSE "jalr"
  BY DEF type
<1>2. uj_flags(w) = {op}
  BY <1>1 DEF uj_flags
<1>3. flags(w) = {op}
  BY <1>1, <1>2, OtherFlags DEF flags
<1>4. Version1!opcode(w) = opcode(w)
  BY SameFields
<1>5. Version1!type(w) = IF op = "jal" THEN "j" ELSE "jalr"
  BY <1>4 DEF Version1!type
<1>6. Version1!other_flags(w) = {op}
  BY <1>4 DEF Version1!other_flags
<1>7. Version1!flags(w) = {op}
  BY <1>4, <1>6, OtherMiniFlags DEF Version1!flags
<1>8. QED
  BY <1>1, <1>3, <1>5, <1>7

(* The flag of fence, and none for its opcode's other functions.           *)
LEMMA FenceFlags ==
  ASSUME NEW w, opcode(w) = 15
  PROVE  /\ type(w) = "none" /\ flags(w) = IF funct3(w) = 0 THEN {"fence"} ELSE {}
         /\ funct3(w) = 0 => Version1!type(w) = "none" /\ Version1!flags(w) = {"fence"}
<1>1. type(w) = "none"
  BY DEF type
<1>2. fence_flags(w) = IF funct3(w) = 0 THEN {"fence"} ELSE {}
  BY DEF fence_flags
<1>3. flags(w) = IF funct3(w) = 0 THEN {"fence"} ELSE {}
  BY <1>1, <1>2, OtherFlags DEF flags
<1>4. ASSUME funct3(w) = 0 PROVE Version1!type(w) = "none" /\ Version1!flags(w) = {"fence"}
  <2>1. Version1!opcode(w) = 15 /\ Version1!funct3(w) = 0
    BY <1>4, SameFields
  <2>2. Version1!other_flags(w) = {"fence"}
    BY <2>1 DEF Version1!other_flags, Version1!F3
  <2>3. Version1!type(w) = "none"
    BY <2>1 DEF Version1!type
  <2>4. QED
    BY <2>1, <2>2, <2>3, OtherMiniFlags DEF Version1!flags
<1>5. QED
  BY <1>1, <1>3, <1>4

(* The names the instruction set gives, spelled out.                       *)
LEMMA NamesAre ==
  /\ Csrs = {"csrrw", "csrrs", "csrrc", "csrrwi", "csrrsi", "csrrci"}
  /\ NotMini = {"csrrw", "csrrs", "csrrc", "csrrwi", "csrrsi", "csrrci", "mul", "mulh", "mulhsu", "mulhu",
                "div", "divu", "rem", "remu", "ecall", "ebreak", "mret"}
<1>1. \A c : c \in Csrs <=> c \in {"csrrw", "csrrs", "csrrc", "csrrwi", "csrrsi", "csrrci"}
  BY DEF Csrs, CsrOps, CsrImmOps
<1>2. Csrs = {"csrrw", "csrrs", "csrrc", "csrrwi", "csrrsi", "csrrci"}
  BY <1>1
<1>3. \A c : c \in {I[1] : I \in {R \in RegisterOps : R[3] = 1}}
               <=> c \in {"mul", "mulh", "mulhsu", "mulhu", "div", "divu", "rem", "remu"}
  <2>1. ASSUME NEW R \in RegisterOps, R[3] = 1
        PROVE  R[1] \in {"mul", "mulh", "mulhsu", "mulhu", "div", "divu", "rem", "remu"}
    BY <2>1 DEF RegisterOps
  <2>2. {<<"mul", 0, 1>>, <<"mulh", 1, 1>>, <<"mulhsu", 2, 1>>, <<"mulhu", 3, 1>>,
         <<"div", 4, 1>>, <<"divu", 5, 1>>, <<"rem", 6, 1>>, <<"remu", 7, 1>>} \subseteq RegisterOps
    BY DEF RegisterOps
  <2>3. ASSUME NEW c \in {"mul", "mulh", "mulhsu", "mulhu", "div", "divu", "rem", "remu"}
        PROVE  \E R \in RegisterOps : R[3] = 1 /\ R[1] = c
    BY <2>2
  <2>4. QED
    BY <2>1, <2>3
<1>4. \A c : c \in NotMini <=> c \in {"csrrw", "csrrs", "csrrc", "csrrwi", "csrrsi", "csrrci", "mul", "mulh",
                                      "mulhsu", "mulhu", "div", "divu", "rem", "remu", "ecall", "ebreak", "mret"}
  BY <1>1, <1>3 DEF NotMini
<1>5. QED
  BY <1>2, <1>4

(* What nothing but the flag decides.                                      *)
LEMMA FlagDecides ==
  ASSUME NEW w, NEW op, flags(w) = {op}
  PROVE  /\ mem_load_sd(w) <=> op \in Loads
         /\ mem_store_sd(w) <=> op \in Stores
         /\ op \in Loads \cup Stores =>
              mem_size_sd(w) = CASE op \in {"lw", "sw"} -> 0
                                 [] op \in {"lh", "lhu", "sh"} -> 1
                                 [] op \in {"lb", "lbu", "sb"} -> 2
         /\ \A h : op \in Loads /\ type(w) # "s" => (mem_sign_extend_sd(w, h) <=> op \in {"lh", "lb"})
         /\ zimm(w) = IF op \in Zimms THEN rs1(w) ELSE 0
         /\ \A mode : /\ env_call_u_mode_sd(w, mode) <=> (op = "ecall" /\ mode = 0)
                      /\ env_call_m_mode_sd(w, mode) <=> (op = "ecall" /\ mode = 3)
<1>1. mem_load_sd(w) <=> op \in Loads
  BY DEF mem_load_sd
<1>2. mem_store_sd(w) <=> op \in Stores
  BY DEF mem_store_sd
<1>3. mem_size_sd(w) = IF op \in {"lh", "lhu", "sh"} THEN 1 ELSE IF op \in {"lb", "lbu", "sb"} THEN 2 ELSE 0
  BY DEF mem_size_sd
<1>4. op \in Loads \cup Stores =>
        mem_size_sd(w) = CASE op \in {"lw", "sw"} -> 0
                           [] op \in {"lh", "lhu", "sh"} -> 1
                           [] op \in {"lb", "lbu", "sb"} -> 2
  BY <1>3 DEF Loads, Stores
<1>5. \A h : op \in Loads /\ type(w) # "s" => (mem_sign_extend_sd(w, h) <=> op \in {"lh", "lb"})
  BY DEF mem_sign_extend_sd
<1>6. zimm(w) = IF op \in Zimms THEN rs1(w) ELSE 0
  BY DEF zimm, Zimms
<1>7. \A mode : /\ env_call_u_mode_sd(w, mode) <=> (op = "ecall" /\ mode = 0)
                /\ env_call_m_mode_sd(w, mode) <=> (op = "ecall" /\ mode = 3)
  BY DEF env_call_u_mode_sd, env_call_m_mode_sd
<1>8. QED
  BY <1>1, <1>2, <1>4, <1>5, <1>6, <1>7

(* The mini core's memory access, when it raises the flag too.             *)
LEMMA MiniFlagDecides ==
  ASSUME NEW w, NEW op \in Loads \cup Stores, flags(w) = {op}, Version1!flags(w) = {op},
         Version1!type(w) = "s" => op \in Stores
  PROVE  /\ Version1!mem_size_sd(w) = mem_size_sd(w)
         /\ Version1!mem_sign_extend_sd(w) <=> op \in {"lh", "lb"}
<1>1. mem_size_sd(w) = IF op \in {"lh", "lhu", "sh"} THEN 1 ELSE IF op \in {"lb", "lbu", "sb"} THEN 2 ELSE 0
  BY DEF mem_size_sd
<1>2. op \in {"lh", "lhu", "sh", "lb", "lbu", "sb", "sw"} \/ Version1!type(w) # "s"
  BY DEF Loads, Stores
<1>3. Version1!mem_size_sd(w)
        = IF op \in {"lh", "lhu", "sh"} THEN 1 ELSE IF op \in {"lb", "lbu", "sb"} THEN 2 ELSE 0
  <2>1. CASE op \in {"lh", "lhu", "sh"}
    BY <2>1 DEF Version1!mem_size_sd
  <2>2. CASE op \in {"lb", "lbu", "sb"}
    BY <2>2 DEF Version1!mem_size_sd
  <2>3. CASE op \notin {"lh", "lhu", "sh", "lb", "lbu", "sb"}
    <3>1. Version1!type(w) # "s" \/ "sw" \in Version1!flags(w)
      BY <1>2, <2>3
    <3>2. QED
      BY <2>3, <3>1 DEF Version1!mem_size_sd
  <2>4. QED
    BY <2>1, <2>2, <2>3
<1>4. Version1!mem_sign_extend_sd(w) <=> op \in {"lh", "lb"}
  BY DEF Version1!mem_sign_extend_sd
<1>5. QED
  BY <1>1, <1>3, <1>4

(* The mini core's registers and immediate, for a type both cores have.    *)
LEMMA MiniAsCore ==
  ASSUME NEW w, Version1!type(w) = type(w), type(w) \notin {"m", "system"}
  PROVE  /\ Version1!adr_dest_sd(w) = adr_dest_sd(w)
         /\ Version1!RADR1_SD(w) = IF type(w) \in {"r", "i", "s", "b", "jalr"} THEN rs1(w) ELSE 0
         /\ Version1!RADR2_SD(w) = RADR2_SD(w)
         /\ Version1!immediate(w) = immediate(w)
<1>1. /\ Version1!Slice(w, 31, 20) = Slice(w, 31, 20)
      /\ Version1!Slice(w, 11, 7) = Slice(w, 11, 7)
      /\ Version1!Slice(w, 19, 15) = Slice(w, 19, 15)
      /\ Version1!Slice(w, 24, 20) = Slice(w, 24, 20)
      /\ Version1!Placed(Version1!Slice(w, 31, 25), 5) = Placed(Slice(w, 31, 25), 5)
      /\ Version1!Placed(Version1!Slice(w, 7, 7), 11) = Placed(Slice(w, 7, 7), 11)
      /\ Version1!Placed(Version1!Slice(w, 30, 25), 5) = Placed(Slice(w, 30, 25), 5)
      /\ Version1!Placed(Version1!Slice(w, 11, 8), 1) = Placed(Slice(w, 11, 8), 1)
      /\ Version1!Placed(Version1!Slice(w, 19, 12), 12) = Placed(Slice(w, 19, 12), 12)
      /\ Version1!Placed(Version1!Slice(w, 20, 20), 11) = Placed(Slice(w, 20, 20), 11)
      /\ Version1!Placed(Version1!Slice(w, 30, 21), 1) = Placed(Slice(w, 30, 21), 1)
  BY SameFields, Zenon
<1>2. \A a : Version1!Value(a) = Value(a)
  BY SameFields, Zenon
<1>3. Version1!adr_dest_sd(w) = adr_dest_sd(w)
  BY <1>1, <1>2 DEF Version1!adr_dest_sd, adr_dest_sd, rd, IsCsr
<1>4. Version1!RADR1_SD(w) = IF type(w) \in {"r", "i", "s", "b", "jalr"} THEN rs1(w) ELSE 0
  BY <1>1, <1>2 DEF Version1!RADR1_SD, rs1
<1>5. Version1!RADR2_SD(w) = RADR2_SD(w)
  BY <1>1, <1>2 DEF Version1!RADR2_SD, RADR2_SD, rs2
<1>6. /\ Version1!Extended(w, Version1!Slice(w, 31, 20), 12) = i_immediate(w)
      /\ Version1!Extended(w, Version1!Placed(Version1!Slice(w, 31, 25), 5)
                                \cup Version1!Slice(w, 11, 7), 12) = s_immediate(w)
  BY <1>1 DEF Version1!Extended, Extended, i_immediate, s_immediate
<1>7. Version1!Extended(w, Version1!Placed(Version1!Slice(w, 7, 7), 11)
                             \cup Version1!Placed(Version1!Slice(w, 30, 25), 5)
                             \cup Version1!Placed(Version1!Slice(w, 11, 8), 1), 12) = b_immediate(w)
  BY <1>1 DEF Version1!Extended, Extended, b_immediate
<1>8. Version1!Extended(w, Version1!Placed(Version1!Slice(w, 19, 12), 12)
                             \cup Version1!Placed(Version1!Slice(w, 20, 20), 11)
                             \cup Version1!Placed(Version1!Slice(w, 30, 21), 1), 20) = j_immediate(w)
  BY <1>1 DEF Version1!Extended, Extended, j_immediate
<1>9. Version1!immediate(w) = immediate(w)
  BY <1>6, <1>7, <1>8 DEF Version1!immediate, immediate
<1>10. QED
  BY <1>3, <1>4, <1>5, <1>9

(* What both decoders must find in the word of n, of the type t.           *)
Formed(n, t) ==
  /\ type(n.word) = t /\ flags(n.word) = {n.op} /\ n.op # "reserved"
  /\ Version1!flags(n.word) = IF n.op \in NotMini THEN {} ELSE {n.op}
  /\ Version1!type(n.word) = IF n.op \in NotMini THEN "none" ELSE t
  /\ Version1!l_flags(n.word) # {} <=> n.op \in Loads
  /\ n.op \in NotMini <=> t \in {"m", "system"}
  /\ n.op \in Stores <=> t = "s"
  /\ n.op \in Loads \cup ShiftNames => t = "i"
  /\ n.op \in Csrs <=> IsCsr(n.word)
  /\ ~illegal_instruction_sd(n.word)
  /\ n.rd = IF t \in {"r", "i", "u", "j", "jalr", "m"} \/ IsCsr(n.word) THEN rd(n.word) ELSE 0
  /\ n.rs1 = IF t \in {"r", "i", "s", "b", "jalr", "m"} \/ IsCsr(n.word) THEN rs1(n.word) ELSE 0
  /\ n.rs2 = IF t \in {"r", "s", "b", "m"} THEN rs2(n.word) ELSE 0
  /\ t # "system" /\ n.op \notin ShiftNames => immediate(n.word) = n.imm /\ n.imm \subseteq 0..31
  /\ n.op \in ShiftNames => immediate(n.word) \cap (0..4) = n.imm
  /\ IsCsr(n.word) => Slice(n.word, 31, 20) = n.imm

(* A word both decoders find that in is read right.                        *)
LEMMA FormedCore ==
  ASSUME NEW n, NEW t, Formed(n, t)
  PROVE  CoreReads(n)
<1> DEFINE w == n.word
<1>1. type(w) = t /\ flags(w) = {n.op} /\ n.op # "reserved"
  BY DEF Formed
<1>2. n.op \in Csrs <=> IsCsr(w)
  BY DEF Formed
<1>3. adr_dest_sd(w) = n.rd
  BY DEF Formed, adr_dest_sd
<1>4. n.op \in Csrs => t = "system"
  BY <1>1, <1>2 DEF IsCsr
<1>5. RADR1_SD(w) = IF n.op \in Zimms THEN 0 ELSE n.rs1
  <2>1. RADR1_SD(w) = IF t \in {"r", "i", "s", "b", "jalr", "m"} \/ n.op \in {"csrrw", "csrrs", "csrrc"}
                      THEN rs1(w) ELSE 0
    BY <1>1 DEF RADR1_SD
  <2>2. n.op \in Csrs <=> n.op \in {"csrrw", "csrrs", "csrrc"} \/ n.op \in Zimms
    BY NamesAre DEF Zimms
  <2>3. n.op \in Zimms => n.op \notin {"csrrw", "csrrs", "csrrc"}
    BY DEF Zimms
  <2>4. n.rs1 = IF t \in {"r", "i", "s", "b", "jalr", "m"} \/ n.op \in Csrs THEN rs1(w) ELSE 0
    BY <1>2 DEF Formed
  <2>5. n.op \in Zimms => ~(t \in {"r", "i", "s", "b", "jalr", "m"})
    BY <1>4, <2>2
  <2>6. QED
    BY <2>1, <2>2, <2>3, <2>4, <2>5
<1>6. RADR2_SD(w) = n.rs2
  BY DEF Formed, RADR2_SD
<1>7. zimm(w) = IF n.op \in Zimms THEN n.rs1 ELSE 0
  <2>1. zimm(w) = IF n.op \in Zimms THEN rs1(w) ELSE 0
    BY <1>1, FlagDecides
  <2>2. n.op \in Zimms => n.op \in Csrs
    BY NamesAre DEF Zimms
  <2>3. n.op \in Csrs => n.rs1 = rs1(w)
    BY <1>2 DEF Formed
  <2>4. QED
    BY <2>1, <2>2, <2>3
<1>8. /\ t # "system" /\ n.op \notin ShiftNames => immediate(w) = n.imm
      /\ n.op \in ShiftNames => immediate(w) \cap (0..4) = n.imm
  BY DEF Formed
<1>9. QED
  BY <1>1, <1>3, <1>5, <1>6, <1>7, <1>8 DEF CoreReads

(* The same for the mini core's decoder.                                   *)
LEMMA FormedMini ==
  ASSUME NEW n, NEW t, Formed(n, t)
  PROVE  MiniReads(n)
<1> DEFINE w == n.word
           mini == n.op \notin NotMini
<1>1. /\ type(w) = t /\ flags(w) = {n.op}
      /\ Version1!flags(w) = IF mini THEN {n.op} ELSE {}
      /\ Version1!type(w) = IF mini THEN t ELSE "none"
      /\ mini <=> ~(t \in {"m", "system"})
  BY DEF Formed
<1>2. IsCsr(w) => ~mini
  BY <1>1 DEF IsCsr
<1>3. ASSUME mini
      PROVE  /\ Version1!adr_dest_sd(w) = n.rd
             /\ Version1!RADR1_SD(w) = n.rs1 /\ Version1!RADR2_SD(w) = n.rs2
             /\ n.imm = Version1!immediate(w) \cap IF n.op \in ShiftNames THEN 0..4 ELSE 0..31
  <2>1. Version1!type(w) = type(w) /\ type(w) \notin {"m", "system"}
    BY <1>1, <1>3
  <2>2. /\ Version1!adr_dest_sd(w) = adr_dest_sd(w)
        /\ Version1!RADR1_SD(w) = IF type(w) \in {"r", "i", "s", "b", "jalr"} THEN rs1(w) ELSE 0
        /\ Version1!RADR2_SD(w) = RADR2_SD(w)
        /\ Version1!immediate(w) = immediate(w)
    BY <2>1, MiniAsCore
  <2>3. adr_dest_sd(w) = n.rd /\ RADR2_SD(w) = n.rs2
    BY FormedCore DEF CoreReads
  <2>4. n.rs1 = IF t \in {"r", "i", "s", "b", "jalr", "m"} \/ IsCsr(w) THEN rs1(w) ELSE 0
    BY DEF Formed
  <2>5. n.rs1 = IF t \in {"r", "i", "s", "b", "jalr"} THEN rs1(w) ELSE 0
    BY <1>1, <1>2, <1>3, <2>4
  <2>6. n.imm = immediate(w) \cap IF n.op \in ShiftNames THEN 0..4 ELSE 0..31
    BY <1>1, <1>3 DEF Formed
  <2>7. QED
    BY <1>1, <2>2, <2>3, <2>5, <2>6
<1>4. ~mini => Version1!adr_dest_sd(w) = 0
  BY <1>1 DEF Version1!adr_dest_sd
<1>5. Version1!mem_load_sd(w) <=> n.op \in Loads
  BY DEF Formed, Version1!mem_load_sd
<1>6. n.op \in Loads \cup Stores => mini
  BY NamesAre DEF Loads, Stores
<1>7. Version1!mem_store_sd(w) <=> n.op \in Stores
  <2>1. n.op \in Stores <=> t = "s"
    BY DEF Formed
  <2>2. QED
    BY <1>1, <1>6, <2>1 DEF Version1!mem_store_sd
<1>8. ASSUME n.op \in Loads \cup Stores
      PROVE  /\ Version1!mem_size_sd(w) = mem_size_sd(w)
             /\ Version1!mem_sign_extend_sd(w) <=> n.op \in {"lh", "lb"}
  <2>1. Version1!flags(w) = {n.op} /\ Version1!type(w) = t
    BY <1>1, <1>6, <1>8
  <2>2. t = "s" => n.op \in Stores
    BY DEF Formed
  <2>3. QED
    BY <1>1, <1>8, <2>1, <2>2, MiniFlagDecides
<1>9. QED
  BY <1>1, <1>3, <1>4, <1>5, <1>7, <1>8 DEF MiniReads

(* Its accesses to memory and to CSRs are its own, whatever is held.       *)
LEMMA FormedEffects ==
  ASSUME NEW n, NEW t, Formed(n, t)
  PROVE  /\ mem_load_sd(n.word) <=> n.op \in Loads
         /\ mem_store_sd(n.word) <=> n.op \in Stores
         /\ n.op \in Loads \cup Stores =>
              mem_size_sd(n.word) = CASE n.op \in {"lw", "sw"} -> 0
                                      [] n.op \in {"lh", "lhu", "sh"} -> 1
                                      [] n.op \in {"lb", "lbu", "sb"} -> 2
         /\ \A h : n.op \in Loads => (mem_sign_extend_sd(n.word, h) <=> n.op \in {"lh", "lb"})
         /\ \A h : csr_wenable_sd(n.word, h) <=> n.op \in Csrs
         /\ n.op \in Csrs => csr_radr_sd(n.word) = n.imm
<1>1. type(n.word) = t /\ flags(n.word) = {n.op}
  BY DEF Formed
<1>2. n.op \in Loads => t # "s"
  BY DEF Formed
<1>3. n.op \in Csrs <=> IsCsr(n.word)
  BY DEF Formed
<1>4. \A h : csr_wenable_sd(n.word, h) <=> n.op \in Csrs
  BY <1>1, <1>3 DEF csr_wenable_sd
<1>5. n.op \in Csrs => csr_radr_sd(n.word) = n.imm
  BY <1>3 DEF Formed, csr_radr_sd
<1>6. \A h : n.op \in Loads => (mem_sign_extend_sd(n.word, h) <=> n.op \in {"lh", "lb"})
  BY <1>1, <1>2, FlagDecides
<1>7. QED
  BY <1>1, <1>4, <1>5, <1>6, FlagDecides

(* Each format's words, from the encoding to the decoders.                 *)
LEMMA RTypeFormed ==
  ASSUME NEW I \in RegisterOps, NEW n \in RType(I, 51)
  PROVE  Formed(n, IF I[3] = 1 THEN "m" ELSE "r")
<1>1. PICK d, r1, r2 \in Regs :
        n = Instruction(I[1], d, r1, r2, {}, Encoded(51, d, I[2], r1, Rs2(r2) \cup Funct7(I[3])))
  BY DEF RType
<1>2. d \in Register /\ r1 \in Register /\ r2 \in Register
  BY IsaAssumption DEF Register
<1>3. 51 \in Number7 /\ I[2] \in Number3 /\ I[3] \in Number7 /\ I[3] \in {0, 1, 32}
  BY DEF RegisterOps, Number3, Number7
<1> DEFINE w == Encoded(51, d, I[2], r1, Rs2(r2) \cup Funct7(I[3]))
           t == IF I[3] = 1 THEN "m" ELSE "r"
<1>4. opcode(w) = 51 /\ rd(w) = d /\ funct3(w) = I[2] /\ rs1(w) = r1 /\ rs2(w) = r2 /\ funct7(w) = I[3]
  <2>1. w = Encoded(51, d, I[2], r1, Rs2(r2) \cup Funct7(I[3]))
    OBVIOUS
  <2> HIDE DEF w
  <2>2. QED
    BY <1>2, <1>3, <2>1, RTypeWord
<1>5. n.op = I[1] /\ n.rd = d /\ n.rs1 = r1 /\ n.rs2 = r2 /\ n.imm = {} /\ n.word = w
  BY <1>1 DEF Instruction
<1> HIDE DEF w
<1>6. type(w) = t /\ flags(w) = {I[1]}
  BY <1>4, RegisterFlags
<1>7. Version1!opcode(w) = 51 /\ Version1!funct3(w) = I[2] /\ Version1!funct7(w) = I[3]
  BY <1>4, SameFields
<1>8. /\ Version1!type(w) = IF I[3] = 1 THEN "none" ELSE "r"
      /\ Version1!flags(w) = IF I[3] = 1 THEN {} ELSE {I[1]}
  BY <1>7, RegisterMiniFlags
<1>9. Version1!l_flags(w) = {}
  BY <1>7, OtherMiniFlags
<1>10. /\ I[1] \in NotMini <=> I[3] = 1
       /\ I[1] \notin Loads \cup Stores \cup ShiftNames \cup Csrs \cup {"reserved"}
  BY NamesAre DEF RegisterOps, Loads, Stores, ShiftNames
<1>11. ~illegal_instruction_sd(w) /\ ~IsCsr(w) /\ immediate(w) = {}
  BY <1>3, <1>4, <1>6 DEF illegal_instruction_sd, IsCsr, immediate
<1>12. QED
  BY <1>4, <1>5, <1>6, <1>8, <1>9, <1>10, <1>11 DEF Formed

(* Both decoders read an operation on an immediate as it is meant.         *)
LEMMA ITypeFormed ==
  ASSUME NEW I \in ImmediateOps, NEW n \in IType(I, 19, Signed(0, 11))
  PROVE  Formed(n, "i")
<1>1. PICK d, r1 \in Regs, imm \in Signed(0, 11) :
        n = Instruction(I[1], d, r1, 0, imm, Encoded(19, d, I[2], r1, Imm12(imm)))
  BY DEF IType
<1>2. d \in Register /\ r1 \in Register
  BY IsaAssumption DEF Register
<1>3. 19 \in Number7 /\ I[2] \in Number3
  BY DEF ImmediateOps, Number3, Number7
<1> DEFINE w == Encoded(19, d, I[2], r1, Imm12(imm))
<1>4. /\ opcode(w) = 19 /\ rd(w) = d /\ funct3(w) = I[2] /\ rs1(w) = r1
      /\ \A b \in 20..31 : b \in w <=> b - 20 \in imm
  <2>1. w = Encoded(19, d, I[2], r1, Imm12(imm))
    OBVIOUS
  <2> HIDE DEF w
  <2>2. QED
    BY <1>2, <1>3, <2>1, ITypeWord
<1>5. n.op = I[1] /\ n.rd = d /\ n.rs1 = r1 /\ n.rs2 = 0 /\ n.imm = imm /\ n.word = w
  BY <1>1 DEF Instruction
<1> HIDE DEF w
<1>6. type(w) = "i" /\ flags(w) = {I[1]}
  BY <1>4, ImmediateFlags
<1>7. Version1!opcode(w) = 19 /\ Version1!funct3(w) = I[2]
  BY <1>4, SameFields
<1>8. Version1!type(w) = "i" /\ Version1!flags(w) = {I[1]}
  BY <1>7, ImmediateMiniFlags
<1>9. Version1!l_flags(w) = {}
  BY <1>7, OtherMiniFlags
<1>10. /\ I[1] \notin NotMini
       /\ I[1] \notin Loads \cup Stores \cup ShiftNames \cup Csrs \cup {"reserved"}
  BY NamesAre DEF ImmediateOps, Loads, Stores, ShiftNames
<1>11. IsSigned(imm, 0, 11)
  BY SignedIs
<1>12. immediate(w) = imm
  BY <1>4, <1>6, <1>11, IImmediate DEF immediate
<1>13. ~illegal_instruction_sd(w) /\ ~IsCsr(w)
  BY <1>6 DEF illegal_instruction_sd, IsCsr
<1>14. imm \subseteq 0..31
  BY <1>11 DEF IsSigned
<1>15. QED
  BY <1>4, <1>5, <1>6, <1>8, <1>9, <1>10, <1>12, <1>13, <1>14 DEF Formed

(* Both decoders read a shift by an immediate as it is meant.              *)
LEMMA ShiftTypeFormed ==
  ASSUME NEW I \in ShiftOps, NEW n \in ShiftType(I)
  PROVE  Formed(n, "i")
<1>1. PICK d, r1 \in Regs, imm \in Shamt :
        n = Instruction(I[1], d, r1, 0, imm, Encoded(19, d, I[2], r1, Imm12(imm) \cup Funct7(I[3])))
  BY DEF ShiftType
<1>2. d \in Register /\ r1 \in Register
  BY IsaAssumption DEF Register
<1>3. I[2] \in Number3 /\ I[3] \in Number7
  BY DEF ShiftOps, Number3, Number7
<1>4. \A k \in imm : k \in 0..4
  BY DEF Shamt
<1> DEFINE w == Encoded(19, d, I[2], r1, Imm12(imm) \cup Funct7(I[3]))
<1>5. /\ opcode(w) = 19 /\ rd(w) = d /\ funct3(w) = I[2] /\ rs1(w) = r1 /\ funct7(w) = I[3]
      /\ \A b \in 20..24 : b \in w <=> b - 20 \in imm
  <2>1. w = Encoded(19, d, I[2], r1, Imm12(imm) \cup Funct7(I[3]))
    OBVIOUS
  <2> HIDE DEF w
  <2>2. QED
    BY <1>2, <1>3, <1>4, <2>1, ShiftTypeWord
<1>6. n.op = I[1] /\ n.rd = d /\ n.rs1 = r1 /\ n.rs2 = 0 /\ n.imm = imm /\ n.word = w
  BY <1>1 DEF Instruction
<1> HIDE DEF w
<1>7. type(w) = "i" /\ flags(w) = {I[1]}
  BY <1>5, ImmediateFlags
<1>8. Version1!opcode(w) = 19 /\ Version1!funct3(w) = I[2] /\ Version1!funct7(w) = I[3]
  BY <1>5, SameFields
<1>9. Version1!type(w) = "i" /\ Version1!flags(w) = {I[1]}
  BY <1>8, ImmediateMiniFlags
<1>10. Version1!l_flags(w) = {}
  BY <1>8, OtherMiniFlags
<1>11. /\ I[1] \notin NotMini /\ I[1] \in ShiftNames
       /\ I[1] \notin Loads \cup Stores \cup Csrs \cup {"reserved"}
  BY NamesAre DEF ShiftOps, Loads, Stores, ShiftNames
<1>12. immediate(w) \cap (0..4) = imm
  <2>1. \A k : k \in Slice(w, 31, 20) <=> k \in 0..31 - 20 /\ k + 20 \in w
    BY SliceBits
  <2>2. \A k \in 0..4 : k + 20 \in 20..24 /\ (k + 20) - 20 = k
    OBVIOUS
  <2>3. \A k \in 0..4 : k + 20 \in w <=> k \in imm
    BY <1>5, <2>2
  <2>4. \A k \in 0..4 : k \in Slice(w, 31, 20) <=> k \in imm
    BY <2>1, <2>3
  <2>5. \A k \in Extended(w, 12) : k \in 12..31
    BY DEF Extended
  <2>6. \A k \in 0..4 : k \in i_immediate(w) <=> k \in imm
    BY <2>4, <2>5 DEF i_immediate
  <2>7. immediate(w) = i_immediate(w)
    BY <1>7 DEF immediate
  <2>8. QED
    BY <1>4, <2>6, <2>7
<1>13. ~illegal_instruction_sd(w) /\ ~IsCsr(w)
  BY <1>7 DEF illegal_instruction_sd, IsCsr
<1>14. QED
  BY <1>5, <1>6, <1>7, <1>9, <1>10, <1>11, <1>12, <1>13 DEF Formed

(* Both decoders read a load as it is meant.                               *)
LEMMA LoadFormed ==
  ASSUME NEW I \in LoadOps, NEW n \in IType(I, 3, Signed(0, 11))
  PROVE  Formed(n, "i")
<1>1. PICK d, r1 \in Regs, imm \in Signed(0, 11) :
        n = Instruction(I[1], d, r1, 0, imm, Encoded(3, d, I[2], r1, Imm12(imm)))
  BY DEF IType
<1>2. d \in Register /\ r1 \in Register
  BY IsaAssumption DEF Register
<1>3. 3 \in Number7 /\ I[2] \in Number3
  BY DEF LoadOps, Number3, Number7
<1> DEFINE w == Encoded(3, d, I[2], r1, Imm12(imm))
<1>4. /\ opcode(w) = 3 /\ rd(w) = d /\ funct3(w) = I[2] /\ rs1(w) = r1
      /\ \A b \in 20..31 : b \in w <=> b - 20 \in imm
  <2>1. w = Encoded(3, d, I[2], r1, Imm12(imm))
    OBVIOUS
  <2> HIDE DEF w
  <2>2. QED
    BY <1>2, <1>3, <2>1, ITypeWord
<1>5. n.op = I[1] /\ n.rd = d /\ n.rs1 = r1 /\ n.rs2 = 0 /\ n.imm = imm /\ n.word = w
  BY <1>1 DEF Instruction
<1> HIDE DEF w
<1>6. /\ type(w) = "i" /\ flags(w) = {I[1]}
      /\ Version1!type(w) = "i" /\ Version1!l_flags(w) = {I[1]} /\ Version1!flags(w) = {I[1]}
  BY <1>4, LoadFlags
<1>7. /\ I[1] \notin NotMini /\ I[1] \in Loads
      /\ I[1] \notin Stores \cup ShiftNames \cup Csrs \cup {"reserved"}
  BY NamesAre DEF LoadOps, Loads, Stores, ShiftNames
<1>8. IsSigned(imm, 0, 11)
  BY SignedIs
<1>9. immediate(w) = imm
  BY <1>4, <1>6, <1>8, IImmediate DEF immediate
<1>10. ~illegal_instruction_sd(w) /\ ~IsCsr(w)
  BY <1>6 DEF illegal_instruction_sd, IsCsr
<1>11. imm \subseteq 0..31
  BY <1>8 DEF IsSigned
<1>12. QED
  BY <1>4, <1>5, <1>6, <1>7, <1>9, <1>10, <1>11 DEF Formed

(* Both decoders read a store as it is meant.                              *)
LEMMA StoreFormed ==
  ASSUME NEW I \in StoreOps, NEW n \in SType(I)
  PROVE  Formed(n, "s")
<1> DEFINE Enc(r1, r2, imm) == Encoded(35, 0, I[2], r1, Rs2(r2) \cup Placed(Slice(imm, 4, 0), 7)
                                                                 \cup Placed(Slice(imm, 11, 5), 25))
<1>1. PICK r1, r2 \in Regs, imm \in Signed(0, 11) :
        n = Instruction(I[1], 0, r1, r2, imm, Enc(r1, r2, imm))
  BY DEF SType
<1>2. r1 \in Register /\ r2 \in Register
  BY IsaAssumption DEF Register
<1>3. I[2] \in Number3 /\ I[2] \in {0, 1, 2}
  BY DEF StoreOps, Number3
<1> DEFINE w == Enc(r1, r2, imm)
<1>4. /\ opcode(w) = 35 /\ funct3(w) = I[2] /\ rs1(w) = r1 /\ rs2(w) = r2
      /\ \A k \in 0..4 : k + 7 \in w <=> k \in imm
      /\ \A b \in 25..31 : b \in w <=> b - 20 \in imm
  <2>1. w = Encoded(35, 0, I[2], r1, Rs2(r2) \cup Placed(Slice(imm, 4, 0), 7)
                                             \cup Placed(Slice(imm, 11, 5), 25))
    OBVIOUS
  <2> HIDE DEF w
  <2>2. QED
    BY <1>2, <1>3, <2>1, STypeWord
<1>5. n.op = I[1] /\ n.rd = 0 /\ n.rs1 = r1 /\ n.rs2 = r2 /\ n.imm = imm /\ n.word = w
  BY <1>1 DEF Instruction
<1> HIDE DEF w
<1>6. /\ type(w) = "s" /\ flags(w) = {I[1]}
      /\ Version1!type(w) = "s" /\ Version1!flags(w) = {I[1]}
  BY <1>4, StoreFlags
<1>7. Version1!l_flags(w) = {}
  <2>1. Version1!opcode(w) = 35
    BY <1>4, SameFields
  <2>2. QED
    BY <2>1, OtherMiniFlags
<1>8. /\ I[1] \notin NotMini /\ I[1] \in Stores
      /\ I[1] \notin Loads \cup ShiftNames \cup Csrs \cup {"reserved"}
  BY NamesAre DEF StoreOps, Loads, Stores, ShiftNames
<1>9. IsSigned(imm, 0, 11)
  BY SignedIs
<1>10. immediate(w) = imm
  BY <1>4, <1>6, <1>9, SImmediate DEF immediate
<1>11. ~illegal_instruction_sd(w) /\ ~IsCsr(w)
  BY <1>3, <1>4, <1>6 DEF illegal_instruction_sd, IsCsr
<1>12. imm \subseteq 0..31
  BY <1>9 DEF IsSigned
<1>13. QED
  BY <1>4, <1>5, <1>6, <1>7, <1>8, <1>10, <1>11, <1>12 DEF Formed

(* Both decoders read a branch as it is meant.                             *)
LEMMA BranchFormed ==
  ASSUME NEW I \in BranchOps, NEW n \in BType(I)
  PROVE  Formed(n, "b")
<1> DEFINE Enc(r1, r2, imm) == Encoded(99, 0, I[2], r1, Rs2(r2) \cup Placed(Slice(imm, 11, 11), 7)
                                                                 \cup Placed(Slice(imm, 4, 1), 8)
                                                                 \cup Placed(Slice(imm, 10, 5), 25)
                                                                 \cup Placed(Slice(imm, 12, 12), 31))
<1>1. PICK r1, r2 \in Regs, imm \in Signed(1, 12) :
        n = Instruction(I[1], 0, r1, r2, imm, Enc(r1, r2, imm))
  BY DEF BType
<1>2. r1 \in Register /\ r2 \in Register
  BY IsaAssumption DEF Register
<1>3. I[2] \in Number3 /\ I[2] \notin {2, 3}
  BY DEF BranchOps, Number3
<1> DEFINE w == Enc(r1, r2, imm)
<1>4. /\ opcode(w) = 99 /\ funct3(w) = I[2] /\ rs1(w) = r1 /\ rs2(w) = r2
      /\ 7 \in w <=> 11 \in imm
      /\ \A b \in 8..11 : b \in w <=> b - 7 \in imm
      /\ \A b \in 25..30 : b \in w <=> b - 20 \in imm
      /\ 31 \in w <=> 12 \in imm
  <2>1. w = Encoded(99, 0, I[2], r1, BranchHigh(r2, imm))
    BY DEF BranchHigh
  <2> HIDE DEF w
  <2>2. QED
    BY <1>2, <1>3, <2>1, BTypeWord
<1>5. n.op = I[1] /\ n.rd = 0 /\ n.rs1 = r1 /\ n.rs2 = r2 /\ n.imm = imm /\ n.word = w
  BY <1>1 DEF Instruction
<1> HIDE DEF w
<1>6. /\ type(w) = "b" /\ flags(w) = {I[1]}
      /\ Version1!type(w) = "b" /\ Version1!flags(w) = {I[1]}
  BY <1>4, BranchFlags
<1>7. Version1!l_flags(w) = {}
  <2>1. Version1!opcode(w) = 99
    BY <1>4, SameFields
  <2>2. QED
    BY <2>1, OtherMiniFlags
<1>8. /\ I[1] \notin NotMini
      /\ I[1] \notin Loads \cup Stores \cup ShiftNames \cup Csrs \cup {"reserved"}
  BY NamesAre DEF BranchOps, Loads, Stores, ShiftNames
<1>9. IsSigned(imm, 1, 12)
  BY SignedIs
<1>10. immediate(w) = imm
  BY <1>4, <1>6, <1>9, BImmediate DEF immediate
<1>11. ~illegal_instruction_sd(w) /\ ~IsCsr(w)
  BY <1>3, <1>4, <1>6 DEF illegal_instruction_sd, IsCsr
<1>12. imm \subseteq 0..31
  BY <1>9 DEF IsSigned
<1>13. QED
  BY <1>4, <1>5, <1>6, <1>7, <1>8, <1>10, <1>11, <1>12 DEF Formed

(* The core reads an access to a CSR as it is meant, the mini core none.   *)
LEMMA CsrFormed ==
  ASSUME NEW I \in CsrOps \cup CsrImmOps, NEW n \in IType(I, 115, CsrNumbers)
  PROVE  Formed(n, "system")
<1>1. PICK d, r1 \in Regs, imm \in CsrNumbers :
        n = Instruction(I[1], d, r1, 0, imm, Encoded(115, d, I[2], r1, Imm12(imm)))
  BY DEF IType
<1>2. d \in Register /\ r1 \in Register
  BY IsaAssumption DEF Register
<1>3. 115 \in Number7 /\ I[2] \in Number3 /\ I[2] \notin {0, 4}
  BY DEF CsrOps, CsrImmOps, Number3, Number7
<1>4. \A k \in imm : k \in 0..11
  BY DEF CsrNumbers
<1> DEFINE w == Encoded(115, d, I[2], r1, Imm12(imm))
<1>5. /\ opcode(w) = 115 /\ rd(w) = d /\ funct3(w) = I[2] /\ rs1(w) = r1
      /\ \A b \in 20..31 : b \in w <=> b - 20 \in imm
  <2>1. w = Encoded(115, d, I[2], r1, Imm12(imm))
    OBVIOUS
  <2> HIDE DEF w
  <2>2. QED
    BY <1>2, <1>3, <2>1, ITypeWord
<1>6. n.op = I[1] /\ n.rd = d /\ n.rs1 = r1 /\ n.rs2 = 0 /\ n.imm = imm /\ n.word = w
  BY <1>1 DEF Instruction
<1> HIDE DEF w
<1>7. /\ type(w) = "system" /\ flags(w) = {I[1]} /\ IsCsr(w)
      /\ Version1!type(w) = "none" /\ Version1!flags(w) = {}
  BY <1>5, CsrFlags
<1>8. Version1!l_flags(w) = {}
  <2>1. Version1!opcode(w) = 115
    BY <1>5, SameFields
  <2>2. QED
    BY <2>1, OtherMiniFlags
<1>9. /\ I[1] \in NotMini /\ I[1] \in Csrs
      /\ I[1] \notin Loads \cup Stores \cup ShiftNames \cup {"reserved"}
  BY NamesAre DEF CsrOps, CsrImmOps, Loads, Stores, ShiftNames
<1>10. Slice(w, 31, 20) = imm
  <2>1. \A k : k \in Slice(w, 31, 20) <=> k \in 0..31 - 20 /\ k + 20 \in w
    BY SliceBits
  <2>2. \A k \in 0..11 : k + 20 \in 20..31 /\ (k + 20) - 20 = k
    OBVIOUS
  <2>3. \A k \in 0..11 : k + 20 \in w <=> k \in imm
    BY <1>5, <2>2
  <2>4. \A k : k \in Slice(w, 31, 20) <=> k \in imm
    BY <1>4, <2>1, <2>3
  <2>5. QED
    BY <2>4
<1>11. ~illegal_instruction_sd(w)
  BY <1>3, <1>5, <1>7 DEF illegal_instruction_sd
<1>12. QED
  BY <1>5, <1>6, <1>7, <1>8, <1>9, <1>10, <1>11 DEF Formed

(* Both decoders read lui and auipc as they are meant.                     *)
LEMMA UpperFormed ==
  ASSUME NEW op, NEW opc, <<opc, op>> \in {<<55, "lui">>, <<23, "auipc">>}, NEW n \in UType(op, opc)
  PROVE  Formed(n, "u")
<1>1. PICK d \in Regs, imm \in Upper : n = Instruction(op, d, 0, 0, imm, Encoded(opc, d, 0, 0, imm))
  BY DEF UType
<1>2. d \in Register /\ opc \in Number7
  BY IsaAssumption DEF Register, Number7
<1>3. \A b \in imm : b \in 12..31
  BY DEF Upper
<1> DEFINE w == Encoded(opc, d, 0, 0, imm)
<1>4. opcode(w) = opc /\ rd(w) = d /\ w \cap (12..31) = imm
  <2>1. w = Encoded(opc, d, 0, 0, imm)
    OBVIOUS
  <2> HIDE DEF w
  <2>2. QED
    BY <1>2, <1>3, <2>1, UTypeWord
<1>5. n.op = op /\ n.rd = d /\ n.rs1 = 0 /\ n.rs2 = 0 /\ n.imm = imm /\ n.word = w
  BY <1>1 DEF Instruction
<1> HIDE DEF w
<1>6. /\ type(w) = "u" /\ flags(w) = {op}
      /\ Version1!type(w) = "u" /\ Version1!flags(w) = {op}
  BY <1>4, UpperFlags
<1>7. Version1!l_flags(w) = {}
  <2>1. Version1!opcode(w) # 3
    BY <1>4, SameFields
  <2>2. QED
    BY <2>1, OtherMiniFlags
<1>8. op \notin NotMini \cup Loads \cup Stores \cup ShiftNames \cup Csrs \cup {"reserved"}
  BY NamesAre DEF Loads, Stores, ShiftNames
<1>9. immediate(w) = imm
  BY <1>4, <1>6 DEF immediate
<1>10. ~illegal_instruction_sd(w) /\ ~IsCsr(w)
  BY <1>6 DEF illegal_instruction_sd, IsCsr
<1>11. imm \subseteq 0..31
  BY <1>3
<1>12. QED
  BY <1>4, <1>5, <1>6, <1>7, <1>8, <1>9, <1>10, <1>11 DEF Formed

(* Both decoders read jal as it is meant.                                  *)
LEMMA JalFormed ==
  ASSUME NEW n \in Jal
  PROVE  Formed(n, "j")
<1>1. PICK d \in Regs, imm \in Signed(1, 20) :
        n = Instruction("jal", d, 0, 0, imm, Encoded(111, d, 0, 0, JumpHigh(imm)))
  BY DEF Jal, JumpHigh
<1>2. d \in Register
  BY IsaAssumption DEF Register
<1> DEFINE w == Encoded(111, d, 0, 0, JumpHigh(imm))
<1>3. /\ opcode(w) = 111 /\ rd(w) = d
      /\ \A b \in 12..19 : b \in w <=> b \in imm
      /\ 20 \in w <=> 11 \in imm
      /\ \A b \in 21..30 : b \in w <=> b - 20 \in imm
      /\ 31 \in w <=> 20 \in imm
  <2>1. w = Encoded(111, d, 0, 0, JumpHigh(imm))
    OBVIOUS
  <2> HIDE DEF w
  <2>2. QED
    BY <1>2, <2>1, JTypeWord
<1>4. n.op = "jal" /\ n.rd = d /\ n.rs1 = 0 /\ n.rs2 = 0 /\ n.imm = imm /\ n.word = w
  BY <1>1 DEF Instruction
<1> HIDE DEF w
<1>5. /\ type(w) = "j" /\ flags(w) = {"jal"}
      /\ Version1!type(w) = "j" /\ Version1!flags(w) = {"jal"}
  <2>1. <<opcode(w), "jal">> \in {<<111, "jal">>, <<103, "jalr">>}
    BY <1>3
  <2>2. QED
    BY <2>1, JumpFlags
<1>6. Version1!l_flags(w) = {}
  <2>1. Version1!opcode(w) # 3
    BY <1>3, SameFields
  <2>2. QED
    BY <2>1, OtherMiniFlags
<1>7. "jal" \notin NotMini \cup Loads \cup Stores \cup ShiftNames \cup Csrs \cup {"reserved"}
  BY NamesAre DEF Loads, Stores, ShiftNames
<1>8. IsSigned(imm, 1, 20)
  BY SignedIs
<1>9. immediate(w) = imm
  BY <1>3, <1>5, <1>8, JImmediate DEF immediate
<1>10. ~illegal_instruction_sd(w) /\ ~IsCsr(w)
  BY <1>5 DEF illegal_instruction_sd, IsCsr
<1>11. imm \subseteq 0..31
  BY <1>8 DEF IsSigned
<1>12. QED
  BY <1>3, <1>4, <1>5, <1>6, <1>7, <1>9, <1>10, <1>11 DEF Formed

(* Both decoders read jalr as it is meant.                                 *)
LEMMA JalrFormed ==
  ASSUME NEW n \in IType(<<"jalr", 0>>, 103, Signed(0, 11))
  PROVE  Formed(n, "jalr")
<1>1. PICK d, r1 \in Regs, imm \in Signed(0, 11) :
        n = Instruction("jalr", d, r1, 0, imm, Encoded(103, d, 0, r1, Imm12(imm)))
  BY DEF IType
<1>2. d \in Register /\ r1 \in Register
  BY IsaAssumption DEF Register
<1>3. 103 \in Number7 /\ 0 \in Number3
  BY DEF Number3, Number7
<1> DEFINE w == Encoded(103, d, 0, r1, Imm12(imm))
<1>4. /\ opcode(w) = 103 /\ rd(w) = d /\ rs1(w) = r1
      /\ \A b \in 20..31 : b \in w <=> b - 20 \in imm
  <2>1. w = Encoded(103, d, 0, r1, Imm12(imm))
    OBVIOUS
  <2> HIDE DEF w
  <2>2. QED
    BY <1>2, <1>3, <2>1, ITypeWord
<1>5. n.op = "jalr" /\ n.rd = d /\ n.rs1 = r1 /\ n.rs2 = 0 /\ n.imm = imm /\ n.word = w
  BY <1>1 DEF Instruction
<1> HIDE DEF w
<1>6. /\ type(w) = "jalr" /\ flags(w) = {"jalr"}
      /\ Version1!type(w) = "jalr" /\ Version1!flags(w) = {"jalr"}
  <2>1. <<opcode(w), "jalr">> \in {<<111, "jal">>, <<103, "jalr">>}
    BY <1>4
  <2>2. QED
    BY <2>1, JumpFlags
<1>7. Version1!l_flags(w) = {}
  <2>1. Version1!opcode(w) # 3
    BY <1>4, SameFields
  <2>2. QED
    BY <2>1, OtherMiniFlags
<1>8. "jalr" \notin NotMini \cup Loads \cup Stores \cup ShiftNames \cup Csrs \cup {"reserved"}
  BY NamesAre DEF Loads, Stores, ShiftNames
<1>9. IsSigned(imm, 0, 11)
  BY SignedIs
<1>10. immediate(w) = imm
  BY <1>4, <1>6, <1>9, IImmediate DEF immediate
<1>11. ~illegal_instruction_sd(w) /\ ~IsCsr(w)
  BY <1>6 DEF illegal_instruction_sd, IsCsr
<1>12. imm \subseteq 0..31
  BY <1>9 DEF IsSigned
<1>13. QED
  BY <1>4, <1>5, <1>6, <1>7, <1>8, <1>10, <1>11, <1>12 DEF Formed

(* A word of its opcode, perhaps a funct3, and other bits above.           *)
LEMMA BareWord ==
  ASSUME NEW op \in Number7, NEW f3 \in Number3, NEW high, high \subseteq Upwards,
         NEW w, w = Field(op) \cup Placed(Field(f3), 12) \cup high
  PROVE  /\ IsEncoding(w, op, 0, f3, 0, high)
         /\ opcode(w) = op
         /\ Clear(high, 12, 14) => funct3(w) = f3
<1>1. Field(0) = {} /\ 0 \in Register
  BY FieldIs DEF Register
<1>2. Placed(Field(0), 7) = {} /\ Placed(Field(0), 15) = {}
  BY <1>1 DEF Placed
<1>3. w = Encoded(op, 0, f3, 0, high)
  BY <1>2 DEF Encoded
<1>4. op \in 0..127 /\ f3 \in 0..7
  BY DEF Number3, Number7
<1>5. IsEncoding(w, op, 0, f3, 0, high)
  BY <1>1, <1>3, <1>4, EncodedBits
<1>6. QED
  BY <1>1, <1>4, <1>5, EncodedFields

(* A word of which only the opcode is given.                               *)
LEMMA OpcodeWord ==
  ASSUME NEW op \in Number7, NEW high, high \subseteq Upwards, NEW w, w = Field(op) \cup high
  PROVE  /\ IsEncoding(w, op, 0, 0, 0, high)
         /\ opcode(w) = op
         /\ Clear(high, 12, 14) => funct3(w) = 0
<1>1. Field(0) = {} /\ 0 \in Number3
  BY FieldIs DEF Number3
<1>2. Placed(Field(0), 12) = {}
  BY <1>1 DEF Placed
<1>3. w = Field(op) \cup Placed(Field(0), 12) \cup high
  BY <1>2
<1>4. QED
  BY <1>1, <1>3, BareWord

(* The bits of the system opcode.                                          *)
LEMMA Field115 == Field(115) = {0, 1, 4, 5, 6}
<1>1. 2^0 = 1 /\ 2^1 = 2 /\ 2^2 = 4 /\ 2^3 = 8 /\ 2^4 = 16 /\ 2^5 = 32 /\ 2^6 = 64
  OBVIOUS
<1>2. /\ 115 \div 1 = 115 /\ 115 \div 2 = 57 /\ 115 \div 4 = 28 /\ 115 \div 8 = 14
      /\ 115 \div 16 = 7 /\ 115 \div 32 = 3 /\ 115 \div 64 = 1
  OBVIOUS
<1>3. /\ 115 % 2 = 1 /\ 57 % 2 = 1 /\ 28 % 2 = 0 /\ 14 % 2 = 0 /\ 7 % 2 = 1 /\ 3 % 2 = 1 /\ 1 % 2 = 1
  OBVIOUS
<1>4. \A b \in 0..6 : (115 \div 2^b) % 2 = 1 <=> b \in {0, 1, 4, 5, 6}
  <2>1. (115 \div 2^0) % 2 = 1 /\ (115 \div 2^1) % 2 = 1 /\ (115 \div 2^2) % 2 = 0
    BY <1>1, <1>2, <1>3
  <2>2. (115 \div 2^3) % 2 = 0 /\ (115 \div 2^4) % 2 = 1 /\ (115 \div 2^5) % 2 = 1 /\ (115 \div 2^6) % 2 = 1
    BY <1>1, <1>2, <1>3
  <2>3. \A b \in 0..6 : b = 0 \/ b = 1 \/ b = 2 \/ b = 3 \/ b = 4 \/ b = 5 \/ b = 6
    OBVIOUS
  <2>4. QED
    BY <2>1, <2>2, <2>3
<1>5. {0, 1, 4, 5, 6} \subseteq 0..6
  OBVIOUS
<1>6. \A b : b \in Field(115) <=> b \in 0..6 /\ (115 \div 2^b) % 2 = 1
  BY DEF Field
<1>7. \A b : b \in Field(115) <=> b \in {0, 1, 4, 5, 6}
  BY <1>4, <1>5, <1>6
<1>8. QED
  BY <1>7

(* ecall, ebreak and mret.                                                 *)
LEMMA SystemFormed ==
  ASSUME NEW op, NEW high, NEW n, n = Bare(op, Field(115) \cup high),
         <<op, high>> \in {<<"ecall", {}>>, <<"ebreak", {20}>>, <<"mret", {21, 28, 29}>>}
  PROVE  Formed(n, "system")
<1> DEFINE w == Field(115) \cup high
<1>1. n.op = op /\ n.rd = 0 /\ n.rs1 = 0 /\ n.rs2 = 0 /\ n.imm = {} /\ n.word = w
  BY DEF Bare, Instruction
<1>2. high \subseteq Upwards /\ Clear(high, 12, 14) /\ 115 \in Number7
  BY DEF Upwards, Clear, Number7
<1>3. w = {0, 1, 4, 5, 6} \cup high
  BY Field115
<1>4. opcode(w) = 115 /\ funct3(w) = 0
  <2>1. w = Field(115) \cup high
    OBVIOUS
  <2> HIDE DEF w
  <2>2. QED
    BY <1>2, <2>1, OpcodeWord
<1> HIDE DEF w
<1>5. type(w) = "system" /\ ~IsCsr(w)
  BY <1>4 DEF type, IsCsr
<1>6. \A k : k \in Slice(w, 31, 20) <=> k \in 0..11 /\ k + 20 \in high
  <2>1. \A k : k \in Slice(w, 31, 20) <=> k \in 0..31 - 20 /\ k + 20 \in w
    BY SliceBits
  <2>2. \A k \in 0..11 : k + 20 \in w <=> k + 20 \in high
    BY <1>3
  <2>3. QED
    BY <2>1, <2>2
<1>7. /\ Slice(w, 31, 20) = {} <=> op = "ecall"
      /\ Slice(w, 31, 20) = {0} <=> op = "ebreak"
      /\ w = {0, 1, 4, 5, 6, 21, 28, 29} <=> op = "mret"
      /\ w # {0, 1, 4, 5, 6, 21, 28}
  <2>1. CASE op = "ecall" /\ high = {}
    <3>1. Slice(w, 31, 20) = {}
      BY <1>6, <2>1
    <3>2. 21 \notin w
      BY <1>3, <2>1
    <3>3. QED
      BY <2>1, <3>1, <3>2
  <2>2. CASE op = "ebreak" /\ high = {20}
    <3>1. Slice(w, 31, 20) = {0}
      BY <1>6, <2>2
    <3>2. 21 \notin w
      BY <1>3, <2>2
    <3>3. QED
      BY <2>2, <3>1, <3>2
  <2>3. CASE op = "mret" /\ high = {21, 28, 29}
    <3>1. 8 \in Slice(w, 31, 20)
      BY <1>6, <2>3
    <3>2. w = {0, 1, 4, 5, 6, 21, 28, 29}
      BY <1>3, <2>3
    <3>3. 29 \in w
      BY <3>2
    <3>4. QED
      BY <2>3, <3>1, <3>2, <3>3
  <2>4. QED
    BY <2>1, <2>2, <2>3
<1>8. system_flags(w) = {op}
  <2>1. system_flags(w) = {c \in {"ecall", "ebreak", "mret", "sret"} :
                             CASE c = "ecall"  -> Slice(w, 31, 20) = {}
                               [] c = "ebreak" -> Slice(w, 31, 20) = {0}
                               [] c = "mret"   -> w = {0, 1, 4, 5, 6, 21, 28, 29}
                               [] c = "sret"   -> w = {0, 1, 4, 5, 6, 21, 28}}
    BY <1>4, <1>5 DEF system_flags
  <2>2. /\ "ecall" \in system_flags(w) <=> Slice(w, 31, 20) = {}
        /\ "ebreak" \in system_flags(w) <=> Slice(w, 31, 20) = {0}
        /\ "mret" \in system_flags(w) <=> w = {0, 1, 4, 5, 6, 21, 28, 29}
        /\ "sret" \in system_flags(w) <=> w = {0, 1, 4, 5, 6, 21, 28}
    BY <2>1
  <2>3. system_flags(w) \subseteq {"ecall", "ebreak", "mret", "sret"}
    BY <2>1
  <2>4. op \in {"ecall", "ebreak", "mret"}
    OBVIOUS
  <2>5. QED
    BY <1>7, <2>2, <2>3, <2>4
<1>9. flags(w) = {op}
  BY <1>4, <1>5, <1>8, OtherFlags DEF flags
<1>10. Version1!opcode(w) = 115
  BY <1>4, SameFields
<1>11. Version1!type(w) = "none" /\ Version1!flags(w) = {} /\ Version1!l_flags(w) = {}
  <2>1. Version1!type(w) = "none"
    BY <1>10 DEF Version1!type
  <2>2. QED
    BY <1>10, <2>1, OtherMiniFlags DEF Version1!flags
<1>12. op \in NotMini /\ op \notin Loads \cup Stores \cup ShiftNames \cup Csrs \cup {"reserved"}
  BY NamesAre DEF Loads, Stores, ShiftNames
<1>13. ~illegal_instruction_sd(w)
  BY <1>4, <1>5 DEF illegal_instruction_sd
<1>14. QED
  BY <1>1, <1>5, <1>9, <1>11, <1>12, <1>13 DEF Formed

(* Both decoders read fence as it is meant.                                *)
LEMMA FenceFormed ==
  ASSUME NEW n, n = Bare("fence", Field(15))
  PROVE  Formed(n, "none")
<1> DEFINE w == Field(15)
<1>1. n.op = "fence" /\ n.rd = 0 /\ n.rs1 = 0 /\ n.rs2 = 0 /\ n.imm = {} /\ n.word = w
  BY DEF Bare, Instruction
<1>2. opcode(w) = 15 /\ funct3(w) = 0
  <2>1. w = Field(15) \cup {} /\ {} \subseteq Upwards /\ Clear({}, 12, 14) /\ 15 \in Number7
    BY DEF Clear, Number7
  <2> HIDE DEF w
  <2>2. QED
    BY <2>1, OpcodeWord
<1> HIDE DEF w
<1>3. /\ type(w) = "none" /\ flags(w) = {"fence"}
      /\ Version1!type(w) = "none" /\ Version1!flags(w) = {"fence"}
  BY <1>2, FenceFlags
<1>4. Version1!l_flags(w) = {}
  <2>1. Version1!opcode(w) # 3
    BY <1>2, SameFields
  <2>2. QED
    BY <2>1, OtherMiniFlags
<1>5. "fence" \notin NotMini \cup Loads \cup Stores \cup ShiftNames \cup Csrs \cup {"reserved"}
  BY NamesAre DEF Loads, Stores, ShiftNames
<1>6. ~illegal_instruction_sd(w) /\ ~IsCsr(w) /\ immediate(w) = {}
  BY <1>3 DEF illegal_instruction_sd, IsCsr, immediate
<1>7. QED
  BY <1>1, <1>3, <1>4, <1>5, <1>6 DEF Formed

(* Every instruction of the manual is read right.                          *)
LEMMA InstructionsFormed ==
  ASSUME NEW n \in Instructions
  PROVE  \E t : Formed(n, t)
<1>1. ASSUME NEW I \in RegisterOps, n \in RType(I, 51) PROVE \E t : Formed(n, t)
  BY <1>1, RTypeFormed
<1>2. ASSUME NEW I \in ShiftOps, n \in ShiftType(I) PROVE \E t : Formed(n, t)
  BY <1>2, ShiftTypeFormed
<1>3. ASSUME NEW I \in ImmediateOps, n \in IType(I, 19, Signed(0, 11)) PROVE \E t : Formed(n, t)
  BY <1>3, ITypeFormed
<1>4. ASSUME NEW I \in LoadOps, n \in IType(I, 3, Signed(0, 11)) PROVE \E t : Formed(n, t)
  BY <1>4, LoadFormed
<1>5. ASSUME NEW I \in StoreOps, n \in SType(I) PROVE \E t : Formed(n, t)
  BY <1>5, StoreFormed
<1>6. ASSUME NEW I \in BranchOps, n \in BType(I) PROVE \E t : Formed(n, t)
  BY <1>6, BranchFormed
<1>7. ASSUME NEW I \in CsrOps \cup CsrImmOps, n \in IType(I, 115, CsrNumbers) PROVE \E t : Formed(n, t)
  BY <1>7, CsrFormed
<1>8. CASE n \in IType(<<"jalr", 0>>, 103, Signed(0, 11))
  BY <1>8, JalrFormed
<1>9. CASE n \in Jal
  BY <1>9, JalFormed
<1>10. CASE n \in UType("lui", 55) \cup UType("auipc", 23)
  <2>1. /\ <<55, "lui">> \in {<<55, "lui">>, <<23, "auipc">>}
        /\ <<23, "auipc">> \in {<<55, "lui">>, <<23, "auipc">>}
    OBVIOUS
  <2>2. QED
    BY <1>10, <2>1, UpperFormed
<1>11. CASE n \in {Bare("ecall", Field(115)), Bare("ebreak", Field(115) \cup {20}),
                   Bare("mret", Field(115) \cup {21, 28, 29}), Bare("fence", Field(15))}
  <2>1. Field(115) \cup {} = Field(115)
    OBVIOUS
  <2>2. CASE n = Bare("ecall", Field(115))
    <3>1. n = Bare("ecall", Field(115) \cup {})
      BY <2>1, <2>2
    <3>2. QED
      BY <3>1, SystemFormed
  <2>3. CASE n = Bare("ebreak", Field(115) \cup {20})
    BY <2>3, SystemFormed
  <2>4. CASE n = Bare("mret", Field(115) \cup {21, 28, 29})
    BY <2>4, SystemFormed
  <2>5. CASE n = Bare("fence", Field(15))
    BY <2>5, FenceFormed
  <2>6. QED
    BY <1>11, <2>2, <2>3, <2>4, <2>5
<1>12. QED
  BY <1>1, <1>2, <1>3, <1>4, <1>5, <1>6, <1>7, <1>8, <1>9, <1>10, <1>11 DEF Instructions

(* Only system words without a function are an ecall or an mret.           *)
LEMMA CallFlag ==
  ASSUME NEW w, NEW op \in {"ecall", "mret"}, op \in flags(w)
  PROVE  type(w) = "system" /\ funct3(w) = 0
<1>1. op \notin r_flags(w)
  BY DEF r_flags, F3
<1>2. op \notin i_flags(w)
  BY DEF i_flags, F3
<1>3. op \notin fence_flags(w) /\ op \notin l_flags(w) /\ op \notin b_flags(w)
  BY DEF fence_flags, l_flags, b_flags, F3
<1>4. op \notin uj_flags(w) /\ op \notin s_flags(w)
  BY DEF uj_flags, s_flags, F3
<1>5. op \notin m_flags(w)
  BY DEF m_flags, F3
<1>6. op \in system_flags(w)
  BY <1>1, <1>2, <1>3, <1>4, <1>5 DEF flags
<1>7. op \notin F3(w, [csrrw |-> 1, csrrs |-> 2, csrrc |-> 3, csrrwi |-> 5, csrrsi |-> 6, csrrci |-> 7])
  BY DEF F3
<1>8. QED
  BY <1>6, <1>7 DEF system_flags

(* The opcode and the function of a word with another function.            *)
LEMMA OtherFunct7Word ==
  ASSUME NEW op \in Number7, NEW f7s, f7s \subseteq Number7, NEW w, w \in OtherFunct7(op, f7s)
  PROVE  opcode(w) = op /\ funct7(w) \in f7s
<1>1. PICK f7 \in f7s, p \in Patterns : w = Field(op) \cup (p \cap (7..24)) \cup Funct7(f7)
  BY DEF OtherFunct7
<1> DEFINE low  == p \cap (7..24)
           high == low \cup Funct7(f7)
<1>2. low \subseteq Upwards /\ \A k \in 25..31 : k \notin low
  BY DEF Upwards
<1>3. f7 \in Number7 /\ w = Field(op) \cup high
  BY <1>1
<1> HIDE DEF low
<1>4. \A b : b \in Funct7(f7) <=> b \in 25..31 /\ b - 25 \in Field(f7)
  <2>1. f7 \in 0..127
    BY <1>3 DEF Number7
  <2>2. QED
    BY <2>1, HighBits
<1>5. high \subseteq Upwards
  <2>1. Funct7(f7) \subseteq 25..31
    BY <1>4
  <2>2. 25..31 \subseteq Upwards
    BY DEF Upwards
  <2>3. QED
    BY <1>2, <2>1, <2>2
<1>6. \A k \in 0..6 : k + 25 \in high <=> k \in Field(f7)
  <2>1. \A k \in 0..6 : k + 25 \in 25..31 /\ (k + 25) - 25 = k
    OBVIOUS
  <2>2. \A k \in 0..6 : k + 25 \in Funct7(f7) <=> k \in Field(f7)
    BY <1>4, <2>1
  <2>3. \A k \in 0..6 : k + 25 \notin low
    BY <1>2, <2>1
  <2>4. QED
    BY <2>2, <2>3
<1> HIDE DEF high
<1>7. IsEncoding(w, op, 0, 0, 0, high) /\ opcode(w) = op
  BY <1>3, <1>5, OpcodeWord
<1>8. \A n \in 0..127 : (\A k \in 0..6 : k + 25 \in high <=> k \in Field(n)) => funct7(w) = n
  BY <1>7, UpperFields
<1>9. funct7(w) = f7
  BY <1>3, <1>6, <1>8 DEF Number7
<1>10. QED
  BY <1>7, <1>9

(* Every word of no instruction is illegal, and no call.                   *)
LEMMA ReservedIllegal ==
  ASSUME NEW n \in Reserved
  PROVE  n.op = "reserved" /\ illegal_instruction_sd(n.word) /\ flags(n.word) \cap {"ecall", "mret"} = {}
<1> DEFINE w == n.word
<1>1. PICK word \in UNION {OtherOpcode, OtherFunct7(51, 0..127 \ {0, 1, 32}),
                           OtherFunct3(15, 1..7), OtherFunct3(35, 3..7),
                           OtherFunct3(99, {2, 3}), OtherFunct3(115, {4})} :
        n = Bare("reserved", word)
  BY DEF Reserved
<1>2. n.op = "reserved" /\ w = word
  BY <1>1 DEF Bare, Instruction
<1> HIDE DEF w
<1>3. ASSUME NEW op \in Number7, NEW f3s, f3s \subseteq Number3, w \in OtherFunct3(op, f3s)
      PROVE  opcode(w) = op /\ funct3(w) \in f3s
  <2>1. PICK f3 \in f3s, p \in Patterns :
          w = Field(op) \cup Placed(Field(f3), 12) \cup (p \cap ((7..11) \cup (15..31)))
    BY <1>3 DEF OtherFunct3
  <2> DEFINE high == p \cap ((7..11) \cup (15..31))
  <2>2. high \subseteq Upwards /\ Clear(high, 12, 14)
    BY DEF Upwards, Clear
  <2>3. w = Field(op) \cup Placed(Field(f3), 12) \cup high
    BY <2>1
  <2> HIDE DEF high
  <2>4. f3 \in Number3
    BY <1>3
  <2>5. opcode(w) = op /\ funct3(w) = f3
    BY <2>2, <2>3, <2>4, BareWord
  <2>6. QED
    BY <2>5
<1>4. ASSUME w \in OtherOpcode PROVE opcode(w) \in 0..127 \ Opcodes
  <2>1. PICK op \in 0..127 \ Opcodes, p \in Patterns : w = Field(op) \cup (p \cap (7..31))
    BY <1>4 DEF OtherOpcode
  <2> DEFINE high == p \cap (7..31)
  <2>2. high \subseteq Upwards /\ op \in Number7 /\ w = Field(op) \cup high
    BY <2>1 DEF Upwards, Number7
  <2> HIDE DEF high
  <2>3. opcode(w) = op
    BY <2>2, OpcodeWord
  <2>4. QED
    BY <2>3
<1>5. CASE w \in OtherOpcode
  <2>1. type(w) = "none" /\ opcode(w) # 15
    BY <1>4, <1>5 DEF type, Opcodes
  <2>2. fence_flags(w) = {} /\ "fence" \notin flags(w)
    <3>1. opcode(w) \notin {3, 15, 19, 23, 55}
      BY <1>4, <1>5 DEF Opcodes
    <3>2. flags(w) = {}
      BY <2>1, <3>1, OtherFlags DEF flags
    <3>3. QED
      BY <2>1, <3>2, OtherFlags
  <2>3. QED
    BY <1>2, <2>1, <2>2, CallFlag DEF illegal_instruction_sd, w
<1>6. CASE w \in OtherFunct7(51, 0..127 \ {0, 1, 32})
  <2>1. 51 \in Number7 /\ 0..127 \ {0, 1, 32} \subseteq Number7
    BY DEF Number7
  <2>2. opcode(w) = 51 /\ funct7(w) \in 0..127 \ {0, 1, 32}
    BY <1>6, <2>1, OtherFunct7Word
  <2>3. type(w) = "r" /\ funct7(w) \notin {0, 1, 32}
    BY <2>2 DEF type
  <2>4. QED
    BY <1>2, <2>3, CallFlag DEF illegal_instruction_sd, w
<1>7. CASE w \in OtherFunct3(15, 1..7)
  <2>1. 15 \in Number7 /\ 1..7 \subseteq Number3
    BY DEF Number3, Number7
  <2>2. opcode(w) = 15 /\ funct3(w) \in 1..7
    BY <1>3, <1>7, <2>1
  <2>3. type(w) = "none" /\ flags(w) = {}
    BY <2>2, FenceFlags
  <2>4. QED
    BY <1>2, <2>3 DEF illegal_instruction_sd, w
<1>8. CASE w \in OtherFunct3(35, 3..7)
  <2>1. 35 \in Number7 /\ 3..7 \subseteq Number3
    BY DEF Number3, Number7
  <2>2. opcode(w) = 35 /\ funct3(w) \in 3..7
    BY <1>3, <1>8, <2>1
  <2>3. type(w) = "s" /\ funct3(w) > 2
    BY <2>2 DEF type
  <2>4. QED
    BY <1>2, <2>3, CallFlag DEF illegal_instruction_sd, w
<1>9. CASE w \in OtherFunct3(99, {2, 3})
  <2>1. 99 \in Number7 /\ {2, 3} \subseteq Number3
    BY DEF Number3, Number7
  <2>2. opcode(w) = 99 /\ funct3(w) \in {2, 3}
    BY <1>3, <1>9, <2>1
  <2>3. type(w) = "b"
    BY <2>2 DEF type
  <2>4. QED
    BY <1>2, <2>2, <2>3, CallFlag DEF illegal_instruction_sd, w
<1>10. CASE w \in OtherFunct3(115, {4})
  <2>1. 115 \in Number7 /\ {4} \subseteq Number3
    BY DEF Number3, Number7
  <2>2. opcode(w) = 115 /\ funct3(w) = 4
    BY <1>3, <1>10, <2>1
  <2>3. type(w) = "system"
    BY <2>2 DEF type
  <2>4. QED
    BY <1>2, <2>2, <2>3, CallFlag DEF illegal_instruction_sd, w
<1>11. QED
  BY <1>1, <1>2, <1>5, <1>6, <1>7, <1>8, <1>9, <1>10

(* What every state satisfies: an instruction or a word of none is in      *)
(* if2dec, and what is held was decoded from it.                           *)
DecodeInv ==
  /\ inst \in Instructions \cup Reserved \cup {None}
  /\ inst # None => \E h : held = Held(inst.word, h)

(* Every step of the decoder keeps it.                                     *)
LEMMA DecodeInvHolds == DecodeSpec => []DecodeInv
<1>1. DecodeInit => DecodeInv
  BY DEF DecodeInit, DecodeInv
<1>2. DecodeInv /\ [DecodeNext]_decodeVars => DecodeInv'
  <2> SUFFICES ASSUME DecodeInv, [DecodeNext]_decodeVars PROVE DecodeInv'
    OBVIOUS
  <2>1. CASE Decoded
    <3>1. inst' \in Instructions \cup Reserved /\ held' = Held(inst'.word, held)
      BY <2>1 DEF Decoded
    <3>2. QED
      BY <3>1 DEF DecodeInv
  <2>2. CASE Gone
    BY <2>2 DEF Gone, DecodeInv
  <2>3. CASE UNCHANGED decodeVars
    BY <2>3 DEF decodeVars, DecodeInv
  <2>4. QED
    BY <2>1, <2>2, <2>3 DEF DecodeNext
<1>3. QED
  BY <1>1, <1>2, PTL DEF DecodeSpec

(* A legal instruction is one of the manual's.                             *)
LEMMA LegalFormed ==
  ASSUME DecodeInv, Legal
  PROVE  inst \in Instructions /\ (\E t : Formed(inst, t)) /\ \E h : held = Held(inst.word, h)
<1>1. inst \in Instructions
  BY DEF DecodeInv, Legal
<1>2. QED
  BY <1>1, InstructionsFormed DEF DecodeInv, Legal

(* An instruction raises its own flag and no other, reads and writes its   *)
(* own registers, and gets its own immediate with its sign, in both        *)
(* decoders, for every register and every immediate                        *)
(* (decod::decoding_instruction, pre_reg_read_decoding,                    *)
(* post_reg_read_decoding).                                                *)
THEOREM AlwaysFieldsRight == DecodeSpec => []FieldsRight
<1>1. DecodeInv => FieldsRight
  <2> SUFFICES ASSUME DecodeInv, Legal PROVE CoreReads(inst) /\ MiniReads(inst)
    BY DEF FieldsRight
  <2>1. PICK t : Formed(inst, t)
    BY LegalFormed
  <2>2. QED
    BY <2>1, FormedCore, FormedMini
<1>2. QED
  BY <1>1, DecodeInvHolds, PTL

(* Whatever was decoded before, only loads and stores access memory, with  *)
(* the size and sign they name, and only CSR instructions write a CSR:     *)
(* theirs (decod::post_reg_read_decoding).                                 *)
THEOREM AlwaysEffectsRight == DecodeSpec => []EffectsRight
<1>1. DecodeInv => EffectsRight
  <2> SUFFICES ASSUME DecodeInv, Legal PROVE EffectsRight
    BY DEF EffectsRight
  <2> DEFINE w == inst.word
  <2>1. PICK t : Formed(inst, t)
    BY LegalFormed
  <2>2. PICK h : held = Held(w, h)
    BY LegalFormed
  <2>3. /\ held.mem_size = mem_size_sd(w)
        /\ held.mem_sign_extend = mem_sign_extend_sd(w, h)
        /\ held.csr_wenable = csr_wenable_sd(w, h)
    BY <2>2 DEF Held
  <2>4. /\ mem_load_sd(w) <=> inst.op \in Loads
        /\ mem_store_sd(w) <=> inst.op \in Stores
        /\ inst.op \in Loads \cup Stores =>
             mem_size_sd(w) = CASE inst.op \in {"lw", "sw"} -> 0
                                [] inst.op \in {"lh", "lhu", "sh"} -> 1
                                [] inst.op \in {"lb", "lbu", "sb"} -> 2
    BY <2>1, FormedEffects
  <2>5. /\ inst.op \in Loads => (mem_sign_extend_sd(w, h) <=> inst.op \in {"lh", "lb"})
        /\ csr_wenable_sd(w, h) <=> inst.op \in Csrs
        /\ inst.op \in Csrs => csr_radr_sd(w) = inst.imm
    BY <2>1, FormedEffects
  <2>6. QED
    BY <2>3, <2>4, <2>5 DEF EffectsRight
<1>2. QED
  BY <1>1, DecodeInvHolds, PTL

(* No instruction is illegal and every word of Reserved is; an ecall, and  *)
(* nothing else, raises the call of its own mode, and nothing at all the s *)
(* call or the exception of an mret in the wrong mode                      *)
(* (decod::post_reg_read_decoding, pre_reg_read_decoding).                 *)
THEOREM AlwaysExceptionsRight == DecodeSpec => []ExceptionsRight
<1>1. DecodeInv => ExceptionsRight
  <2> SUFFICES ASSUME DecodeInv, inst # None PROVE ExceptionsRight
    BY DEF ExceptionsRight
  <2> DEFINE w == inst.word
  <2>1. /\ illegal_instruction_sd(w) <=> inst \in Reserved
        /\ "ecall" \in flags(w) <=> inst.op = "ecall"
        /\ ~({"mret", "sret"} \subseteq flags(w))
    <3>1. CASE inst \in Reserved
      BY <3>1, ReservedIllegal
    <3>2. CASE inst \in Instructions
      <4>1. PICK t : Formed(inst, t)
        BY <3>2, InstructionsFormed
      <4>2. flags(w) = {inst.op} /\ inst.op # "reserved" /\ ~illegal_instruction_sd(w)
        BY <4>1 DEF Formed
      <4>3. QED
        BY <4>2, ReservedIllegal
    <3>3. QED
      BY <3>1, <3>2 DEF DecodeInv
  <2>2. \A mode : ~env_call_s_mode_sd(w, mode) /\ ~env_call_wrong_mode(w, mode)
    BY <2>1 DEF env_call_s_mode_sd, env_call_wrong_mode
  <2>3. QED
    BY <2>1, <2>2 DEF ExceptionsRight, env_call_u_mode_sd, env_call_m_mode_sd
<1>2. QED
  BY <1>1, DecodeInvHolds, PTL
=============================================================================
