------------------------- MODULE MessageFieldsProofs -------------------------
(***************************************************************************)
(* Members of a block are variables of their own, as FieldStore promises,  *)
(* for every width, every layout, both byte orders of the schema and of    *)
(* the host, and both implementations of primitive access.                 *)
(***************************************************************************)
EXTENDS MessageFields, SequenceTheorems, WellFoundedInduction, TLAPS

-----------------------------------------------------------------------------
(* Induction.  The provers cannot instantiate a predicate, but they can a  *)
(* set: to show P for all numbers, show it of the set of those for which   *)
(* it holds.                                                               *)

LessThan == {p \in Nat \X Nat : p[1] < p[2]}

LEMMA LessThanIsWellFounded == IsWellFoundedOn(LessThan, Nat)
<1>1. IsWellFoundedOn(OpToRel(<, Nat), Nat)
  BY NatLessThanWellFounded
<1>2. OpToRel(<, Nat) = LessThan
  BY DEF OpToRel, LessThan
<1> QED
  BY <1>1, <1>2

\* A set of natural numbers has a least element.
LEMMA LeastNatural ==
    ASSUME NEW T \in SUBSET Nat, T # {}
    PROVE  \E x \in T : \A y \in T : x <= y
<1>1. PICK x \in T : \A y \in T : <<y, x>> \notin LessThan
  BY LessThanIsWellFounded, WFMin, Zenon
<1>2. ASSUME NEW y \in T
      PROVE  x <= y
  <2>1. <<y, x>> \notin LessThan /\ x \in Nat /\ y \in Nat
    BY <1>1
  <2>2. y < x => <<y, x>> \in LessThan
    BY <2>1 DEF LessThan
  <2> QED
    BY <2>1, <2>2
<1> QED
  BY <1>2

\* A set of numbers up to b has a greatest element.
LEMMA GreatestNatural ==
    ASSUME NEW b \in Nat, NEW T \in SUBSET (0 .. b), T # {}
    PROVE  \E x \in T : \A y \in T : y <= x
<1> DEFINE U == {n \in Nat : b - n \in T}
<1>1. PICK z \in T : z \in 0 .. b
  OBVIOUS
<1>2. b - z \in Nat /\ b - (b - z) = z
  BY <1>1
<1>3. U # {}
  BY <1>1, <1>2
<1>4. PICK u \in U : \A v \in U : u <= v
  <2> HIDE DEF U
  <2>1. U \in SUBSET Nat
    BY DEF U
  <2> QED
    BY <1>3, <2>1, LeastNatural
<1>5. b - u \in T /\ u \in Nat
  BY <1>4
<1>6. ASSUME NEW y \in T
      PROVE  y <= b - u
  <2>1. y \in 0 .. b /\ b - y \in Nat /\ b - (b - y) = y
    BY <1>6
  <2>2. b - y \in U
    BY <1>6, <2>1
  <2>3. u <= b - y
    BY <1>4, <2>2
  <2> QED
    BY <1>5, <2>1, <2>3
<1> QED
  BY <1>5, <1>6

\* A set that has 0 and with n also n + 1 has all of them.
LEMMA NaturalInduction ==
    ASSUME NEW T, 0 \in T, \A n \in Nat : n \in T => n + 1 \in T
    PROVE  Nat \subseteq T
<1> SUFFICES ASSUME Nat \ T # {}
             PROVE  FALSE
  OBVIOUS
<1>1. PICK x \in Nat \ T : \A y \in Nat \ T : x <= y
  BY LeastNatural
<1>2. x # 0 /\ x - 1 \in Nat
  BY <1>1
<1>3. x - 1 \in T
  BY <1>1, <1>2
<1>4. (x - 1) + 1 \in T
  BY <1>2, <1>3
<1> QED
  BY <1>1, <1>4

\* The same from a up to b.
LEMMA IntervalInduction ==
    ASSUME NEW a \in Int, NEW b \in Int, NEW T,
           a \in T, \A i \in a .. b - 1 : i \in T => i + 1 \in T
    PROVE  a .. b \subseteq T
<1> DEFINE U == {n \in Nat : a + n <= b => a + n \in T}
<1>1. 0 \in U
  OBVIOUS
<1>2. ASSUME NEW n \in Nat, n \in U
      PROVE  n + 1 \in U
  <2>1. CASE a + (n + 1) <= b
    <3>1. a + n \in T /\ a + n \in a .. b - 1
      BY <1>2, <2>1
    <3>2. (a + n) + 1 \in T
      BY <3>1
    <3> QED
      BY <3>2
  <2>2. CASE ~(a + (n + 1) <= b)
    BY <2>2
  <2> QED
    BY <2>1, <2>2
<1> HIDE DEF U
<1>3. Nat \subseteq U
  BY <1>1, <1>2, NaturalInduction
<1>4. ASSUME NEW i \in a .. b
      PROVE  i \in T
  <2>1. i - a \in U
    BY <1>3
  <2>2. a + (i - a) = i /\ i <= b
    OBVIOUS
  <2> QED
    BY <2>1, <2>2 DEF U
<1> QED
  BY <1>4

-----------------------------------------------------------------------------
(* Recursive functions.                                                    *)

\* f is defined up to n, from base on, by step.
IsRun(f, n, S, base, step) ==
    /\ f \in [0 .. n -> S]
    /\ f[0] = base
    /\ \A k \in 0 .. n - 1 : f[k + 1] = step[<<k, f[k]>>]

LEMMA RunExists ==
    ASSUME NEW S, NEW base \in S, NEW step \in [Nat \X S -> S], NEW n \in Nat
    PROVE  \E f : IsRun(f, n, S, base, step)
<1> DEFINE T == {m \in Nat : \E f : IsRun(f, m, S, base, step)}
<1>1. 0 \in T
  <2>1. IsRun([k \in 0 .. 0 |-> base], 0, S, base, step)
    BY DEF IsRun
  <2> QED
    BY <2>1
<1>2. ASSUME NEW m \in Nat, m \in T
      PROVE  m + 1 \in T
  <2>1. PICK f : IsRun(f, m, S, base, step)
    BY <1>2
  <2>2. f \in [0 .. m -> S] /\ f[0] = base
    BY <2>1 DEF IsRun
  <2>3. \A k \in 0 .. m - 1 : f[k + 1] = step[<<k, f[k]>>]
    BY <2>1 DEF IsRun
  <2> DEFINE next == step[<<m, f[m]>>]
             g == [k \in 0 .. m + 1 |-> IF k = m + 1 THEN next ELSE f[k]]
  <2>4. next \in S
    <3>1. m \in 0 .. m
      OBVIOUS
    <3>2. f[m] \in S
      BY <2>2, <3>1
    <3>3. <<m, f[m]>> \in Nat \X S
      BY <3>2
    <3> QED
      BY <3>3
  <2> HIDE DEF next
  <2>5. g \in [0 .. m + 1 -> S]
    BY <2>2, <2>4
  <2>6. g[0] = base
    BY <2>2
  <2>7. ASSUME NEW k \in 0 .. (m + 1) - 1
        PROVE  g[k + 1] = step[<<k, g[k]>>]
    <3>1. g[k] = f[k]
      OBVIOUS
    <3>2. CASE k = m
      <4>1. g[k + 1] = next
        BY <3>2
      <4> QED
        BY <3>1, <3>2, <4>1 DEF next
    <3>3. CASE k # m
      <4>1. k \in 0 .. m - 1 /\ k + 1 \in 0 .. m + 1 /\ k + 1 # m + 1
        BY <3>3
      <4>2. g[k + 1] = f[k + 1]
        BY <4>1
      <4>3. f[k + 1] = step[<<k, f[k]>>]
        BY <2>3, <4>1
      <4> QED
        BY <3>1, <4>2, <4>3
    <3> QED
      BY <3>2, <3>3
  <2>8. IsRun(g, m + 1, S, base, step)
    BY <2>5, <2>6, <2>7 DEF IsRun
  <2> HIDE DEF g
  <2> QED
    BY <2>8
<1> HIDE DEF T
<1>3. Nat \subseteq T
  BY <1>1, <1>2, NaturalInduction
<1> QED
  BY <1>3 DEF T

LEMMA RunsAgree ==
    ASSUME NEW S, NEW base, NEW step, NEW n \in Nat, NEW m \in Nat, n <= m,
           NEW f, NEW g, IsRun(f, n, S, base, step), IsRun(g, m, S, base, step)
    PROVE  \A k \in 0 .. n : f[k] = g[k]
<1> DEFINE T == {k \in 0 .. n : f[k] = g[k]}
<1>1. 0 \in T
  BY DEF IsRun
<1>2. ASSUME NEW k \in 0 .. n - 1, k \in T
      PROVE  k + 1 \in T
  <2>1. k \in 0 .. m - 1 /\ k + 1 \in 0 .. n
    OBVIOUS
  <2>2. f[k + 1] = step[<<k, f[k]>>] /\ g[k + 1] = step[<<k, g[k]>>]
    BY <2>1 DEF IsRun
  <2> QED
    BY <1>2, <2>1, <2>2
<1> HIDE DEF T
<1>3. 0 .. n \subseteq T
  BY <1>1, <1>2, IntervalInduction
<1> QED
  BY <1>3 DEF T

\* What is defined by a base and a step is a function of all numbers.
IsRecursion(f, S, base, step) ==
    /\ f \in [Nat -> S]
    /\ f[0] = base
    /\ \A k \in Nat : f[k + 1] = step[<<k, f[k]>>]

LEMMA RecursionExists ==
    ASSUME NEW S, NEW base \in S, NEW step \in [Nat \X S -> S]
    PROVE  \E f : IsRecursion(f, S, base, step)
<1> DEFINE Run(n) == CHOOSE f : IsRun(f, n, S, base, step)
           F == [n \in Nat |-> Run(n)[n]]
<1>1. \A n \in Nat : IsRun(Run(n), n, S, base, step)
  BY RunExists
<1> HIDE DEF Run
<1>2. F \in [Nat -> S]
  <2>1. ASSUME NEW n \in Nat
        PROVE  Run(n)[n] \in S
    <3>1. Run(n) \in [0 .. n -> S]
      BY <1>1 DEF IsRun
    <3> QED
      BY <3>1
  <2> QED
    BY <2>1
<1>3. F[0] = base
  BY <1>1 DEF IsRun
<1>4. ASSUME NEW k \in Nat
      PROVE  F[k + 1] = step[<<k, F[k]>>]
  <2>1. Run(k)[k] = Run(k + 1)[k]
    BY <1>1, RunsAgree
  <2>2. Run(k + 1)[k + 1] = step[<<k, Run(k + 1)[k]>>]
    <3>1. IsRun(Run(k + 1), k + 1, S, base, step)
      BY <1>1
    <3>2. k \in 0 .. (k + 1) - 1
      OBVIOUS
    <3> QED
      BY <3>1, <3>2 DEF IsRun
  <2> QED
    BY <2>1, <2>2
<1>5. IsRecursion(F, S, base, step)
  BY <1>2, <1>3, <1>4 DEF IsRecursion
<1> QED
  BY <1>5

-----------------------------------------------------------------------------
(* Numbers and their bits.                                                 *)

LEMMA Shifts ==
    ASSUME NEW x \in Nat
    PROVE  /\ ShiftRight(x, 0) = x
           /\ \A n \in Nat : /\ ShiftRight(x, n) \in Nat
                             /\ ShiftRight(x, n + 1) = ShiftRight(x, n) \div 2
<1> DEFINE F(f) == [k \in Nat |-> IF k = 0 THEN x ELSE f[k - 1] \div 2]
           c == CHOOSE f : f = F(f)
           step == [p \in Nat \X Nat |-> p[2] \div 2]
<1>1. PICK f : IsRecursion(f, Nat, x, step)
  <2>1. step \in [Nat \X Nat -> Nat]
    OBVIOUS
  <2>2. x \in Nat
    OBVIOUS
  <2> HIDE DEF step
  <2> QED
    BY <2>1, <2>2, RecursionExists
<1>0. /\ f \in [Nat -> Nat]
      /\ f[0] = x
      /\ \A k \in Nat : f[k + 1] = step[<<k, f[k]>>]
  <2> HIDE DEF step
  <2> QED
    BY <1>1 DEF IsRecursion
<1>2. ASSUME NEW k \in Nat
      PROVE  f[k] = IF k = 0 THEN x ELSE f[k - 1] \div 2
  <2>1. CASE k = 0
    BY <1>0, <2>1
  <2>2. CASE k # 0
    <3>1. k - 1 \in Nat /\ (k - 1) + 1 = k
      BY <2>2
    <3>2. f[k] = step[<<k - 1, f[k - 1]>>]
      BY <1>0, <3>1
    <3>3. f[k - 1] \in Nat
      BY <1>0, <3>1
    <3> QED
      BY <2>2, <3>1, <3>2, <3>3
  <2> QED
    BY <2>1, <2>2
<1>3. f = F(f)
  <2>1. f = [k \in Nat |-> f[k]]
    BY <1>0
  <2> QED
    BY <1>2, <2>1
<1>4. c = F(c)
  <2> HIDE DEF F
  <2> QED
    BY <1>3
<1>5. \A n : ShiftRight(x, n) = c[n]
  BY DEF ShiftRight
<1> HIDE DEF c
<1>6. c[0] = x /\ \A k \in Nat : c[k + 1] = c[k] \div 2
  <2>1. c[0] = x
    BY <1>4
  <2>2. ASSUME NEW k \in Nat
        PROVE  c[k + 1] = c[k] \div 2
    <3>1. k + 1 \in Nat /\ k + 1 # 0 /\ (k + 1) - 1 = k
      OBVIOUS
    <3> QED
      BY <1>4, <3>1
  <2> QED
    BY <2>1, <2>2
<1> DEFINE T == {n \in Nat : c[n] \in Nat}
<1>7. Nat \subseteq T
  <2>1. 0 \in T
    BY <1>6
  <2>2. ASSUME NEW n \in Nat, n \in T
        PROVE  n + 1 \in T
    BY <1>6, <2>2
  <2> HIDE DEF T
  <2> QED
    BY <2>1, <2>2, NaturalInduction
<1> QED
  BY <1>5, <1>6, <1>7

Bit(i, v) == IF i \in v THEN 1 ELSE 0

\* f is the number made of the upper bits of v, one after the other.
IsUpper(f, v, top) ==
    /\ f \in [Nat -> Nat]
    /\ f[0] = 0
    /\ \A k \in Nat : f[k + 1] = 2 * f[k] + Bit(top - (k + 1), v)

LEMMA NumberOfBits ==
    ASSUME NEW v, NEW n, n * ByteBits \in Nat
    PROVE  \E f : IsUpper(f, v, n * ByteBits) /\ Num(v, n) = f[n * ByteBits]
<1> DEFINE top == n * ByteBits
           F(f) == [k \in Nat |->
               IF k = 0 THEN 0 ELSE 2 * f[k - 1] + IF top - k \in v THEN 1 ELSE 0]
           c == CHOOSE f : f = F(f)
           step == [p \in Nat \X Nat |-> 2 * p[2] + Bit(top - (p[1] + 1), v)]
<1> HIDE DEF top
<1>1. PICK f : IsRecursion(f, Nat, 0, step)
  <2>1. step \in [Nat \X Nat -> Nat]
    BY DEF Bit
  <2>2. 0 \in Nat
    OBVIOUS
  <2> HIDE DEF step
  <2> QED
    BY <2>1, <2>2, RecursionExists
<1>0. /\ f \in [Nat -> Nat]
      /\ f[0] = 0
      /\ \A k \in Nat : f[k + 1] = step[<<k, f[k]>>]
  <2> HIDE DEF step
  <2> QED
    BY <1>1 DEF IsRecursion
<1>2. ASSUME NEW k \in Nat
      PROVE  f[k] = IF k = 0 THEN 0 ELSE 2 * f[k - 1] + Bit(top - k, v)
  <2>1. CASE k = 0
    BY <1>0, <2>1
  <2>2. CASE k # 0
    <3>1. k - 1 \in Nat /\ (k - 1) + 1 = k
      BY <2>2
    <3>2. f[k] = step[<<k - 1, f[k - 1]>>]
      BY <1>0, <3>1
    <3>3. step[<<k - 1, f[k - 1]>>] = 2 * f[k - 1] + Bit(top - ((k - 1) + 1), v)
      <4>1. f[k - 1] \in Nat
        BY <1>0, <3>1
      <4> QED
        BY <3>1, <4>1
    <3> QED
      BY <2>2, <3>1, <3>2, <3>3
  <2> QED
    BY <2>1, <2>2
<1>3. f = F(f)
  <2>1. f = [k \in Nat |-> f[k]]
    BY <1>0
  <2> QED
    BY <1>2, <2>1 DEF Bit
<1>4. c = F(c)
  <2> HIDE DEF F
  <2> QED
    BY <1>3
<1>5. Num(v, n) = c[top]
  BY DEF Num, top
<1> HIDE DEF c
<1>6. c[0] = 0 /\ \A k \in Nat : c[k + 1] = 2 * c[k] + Bit(top - (k + 1), v)
  <2>1. c[0] = 0
    BY <1>4
  <2>2. ASSUME NEW k \in Nat
        PROVE  c[k + 1] = 2 * c[k] + Bit(top - (k + 1), v)
    <3>1. k + 1 \in Nat /\ k + 1 # 0 /\ (k + 1) - 1 = k
      OBVIOUS
    <3> QED
      BY <1>4, <3>1 DEF Bit
  <2> QED
    BY <2>1, <2>2
<1> DEFINE T == {k \in Nat : c[k] \in Nat}
<1>7. Nat \subseteq T
  <2>1. 0 \in T
    BY <1>6
  <2>2. ASSUME NEW k \in Nat, k \in T
        PROVE  k + 1 \in T
    BY <1>6, <2>2 DEF Bit
  <2> HIDE DEF T
  <2> QED
    BY <2>1, <2>2, NaturalInduction
<1>8. c \in [Nat -> Nat]
  <2>1. c = [k \in Nat |-> c[k]]
    BY <1>4
  <2> QED
    BY <1>7, <2>1
<1>9. IsUpper(c, v, top)
  BY <1>6, <1>8 DEF IsUpper
<1> QED
  BY <1>5, <1>9 DEF top

LEMMA BitsOfMember ==
    ASSUME NEW m \in Members
    PROVE  /\ Offset[m] \in Nat /\ Width[m] \in Nat \ {0}
           /\ Width[m] * ByteBits \in Nat
           /\ Offset[m] + Width[m] <= BufferSize
<1>1. Offset[m] \in Nat /\ Width[m] \in Nat \ {0} /\ ByteBits \in Nat
  BY MembersAssumption, BitsAssumption
<1> QED
  BY <1>1, MembersAssumption

LEMMA NumIsNumber ==
    ASSUME NEW m \in Members, NEW v
    PROVE  Num(v, Width[m]) \in Nat
<1>1. Width[m] * ByteBits \in Nat
  BY BitsOfMember
<1>2. PICK f : /\ IsUpper(f, v, Width[m] * ByteBits)
               /\ Num(v, Width[m]) = f[Width[m] * ByteBits]
  BY <1>1, NumberOfBits
<1> QED
  BY <1>1, <1>2 DEF IsUpper

\* The bits of a number that fits make this number.
LEMMA NumOfVal ==
    ASSUME NEW m \in Members, NEW x, Holds(m, x)
    PROVE  Num(Val(x, Width[m]), Width[m]) = x
<1> DEFINE n == Width[m]
           top == n * ByteBits
           v == Val(x, n)
<1>1. top \in Nat /\ x \in Nat /\ ShiftRight(x, top) = 0
  BY BitsOfMember DEF Holds
<1>2. v = {i \in 0 .. top - 1 : ShiftRight(x, i) % 2 = 1}
  BY DEF Val, Bits
<1>9. PICK f : IsUpper(f, v, n * ByteBits) /\ Num(v, n) = f[n * ByteBits]
  BY <1>1, NumberOfBits
<1> HIDE DEF n, v
<1>3. /\ f \in [Nat -> Nat]
      /\ f[0] = 0
      /\ \A k \in Nat : f[k + 1] = 2 * f[k] + Bit(top - (k + 1), v)
      /\ Num(v, n) = f[top]
  BY <1>9 DEF IsUpper
<1> HIDE DEF top
<1> DEFINE T == {k \in 0 .. top : f[k] = ShiftRight(x, top - k)}
<1>4. 0 \in T
  <2>1. top - 0 = top /\ 0 \in 0 .. top
    BY <1>1
  <2> QED
    BY <1>1, <1>3, <2>1
<1>5. ASSUME NEW k \in 0 .. top - 1, k \in T
      PROVE  k + 1 \in T
  <2> DEFINE j == top - (k + 1)
  <2>1. j \in 0 .. top - 1 /\ j \in Nat /\ j + 1 = top - k /\ k \in Nat /\ k + 1 \in 0 .. top
    BY <1>1
  <2>2. f[k] = ShiftRight(x, j + 1)
    BY <1>5, <2>1
  <2>3. f[k + 1] = 2 * f[k] + Bit(j, v)
    BY <1>3, <2>1
  <2>4. Bit(j, v) = IF ShiftRight(x, j) % 2 = 1 THEN 1 ELSE 0
    BY <1>2, <2>1 DEF Bit
  <2> HIDE DEF j
  <2>5. /\ ShiftRight(x, j) \in Nat
        /\ ShiftRight(x, j + 1) = ShiftRight(x, j) \div 2
    BY <1>1, <2>1, Shifts
  <2>6. f[k + 1] = ShiftRight(x, j)
    <3>1. \A s \in Nat : s = 2 * (s \div 2) + IF s % 2 = 1 THEN 1 ELSE 0
      OBVIOUS
    <3> QED
      BY <2>2, <2>3, <2>4, <2>5, <3>1
  <2> QED
    BY <2>1, <2>6 DEF j
<1> HIDE DEF T
<1>6. 0 .. top \subseteq T
  BY <1>1, <1>4, <1>5, IntervalInduction
<1>7. f[top] = ShiftRight(x, 0)
  <2>1. top \in T /\ top - top = 0
    BY <1>1, <1>6
  <2> QED
    BY <2>1 DEF T
<1>8. ShiftRight(x, 0) = x
  BY <1>1, Shifts
<1> QED
  BY <1>3, <1>7, <1>8 DEF n, v

-----------------------------------------------------------------------------
(* Bytes of values.                                                        *)

\* The bit at a place in a byte.
LEMMA PlaceOfBit ==
    ASSUME NEW n \in Nat, NEW k \in 0 .. n - 1, NEW b \in 0 .. ByteBits - 1
    PROVE  /\ k * ByteBits + b \in Bits(n)
           /\ (k * ByteBits + b) \div ByteBits = k
           /\ (k * ByteBits + b) % ByteBits = b
<1>1. ByteBits \in Nat \ {0}
  BY BitsAssumption
<1>2. PICK w \in Nat \ {0} : w = ByteBits
  BY <1>1
<1>3. (k * w + b) \div w = k /\ (k * w + b) % w = b
  BY <1>2
<1>4. k * w + b \in 0 .. n * w - 1
  <2>1. PICK d \in Nat : n = k + 1 + d
    <3>1. n - (k + 1) \in Nat /\ n = k + 1 + (n - (k + 1))
      OBVIOUS
    <3> QED
      BY <3>1
  <2>2. n * w = k * w + w + d * w
    BY <2>1
  <2>3. k * w \in Nat /\ d * w \in Nat
    BY <2>1
  <2> QED
    BY <1>2, <2>2, <2>3
<1> QED
  BY <1>2, <1>3, <1>4 DEF Bits

\* Every bit is at a place in a byte.
LEMMA ByteOfBit ==
    ASSUME NEW n \in Nat, NEW i \in Bits(n)
    PROVE  /\ i \div ByteBits \in 0 .. n - 1
           /\ i % ByteBits \in 0 .. ByteBits - 1
           /\ i = (i \div ByteBits) * ByteBits + (i % ByteBits)
<1>1. PICK w \in Nat \ {0} : w = ByteBits
  BY BitsAssumption
<1>2. i \in Nat /\ i < n * w
  BY <1>1 DEF Bits
<1>3. PICK k, b : k = i \div w /\ b = i % w
  OBVIOUS
<1>4. k \in Int /\ b \in 0 .. w - 1 /\ i = k * w + b
  BY <1>2, <1>3
<1>5. k >= 0
  <2> SUFFICES ASSUME k <= -1
               PROVE  FALSE
    BY <1>4
  <2>1. PICK d \in Nat : k = -1 - d
    <3>1. -1 - k \in Nat /\ k = -1 - (-1 - k)
      BY <1>4
    <3> QED
      BY <3>1
  <2>2. k * w = - w - d * w /\ d * w \in Nat
    BY <2>1
  <2> QED
    BY <1>2, <1>4, <2>2
<1>6. k < n
  <2> SUFFICES ASSUME n <= k
               PROVE  FALSE
    BY <1>4
  <2>1. PICK d \in Nat : k = n + d
    <3>1. k - n \in Nat /\ k = n + (k - n)
      BY <1>4
    <3> QED
      BY <3>1
  <2>2. k * w = n * w + d * w /\ d * w \in Nat /\ n * w \in Nat
    BY <2>1
  <2> QED
    BY <1>2, <1>4, <2>2
<1> QED
  BY <1>1, <1>3, <1>4, <1>5, <1>6

\* The place in memory of byte k of a value of n bytes, in the schema's order.
WirePlace(k, n) == IF SchemaOrder = "little" THEN k ELSE n - 1 - k

\* Memory as a value of n bytes.
WireNumber(cells, n) ==
    {i \in Bits(n) : i % ByteBits \in cells[WirePlace(i \div ByteBits, n)]}

\* A value of n bytes as memory.
WireBytes(v, n) == [i \in 0 .. n - 1 |-> ByteOf(v, WirePlace(i, n))]

LEMMA Places ==
    ASSUME NEW n \in Nat, NEW k \in 0 .. n - 1
    PROVE  /\ WirePlace(k, n) \in 0 .. n - 1 /\ HostPlace(k, n) \in 0 .. n - 1
           /\ n - 1 - k \in 0 .. n - 1
           /\ WirePlace(WirePlace(k, n), n) = k
           /\ HostPlace(HostPlace(k, n), n) = k
BY DEF WirePlace, HostPlace

\* Either way round, as the schema's order is that of the host or not.
LEMMA Orders ==
    ASSUME native \in Hosts, NEW n \in Nat, NEW k \in 0 .. n - 1
    PROVE  IF SchemaOrder = native THEN HostPlace(k, n) = WirePlace(k, n)
           ELSE /\ HostPlace(n - 1 - k, n) = WirePlace(k, n)
                /\ n - 1 - HostPlace(k, n) = WirePlace(k, n)
<1>1. native \in {"little", "big"} /\ SchemaOrder \in {"little", "big"}
  BY OrderAssumption DEF Endian
<1>2. n - 1 - (n - 1 - k) = k
  OBVIOUS
<1> QED
  BY <1>1, <1>2 DEF HostPlace, WirePlace

LEMMA BytesNatural == ByteBits \in Nat \ {0}
BY BitsAssumption

\* The bits in Bits(j + 1) and not in Bits(j) are those of byte j.
LEMMA BitsOfByte ==
    ASSUME NEW j \in Nat, NEW i \in Bits(j + 1) \ Bits(j)
    PROVE  i - j * ByteBits \in 0 .. ByteBits - 1
<1>1. PICK w \in Nat \ {0} : w = ByteBits
  BY BytesNatural
<1>2. (j + 1) * w = j * w + w /\ j * w \in Nat
  OBVIOUS
<1>3. i \in 0 .. (j + 1) * w - 1 /\ ~(i \in 0 .. j * w - 1)
  BY <1>1 DEF Bits
<1> QED
  BY <1>1, <1>2, <1>3

\* Where byteswap() takes a bit, and that it is one of the value.
LEMMA SwappedBit ==
    ASSUME NEW n \in Nat, NEW j \in 0 .. n - 1, NEW b \in 0 .. ByteBits - 1
    PROVE  /\ j * ByteBits + b \in Bits(j + 1) \ Bits(j)
           /\ j * ByteBits + b + (n - 1 - 2 * j) * ByteBits = (n - 1 - j) * ByteBits + b
<1>1. PICK w \in Nat \ {0} : w = ByteBits
  BY BytesNatural
<1>2. (j + 1) * w = j * w + w /\ j * w \in Nat
  BY <1>1
<1>3. j * w + b \in 0 .. (j + 1) * w - 1 /\ ~(j * w + b \in 0 .. j * w - 1)
  BY <1>1, <1>2
<1>4. j * w + b + (n - 1 - 2 * j) * w = (n - 1 - j) * w + b
  <2>1. (n - 1 - 2 * j) * w = (n - 1 - j) * w - j * w
    <3>1. PICK d \in Int : d = n - 1 - j
      OBVIOUS
    <3>2. n - 1 - 2 * j = d - j
      BY <3>1
    <3>3. (d - j) * w = d * w - j * w
      BY <1>1, <3>1
    <3> QED
      BY <3>1, <3>2, <3>3
  <2>2. (n - 1 - j) * w \in Int
    BY <1>1
  <2> QED
    BY <1>1, <1>2, <2>1, <2>2
<1> QED
  BY <1>1, <1>3, <1>4 DEF Bits

\* byteswap() reverses the bytes, and adds none.
LEMMA Swapped ==
    ASSUME NEW n \in Nat, NEW v
    PROVE  /\ Byteswap(v, n) \subseteq Bits(n)
           /\ \A k \in 0 .. n - 1 : ByteOf(Byteswap(v, n), k) = ByteOf(v, n - 1 - k)
<1>1. ASSUME NEW s \in Byteswap(v, n)
      PROVE  \E k \in 0 .. n - 1, b \in 0 .. ByteBits - 1 :
                 s = k * ByteBits + b /\ (n - 1 - k) * ByteBits + b \in v
  <2>0. PICK j \in 0 .. n - 1 : \E i \in v \cap (Bits(j + 1) \ Bits(j)) :
            s = i + (n - 1 - 2 * j) * ByteBits
    BY DEF Byteswap
  <2>1. PICK i \in v \cap (Bits(j + 1) \ Bits(j)) :
            s = i + (n - 1 - 2 * j) * ByteBits
    BY <2>0
  <2> DEFINE b == i - j * ByteBits
  <2>2. b \in 0 .. ByteBits - 1
    BY BitsOfByte
  <2>3. j * ByteBits \in Int /\ i \in Int
    BY BytesNatural DEF Bits
  <2>4. i = j * ByteBits + b
    BY <2>3
  <2> HIDE DEF b
  <2>5. s = (n - 1 - j) * ByteBits + b
    BY <2>1, <2>2, <2>4, SwappedBit
  <2>6. n - 1 - j \in 0 .. n - 1 /\ n - 1 - (n - 1 - j) = j
    OBVIOUS
  <2>7. (n - 1 - (n - 1 - j)) * ByteBits + b \in v
    BY <2>1, <2>4, <2>6
  <2> QED
    BY <2>2, <2>5, <2>6, <2>7
<1>2. Byteswap(v, n) \subseteq Bits(n)
  BY <1>1, PlaceOfBit
<1>3. ASSUME NEW k \in 0 .. n - 1, NEW b \in 0 .. ByteBits - 1,
             k * ByteBits + b \in Byteswap(v, n)
      PROVE  (n - 1 - k) * ByteBits + b \in v
  <2>1. PICK l \in 0 .. n - 1, c \in 0 .. ByteBits - 1 :
            /\ k * ByteBits + b = l * ByteBits + c
            /\ (n - 1 - l) * ByteBits + c \in v
    BY <1>1, <1>3
  <2>2. /\ (k * ByteBits + b) \div ByteBits = k
        /\ (k * ByteBits + b) % ByteBits = b
    BY PlaceOfBit
  <2>3. /\ (l * ByteBits + c) \div ByteBits = l
        /\ (l * ByteBits + c) % ByteBits = c
    BY PlaceOfBit
  <2>4. k = l /\ b = c
    BY <2>1, <2>2, <2>3
  <2> QED
    BY <2>1, <2>4
<1>4. ASSUME NEW k \in 0 .. n - 1, NEW b \in 0 .. ByteBits - 1,
             (n - 1 - k) * ByteBits + b \in v
      PROVE  k * ByteBits + b \in Byteswap(v, n)
  <2>1. PICK j \in 0 .. n - 1 : j = n - 1 - k /\ n - 1 - j = k
    OBVIOUS
  <2>2. /\ j * ByteBits + b \in Bits(j + 1) \ Bits(j)
        /\ j * ByteBits + b + (n - 1 - 2 * j) * ByteBits = k * ByteBits + b
    BY <2>1, SwappedBit
  <2>3. j * ByteBits + b \in v
    BY <1>4, <2>1
  <2> QED
    BY <2>2, <2>3 DEF Byteswap
<1>5. ASSUME NEW k \in 0 .. n - 1
      PROVE  ByteOf(Byteswap(v, n), k) = ByteOf(v, n - 1 - k)
  BY <1>3, <1>4 DEF ByteOf
<1> QED
  BY <1>2, <1>5

\* What is written is the value in the schema's byte order.
LEMMA PrimitiveWritten ==
    ASSUME native \in Hosts, NEW n \in Nat, NEW v
    PROVE  PrimitiveBytes(v, n) = WireBytes(v, n)
<1>1. CASE SchemaOrder = native
  <2>1. PrimitiveBytes(v, n) = ToMemory(v, n)
    BY <1>1 DEF PrimitiveBytes
  <2> QED
    BY <1>1, <2>1, Orders DEF ToMemory, WireBytes
<1>2. CASE SchemaOrder # native /\ bitCast
  <2>1. PrimitiveBytes(v, n) = Reversed(ToMemory(v, n), n)
    BY <1>2 DEF PrimitiveBytes
  <2>2. ASSUME NEW k \in 0 .. n - 1
        PROVE  ToMemory(v, n)[n - 1 - k] = ByteOf(v, WirePlace(k, n))
    BY <1>2, Orders, Places DEF ToMemory
  <2> QED
    BY <2>1, <2>2 DEF Reversed, WireBytes
<1>3. CASE SchemaOrder # native /\ ~bitCast
  <2>1. PrimitiveBytes(v, n) = ToMemory(Byteswap(v, n), n)
    BY <1>3 DEF PrimitiveBytes
  <2>2. ASSUME NEW k \in 0 .. n - 1
        PROVE  ByteOf(Byteswap(v, n), HostPlace(k, n)) = ByteOf(v, WirePlace(k, n))
    <3>1. HostPlace(k, n) \in 0 .. n - 1 /\ n - 1 - HostPlace(k, n) = WirePlace(k, n)
      BY <1>3, Orders, Places
    <3> QED
      BY <3>1, Swapped
  <2> QED
    BY <2>1, <2>2 DEF ToMemory, WireBytes
<1> QED
  BY <1>1, <1>2, <1>3

\* What is read is the value in the schema's byte order.
LEMMA PrimitiveRead ==
    ASSUME native \in Hosts, NEW n \in Nat, NEW cells
    PROVE  GetPrimitive(cells, n) = WireNumber(cells, n)
<1>1. ASSUME NEW i \in Bits(n)
      PROVE  i \div ByteBits \in 0 .. n - 1
  BY ByteOfBit
<1>2. CASE SchemaOrder = native
  <2>1. GetPrimitive(cells, n) = FromMemory(cells, n)
    BY <1>2 DEF GetPrimitive
  <2>2. ASSUME NEW i \in Bits(n)
        PROVE  HostPlace(i \div ByteBits, n) = WirePlace(i \div ByteBits, n)
    BY <1>1, <1>2, Orders
  <2> QED
    BY <2>1, <2>2 DEF FromMemory, WireNumber
<1>3. CASE SchemaOrder # native /\ bitCast
  <2>1. GetPrimitive(cells, n) = FromMemory(Reversed(cells, n), n)
    BY <1>3 DEF GetPrimitive
  <2>2. ASSUME NEW i \in Bits(n)
        PROVE  Reversed(cells, n)[HostPlace(i \div ByteBits, n)] =
                   cells[WirePlace(i \div ByteBits, n)]
    <3> DEFINE k == i \div ByteBits
    <3>1. k \in 0 .. n - 1
      BY <1>1
    <3> HIDE DEF k
    <3>2. HostPlace(k, n) \in 0 .. n - 1 /\ n - 1 - HostPlace(k, n) = WirePlace(k, n)
      BY <1>3, <3>1, Orders, Places
    <3>3. Reversed(cells, n)[HostPlace(k, n)] = cells[WirePlace(k, n)]
      BY <3>2 DEF Reversed
    <3> QED
      BY <3>3 DEF k
  <2> QED
    BY <2>1, <2>2 DEF FromMemory, WireNumber
<1>4. CASE SchemaOrder # native /\ ~bitCast
  <2> DEFINE u == FromMemory(cells, n)
             s == Byteswap(u, n)
  <2>1. GetPrimitive(cells, n) = s
    BY <1>4 DEF GetPrimitive
  <2>2. ASSUME NEW i \in Bits(n)
        PROVE  i \in s <=> i % ByteBits \in cells[WirePlace(i \div ByteBits, n)]
    <3>1. PICK k, b : k = i \div ByteBits /\ b = i % ByteBits
      OBVIOUS
    <3>2. k \in 0 .. n - 1 /\ b \in 0 .. ByteBits - 1 /\ i = k * ByteBits + b
      BY <3>1, ByteOfBit
    <3>3. i \in s <=> b \in ByteOf(s, k)
      BY <3>2 DEF ByteOf
    <3>4. ByteOf(s, k) = ByteOf(u, n - 1 - k)
      BY <3>2, Swapped
    <3>5. n - 1 - k \in 0 .. n - 1
      BY <3>2
    <3>6. /\ (n - 1 - k) * ByteBits + b \in Bits(n)
          /\ ((n - 1 - k) * ByteBits + b) \div ByteBits = n - 1 - k
          /\ ((n - 1 - k) * ByteBits + b) % ByteBits = b
      BY <3>2, <3>5, PlaceOfBit
    <3>7. b \in ByteOf(u, n - 1 - k) <=> (n - 1 - k) * ByteBits + b \in u
      BY <3>2 DEF ByteOf
    <3>8. (n - 1 - k) * ByteBits + b \in u <=> b \in cells[HostPlace(n - 1 - k, n)]
      BY <3>6 DEF FromMemory
    <3>9. HostPlace(n - 1 - k, n) = WirePlace(k, n)
      BY <1>4, <3>2, Orders
    <3> HIDE DEF s, u
    <3> QED
      BY <3>1, <3>3, <3>4, <3>7, <3>8, <3>9
  <2>3. s \subseteq Bits(n)
    BY Swapped
  <2> HIDE DEF s, u
  <2> QED
    BY <2>1, <2>2, <2>3 DEF WireNumber
<1> QED
  BY <1>2, <1>3, <1>4

\* What is read of what was written.
LEMMA WireKeeps ==
    ASSUME NEW n \in Nat, NEW v \in SUBSET Bits(n)
    PROVE  WireNumber(WireBytes(v, n), n) = v
<1>1. ASSUME NEW i \in Bits(n)
      PROVE  i \in WireNumber(WireBytes(v, n), n) <=> i \in v
  <2>1. PICK k, b : k = i \div ByteBits /\ b = i % ByteBits
    OBVIOUS
  <2>2. k \in 0 .. n - 1 /\ b \in 0 .. ByteBits - 1 /\ i = k * ByteBits + b
    BY <2>1, ByteOfBit
  <2>3. WirePlace(k, n) \in 0 .. n - 1 /\ WirePlace(WirePlace(k, n), n) = k
    BY <2>2, Places
  <2>4. WireBytes(v, n)[WirePlace(k, n)] = ByteOf(v, k)
    BY <2>3 DEF WireBytes
  <2>5. b \in ByteOf(v, k) <=> i \in v
    BY <2>2 DEF ByteOf
  <2> QED
    BY <2>1, <2>4, <2>5 DEF WireNumber
<1> QED
  BY <1>1 DEF WireNumber

-----------------------------------------------------------------------------
(* Members in the buffer.                                                  *)

Cells(m) == Offset[m] .. Offset[m] + Width[m] - 1
Buffer   == 0 .. BufferSize - 1

LEMMA CellsInBuffer ==
    ASSUME NEW m \in Members
    PROVE  /\ Cells(m) \subseteq Buffer
           /\ \A i \in 0 .. Width[m] - 1 : Offset[m] + i \in Cells(m)
           /\ \A i \in 1 .. Width[m] : Offset[m] + i - 1 \in Cells(m)
           /\ \A o \in Members : o # m => Cells(o) \cap Cells(m) = {}
<1>1. Offset[m] \in Nat /\ Width[m] \in Nat \ {0} /\ Offset[m] + Width[m] <= BufferSize
  BY BitsOfMember
<1>2. ASSUME NEW o \in Members, o # m
      PROVE  Cells(o) \cap Cells(m) = {}
  <2>1. Offset[o] \in Nat /\ Width[o] \in Nat \ {0}
    BY BitsOfMember
  <2>2. Offset[o] + Width[o] <= Offset[m] \/ Offset[m] + Width[m] <= Offset[o]
    BY <1>2, MembersAssumption
  <2> QED
    BY <1>1, <2>1, <2>2 DEF Cells
<1> QED
  BY <1>1, <1>2, BuffersAssumption DEF Cells, Buffer

\* A step writes bytes of member m only.
WritesOnly(m) ==
    /\ bytes' \in [Buffer -> Byte]
    /\ \A p \in Buffer \ Cells(m) : bytes'[p] = bytes[p]

\* The others keep their values.
LEMMA OthersKept ==
    ASSUME NEW m \in Members, WritesOnly(m), NEW o \in Members, o # m
    PROVE  \A p \in Cells(o) : bytes'[p] = bytes[p]
<1>1. Cells(o) \subseteq Buffer \ Cells(m)
  BY CellsInBuffer
<1> QED
  BY <1>1 DEF WritesOnly

\* Copying up to as many bytes as it has to the start of a member.
LEMMA Overwrites ==
    ASSUME bytes \in [Buffer -> Byte], NEW m \in Members,
           NEW n \in 0 .. Width[m], NEW cells,
           \A i \in 0 .. n - 1 : cells[i] \in Byte,
           bytes' = Overwritten(Offset[m], cells, n)
    PROVE  /\ WritesOnly(m)
           /\ \A i \in 0 .. Width[m] - 1 :
                  bytes'[Offset[m] + i] = IF i < n THEN cells[i] ELSE bytes[Offset[m] + i]
<1>1. Offset[m] \in Nat /\ Width[m] \in Nat \ {0}
  BY BitsOfMember
<1>2. bytes' = [p \in Buffer |-> IF p - Offset[m] \in 0 .. n - 1
                                 THEN cells[p - Offset[m]] ELSE bytes[p]]
  BY DEF Overwritten
<1>3. bytes' \in [Buffer -> Byte]
  BY <1>2
<1>4. ASSUME NEW p \in Buffer \ Cells(m)
      PROVE  bytes'[p] = bytes[p]
  <2>1. p \in Int /\ ~(p - Offset[m] \in 0 .. n - 1)
    BY <1>1, BuffersAssumption DEF Buffer, Cells
  <2> QED
    BY <1>2, <2>1
<1>5. ASSUME NEW i \in 0 .. Width[m] - 1
      PROVE  bytes'[Offset[m] + i] = IF i < n THEN cells[i] ELSE bytes[Offset[m] + i]
  <2>1. Offset[m] + i \in Buffer
    BY CellsInBuffer
  <2>2. (Offset[m] + i) - Offset[m] = i
    BY <1>1
  <2>3. i \in 0 .. n - 1 <=> i < n
    OBVIOUS
  <2> QED
    BY <1>2, <2>1, <2>2, <2>3
<1> QED
  BY <1>3, <1>4, <1>5 DEF WritesOnly

LEMMA WireIsCells ==
    ASSUME NEW m \in Members
    PROVE  /\ WireValue(m) = WireNumber(CellsOf(m), Width[m])
           /\ WireValue(m)' = WireNumber(CellsOf(m)', Width[m])
           /\ WireValue(m) \subseteq Bits(Width[m])
<1> DEFINE n == Width[m]
<1>1. n \in Nat
  BY BitsOfMember
<1>2. ASSUME NEW i \in Bits(n)
      PROVE  WirePlace(i \div ByteBits, n) \in 0 .. n - 1
  BY <1>1, ByteOfBit, Places
<1>3. ASSUME NEW i \in Bits(n)
      PROVE  /\ CellsOf(m)[WirePlace(i \div ByteBits, n)] =
                    bytes[Offset[m] + WirePlace(i \div ByteBits, n)]
             /\ CellsOf(m)'[WirePlace(i \div ByteBits, n)] =
                    bytes'[Offset[m] + WirePlace(i \div ByteBits, n)]
  BY <1>2 DEF CellsOf
<1>4. WireValue(m) = {i \in Bits(n) :
          i % ByteBits \in bytes[Offset[m] + WirePlace(i \div ByteBits, n)]}
  BY DEF WireValue, WirePlace
<1>5. WireValue(m)' = {i \in Bits(n) :
          i % ByteBits \in bytes'[Offset[m] + WirePlace(i \div ByteBits, n)]}
  BY DEF WireValue, WirePlace
<1> QED
  BY <1>3, <1>4, <1>5 DEF WireNumber

\* The value of a member depends on its bytes only.
LEMMA SameCells ==
    ASSUME NEW m \in Members, \A p \in Cells(m) : bytes'[p] = bytes[p]
    PROVE  /\ CellsOf(m)' = CellsOf(m)
           /\ WireValue(m)' = WireValue(m)
<1>1. CellsOf(m)' = CellsOf(m)
  BY CellsInBuffer DEF CellsOf
<1> QED
  BY <1>1, WireIsCells

\* What an accessor returns is the value in the schema's byte order.
LEMMA GetIsWire ==
    ASSUME native \in Hosts, NEW m \in Members
    PROVE  Get(m) = WireValue(m)
<1>1. Width[m] \in Nat
  BY BitsOfMember
<1> QED
  BY <1>1, WireIsCells, PrimitiveRead DEF Get

\* What an accessor writes is then the value of the member.
LEMMA PutIsWire ==
    ASSUME bytes \in [Buffer -> Byte], native \in Hosts,
           NEW m \in Members, NEW v \in SUBSET Bits(Width[m]), bytes' = Put(m, v)
    PROVE  WritesOnly(m) /\ WireValue(m)' = v
<1> DEFINE n == Width[m]
           cells == WireBytes(v, n)
<1>1. n \in Nat \ {0}
  BY BitsOfMember
<1>2. bytes' = Overwritten(Offset[m], cells, n)
  BY <1>1, PrimitiveWritten DEF Put
<1>3. \A i \in 0 .. n - 1 : cells[i] \in Byte
  BY DEF WireBytes, ByteOf, Byte
<1>4. /\ WritesOnly(m)
      /\ \A i \in 0 .. n - 1 : bytes'[Offset[m] + i] = cells[i]
  <2>1. n \in 0 .. Width[m]
    BY <1>1
  <2> HIDE DEF cells
  <2>2. /\ WritesOnly(m)
        /\ \A i \in 0 .. n - 1 :
               bytes'[Offset[m] + i] = IF i < n THEN cells[i] ELSE bytes[Offset[m] + i]
    BY <1>2, <1>3, <2>1, Overwrites
  <2> QED
    BY <1>1, <2>2
<1>5. CellsOf(m)' = cells
  BY <1>4 DEF CellsOf, WireBytes
<1>6. WireNumber(cells, n) = v
  BY <1>1, WireKeeps
<1> QED
  BY <1>4, <1>5, <1>6, WireIsCells

-----------------------------------------------------------------------------
(* The invariant.                                                          *)

IInv == TypeOK /\ AssertsGuardMembers

\* A step that returns from a call, having written at most member m.
Returns(m) ==
    /\ Fits(m) /\ WritesOnly(m)
    /\ UNCHANGED <<build, status>>

\* A step in which an assertion fails.
Fails(m, needed) ==
    /\ Fail(m, needed)
    /\ Offset[m] + Width[m] > size \/ needed > Width[m]
    /\ bytes' \in [Buffer -> Byte]

LEMMA TypeOfBytes ==
    TypeOK <=> /\ bytes \in [Buffer -> Byte]
               /\ size \in ViewSizes /\ native \in Hosts /\ bitCast \in BOOLEAN
               /\ held \subseteq SetBits
               /\ status \in {"running", "failed"}
BY DEF TypeOK, Buffer

LEMMA ReturnsIInv ==
    ASSUME IInv, status = "running", NEW m \in Members, Returns(m),
           held' \subseteq SetBits
    PROVE  IInv'
<1>1. TypeOK'
  BY DEF IInv, TypeOK, Returns, WritesOnly, Buffer, build
<1>2. status' = "running" /\ size' = size /\ size \in Nat
  BY BuffersAssumption DEF Returns, build, IInv, TypeOK
<1>3. DOMAIN bytes = Buffer /\ DOMAIN bytes' = Buffer
  BY DEF IInv, TypeOK, Returns, WritesOnly, Buffer
<1>4. ASSUME NEW p \in Buffer
      PROVE  \/ bytes'[p] = {}
             \/ p < size /\ \E o \in Members : p \in Offset[o] .. Offset[o] + Width[o] - 1
  <2>1. CASE p \in Cells(m)
    <3>1. p < size
      BY <1>2, <2>1, BitsOfMember DEF Returns, Fits, Cells
    <3> QED
      BY <2>1, <3>1 DEF Cells
  <2>2. CASE p \notin Cells(m)
    <3>1. bytes'[p] = bytes[p]
      BY <2>2 DEF Returns, WritesOnly
    <3> QED
      BY <1>3, <3>1 DEF IInv, AssertsGuardMembers
  <2> QED
    BY <2>1, <2>2
<1> QED
  BY <1>1, <1>2, <1>3, <1>4 DEF IInv, AssertsGuardMembers

LEMMA QuietIInv ==
    ASSUME IInv, status = "running", UNCHANGED <<bytes, build, status>>,
           held' \subseteq SetBits
    PROVE  IInv'
<1>1. TypeOK'
  BY DEF IInv, TypeOK, build
<1> QED
  BY <1>1 DEF IInv, AssertsGuardMembers, build

LEMMA FailsIInv ==
    ASSUME IInv, NEW m \in Members, NEW needed, Fails(m, needed)
    PROVE  IInv'
<1>1. TypeOK'
  BY DEF IInv, TypeOK, Fails, Fail, build, Buffer
<1>2. /\ status' = "failed" /\ size' = size
      /\ answer'[2] = m /\ answer'[3] = needed
  BY DEF Fails, Fail, build
<1> QED
  BY <1>1, <1>2 DEF IInv, AssertsGuardMembers, Fails

-----------------------------------------------------------------------------
(* What the calls that write do.                                           *)

LEMMA SetIsMember == Set \in Members
BY DEF Members

LEMMA WriteNumberWrites ==
    ASSUME IInv, NEW m \in Numbers, NEW x \in Inputs, bytes' = Put(m, Val(x, Width[m]))
    PROVE  WritesOnly(m) /\ WireValue(m)' = Val(x, Width[m])
<1>1. m \in Members /\ Val(x, Width[m]) \in SUBSET Bits(Width[m])
  BY DEF Members, Val
<1>2. bytes \in [Buffer -> Byte] /\ native \in Hosts
  BY TypeOfBytes DEF IInv
<1> QED
  BY <1>1, <1>2, PutIsWire

LEMMA StoreSetWrites ==
    ASSUME IInv, bytes' = Put(Set, held)
    PROVE  WritesOnly(Set) /\ WireValue(Set)' = held
<1>1. held \in SUBSET Bits(Width[Set])
  BY DEF IInv, TypeOK, SetBits
<1>2. bytes \in [Buffer -> Byte] /\ native \in Hosts
  BY TypeOfBytes DEF IInv
<1> QED
  BY <1>1, <1>2, PutIsWire, SetIsMember

LEMMA WriteElementWrites ==
    ASSUME IInv, NEW a \in Arrays, NEW pos \in 0 .. Width[a] - 1, NEW v \in Byte,
           bytes' = [bytes EXCEPT ![Offset[a] + pos] = v]
    PROVE  /\ WritesOnly(a)
           /\ \A i \in 0 .. Width[a] - 1 :
                  bytes'[Offset[a] + i] = IF i = pos THEN v ELSE bytes[Offset[a] + i]
<1>1. a \in Members
  BY DEF Members
<1>2. Offset[a] \in Nat /\ Width[a] \in Nat \ {0}
  BY <1>1, BitsOfMember
<1>3. bytes \in [Buffer -> Byte]
  BY TypeOfBytes DEF IInv
<1>4. Offset[a] + pos \in Cells(a) /\ Cells(a) \subseteq Buffer
  BY <1>1, CellsInBuffer
<1>5. WritesOnly(a)
  BY <1>3, <1>4 DEF WritesOnly
<1>6. ASSUME NEW i \in 0 .. Width[a] - 1
      PROVE  bytes'[Offset[a] + i] = IF i = pos THEN v ELSE bytes[Offset[a] + i]
  <2>1. Offset[a] + i \in Buffer
    BY <1>1, CellsInBuffer
  <2>2. Offset[a] + i = Offset[a] + pos <=> i = pos
    BY <1>2
  <2> QED
    BY <1>3, <1>4, <2>1, <2>2
<1> QED
  BY <1>5, <1>6

\* The bytes of a string.
LEMMA StringBytes ==
    ASSUME NEW s \in Strings
    PROVE  /\ Len(s) \in Nat /\ DOMAIN s = 1 .. Len(s)
           /\ \A i \in 1 .. Len(s) : s[i] \in Byte
<1>1. s \in Seq(Byte)
  BY StringsAssumption
<1> QED
  BY <1>1, ElementOfSeq, LenProperties

\* The elements of array a are those of s, and then null or what they were.
AsAssigned(a, s, mode, cells) ==
    \A i \in 0 .. Width[a] - 1 :
        cells[Offset[a] + i] =
            IF i \in Padded(a, Len(s), mode) THEN Nul
            ELSE IF i < Len(s) THEN s[i + 1] ELSE bytes[Offset[a] + i]

LEMMA AssignWrites ==
    ASSUME IInv, NEW a \in Arrays, NEW s \in Strings, NEW mode,
           Len(s) <= Width[a], bytes' = Assign(a, s, mode)
    PROVE  WritesOnly(a) /\ AsAssigned(a, s, mode, bytes')
<1> DEFINE n == Len(s)
           cells == [i \in 0 .. n - 1 |-> s[i + 1]]
           copied == Overwritten(Offset[a], cells, n)
<1>1. a \in Members
  BY DEF Members
<1>2. Offset[a] \in Nat /\ Width[a] \in Nat \ {0}
  BY <1>1, BitsOfMember
<1>3. n \in 0 .. Width[a]
  BY <1>2, StringBytes
<1>4. bytes \in [Buffer -> Byte]
  BY TypeOfBytes DEF IInv
<1>5. \A i \in 0 .. n - 1 : cells[i] \in Byte /\ cells[i] = s[i + 1]
  <2> SUFFICES ASSUME NEW i \in 0 .. n - 1
               PROVE  s[i + 1] \in Byte
    OBVIOUS
  <2>1. i + 1 \in 1 .. Len(s)
    BY <1>3
  <2> QED
    BY <2>1, StringBytes
<1>6. copied = [p \in Buffer |-> IF p - Offset[a] \in 0 .. n - 1
                                 THEN cells[p - Offset[a]] ELSE bytes[p]]
  BY <1>4 DEF Overwritten
<1>7. Padded(a, n, mode) \subseteq 0 .. Width[a] - 1
  BY <1>2, <1>3 DEF Padded
<1>8. bytes' = [p \in Buffer |-> IF p - Offset[a] \in Padded(a, n, mode)
                                 THEN Nul ELSE copied[p]]
  BY <1>4 DEF Assign
<1>9. Nul \in Byte
  BY DEF Nul, Byte
<1> HIDE DEF n, cells
<1>10. bytes' \in [Buffer -> Byte]
  BY <1>4, <1>5, <1>6, <1>8, <1>9
<1>11. ASSUME NEW p \in Buffer \ Cells(a)
       PROVE  bytes'[p] = bytes[p]
  <2>1. p \in Int /\ ~(p - Offset[a] \in 0 .. Width[a] - 1)
    BY <1>2, BuffersAssumption DEF Buffer, Cells
  <2>2. p - Offset[a] \notin 0 .. n - 1
    BY <1>2, <1>3, <2>1
  <2>3. p - Offset[a] \notin Padded(a, n, mode)
    BY <1>7, <2>1
  <2> QED
    BY <1>6, <1>8, <2>2, <2>3
<1>12. ASSUME NEW i \in 0 .. Width[a] - 1
       PROVE  bytes'[Offset[a] + i] =
                  IF i \in Padded(a, n, mode) THEN Nul
                  ELSE IF i < n THEN s[i + 1] ELSE bytes[Offset[a] + i]
  <2>1. Offset[a] + i \in Buffer
    BY <1>1, CellsInBuffer
  <2>2. (Offset[a] + i) - Offset[a] = i
    BY <1>2
  <2>3. i \in 0 .. n - 1 <=> i < n
    BY <1>3
  <2> HIDE DEF copied
  <2>4. copied[Offset[a] + i] = IF i < n THEN s[i + 1] ELSE bytes[Offset[a] + i]
    BY <1>5, <1>6, <2>1, <2>2, <2>3
  <2> QED
    BY <1>8, <2>1, <2>2, <2>4
<1> QED
  BY <1>10, <1>11, <1>12 DEF WritesOnly, AsAssigned, n

\* A range that is too long fills its array, and more.
LEMMA OverrunWrites ==
    ASSUME IInv, NEW a \in Arrays, NEW s \in Strings,
           Len(s) > Width[a], bytes' = Assign(a, s, "none")
    PROVE  /\ bytes' \in [Buffer -> Byte]
           /\ \A i \in 0 .. Width[a] - 1 : bytes'[Offset[a] + i] = s[i + 1]
<1> DEFINE n == Len(s)
           cells == [i \in 0 .. n - 1 |-> s[i + 1]]
<1>1. a \in Members
  BY DEF Members
<1>2. Offset[a] \in Nat /\ Width[a] \in Nat \ {0} /\ n \in Nat
  BY <1>1, BitsOfMember, StringBytes
<1>3. bytes \in [Buffer -> Byte]
  BY TypeOfBytes DEF IInv
<1>4. \A i \in 0 .. n - 1 : cells[i] \in Byte /\ cells[i] = s[i + 1]
  <2> SUFFICES ASSUME NEW i \in 0 .. n - 1
               PROVE  s[i + 1] \in Byte
    OBVIOUS
  <2>1. i + 1 \in 1 .. Len(s)
    BY <1>2
  <2> QED
    BY <2>1, StringBytes
<1>5. Padded(a, n, "none") = {}
  BY DEF Padded
<1>6. bytes' = [p \in Buffer |-> IF p - Offset[a] \in 0 .. n - 1
                                 THEN cells[p - Offset[a]] ELSE bytes[p]]
  BY <1>3, <1>5 DEF Overwritten, Assign
<1> HIDE DEF cells
<1>7. bytes' \in [Buffer -> Byte]
  BY <1>3, <1>4, <1>6
<1>8. ASSUME NEW i \in 0 .. Width[a] - 1
      PROVE  bytes'[Offset[a] + i] = s[i + 1]
  <2>1. Offset[a] + i \in Buffer
    BY <1>1, CellsInBuffer
  <2>2. (Offset[a] + i) - Offset[a] = i
    BY <1>2
  <2>3. i \in 0 .. n - 1
    BY <1>2
  <2> HIDE DEF n
  <2> QED
    BY <1>4, <1>6, <2>1, <2>2, <2>3
<1> QED
  BY <1>7, <1>8

-----------------------------------------------------------------------------
(* Every call keeps the invariant.                                         *)

LEMMA CopySetHeld ==
    ASSUME IInv, CopySet
    PROVE  held' \subseteq SetBits
<1>1. native \in Hosts
  BY TypeOfBytes DEF IInv
<1>2. Get(Set) \subseteq SetBits
  BY <1>1, SetIsMember, GetIsWire, WireIsCells DEF SetBits
<1> QED
  BY <1>2 DEF CopySet

LEMMA SetBitHeld ==
    ASSUME NEW v, NEW n, NEW b, NEW w \in SetBit(v, n, b)
    PROVE  w \subseteq SetBits
<1>1. PICK x \in Shifted(TRUE, n), y \in Shifted(b, n) :
          w = ((v \cap Extended(Ints \ x)) \cup Extended(y)) \cap SetBits
  BY Zenon DEF SetBit
<1> QED
  BY <1>1

LEMMA InitIInv == Init => IInv
<1> SUFFICES ASSUME Init
             PROVE  IInv
  OBVIOUS
<1>1. TypeOK
  BY DEF Init, TypeOK, Byte, SetBits
<1> QED
  BY <1>1 DEF Init, IInv, AssertsGuardMembers

LEMMA NextIInv == IInv /\ [Next]_vars => IInv'
<1> SUFFICES ASSUME IInv, [Next]_vars
             PROVE  IInv'
  OBVIOUS
<1>0. held \subseteq SetBits /\ bytes \in [Buffer -> Byte]
  BY TypeOfBytes DEF IInv
<1>1. CASE UNCHANGED vars
  BY <1>1 DEF IInv, TypeOK, AssertsGuardMembers, vars, build
<1> SUFFICES ASSUME Next
             PROVE  IInv'
  BY <1>1
<1>2. status = "running"
  BY DEF Next
<1>3. CASE TooShort
  <2>1. PICK m \in Members : ~Fits(m) /\ Fail(m, Width[m])
    BY <1>3 DEF TooShort
  <2>2. Offset[m] + Width[m] > size
    BY <2>1, BitsOfMember, BuffersAssumption DEF Fits, IInv, TypeOK
  <2>3. Fails(m, Width[m])
    BY <1>0, <1>3, <2>1, <2>2 DEF TooShort, Fails
  <2> QED
    BY <2>3, FailsIInv
<1>4. CASE ReadNumber
  <2>1. UNCHANGED <<bytes, build, status>> /\ held' = held
    BY <1>4 DEF ReadNumber, Answer
  <2> QED
    BY <1>0, <1>2, <2>1, QuietIInv
<1>5. CASE WriteNumber
  <2>1. PICK m \in Numbers, v \in Inputs :
            /\ Fits(m) /\ bytes' = Put(m, Val(v, Width[m]))
            /\ UNCHANGED <<build, status>> /\ held' = held
    BY <1>5 DEF WriteNumber, Answer
  <2>2. m \in Members /\ Returns(m)
    BY <2>1, WriteNumberWrites DEF Returns, Members
  <2> QED
    BY <1>0, <1>2, <2>1, <2>2, ReturnsIInv
<1>6. CASE CopySet
  <2>1. UNCHANGED <<bytes, build, status>>
    BY <1>6 DEF CopySet, Answer
  <2> QED
    BY <1>2, <1>6, <2>1, CopySetHeld, QuietIInv
<1>7. CASE StoreSet
  <2>1. Returns(Set) /\ held' = held
    BY <1>7, StoreSetWrites DEF StoreSet, Answer, Returns
  <2> QED
    BY <1>0, <1>2, <2>1, SetIsMember, ReturnsIInv
<1>8. CASE VisitSet
  <2>1. UNCHANGED <<bytes, build, status>> /\ held' = held
    BY <1>8 DEF VisitSet, Answer
  <2> QED
    BY <1>0, <1>2, <2>1, QuietIInv
<1>9. ASSUME NEW n \in Choice, NEW b \in BOOLEAN, Choose(n, b)
      PROVE  IInv'
  <2>1. UNCHANGED <<bytes, build, status>>
    BY <1>9 DEF Choose, Answer
  <2>2. held' \subseteq SetBits
    BY <1>9, SetBitHeld DEF Choose
  <2> QED
    BY <1>2, <2>1, <2>2, QuietIInv
<1>10. CASE ReadElement
  <2>0. PICK a \in Arrays : \E pos \in 0 .. Width[a] :
            /\ \/ pos < Width[a] /\ Answer("element", bytes[Offset[a] + pos])
               \/ pos >= Width[a] /\ Fail(a, pos + 1)
            /\ UNCHANGED <<bytes, held>>
    BY <1>10 DEF ReadElement
  <2>1. PICK pos \in 0 .. Width[a] :
            /\ \/ pos < Width[a] /\ Answer("element", bytes[Offset[a] + pos])
               \/ pos >= Width[a] /\ Fail(a, pos + 1)
            /\ UNCHANGED <<bytes, held>>
    BY <2>0
  <2>2. CASE Answer("element", bytes[Offset[a] + pos])
    <3>1. UNCHANGED <<bytes, build, status>> /\ held' = held
      BY <2>1, <2>2 DEF Answer
    <3> QED
      BY <1>0, <1>2, <3>1, QuietIInv
  <2>3. CASE pos >= Width[a] /\ Fail(a, pos + 1)
    <3>1. a \in Members /\ Width[a] \in Nat
      BY BitsOfMember DEF Members
    <3>2. Fails(a, pos + 1)
      BY <1>0, <2>1, <2>3, <3>1 DEF Fails
    <3> QED
      BY <3>1, <3>2, FailsIInv
  <2> QED
    BY <2>1, <2>2, <2>3
<1>11. CASE WriteElement
  <2>1. PICK a \in Arrays, v \in Byte : \E pos \in 0 .. Width[a] - 1 :
            /\ Fits(a) /\ bytes' = [bytes EXCEPT ![Offset[a] + pos] = v]
            /\ UNCHANGED <<build, status>> /\ held' = held
    BY <1>11 DEF WriteElement, Answer
  <2>2. a \in Members /\ Returns(a)
    BY <2>1, WriteElementWrites DEF Returns, Members
  <2> QED
    BY <1>0, <1>2, <2>1, <2>2, ReturnsIInv
<1>12. CASE MeasureString
  <2>1. UNCHANGED <<bytes, build, status>> /\ held' = held
    BY <1>12 DEF MeasureString, Answer
  <2> QED
    BY <1>0, <1>2, <2>1, QuietIInv
<1>13. CASE AssignArray
  <2>1. PICK a \in Arrays, s \in Strings, mode \in {"none", "single", "all"} :
            Fits(a) /\ (AssignMeasured(a, s, mode) \/ AssignRange(a, s, mode))
    BY <1>13 DEF AssignArray
  <2>2. a \in Members /\ Width[a] \in Nat /\ Len(s) \in Nat
    BY BitsOfMember, StringBytes DEF Members
  <2>3. CASE Len(s) <= Width[a]
    <3>1. /\ bytes' = Assign(a, s, mode)
          /\ UNCHANGED <<build, status>> /\ held' = held
      BY <2>1, <2>2, <2>3 DEF AssignMeasured, AssignRange, Answer
    <3>2. Returns(a)
      BY <2>1, <2>3, <3>1, AssignWrites DEF Returns
    <3> QED
      BY <1>0, <1>2, <2>2, <3>1, <3>2, ReturnsIInv
  <2>4. CASE Len(s) > Width[a]
    <3>1. /\ Fail(a, Len(s))
          /\ bytes' = bytes \/ bytes' = Assign(a, s, "none")
      BY <2>1, <2>2, <2>4 DEF AssignMeasured, AssignRange
    <3>2. bytes' \in [Buffer -> Byte]
      BY <1>0, <2>4, <3>1, OverrunWrites
    <3>3. Fails(a, Len(s))
      BY <2>4, <3>1, <3>2 DEF Fails
    <3> QED
      BY <2>2, <3>3, FailsIInv
  <2> QED
    BY <2>2, <2>3, <2>4
<1> QED
  BY <1>3, <1>4, <1>5, <1>6, <1>7, <1>8, <1>9, <1>10, <1>11, <1>12, <1>13 DEF Next

THEOREM Inductive == Spec => []IInv
<1>1. Init => IInv
  BY InitIInv
<1>2. IInv /\ [Next]_vars => IInv'
  BY NextIInv
<1> QED
  BY <1>1, <1>2, PTL DEF Spec

\* The buffer always holds bytes, and the client's copy of the set has the
\* width of the set.
THEOREM TypeCorrect == Spec => []TypeOK
<1>1. IInv => TypeOK
  BY DEF IInv
<1> QED
  BY <1>1, Inductive, PTL

\* Assertions fail when they have to, and only then: until one fails, no byte
\* behind the view and none between members is written.  (SBEPP_SIZE_CHECK,
\* the assertions of static_array_ref, pad())
THEOREM MembersGuarded == Spec => []AssertsGuardMembers
<1>1. IInv => AssertsGuardMembers
  BY DEF IInv
<1> QED
  BY <1>1, Inductive, PTL

-----------------------------------------------------------------------------
(* The bit operations of sets.                                             *)

\* 1 << n is a bit of an int, and its sign only if the set is not wider.
ChoicesFitInt ==
    \A n \in Choice :
        n < IntBits - 1 \/ (n = IntBits - 1 /\ Width[Set] * ByteBits <= IntBits)

LEMMA ChoiceIsBit ==
    ASSUME ChoicesFitInt, NEW n \in Choice
    PROVE  /\ n \in SetBits /\ n \in Ints
           /\ \A b : Shifted(b, n) = {IF b THEN {n} ELSE {}}
           /\ \/ n # IntBits - 1
              \/ SetBits \subseteq Ints
<1>1. PICK w, l \in Nat : w = Width[Set] * ByteBits /\ l = IntBits
  <2>1. Width[Set] * ByteBits \in Nat
    BY SetIsMember, BitsOfMember, BytesNatural
  <2> QED
    BY <2>1, BitsAssumption
<1>2. n \in 0 .. w - 1
  BY <1>1, ChoiceAssumption
<1>3. n < l - 1 \/ (n = l - 1 /\ w <= l)
  BY <1>1 DEF ChoicesFitInt
<1>4. n < l
  BY <1>1, <1>2, <1>3
<1> QED
  BY <1>1, <1>2, <1>3, <1>4 DEF SetBits, Bits, Ints, Shifted

LEMMA ChoiceAlone ==
    ASSUME ChoicesFitInt, NEW n \in Choice
    PROVE  Extended({n}) \cap SetBits = {n}
<1>1. CASE n # IntBits - 1
  <2>1. Extended({n}) = {n}
    BY <1>1 DEF Extended
  <2> QED
    BY <2>1, ChoiceIsBit
<1>2. CASE SetBits \subseteq Ints
  <2>1. ASSUME NEW i \in SetBits
        PROVE  ~(i >= IntBits)
    <3>1. i \in 0 .. IntBits - 1
      BY <1>2 DEF Ints
    <3> QED
      BY <3>1, BitsAssumption
  <2>2. Extended({n}) = {n}
    BY <2>1 DEF Extended
  <2> QED
    BY <2>2, ChoiceIsBit
<1> QED
  BY <1>1, <1>2, ChoiceIsBit

\* operator[] of a set.
LEMMA ChoiceIsRead ==
    ASSUME ChoicesFitInt, NEW n \in Choice, NEW v \in SUBSET SetBits
    PROVE  GetBit(v, n) = {(n \in v)}
<1>1. Shifted(TRUE, n) = {{n}}
  BY ChoiceIsBit
<1>2. v \cap Extended({n}) # {} <=> n \in v
  BY ChoiceIsBit, ChoiceAlone
<1>3. GetBit(v, n) = {(v \cap Extended({n}) # {})}
  BY <1>1, Zenon DEF GetBit
<1>4. CASE n \in v
  <2>1. (v \cap Extended({n}) # {}) = TRUE /\ (n \in v) = TRUE
    BY <1>2, <1>4, Zenon
  <2> QED
    BY <1>3, <2>1, Zenon
<1>5. CASE n \notin v
  <2>1. v \cap Extended({n}) = {}
    BY <1>2, <1>5
  <2>2. (v \cap Extended({n}) # {}) = FALSE
    BY <2>1
  <2>3. (n \in v) = FALSE
    BY <1>5
  <2> QED
    BY <1>3, <2>2, <2>3, Zenon
<1> QED
  BY <1>4, <1>5

\* The setters of a set.
LEMMA ChoiceIsSet ==
    ASSUME ChoicesFitInt, NEW n \in Choice, NEW b \in BOOLEAN,
           NEW v \in SUBSET SetBits
    PROVE  SetBit(v, n, b) = {IF b THEN v \cup {n} ELSE v \ {n}}
<1> DEFINE y == IF b THEN {n} ELSE {}
           kept == v \cap Extended(Ints \ {n})
<1>1. Shifted(TRUE, n) = {{n}} /\ Shifted(b, n) = {y}
  BY ChoiceIsBit
<1>2. kept = v \ {n}
  <2>0. \A i \in SetBits : i \in Ints \/ i >= IntBits
    <3>1. \A i \in SetBits : i \in Nat
      BY DEF SetBits, Bits
    <3> QED
      BY <3>1, BitsAssumption DEF Ints
  <2>1. CASE n # IntBits - 1
    <3>1. IntBits - 1 \in Ints \ {n}
      BY <2>1, BitsAssumption DEF Ints
    <3>2. Extended(Ints \ {n}) = (Ints \ {n}) \cup {i \in SetBits : i >= IntBits}
      BY <3>1 DEF Extended
    <3>3. ~(n >= IntBits)
      BY ChoiceIsBit, BitsAssumption DEF Ints
    <3> QED
      BY <2>0, <3>2, <3>3
  <2>2. CASE n = IntBits - 1 /\ SetBits \subseteq Ints
    <3>1. Extended(Ints \ {n}) = Ints \ {n}
      BY <2>2 DEF Extended
    <3> QED
      BY <2>2, <3>1
  <2> QED
    BY <2>1, <2>2, ChoiceIsBit
<1>3. Extended(y) \cap SetBits = y
  <2>1. Extended({}) = {}
    BY DEF Extended
  <2> QED
    BY <2>1, ChoiceAlone
<1>4. SetBit(v, n, b) = {(kept \cup Extended(y)) \cap SetBits}
  <2>1. ASSUME NEW w \in SetBit(v, n, b)
        PROVE  w = (kept \cup Extended(y)) \cap SetBits
    <3>1. PICK c \in Shifted(TRUE, n), d \in Shifted(b, n) :
              w = ((v \cap Extended(Ints \ c)) \cup Extended(d)) \cap SetBits
      BY Zenon DEF SetBit
    <3> QED
      BY <1>1, <3>1
  <2>2. (kept \cup Extended(y)) \cap SetBits \in SetBit(v, n, b)
    <3>1. {n} \in Shifted(TRUE, n) /\ y \in Shifted(b, n)
      BY <1>1
    <3> DEFINE f(d) == {((v \cap Extended(Ints \ c)) \cup Extended(d)) \cap SetBits :
                            c \in Shifted(TRUE, n)}
    <3>2. (kept \cup Extended(y)) \cap SetBits \in f(y)
      BY <3>1
    <3>3. f(y) \in {f(d) : d \in Shifted(b, n)}
      BY <3>1
    <3>4. SetBit(v, n, b) = UNION {f(d) : d \in Shifted(b, n)}
      BY Zenon DEF SetBit
    <3> HIDE DEF f, kept, y
    <3> QED
      BY <3>2, <3>3, <3>4, Zenon
  <2> QED
    BY <2>1, <2>2, Zenon
<1>5. (kept \cup Extended(y)) \cap SetBits = (v \ {n}) \cup y
  BY <1>2, <1>3
<1>6. (v \ {n}) \cup y = IF b THEN v \cup {n} ELSE v \ {n}
  OBVIOUS
<1> QED
  BY <1>4, <1>5, <1>6

\* A choice changed to b is b and the others are what they were, in a set
\* whose choices fit an int.
THEOREM ChoicesAreIndependent ==
    ASSUME ChoicesFitInt
    PROVE  Spec => ChoicesIndependent
<1>1. ASSUME IInv, NEW n \in Choice, NEW b \in BOOLEAN, Choose(n, b)
      PROVE  held' = IF b THEN held \cup {n} ELSE held \ {n}
  <2>1. held \in SUBSET SetBits
    BY <1>1, TypeOfBytes DEF IInv
  <2> QED
    BY <1>1, <2>1, ChoiceIsSet DEF Choose
<1>2. IInv => \A n \in Choice, b \in BOOLEAN : Choose(n, b) =>
                  held' = IF b THEN held \cup {n} ELSE held \ {n}
  BY <1>1
<1>3. IInv /\ [Next]_vars => [\A n \in Choice, b \in BOOLEAN : Choose(n, b) =>
          held' = IF b THEN held \cup {n} ELSE held \ {n}]_vars
  BY <1>2
<1> QED
  BY <1>3, Inductive, PTL DEF Spec, ChoicesIndependent

-----------------------------------------------------------------------------
(* Members as variables of their own.                                      *)

LEMMA MembersUnwritten ==
    ASSUME UNCHANGED bytes
    PROVE  UNCHANGED Store!members
<1>1. \A m \in Members : WireValue(m)' = WireValue(m)
  BY SameCells
<1>2. StoredNumbers' = StoredNumbers
  BY <1>1 DEF StoredNumbers, Members
<1>3. StoredArrays' = StoredArrays
  BY DEF StoredArrays
<1>4. StoredSet' = StoredSet
  BY <1>1 DEF StoredSet, Members
<1> QED
  BY <1>2, <1>3, <1>4 DEF Store!members

LEMMA OthersUnwritten ==
    ASSUME NEW m \in Members, WritesOnly(m)
    PROVE  /\ \A o \in Numbers \ {m} : StoredNumbers'[o] = StoredNumbers[o]
           /\ \A o \in Arrays \ {m} : StoredArrays'[o] = StoredArrays[o]
           /\ m # Set => StoredSet' = StoredSet
<1>1. ASSUME NEW o \in Members \ {m}
      PROVE  WireValue(o)' = WireValue(o)
  BY OthersKept, SameCells
<1>2. \A o \in Numbers \ {m} : StoredNumbers'[o] = StoredNumbers[o]
  BY <1>1 DEF StoredNumbers, Members
<1>3. ASSUME NEW o \in Arrays \ {m}
      PROVE  StoredArrays'[o] = StoredArrays[o]
  <2>1. o \in Members /\ \A p \in Cells(o) : bytes'[p] = bytes[p]
    BY OthersKept DEF Members
  <2>2. \A i \in 1 .. Width[o] : bytes'[Offset[o] + i - 1] = bytes[Offset[o] + i - 1]
    BY <2>1, CellsInBuffer
  <2>3. /\ StoredArrays[o] = [i \in 1 .. Width[o] |-> bytes[Offset[o] + i - 1]]
        /\ StoredArrays'[o] = [i \in 1 .. Width[o] |-> bytes'[Offset[o] + i - 1]]
    BY DEF StoredArrays
  <2> QED
    BY <2>2, <2>3
<1>4. m # Set => StoredSet' = StoredSet
  BY <1>1, SetIsMember DEF StoredSet
<1> QED
  BY <1>2, <1>3, <1>4

\* Writing one of the members changes the variable of that member only.
LEMMA NumberStored ==
    ASSUME NEW m \in Numbers, WritesOnly(m)
    PROVE  /\ StoredNumbers' =
                  [StoredNumbers EXCEPT ![m] = Num(WireValue(m)', Width[m])]
           /\ StoredArrays' = StoredArrays /\ StoredSet' = StoredSet
<1>1. m \in Members /\ m \notin Arrays /\ m # Set
  BY MembersAssumption DEF Members
<1>2. StoredArrays' = StoredArrays /\ StoredSet' = StoredSet
  <2>1. \A o \in Arrays : StoredArrays'[o] = StoredArrays[o]
    BY <1>1, OthersUnwritten
  <2> QED
    BY <1>1, <2>1, OthersUnwritten DEF StoredArrays
<1>3. StoredNumbers'[m] = Num(WireValue(m)', Width[m])
  BY DEF StoredNumbers
<1>4. \A o \in Numbers \ {m} : StoredNumbers'[o] = StoredNumbers[o]
  BY <1>1, OthersUnwritten
<1>5. /\ StoredNumbers = [o \in Numbers |-> StoredNumbers[o]]
      /\ StoredNumbers' = [o \in Numbers |-> StoredNumbers'[o]]
  BY DEF StoredNumbers
<1> QED
  BY <1>2, <1>3, <1>4, <1>5

LEMMA ArrayStored ==
    ASSUME NEW a \in Arrays, WritesOnly(a)
    PROVE  /\ StoredArrays' = [StoredArrays EXCEPT ![a] =
                  [i \in 1 .. Width[a] |-> bytes'[Offset[a] + i - 1]]]
           /\ StoredNumbers' = StoredNumbers /\ StoredSet' = StoredSet
<1>1. a \in Members /\ a \notin Numbers /\ a # Set
  BY MembersAssumption DEF Members
<1>2. StoredNumbers' = StoredNumbers /\ StoredSet' = StoredSet
  <2>1. \A o \in Numbers : StoredNumbers'[o] = StoredNumbers[o]
    BY <1>1, OthersUnwritten
  <2> QED
    BY <1>1, <2>1, OthersUnwritten DEF StoredNumbers
<1>3. StoredArrays'[a] = [i \in 1 .. Width[a] |-> bytes'[Offset[a] + i - 1]]
  BY DEF StoredArrays
<1>4. \A o \in Arrays \ {a} : StoredArrays'[o] = StoredArrays[o]
  BY <1>1, OthersUnwritten
<1>5. /\ StoredArrays = [o \in Arrays |-> StoredArrays[o]]
      /\ StoredArrays' = [o \in Arrays |-> StoredArrays'[o]]
  BY DEF StoredArrays
<1> QED
  BY <1>2, <1>3, <1>4, <1>5

LEMMA SetStored ==
    ASSUME WritesOnly(Set)
    PROVE  /\ StoredSet' = WireValue(Set)'
           /\ StoredNumbers' = StoredNumbers /\ StoredArrays' = StoredArrays
<1>1. Set \in Members /\ Set \notin Numbers /\ Set \notin Arrays
  BY MembersAssumption DEF Members
<1>2. /\ \A o \in Numbers : StoredNumbers'[o] = StoredNumbers[o]
      /\ \A o \in Arrays : StoredArrays'[o] = StoredArrays[o]
  BY <1>1, OthersUnwritten
<1> QED
  BY <1>2 DEF StoredSet, StoredNumbers, StoredArrays

\* An array as a sequence.
LEMMA ArrayIsSequence ==
    ASSUME IInv, NEW a \in Arrays
    PROVE  /\ StoredArrays[a] \in Seq(Byte)
           /\ Len(StoredArrays[a]) = Width[a]
           /\ \A i \in 0 .. Width[a] - 1 :
                  StoredArrays[a][i + 1] = bytes[Offset[a] + i]
<1>1. a \in Members /\ Offset[a] \in Nat /\ Width[a] \in Nat
  BY BitsOfMember DEF Members
<1>2. StoredArrays[a] = [i \in 1 .. Width[a] |-> bytes[Offset[a] + i - 1]]
  BY DEF StoredArrays
<1>3. ASSUME NEW i \in 1 .. Width[a]
      PROVE  bytes[Offset[a] + i - 1] \in Byte
  BY <1>1, CellsInBuffer, TypeOfBytes DEF IInv
<1>4. ASSUME NEW i \in 0 .. Width[a] - 1
      PROVE  StoredArrays[a][i + 1] = bytes[Offset[a] + i]
  <2>1. i + 1 \in 1 .. Width[a] /\ Offset[a] + (i + 1) - 1 = Offset[a] + i
    BY <1>1
  <2> QED
    BY <1>2, <2>1
<1>5. StoredArrays[a] \in [1 .. Width[a] -> Byte]
  BY <1>2, <1>3
<1>6. StoredArrays[a] \in Seq(Byte)
  BY <1>1, <1>5, SeqDef
<1>7. DOMAIN StoredArrays[a] = 1 .. Width[a]
  BY <1>2
<1>8. Len(StoredArrays[a]) = Width[a]
  BY <1>1, <1>6, <1>7, LenProperties
<1> QED
  BY <1>4, <1>6, <1>8

\* Min and Max return what they are named for.
LEMMA MinIsLeast ==
    ASSUME NEW S \in SUBSET Nat, S # {}
    PROVE  Min(S) \in S /\ \A y \in S : Min(S) <= y
BY LeastNatural, Zenon DEF Min

LEMMA MaxIsGreatest ==
    ASSUME NEW b \in Nat, NEW S \in SUBSET (0 .. b), S # {}
    PROVE  Max(S) \in S /\ \A y \in S : y <= Max(S)
<1>1. PICK x \in S : \A y \in S : y <= x
  BY GreatestNatural
<1>2. \A y \in S : x >= y
  BY <1>1
<1>3. Max(S) \in S /\ \A y \in S : Max(S) >= y
  BY <1>2, Zenon DEF Max
<1> QED
  BY <1>3

\* What the array's sequence says of its length before the first null.
LEMMA LengthOfString ==
    ASSUME IInv, NEW a \in Arrays, NEW n \in 0 .. Width[a],
           \A i \in 0 .. n - 1 : bytes[Offset[a] + i] # Nul,
           n < Width[a] => bytes[Offset[a] + n] = Nul
    PROVE  Store!StrLen(StoredArrays[a]) = n
<1> DEFINE f == StoredArrays[a]
           measures(k) == /\ \A i \in 1 .. k : f[i] # Nul
                          /\ k < Len(f) => f[k + 1] = Nul
<1>1. PICK w \in Nat : w = Width[a] /\ w = Len(f)
  BY ArrayIsSequence, BitsOfMember DEF Members
<1>2. \A i \in 0 .. w - 1 : f[i + 1] = bytes[Offset[a] + i]
  BY <1>1, ArrayIsSequence
<1>3. n \in 0 .. w
  BY <1>1
<1>4. measures(n)
  <2>1. ASSUME NEW i \in 1 .. n
        PROVE  f[i] # Nul
    <3>1. PICK j \in 0 .. n - 1 : i = j + 1
      OBVIOUS
    <3>2. j \in 0 .. w - 1
      BY <1>3
    <3>3. f[j + 1] # Nul
      BY <1>2, <3>2
    <3> QED
      BY <3>1, <3>3
  <2>2. ASSUME n < w
        PROVE  f[n + 1] = Nul
    BY <1>1, <1>2, <1>3, <2>2
  <2> QED
    BY <1>1, <2>1, <2>2
<1>5. ASSUME NEW k \in 0 .. w, measures(k)
      PROVE  k = n
  <2>1. ASSUME k < n
        PROVE  FALSE
    <3>1. k + 1 \in 1 .. n /\ k < w
      BY <1>3, <2>1
    <3> QED
      BY <1>1, <1>4, <1>5, <3>1
  <2>2. ASSUME n < k
        PROVE  FALSE
    <3>1. n + 1 \in 1 .. k /\ n < w
      BY <1>3, <2>2
    <3> QED
      BY <1>1, <1>4, <1>5, <3>1
  <2> QED
    BY <1>3, <2>1, <2>2
<1>6. Store!StrLen(f) = CHOOSE k \in 0 .. w : measures(k)
  BY <1>1 DEF Store!StrLen
<1> HIDE DEF measures
<1>7. (CHOOSE k \in 0 .. w : measures(k)) = n
  BY <1>3, <1>4, <1>5, Zenon
<1> QED
  BY <1>6, <1>7

\* And without the nulls at its end.
LEMMA LengthWithoutPadding ==
    ASSUME IInv, NEW a \in Arrays, NEW n \in 0 .. Width[a],
           \A i \in n .. Width[a] - 1 : bytes[Offset[a] + i] = Nul,
           n > 0 => bytes[Offset[a] + n - 1] # Nul
    PROVE  Store!StrLenR(StoredArrays[a]) = n
<1> DEFINE f == StoredArrays[a]
           measures(k) == /\ \A i \in k + 1 .. Len(f) : f[i] = Nul
                          /\ k > 0 => f[k] # Nul
<1>0. a \in Members /\ Offset[a] \in Nat
  BY BitsOfMember DEF Members
<1>1. PICK w \in Nat : w = Width[a] /\ w = Len(f)
  BY ArrayIsSequence, BitsOfMember DEF Members
<1>2. \A i \in 0 .. w - 1 : f[i + 1] = bytes[Offset[a] + i]
  BY <1>1, ArrayIsSequence
<1>3. n \in 0 .. w
  BY <1>1
<1>4. measures(n)
  <2>1. ASSUME NEW i \in n + 1 .. w
        PROVE  f[i] = Nul
    <3>1. PICK j \in n .. w - 1 : i = j + 1
      BY <1>3
    <3>2. j \in 0 .. w - 1
      BY <1>3
    <3>3. f[j + 1] = Nul
      BY <1>1, <1>2, <3>1, <3>2
    <3> QED
      BY <3>1, <3>3
  <2>2. ASSUME n > 0
        PROVE  f[n] # Nul
    <3>1. PICK j \in 0 .. w - 1 : n = j + 1
      BY <1>3, <2>2
    <3>2. Offset[a] + n - 1 = Offset[a] + j
      BY <1>0, <3>1
    <3> QED
      BY <1>2, <2>2, <3>1, <3>2
  <2> QED
    BY <1>1, <2>1, <2>2
<1>5. ASSUME NEW k \in 0 .. w, measures(k)
      PROVE  k = n
  <2>1. ASSUME k < n
        PROVE  FALSE
    <3>1. n \in k + 1 .. w /\ n > 0
      BY <1>3, <2>1
    <3> QED
      BY <1>1, <1>4, <1>5, <3>1
  <2>2. ASSUME n < k
        PROVE  FALSE
    <3>1. k \in n + 1 .. w /\ k > 0
      BY <1>3, <2>2
    <3> QED
      BY <1>1, <1>4, <1>5, <3>1
  <2> QED
    BY <1>3, <2>1, <2>2
<1>6. Store!StrLenR(f) = CHOOSE k \in 0 .. w : measures(k)
  BY <1>1 DEF Store!StrLenR
<1> HIDE DEF measures
<1>7. (CHOOSE k \in 0 .. w : measures(k)) = n
  BY <1>3, <1>4, <1>5, Zenon
<1> QED
  BY <1>6, <1>7

\* strlen() at run time.
LEMMA StrLenMeasures ==
    ASSUME IInv, NEW a \in Arrays
    PROVE  StrLen(a) = Store!StrLen(StoredArrays[a])
<1> DEFINE nulls == {i \in 0 .. Width[a] - 1 : bytes[Offset[a] + i] = Nul}
<1>1. Width[a] \in Nat \ {0}
  BY BitsOfMember DEF Members
<1>2. StrLen(a) = IF nulls = {} THEN Width[a] ELSE Min(nulls)
  BY DEF StrLen
<1>3. CASE nulls = {}
  <2>1. \A i \in 0 .. Width[a] - 1 : bytes[Offset[a] + i] # Nul
    BY <1>3
  <2>2. Store!StrLen(StoredArrays[a]) = Width[a]
    BY <1>1, <2>1, LengthOfString
  <2> QED
    BY <1>2, <1>3, <2>2
<1>4. CASE nulls # {}
  <2>1. PICK n : n = Min(nulls)
    OBVIOUS
  <2>2. nulls \in SUBSET Nat
    BY <1>1
  <2>3. n \in nulls /\ \A y \in nulls : n <= y
    BY <1>4, <2>1, <2>2, MinIsLeast
  <2>4. n \in 0 .. Width[a] - 1 /\ bytes[Offset[a] + n] = Nul
    BY <2>3
  <2>5. ASSUME NEW i \in 0 .. n - 1
        PROVE  bytes[Offset[a] + i] # Nul
    <3>1. ~(n <= i) /\ i \in 0 .. Width[a] - 1
      BY <1>1, <2>4
    <3> QED
      BY <2>3, <3>1
  <2>6. Store!StrLen(StoredArrays[a]) = n
    <3>1. n \in 0 .. Width[a]
      BY <1>1, <2>4
    <3> QED
      BY <2>4, <2>5, <3>1, LengthOfString
  <2> QED
    BY <1>2, <1>4, <2>1, <2>6
<1> QED
  BY <1>3, <1>4

\* strlen() in a constant expression, of an array that has a null.
LEMMA StrLenConstantMeasures ==
    ASSUME IInv, NEW a \in Arrays, HasNull(a)
    PROVE  StrLenConstant(a) = Store!StrLen(StoredArrays[a])
<1> DEFINE nulls == {i \in 0 .. BufferSize - 1 - Offset[a] : bytes[Offset[a] + i] = Nul}
<1>1. /\ Width[a] \in Nat \ {0} /\ Offset[a] \in Nat /\ BufferSize \in Nat
      /\ Offset[a] + Width[a] <= BufferSize
  BY BitsOfMember, BuffersAssumption DEF Members
<1>2. PICK n : n = StrLenConstant(a) /\ n = Min(nulls)
  BY DEF StrLenConstant
<1>3. PICK z \in 0 .. Width[a] - 1 : bytes[Offset[a] + z] = Nul
  BY DEF HasNull
<1>4. z \in nulls /\ nulls \in SUBSET Nat
  BY <1>1, <1>3
<1>5. n \in nulls /\ \A y \in nulls : n <= y
  BY <1>2, <1>4, MinIsLeast
<1>6. n \in 0 .. Width[a] - 1 /\ bytes[Offset[a] + n] = Nul
  BY <1>1, <1>3, <1>4, <1>5
<1>7. ASSUME NEW i \in 0 .. n - 1
      PROVE  bytes[Offset[a] + i] # Nul
  <2>1. ~(n <= i) /\ i \in 0 .. BufferSize - 1 - Offset[a]
    BY <1>1, <1>6
  <2> QED
    BY <1>5, <2>1
<1>8. n \in 0 .. Width[a]
  BY <1>1, <1>6
<1> QED
  BY <1>2, <1>6, <1>7, <1>8, LengthOfString

\* strlen_r().
LEMMA StrLenRMeasures ==
    ASSUME IInv, NEW a \in Arrays
    PROVE  StrLenR(a) = Store!StrLenR(StoredArrays[a])
<1> DEFINE ends == {0} \cup {i \in 1 .. Width[a] : bytes[Offset[a] + i - 1] # Nul}
<1>1. Width[a] \in Nat \ {0} /\ Offset[a] \in Nat
  BY BitsOfMember DEF Members
<1>2. PICK n : n = StrLenR(a) /\ n = Max(ends)
  BY DEF StrLenR
<1>3. ends \in SUBSET (0 .. Width[a]) /\ ends # {}
  BY <1>1
<1>4. n \in ends /\ \A y \in ends : y <= n
  BY <1>1, <1>2, <1>3, MaxIsGreatest
<1>5. n \in 0 .. Width[a]
  BY <1>3, <1>4
<1>6. ASSUME NEW i \in n .. Width[a] - 1
      PROVE  bytes[Offset[a] + i] = Nul
  <2>1. PICK k \in 1 .. Width[a] : k = i + 1
    BY <1>1, <1>5
  <2>2. k \notin ends
    BY <1>4, <1>5, <2>1
  <2>3. Offset[a] + k - 1 = Offset[a] + i
    BY <1>1, <2>1
  <2> QED
    BY <2>2, <2>3
<1>7. n > 0 => bytes[Offset[a] + n - 1] # Nul
  BY <1>4
<1> QED
  BY <1>2, <1>5, <1>6, <1>7, LengthWithoutPadding

\* Optional numbers, whose null value is a value like any other.
LEMMA NumberIsOptional ==
    ASSUME ~NullIsNaN, NEW u \in Int, NEW v \in Int
    PROVE  /\ HasValue(u) = (u # Null)
           /\ ValueOr(u, v) = IF u = Null THEN v ELSE u
           /\ InRange(u) = (u \in MinValue .. MaxValue)
           /\ ThreeWay(u, v) = Store!Order(u, v)
           /\ <<Equal(u, v), Less(u, v), LessOrEqual(u, v),
                Greater(u, v), GreaterOrEqual(u, v)>> =
                  Store!Operators(Store!Order(u, v))
<1>1. Null \in Int /\ MinValue \in Int /\ MaxValue \in Int
  BY RangeAssumption
<1>2. ASSUME NEW x \in Int
      PROVE  HasValue(x) <=> x # Null
  BY DEF HasValue, IsNull
<1>3. HasValue(u) = (u # Null)
  <2>1. CASE u = Null
    BY <2>1 DEF HasValue, IsNull
  <2>2. CASE u # Null
    BY <2>2 DEF HasValue, IsNull
  <2> QED
    BY <2>1, <2>2
<1>4. ValueOr(u, v) = IF u = Null THEN v ELSE u
  BY <1>2 DEF ValueOr
<1>5. InRange(u) = (u \in MinValue .. MaxValue)
  <2>1. InRange(u) <=> u \in MinValue .. MaxValue
    BY <1>1 DEF InRange
  <2>2. InRange(u) \in BOOLEAN
    BY DEF InRange
  <2> QED
    BY <2>1, <2>2
<1>6. ThreeWay(u, v) = Store!Order(u, v)
  BY <1>1, <1>2 DEF ThreeWay, Store!Order
<1>7. <<Equal(u, v), Less(u, v), LessOrEqual(u, v),
        Greater(u, v), GreaterOrEqual(u, v)>> = Store!Operators(Store!Order(u, v))
  <2>1. /\ Equal(u, v) = (Store!Order(u, v) = "equal")
        /\ Less(u, v) = (Store!Order(u, v) = "less")
        /\ LessOrEqual(u, v) = (Store!Order(u, v) \in {"less", "equal"})
        /\ Greater(u, v) = (Store!Order(u, v) = "greater")
        /\ GreaterOrEqual(u, v) = (Store!Order(u, v) \in {"greater", "equal"})
    BY <1>1, <1>2 DEF Equal, Less, LessOrEqual, Greater, GreaterOrEqual, Store!Order
  <2> QED
    BY <2>1 DEF Store!Operators
<1> QED
  BY <1>3, <1>4, <1>5, <1>6, <1>7

\* The number that a getter returns.
LEMMA GetIsStored ==
    ASSUME IInv, NEW m \in Numbers
    PROVE  /\ Num(Get(m), Width[m]) = StoredNumbers[m]
           /\ StoredNumbers[m] \in Nat
<1>1. m \in Members /\ native \in Hosts /\ Width[m] \in Nat
  BY TypeOfBytes, BitsOfMember DEF IInv, Members
<1>2. Get(m) = WireValue(m)
  BY <1>1, GetIsWire
<1> QED
  BY <1>1, <1>2, NumIsNumber DEF StoredNumbers

LEMMA InputsAreNumbers ==
    ASSUME NEW m \in Numbers, NEW v \in Inputs
    PROVE  v \in Nat /\ Num(Val(v, Width[m]), Width[m]) = v
<1>1. m \in Members /\ Holds(m, v)
  BY InputsAssumption DEF Members
<1> QED
  BY <1>1, NumOfVal DEF Holds

LEMMA ReadNumberStep ==
    ASSUME IInv, ~NullIsNaN, ReadNumber
    PROVE  Store!ReadNumber
<1>1. PICK m \in Numbers :
          LET u == Num(Get(m), Width[m]) IN
          \/ Answer("get", u)
          \/ Answer("has_value", HasValue(u))
          \/ \E v \in Inputs : Answer("value_or", ValueOr(u, v))
          \/ Answer("in_range", InRange(u))
          \/ \E v \in Inputs : Answer("compare", ThreeWay(u, v))
          \/ \E v \in Inputs :
                 Answer("operators",
                        <<Equal(u, v), Less(u, v), LessOrEqual(u, v),
                          Greater(u, v), GreaterOrEqual(u, v)>>)
  BY DEF ReadNumber
<1>2. PICK u \in Nat : u = StoredNumbers[m] /\ u = Num(Get(m), Width[m])
  BY GetIsStored
<1>3. UNCHANGED <<Store!members, held>>
  BY MembersUnwritten DEF ReadNumber
<1>4. ASSUME NEW call, NEW value, Answer(call, value)
      PROVE  Store!Answers(call, value)
  BY <1>3, <1>4 DEF Answer, Store!Answers
<1>5. CASE Answer("get", u)
  BY <1>2, <1>4, <1>5 DEF Store!ReadNumber
<1>6. CASE Answer("has_value", HasValue(u))
  <2>1. HasValue(u) = (u # Null)
    BY NumberIsOptional
  <2>2. Store!Answers("has_value", u # Null)
    BY <1>4, <1>6, <2>1, Zenon
  <2> QED
    BY <1>2, <2>2 DEF Store!ReadNumber
<1>7. CASE Answer("in_range", InRange(u))
  <2>1. InRange(u) = (u \in MinValue .. MaxValue)
    BY NumberIsOptional
  <2>2. Store!Answers("in_range", u \in MinValue .. MaxValue)
    BY <1>4, <1>7, <2>1, Zenon
  <2> QED
    BY <1>2, <2>2 DEF Store!ReadNumber
<1>8. ASSUME NEW v \in Inputs,
             \/ Answer("value_or", ValueOr(u, v))
             \/ Answer("compare", ThreeWay(u, v))
             \/ Answer("operators",
                       <<Equal(u, v), Less(u, v), LessOrEqual(u, v),
                         Greater(u, v), GreaterOrEqual(u, v)>>)
      PROVE  Store!ReadNumber
  <2>1. v \in Nat
    BY InputsAreNumbers
  <2>2. CASE Answer("value_or", ValueOr(u, v))
    <3>1. Store!Answers("value_or", IF u = Null THEN v ELSE u)
      BY <1>4, <2>1, <2>2, NumberIsOptional
    <3> QED
      BY <1>2, <3>1 DEF Store!ReadNumber
  <2>3. CASE Answer("compare", ThreeWay(u, v))
    <3>1. Store!Answers("compare", Store!Order(u, v))
      BY <1>4, <2>1, <2>3, NumberIsOptional
    <3> QED
      BY <1>2, <3>1 DEF Store!ReadNumber
  <2>4. CASE Answer("operators",
                    <<Equal(u, v), Less(u, v), LessOrEqual(u, v),
                      Greater(u, v), GreaterOrEqual(u, v)>>)
    <3>1. Store!Answers("operators", Store!Operators(Store!Order(u, v)))
      BY <1>4, <2>1, <2>4, NumberIsOptional
    <3> QED
      BY <1>2, <3>1 DEF Store!ReadNumber
  <2> QED
    BY <1>8, <2>2, <2>3, <2>4
<1> QED
  BY <1>1, <1>2, <1>5, <1>6, <1>7, <1>8

LEMMA WriteNumberStep ==
    ASSUME IInv, WriteNumber
    PROVE  Store!WriteNumber
<1>1. PICK m \in Numbers, v \in Inputs :
          /\ bytes' = Put(m, Val(v, Width[m]))
          /\ answer' = <<"set", v>>
          /\ status' = status /\ held' = held
  BY DEF WriteNumber, Answer
<1>2. WritesOnly(m) /\ WireValue(m)' = Val(v, Width[m])
  BY <1>1, WriteNumberWrites
<1>3. /\ StoredNumbers' = [StoredNumbers EXCEPT ![m] = v]
      /\ StoredArrays' = StoredArrays /\ StoredSet' = StoredSet
  BY <1>2, NumberStored, InputsAreNumbers
<1> QED
  BY <1>1, <1>3 DEF Store!WriteNumber

LEMMA SetStep ==
    ASSUME IInv, ChoicesFitInt,
           \/ CopySet \/ StoreSet \/ VisitSet
           \/ \E n \in Choice, b \in BOOLEAN : Choose(n, b)
    PROVE  Store!UseSet
<1>1. held \in SUBSET SetBits /\ native \in Hosts
  BY TypeOfBytes DEF IInv
<1>2. CASE CopySet
  <2>1. Get(Set) = StoredSet
    BY <1>1, SetIsMember, GetIsWire DEF StoredSet
  <2>2. held' \in {StoredSet, {}} /\ answer' = <<"copy", held'>> /\ status' = status
    BY <1>2, <2>1 DEF CopySet, Answer
  <2>3. UNCHANGED Store!members
    BY <1>2, MembersUnwritten DEF CopySet
  <2> QED
    BY <2>2, <2>3 DEF Store!UseSet
<1>3. CASE StoreSet
  <2>1. /\ bytes' = Put(Set, held)
        /\ answer' = <<"store", held>> /\ status' = status /\ held' = held
    BY <1>3 DEF StoreSet, Answer
  <2>2. /\ StoredSet' = held
        /\ StoredNumbers' = StoredNumbers /\ StoredArrays' = StoredArrays
    BY <2>1, StoreSetWrites, SetStored
  <2> QED
    BY <2>1, <2>2 DEF Store!UseSet
<1>4. CASE VisitSet
  <2>1. PICK seen \in SUBSET Choice :
            /\ \A n \in Choice : (n \in seen) \in GetBit(held, n)
            /\ Answer("visit", seen)
    BY <1>4 DEF VisitSet
  <2>2. ASSUME NEW n \in Choice
        PROVE  n \in seen <=> n \in held
    <3>1. (n \in seen) \in {(n \in held)}
      BY <1>1, <2>1, ChoiceIsRead
    <3> QED
      BY <3>1
  <2>3. seen = held \cap Choice
    BY <2>2
  <2>4. UNCHANGED <<Store!members, held>>
    BY <1>4, MembersUnwritten DEF VisitSet
  <2>5. Store!Answers("visit", held \cap Choice)
    BY <2>1, <2>3, <2>4 DEF Answer, Store!Answers
  <2> QED
    BY <2>5 DEF Store!UseSet
<1>5. ASSUME NEW n \in Choice, NEW b \in BOOLEAN, Choose(n, b)
      PROVE  Store!UseSet
  <2>1. held' = IF b THEN held \cup {n} ELSE held \ {n}
    BY <1>1, <1>5, ChoiceIsSet DEF Choose
  <2>2. answer' = <<"choose", n>> /\ status' = status
    BY <1>5 DEF Choose, Answer
  <2>3. UNCHANGED Store!members
    BY <1>5, MembersUnwritten DEF Choose
  <2> QED
    BY <2>1, <2>2, <2>3 DEF Store!UseSet
<1> QED
  BY <1>2, <1>3, <1>4, <1>5

LEMMA ReadArrayStep ==
    ASSUME IInv, MeasureString
    PROVE  Store!ReadArray
<1>1. PICK a \in Arrays :
          \/ Answer("strlen", StrLen(a))
          \/ HasNull(a) /\ Answer("strlen", StrLenConstant(a))
          \/ Answer("strlen_r", StrLenR(a))
  BY DEF MeasureString
<1>2. UNCHANGED <<Store!members, held>>
  BY MembersUnwritten DEF MeasureString
<1>3. ASSUME NEW call, NEW value, Answer(call, value)
      PROVE  Store!Answers(call, value)
  BY <1>2, <1>3 DEF Answer, Store!Answers
<1>4. \/ Store!Answers("strlen", Store!StrLen(StoredArrays[a]))
      \/ Store!Answers("strlen_r", Store!StrLenR(StoredArrays[a]))
  BY <1>1, <1>3, StrLenMeasures, StrLenConstantMeasures, StrLenRMeasures
<1> QED
  BY <1>4 DEF Store!ReadArray

LEMMA FailStep ==
    ASSUME NEW m, NEW needed, Fail(m, needed), UNCHANGED bytes
    PROVE  Store!Fail
<1>1. status' = "failed" /\ answer' = <<"failed", m, needed>> /\ held' = held
  BY DEF Fail
<1>2. answer'[1] = "failed"
  BY <1>1
<1> QED
  BY <1>1, <1>2, MembersUnwritten DEF Store!Fail

LEMMA ReadElementStep ==
    ASSUME IInv, ReadElement
    PROVE  Store!ReadArray \/ Store!Fail
<1>1. PICK a \in Arrays : \E pos \in 0 .. Width[a] :
          \/ pos < Width[a] /\ Answer("element", bytes[Offset[a] + pos])
          \/ pos >= Width[a] /\ Fail(a, pos + 1)
  BY DEF ReadElement
<1>2. PICK pos \in 0 .. Width[a] :
          \/ pos < Width[a] /\ Answer("element", bytes[Offset[a] + pos])
          \/ pos >= Width[a] /\ Fail(a, pos + 1)
  BY <1>1
<1>3. UNCHANGED <<bytes, held>>
  BY DEF ReadElement
<1>4. CASE pos < Width[a] /\ Answer("element", bytes[Offset[a] + pos])
  <2>1. Width[a] \in Nat
    BY BitsOfMember DEF Members
  <2>2. PICK i : i = pos + 1 /\ i \in 1 .. Width[a] /\ pos \in 0 .. Width[a] - 1
    BY <1>4, <2>1
  <2>3. /\ StoredArrays[a][i] = bytes[Offset[a] + pos]
        /\ i \in 1 .. Len(StoredArrays[a])
    BY <2>2, ArrayIsSequence
  <2>4. Store!Answers("element", StoredArrays[a][i])
    BY <1>3, <1>4, <2>3, MembersUnwritten DEF Answer, Store!Answers
  <2> QED
    BY <2>3, <2>4 DEF Store!ReadArray
<1>5. CASE Fail(a, pos + 1)
  BY <1>3, <1>5, FailStep
<1> QED
  BY <1>2, <1>4, <1>5

LEMMA WriteElementStep ==
    ASSUME IInv, WriteElement
    PROVE  Store!SetElement
<1>1. PICK a \in Arrays, v \in Byte : \E pos \in 0 .. Width[a] - 1 :
          bytes' = [bytes EXCEPT ![Offset[a] + pos] = v]
          /\ answer' = <<"put", v>> /\ status' = status /\ held' = held
  BY DEF WriteElement, Answer
<1>2. PICK pos \in 0 .. Width[a] - 1 : bytes' = [bytes EXCEPT ![Offset[a] + pos] = v]
  BY <1>1
<1>3. Width[a] \in Nat /\ Offset[a] \in Nat
  BY BitsOfMember DEF Members
<1>4. PICK f \in Seq(Byte) : f = StoredArrays[a]
  BY ArrayIsSequence
<1>5. Len(f) = Width[a] /\ DOMAIN f = 1 .. Width[a]
  BY <1>4, ArrayIsSequence, LenProperties
<1>6. PICK i \in 1 .. Width[a] : i = pos + 1
  BY <1>3
<1>7. /\ WritesOnly(a)
      /\ \A j \in 0 .. Width[a] - 1 :
             bytes'[Offset[a] + j] = IF j = pos THEN v ELSE bytes[Offset[a] + j]
  BY <1>2, WriteElementWrites
<1>8. [k \in 1 .. Width[a] |-> bytes'[Offset[a] + k - 1]] = [f EXCEPT ![i] = v]
  <2>1. ASSUME NEW k \in 1 .. Width[a]
        PROVE  bytes'[Offset[a] + k - 1] = [f EXCEPT ![i] = v][k]
    <3>1. PICK j \in 0 .. Width[a] - 1 : k = j + 1
      BY <1>3
    <3>2. Offset[a] + k - 1 = Offset[a] + j /\ (j = pos <=> k = i)
      BY <1>3, <1>6, <3>1
    <3>3. f[k] = bytes[Offset[a] + j]
      BY <1>4, <3>1, ArrayIsSequence
    <3> QED
      BY <1>5, <1>7, <3>2, <3>3
  <2> QED
    BY <1>5, <2>1
<1>9. /\ StoredArrays' = [StoredArrays EXCEPT ![a] = [f EXCEPT ![i] = v]]
      /\ StoredNumbers' = StoredNumbers /\ StoredSet' = StoredSet
  BY <1>7, <1>8, ArrayStored
<1>10. StoredArrays' = [StoredArrays EXCEPT ![a][i] = v]
  BY <1>4, <1>9
<1> QED
  BY <1>1, <1>5, <1>4, <1>9, <1>10 DEF Store!SetElement

\* What is stored of a string that was copied.
LEMMA AssignedElements ==
    ASSUME IInv, NEW a \in Arrays, NEW s \in Strings,
           NEW mode \in {"none", "single", "all"}, NEW cells,
           AsAssigned(a, s, mode, cells)
    PROVE  [i \in 1 .. Width[a] |-> cells[Offset[a] + i - 1]] =
               Store!Assigned(StoredArrays[a], s, mode)
<1>0. Width[a] \in Nat
  BY BitsOfMember DEF Members
<1>1. /\ Width[a] \in Nat /\ Offset[a] \in Nat /\ Len(s) \in Nat
      /\ Len(StoredArrays[a]) = Width[a]
  BY BitsOfMember, StringBytes, ArrayIsSequence DEF Members
<1>2. ASSUME NEW i \in 1 .. Width[a]
      PROVE  cells[Offset[a] + i - 1] =
                 IF i <= Len(s) THEN s[i]
                 ELSE IF mode = "all" \/ (mode = "single" /\ i = Len(s) + 1) THEN Nul
                 ELSE StoredArrays[a][i]
  <2>1. PICK j \in 0 .. Width[a] - 1 : i = j + 1
    BY <1>0
  <2>2. Offset[a] + i - 1 = Offset[a] + j
    BY <1>1, <2>1
  <2>3. j \in Padded(a, Len(s), mode) <=>
            ~(i <= Len(s)) /\ (mode = "all" \/ (mode = "single" /\ i = Len(s) + 1))
    BY <1>1, <2>1 DEF Padded
  <2>4. j < Len(s) <=> i <= Len(s)
    BY <1>1, <2>1
  <2>5. StoredArrays[a][i] = bytes[Offset[a] + j]
    BY <2>1, ArrayIsSequence
  <2> QED
    BY <2>1, <2>2, <2>3, <2>4, <2>5 DEF AsAssigned
<1> QED
  BY <1>1, <1>2 DEF Store!Assigned

LEMMA AssignArrayStep ==
    ASSUME IInv, AssignArray
    PROVE  Store!AssignArray \/ Store!Fail
<1>1. PICK a \in Arrays, s \in Strings, mode \in {"none", "single", "all"} :
          AssignMeasured(a, s, mode) \/ AssignRange(a, s, mode)
  BY DEF AssignArray
<1>2. /\ Width[a] \in Nat /\ Len(s) \in Nat
      /\ Len(StoredArrays[a]) = Width[a]
  BY BitsOfMember, StringBytes, ArrayIsSequence DEF Members
<1>3. CASE Len(s) <= Width[a]
  <2>1. /\ bytes' = Assign(a, s, mode)
        /\ answer' = <<"assign", Len(s)>> /\ status' = status /\ held' = held
    BY <1>1, <1>2, <1>3 DEF AssignMeasured, AssignRange, Answer
  <2>2. WritesOnly(a) /\ AsAssigned(a, s, mode, bytes')
    BY <1>3, <2>1, AssignWrites
  <2>3. [i \in 1 .. Width[a] |-> bytes'[Offset[a] + i - 1]] =
            Store!Assigned(StoredArrays[a], s, mode)
    BY <2>2, AssignedElements
  <2>4. /\ StoredArrays' = [StoredArrays EXCEPT ![a] = Store!Assigned(@, s, mode)]
        /\ StoredNumbers' = StoredNumbers /\ StoredSet' = StoredSet
    BY <2>2, <2>3, ArrayStored
  <2> QED
    BY <1>2, <1>3, <2>1, <2>4 DEF Store!AssignArray, Store!Modes
<1>4. CASE Len(s) > Width[a]
  <2>1. /\ Fail(a, Len(s))
        /\ bytes' = bytes \/ bytes' = Assign(a, s, "none")
    BY <1>1, <1>2, <1>4 DEF AssignMeasured, AssignRange
  <2>2. CASE bytes' = bytes
    BY <2>1, <2>2, FailStep
  <2>3. CASE bytes' = Assign(a, s, "none")
    <3>1. \A i \in 0 .. Width[a] - 1 : bytes'[Offset[a] + i] = s[i + 1]
      BY <1>4, <2>3, OverrunWrites
    <3>2. AsAssigned(a, s, "none", bytes')
      BY <1>2, <1>4, <3>1 DEF AsAssigned, Padded
    <3>3. [i \in 1 .. Width[a] |-> bytes'[Offset[a] + i - 1]] =
              Store!Assigned(StoredArrays[a], s, "none")
      BY <3>2, AssignedElements
    <3>4. StoredArrays'[a] = Store!Assigned(StoredArrays[a], s, "none")
      BY <3>3 DEF StoredArrays
    <3>5. status' = "failed" /\ answer' = <<"failed", a, Len(s)>> /\ held' = held
      BY <2>1 DEF Fail
    <3>6. answer'[1] = "failed"
      BY <3>5
    <3> QED
      BY <1>2, <1>4, <3>4, <3>5, <3>6 DEF Store!Fail
  <2> QED
    BY <2>1, <2>2, <2>3
<1> QED
  BY <1>2, <1>3, <1>4

LEMMA StoreStep ==
    ASSUME IInv, ~NullIsNaN, ChoicesFitInt, [Next]_vars
    PROVE  [Store!Next]_(Store!vars)
<1>1. CASE UNCHANGED vars
  <2>1. UNCHANGED <<bytes, held, answer, status>>
    BY <1>1 DEF vars
  <2> QED
    BY <2>1, MembersUnwritten DEF Store!vars
<1> SUFFICES ASSUME Next
             PROVE  Store!Next
  BY <1>1
<1>2. status = "running"
  BY DEF Next
<1>3. CASE TooShort
  BY <1>2, <1>3, FailStep DEF TooShort, Store!Next
<1>4. CASE ReadNumber
  BY <1>2, <1>4, ReadNumberStep DEF Store!Next
<1>5. CASE WriteNumber
  BY <1>2, <1>5, WriteNumberStep DEF Store!Next
<1>6. CASE \/ CopySet \/ StoreSet \/ VisitSet
           \/ \E n \in Choice, b \in BOOLEAN : Choose(n, b)
  BY <1>2, <1>6, SetStep DEF Store!Next
<1>7. CASE ReadElement
  BY <1>2, <1>7, ReadElementStep DEF Store!Next
<1>8. CASE WriteElement
  BY <1>2, <1>8, WriteElementStep DEF Store!Next
<1>9. CASE MeasureString
  BY <1>2, <1>9, ReadArrayStep DEF Store!Next
<1>10. CASE AssignArray
  BY <1>2, <1>10, AssignArrayStep DEF Store!Next
<1> QED
  BY <1>3, <1>4, <1>5, <1>6, <1>7, <1>8, <1>9, <1>10 DEF Next

\* Byte order, padding, the bit operations of sets, the null value of numbers
\* and offsets together keep members as variables of their own: whatever is
\* written to one is what is read from it, on every host and in both
\* implementations of primitive access, and no write reaches another.  For a
\* null value that is a number, and a set whose choices fit an int: the code
\* promises no more where these two do not hold.
THEOREM BlockStoresMembers ==
    ASSUME ~NullIsNaN, ChoicesFitInt
    PROVE  Spec => MembersAreVariables
<1>1. IInv /\ [Next]_vars => [Store!Next]_(Store!vars)
  BY StoreStep
<1>2. Init => Store!Init
  BY DEF Init, Store!Init
<1> QED
  BY <1>1, <1>2, Inductive, PTL DEF Spec, MembersAreVariables, Store!Spec

\* An object that holds its null value has no value, if that is a number.
\* (optional_base::has_value())
THEOREM NullIsNoValue ==
    ASSUME ~NullIsNaN
    PROVE  Spec => []NullHasNoValue
<1>1. Init => NullHasNoValue
  BY DEF Init, NullHasNoValue
<1>2. ASSUME IInv, NullHasNoValue, Next, answer'[1] = "has_value", answer'[2]
      PROVE  \E m \in Numbers : Num(WireValue(m)', Width[m]) # Null
  <2>1. ReadNumber
    <3>1. \/ ReadNumber
          \/ answer'[1] \in {"failed", "set", "copy", "store", "visit", "choose",
                             "element", "put", "strlen", "strlen_r", "assign"}
      <4>1. CASE TooShort \/ ReadElement
        BY <4>1 DEF TooShort, ReadElement, Fail, Answer
      <4>2. CASE WriteNumber \/ CopySet \/ StoreSet \/ VisitSet \/ WriteElement
        BY <4>2 DEF WriteNumber, CopySet, StoreSet, VisitSet, WriteElement, Answer
      <4>3. CASE MeasureString
        BY <4>3 DEF MeasureString, Answer
      <4>4. CASE AssignArray
        BY <4>4 DEF AssignArray, AssignMeasured, AssignRange, Fail, Answer
      <4>5. CASE \E n \in Choice, b \in BOOLEAN : Choose(n, b)
        BY <4>5 DEF Choose, Answer
      <4> QED
        BY <1>2, <4>1, <4>2, <4>3, <4>4, <4>5 DEF Next
    <3> QED
      BY <1>2, <3>1
  <2>2. PICK m \in Numbers : answer'[2] = HasValue(Num(Get(m), Width[m]))
    <3>1. PICK m \in Numbers :
              \/ answer'[1] \in {"get", "value_or", "in_range", "compare", "operators"}
              \/ answer' = <<"has_value", HasValue(Num(Get(m), Width[m]))>>
      BY <2>1 DEF ReadNumber, Answer
    <3>2. answer' = <<"has_value", HasValue(Num(Get(m), Width[m]))>>
      BY <1>2, <3>1
    <3> QED
      BY <3>2
  <2>3. Num(Get(m), Width[m]) # Null
    BY <1>2, <2>2 DEF HasValue, IsNull
  <2>4. Get(m) = WireValue(m) /\ WireValue(m)' = WireValue(m)
    BY <1>2, <2>1, TypeOfBytes, GetIsWire, SameCells DEF IInv, Members, ReadNumber
  <2> QED
    BY <2>3, <2>4
<1>3. IInv /\ NullHasNoValue /\ [Next]_vars => NullHasNoValue'
  <2>1. IInv /\ NullHasNoValue /\ Next => NullHasNoValue'
    BY <1>2 DEF NullHasNoValue
  <2>2. NullHasNoValue /\ UNCHANGED vars => NullHasNoValue'
    BY DEF NullHasNoValue, WireValue, vars
  <2> QED
    BY <2>1, <2>2
<1> QED
  BY <1>1, <1>3, Inductive, PTL DEF Spec
=============================================================================
