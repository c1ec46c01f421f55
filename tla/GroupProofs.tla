---------------------------- MODULE GroupProofs ----------------------------
(***************************************************************************)
(* An iterator is at the entry that its index tells, and members of groups *)
(* do what EntrySequence promises, for all widths of numInGroup,           *)
(* blockLength, int and pointers, and all ends of the view.                *)
(***************************************************************************)
EXTENDS Group, SequenceTheorems, WellFoundedInduction, TLAPS

-----------------------------------------------------------------------------
(* Induction.  The provers cannot instantiate a predicate, but they can a  *)
(* set: to show P for all numbers, show it of the set of those for which   *)
(* it holds.                                                               *)

LessThan == {p \in Nat \X Nat : p[1] < p[2]}

LEMMA LessThanIsWellFounded == IsWellFoundedOn(LessThan, Nat)
<1>1. IsWellFoundedOn(OpToRel(<, Nat), Nat)
  BY NatLessThanWellFounded
<1>2. OpToRel(<, Nat) = LessThan
  BY DEF OpToRel, LessThan
<1> QED
  BY <1>1, <1>2

\* A set of natural numbers has a least element.
LEMMA LeastNatural ==
    ASSUME NEW T \in SUBSET Nat, T # {}
    PROVE  \E x \in T : \A y \in T : x <= y
<1>1. PICK x \in T : \A y \in T : <<y, x>> \notin LessThan
  BY LessThanIsWellFounded, WFMin, Zenon
<1>2. ASSUME NEW y \in T
      PROVE  x <= y
  <2>1. <<y, x>> \notin LessThan /\ x \in Nat /\ y \in Nat
    BY <1>1
  <2>2. y < x => <<y, x>> \in LessThan
    BY <2>1 DEF LessThan
  <2> QED
    BY <2>1, <2>2
<1> QED
  BY <1>2

\* A set that has 0 and with n also n + 1 has all of them.
LEMMA NaturalInduction ==
    ASSUME NEW T, 0 \in T, \A n \in Nat : n \in T => n + 1 \in T
    PROVE  Nat \subseteq T
<1> SUFFICES ASSUME Nat \ T # {}
             PROVE  FALSE
  OBVIOUS
<1>1. PICK x \in Nat \ T : \A y \in Nat \ T : x <= y
  BY LeastNatural
<1>2. x # 0 /\ x - 1 \in Nat
  BY <1>1
<1>3. x - 1 \in T
  BY <1>1, <1>2
<1>4. (x - 1) + 1 \in T
  BY <1>2, <1>3
<1> QED
  BY <1>1, <1>4

\* The same from a up to b.
LEMMA IntervalInduction ==
    ASSUME NEW a \in Int, NEW b \in Int, NEW T,
           a \in T, \A i \in a .. b - 1 : i \in T => i + 1 \in T
    PROVE  a .. b \subseteq T
<1> DEFINE U == {n \in Nat : a + n <= b => a + n \in T}
<1>1. 0 \in U
  OBVIOUS
<1>2. ASSUME NEW n \in Nat, n \in U
      PROVE  n + 1 \in U
  <2>1. CASE a + (n + 1) <= b
    <3>1. a + n \in T /\ a + n \in a .. b - 1
      BY <1>2, <2>1
    <3>2. (a + n) + 1 \in T
      BY <3>1
    <3> QED
      BY <3>2
  <2>2. CASE ~(a + (n + 1) <= b)
    BY <2>2
  <2> QED
    BY <2>1, <2>2
<1> HIDE DEF U
<1>3. Nat \subseteq U
  BY <1>1, <1>2, NaturalInduction
<1>4. ASSUME NEW i \in a .. b
      PROVE  i \in T
  <2>1. i - a \in U
    BY <1>3
  <2>2. a + (i - a) = i /\ i <= b
    OBVIOUS
  <2> QED
    BY <2>1, <2>2 DEF U
<1> QED
  BY <1>4

-----------------------------------------------------------------------------

(* Powers of two.                                                          *)

IsPowers(f, b) == f = [k \in 0 .. b |-> IF k = 0 THEN 1 ELSE 2 * f[k - 1]]

LEMMA PowersExist ==
    ASSUME NEW b \in Nat
    PROVE  \E f : IsPowers(f, b)
<1> DEFINE T == {n \in Nat : \E f : IsPowers(f, n)}
<1>1. 0 \in T
  <2>1. IsPowers([k \in 0 .. 0 |-> 1], 0)
    BY DEF IsPowers
  <2> QED
    BY <2>1
<1>2. ASSUME NEW n \in Nat, n \in T
      PROVE  n + 1 \in T
  <2>1. PICK f : IsPowers(f, n)
    BY <1>2
  <2> DEFINE g == [k \in 0 .. n + 1 |-> IF k = n + 1 THEN 2 * f[n] ELSE f[k]]
  <2>2. ASSUME NEW k \in 0 .. n + 1
        PROVE  g[k] = IF k = 0 THEN 1 ELSE 2 * g[k - 1]
    <3>1. CASE k = n + 1
      <4>1. k - 1 \in 0 .. n + 1 /\ k - 1 # n + 1 /\ k # 0 /\ k - 1 = n
        BY <3>1
      <4> QED
        BY <3>1, <4>1
    <3>2. CASE k # n + 1
      <4>1. k \in 0 .. n /\ (k # 0 => k - 1 \in 0 .. n + 1 /\ k - 1 # n + 1)
        BY <3>2
      <4>2. f[k] = IF k = 0 THEN 1 ELSE 2 * f[k - 1]
        BY <2>1, <4>1 DEF IsPowers
      <4> QED
        BY <3>2, <4>1, <4>2
    <3> QED
      BY <3>1, <3>2
  <2>3. g = [k \in 0 .. n + 1 |-> IF k = 0 THEN 1 ELSE 2 * g[k - 1]]
    <3>1. g = [k \in 0 .. n + 1 |-> g[k]]
      OBVIOUS
    <3> HIDE DEF g
    <3> QED
      BY <2>2, <3>1
  <2>4. IsPowers(g, n + 1)
    BY <2>3 DEF IsPowers
  <2> HIDE DEF g
  <2> QED
    BY <2>4
<1> HIDE DEF T
<1>3. Nat \subseteq T
  BY <1>1, <1>2, NaturalInduction
<1> QED
  BY <1>3 DEF T

LEMMA TwoToIsLast ==
    ASSUME NEW b \in Nat
    PROVE  \E f : IsPowers(f, b) /\ TwoTo(b) = f[b]
<1> DEFINE F(f) == [k \in 0 .. b |-> IF k = 0 THEN 1 ELSE 2 * f[k - 1]]
           c    == CHOOSE f : f = F(f)
<1>1. \E f : f = F(f)
  BY PowersExist DEF IsPowers
<1>2. c = F(c)
  BY <1>1
<1>3. TwoTo(b) = c[b]
  BY DEF TwoTo
<1> HIDE DEF c
<1> QED
  BY <1>2, <1>3 DEF IsPowers

LEMMA SamePowers ==
    ASSUME NEW b \in Nat, NEW f, NEW g, NEW d \in Nat, b <= d,
           IsPowers(f, b), IsPowers(g, d)
    PROVE  \A k \in 0 .. b : f[k] = g[k] /\ f[k] \in Nat \ {0}
<1> DEFINE T == {k \in 0 .. b : f[k] = g[k] /\ f[k] \in Nat \ {0}}
<1>1. 0 \in T
  BY DEF IsPowers
<1>2. ASSUME NEW k \in 0 .. b - 1, k \in T
      PROVE  k + 1 \in T
  <2>1. k + 1 \in 0 .. b /\ k + 1 \in 0 .. d /\ k + 1 # 0 /\ (k + 1) - 1 = k
    OBVIOUS
  <2>2. f[k + 1] = 2 * f[k]
    BY <2>1 DEF IsPowers
  <2>3. g[k + 1] = 2 * g[k]
    BY <2>1 DEF IsPowers
  <2> QED
    BY <1>2, <2>1, <2>2, <2>3
<1> HIDE DEF T
<1>3. 0 .. b \subseteq T
  BY <1>1, <1>2, IntervalInduction
<1> QED
  BY <1>3 DEF T

LEMMA TwoToStep ==
    ASSUME NEW n \in Nat
    PROVE  /\ TwoTo(n) \in Nat \ {0}
           /\ TwoTo(n + 1) = 2 * TwoTo(n)
<1>1. PICK f : IsPowers(f, n) /\ TwoTo(n) = f[n]
  BY TwoToIsLast
<1>2. PICK g : IsPowers(g, n + 1) /\ TwoTo(n + 1) = g[n + 1]
  BY TwoToIsLast
<1>3. f[n] = g[n] /\ f[n] \in Nat \ {0}
  BY <1>1, <1>2, SamePowers
<1>4. g[n + 1] = 2 * g[n]
  BY <1>2 DEF IsPowers
<1> QED
  BY <1>1, <1>2, <1>3, <1>4

\* A wider type has room for a multiple of what a narrower one has.
LEMMA TwoToGrows ==
    ASSUME NEW a \in Nat, NEW b \in Nat, a <= b
    PROVE  \E q \in Nat \ {0} : TwoTo(b) = TwoTo(a) * q
<1> DEFINE T == {n \in Nat : \E q \in Nat \ {0} : TwoTo(a + n) = TwoTo(a) * q}
<1>1. 0 \in T
  <2>1. TwoTo(a) \in Nat /\ a + 0 = a
    BY TwoToStep
  <2>2. TwoTo(a + 0) = TwoTo(a) * 1
    BY <2>1
  <2> QED
    BY <2>2
<1>2. ASSUME NEW n \in Nat, n \in T
      PROVE  n + 1 \in T
  <2>1. PICK q \in Nat \ {0} : TwoTo(a + n) = TwoTo(a) * q
    BY <1>2
  <2>2. TwoTo((a + n) + 1) = 2 * TwoTo(a + n) /\ (a + n) + 1 = a + (n + 1)
    BY TwoToStep
  <2>3. TwoTo(a) \in Nat
    BY TwoToStep
  <2>4. 2 * (TwoTo(a) * q) = TwoTo(a) * (2 * q) /\ 2 * q \in Nat \ {0}
    BY <2>3
  <2>5. TwoTo(a + (n + 1)) = TwoTo(a) * (2 * q)
    BY <2>1, <2>2, <2>4
  <2> QED
    BY <2>4, <2>5
<1> HIDE DEF T
<1>3. Nat \subseteq T
  BY <1>1, <1>2, NaturalInduction
<1>4. b - a \in Nat /\ a + (b - a) = b
  OBVIOUS
<1>5. b - a \in T
  BY <1>3, <1>4
<1> QED
  BY <1>4, <1>5 DEF T

LEMMA TwoToMonotone ==
    ASSUME NEW a \in Nat, NEW b \in Nat, a <= b
    PROVE  TwoTo(a) <= TwoTo(b)
<1>1. PICK q \in Nat \ {0} : TwoTo(b) = TwoTo(a) * q
  BY TwoToGrows
<1>2. PICK x : x = TwoTo(a)
  OBVIOUS
<1>3. x \in Nat
  BY <1>2, TwoToStep
<1>4. x <= x * q
  BY <1>3
<1> QED
  BY <1>1, <1>2, <1>4

-----------------------------------------------------------------------------
(* Where entries begin.                                                    *)

IsStarts(f, s, b) ==
    f = [k \in 0 .. b |-> IF k = 0 THEN HeaderSize ELSE f[k - 1] + s[k]]

LEMMA StartsExist ==
    ASSUME NEW s, NEW b \in Nat
    PROVE  \E f : IsStarts(f, s, b)
<1> DEFINE T == {n \in Nat : \E f : IsStarts(f, s, n)}
<1>1. 0 \in T
  <2>1. IsStarts([k \in 0 .. 0 |-> HeaderSize], s, 0)
    BY DEF IsStarts
  <2> QED
    BY <2>1
<1>2. ASSUME NEW n \in Nat, n \in T
      PROVE  n + 1 \in T
  <2>1. PICK f : IsStarts(f, s, n)
    BY <1>2
  <2> DEFINE g == [k \in 0 .. n + 1 |-> IF k = n + 1 THEN f[n] + s[n + 1] ELSE f[k]]
  <2>2. ASSUME NEW k \in 0 .. n + 1
        PROVE  g[k] = IF k = 0 THEN HeaderSize ELSE g[k - 1] + s[k]
    <3>1. CASE k = n + 1
      <4>1. k - 1 \in 0 .. n + 1 /\ k - 1 # n + 1 /\ k # 0 /\ k - 1 = n
        BY <3>1
      <4> QED
        BY <3>1, <4>1
    <3>2. CASE k # n + 1
      <4>1. k \in 0 .. n /\ (k # 0 => k - 1 \in 0 .. n + 1 /\ k - 1 # n + 1)
        BY <3>2
      <4>2. f[k] = IF k = 0 THEN HeaderSize ELSE f[k - 1] + s[k]
        BY <2>1, <4>1 DEF IsStarts
      <4> QED
        BY <3>2, <4>1, <4>2
    <3> QED
      BY <3>1, <3>2
  <2>3. g = [k \in 0 .. n + 1 |-> IF k = 0 THEN HeaderSize ELSE g[k - 1] + s[k]]
    <3>1. g = [k \in 0 .. n + 1 |-> g[k]]
      OBVIOUS
    <3> HIDE DEF g
    <3> QED
      BY <2>2, <3>1
  <2>4. IsStarts(g, s, n + 1)
    BY <2>3 DEF IsStarts
  <2> HIDE DEF g
  <2> QED
    BY <2>4
<1> HIDE DEF T
<1>3. Nat \subseteq T
  BY <1>1, <1>2, NaturalInduction
<1> QED
  BY <1>3 DEF T

LEMMA EntryAtIsLast ==
    ASSUME NEW s, NEW b \in Nat
    PROVE  \E f : IsStarts(f, s, b) /\ Promise!EntryAt(s, b) = f[b]
<1> DEFINE F(f) == [k \in 0 .. b |-> IF k = 0 THEN HeaderSize ELSE f[k - 1] + s[k]]
           c    == CHOOSE f : f = F(f)
<1>1. \E f : f = F(f)
  BY StartsExist DEF IsStarts
<1>2. c = F(c)
  BY <1>1
<1>3. Promise!EntryAt(s, b) = c[b]
  BY DEF Promise!EntryAt
<1> HIDE DEF c
<1> QED
  BY <1>2, <1>3 DEF IsStarts

\* Both functions are of the same entries; the first stops at b.
LEMMA SameStarts ==
    ASSUME NEW s, NEW b \in Nat, NEW f, NEW g, NEW d \in Nat, b <= d,
           IsStarts(f, s, b), IsStarts(g, s, d)
    PROVE  f[b] = g[b]
<1> DEFINE T == {k \in 0 .. b : f[k] = g[k]}
<1>1. 0 \in T
  BY DEF IsStarts
<1>2. ASSUME NEW k \in 0 .. b - 1, k \in T
      PROVE  k + 1 \in T
  <2>1. k + 1 \in 0 .. b /\ k + 1 \in 0 .. d /\ k + 1 # 0 /\ (k + 1) - 1 = k
    OBVIOUS
  <2>2. f[k + 1] = f[k] + s[k + 1]
    BY <2>1 DEF IsStarts
  <2>3. g[k + 1] = g[k] + s[k + 1]
    BY <2>1 DEF IsStarts
  <2> QED
    BY <1>2, <2>1, <2>2, <2>3
<1> HIDE DEF T
<1>3. 0 .. b \subseteq T
  BY <1>1, <1>2, IntervalInduction
<1> QED
  BY <1>3 DEF T

\* The first entry is behind the header, the next one behind the last.
LEMMA EntryAtStep ==
    ASSUME NEW s
    PROVE  /\ Promise!EntryAt(s, 0) = HeaderSize
           /\ \A i \in Nat : Promise!EntryAt(s, i + 1) = Promise!EntryAt(s, i) + s[i + 1]
<1>1. Promise!EntryAt(s, 0) = HeaderSize
  <2>1. PICK f : IsStarts(f, s, 0) /\ Promise!EntryAt(s, 0) = f[0]
    BY EntryAtIsLast
  <2> QED
    BY <2>1 DEF IsStarts
<1>2. ASSUME NEW i \in Nat
      PROVE  Promise!EntryAt(s, i + 1) = Promise!EntryAt(s, i) + s[i + 1]
  <2>1. PICK f : IsStarts(f, s, i) /\ Promise!EntryAt(s, i) = f[i]
    BY EntryAtIsLast
  <2>2. PICK g : IsStarts(g, s, i + 1) /\ Promise!EntryAt(s, i + 1) = g[i + 1]
    BY EntryAtIsLast
  <2>3. f[i] = g[i]
    BY <2>1, <2>2, SameStarts
  <2>4. g[i + 1] = g[i] + s[i + 1]
    BY <2>2 DEF IsStarts
  <2> QED
    BY <2>1, <2>2, <2>3, <2>4
<1> QED
  BY <1>1, <1>2

\* The product i * m as the sum it is.
LEMMA OneMore ==
    ASSUME NEW h \in Int, NEW i \in Int, NEW m \in Int
    PROVE  h + (i + 1) * m = (h + i * m) + m
OBVIOUS

LEMMA EntryAtBounds ==
    ASSUME NEW c \in Nat, NEW m \in Nat, NEW s \in [1 .. c -> 0 .. m], NEW i \in 0 .. c
    PROVE  /\ Promise!EntryAt(s, i) \in Nat
           /\ HeaderSize <= Promise!EntryAt(s, i)
           /\ Promise!EntryAt(s, i) <= HeaderSize + i * m
<1> DEFINE E(k) == Promise!EntryAt(s, k)
           T    == {k \in 0 .. c : /\ E(k) \in Nat
                                   /\ HeaderSize <= E(k)
                                   /\ E(k) <= HeaderSize + k * m}
<1>1. HeaderSize \in Nat
  BY BoundsAssumption
<1>2. E(0) = HeaderSize /\ \A k \in Nat : E(k + 1) = E(k) + s[k + 1]
  BY EntryAtStep
<1> HIDE DEF E
<1>3. 0 \in T
  <2>1. HeaderSize + 0 * m = HeaderSize
    BY <1>1
  <2>2. PICK e : e = E(0)
    OBVIOUS
  <2>3. e = HeaderSize
    BY <1>2, <2>2
  <2>4. e \in Nat /\ HeaderSize <= e /\ e <= HeaderSize
    BY <1>1, <2>3
  <2>5. /\ E(0) \in Nat /\ HeaderSize <= E(0)
        /\ E(0) <= HeaderSize + 0 * m
    BY <2>1, <2>2, <2>4
  <2>6. 0 \in 0 .. c
    OBVIOUS
  <2> QED
    BY <2>5, <2>6
<1>4. ASSUME NEW k \in 0 .. c - 1, k \in T
      PROVE  k + 1 \in T
  <2>1. s[k + 1] \in 0 .. m /\ k + 1 \in 0 .. c
    OBVIOUS
  <2>2. E(k + 1) = E(k) + s[k + 1]
    BY <1>2
  <2>3. HeaderSize + (k + 1) * m = (HeaderSize + k * m) + m
    BY <1>1, OneMore
  <2>4. PICK p : p = k * m
    OBVIOUS
  <2>5. p \in Int
    BY <2>4
  <2>6. E(k) \in Nat /\ HeaderSize <= E(k) /\ E(k) <= HeaderSize + p
    BY <1>4, <2>4
  <2>7. /\ E(k + 1) \in Nat /\ HeaderSize <= E(k + 1)
        /\ E(k + 1) <= (HeaderSize + p) + m
    BY <1>1, <2>1, <2>2, <2>5, <2>6
  <2> QED
    BY <2>1, <2>3, <2>4, <2>7
<1> HIDE DEF T
<1>5. 0 .. c \subseteq T
  <2>1. 0 \in Int /\ c \in Int
    OBVIOUS
  <2> QED
    BY <1>3, <1>4, <2>1, IntervalInduction, Zenon
<1> QED
  BY <1>5 DEF T, E

\* Entries of one size.
LEMMA EntryAtFlat ==
    ASSUME NEW c \in Nat, NEW m \in Nat, NEW s \in [1 .. c -> {m}], NEW i \in 0 .. c
    PROVE  Promise!EntryAt(s, i) = HeaderSize + i * m
<1> DEFINE E(k) == Promise!EntryAt(s, k)
           T    == {k \in 0 .. c : E(k) = HeaderSize + k * m}
<1>1. HeaderSize \in Nat
  BY BoundsAssumption
<1>2. E(0) = HeaderSize /\ \A k \in Nat : E(k + 1) = E(k) + s[k + 1]
  BY EntryAtStep
<1> HIDE DEF E
<1>3. 0 \in T
  BY <1>1, <1>2
<1>4. ASSUME NEW k \in 0 .. c - 1, k \in T
      PROVE  k + 1 \in T
  <2>1. s[k + 1] = m /\ k + 1 \in 0 .. c
    OBVIOUS
  <2>2. E(k + 1) = E(k) + s[k + 1]
    BY <1>2
  <2>3. HeaderSize + (k + 1) * m = (HeaderSize + k * m) + m
    BY <1>1, OneMore
  <2> QED
    BY <1>4, <2>1, <2>2, <2>3
<1> HIDE DEF T
<1>5. 0 .. c \subseteq T
  BY <1>3, <1>4, IntervalInduction
<1> QED
  BY <1>5 DEF T, E

-----------------------------------------------------------------------------
(* What fits is not changed by a conversion.                               *)

LEMMA RestOfSum ==
    ASSUME NEW m \in Nat \ {0}, NEW q \in Int, NEW r \in 0 .. m - 1
    PROVE  (m * q + r) % m = r
OBVIOUS

IsType(t) == t.bits \in Nat \ {0} /\ t.signed \in BOOLEAN

\* As, with its powers of two as parameters.
LEMMA AsOfType ==
    ASSUME NEW x, NEW t, IsType(t), NEW m, m = TwoTo(t.bits), NEW h, h = TwoTo(t.bits - 1)
    PROVE  /\ m \in Nat \ {0} /\ h \in Nat \ {0} /\ m = 2 * h
           /\ As(x, t) = IF t.signed /\ x % m >= h THEN (x % m) - m ELSE x % m
<1>1. t.bits - 1 \in Nat /\ (t.bits - 1) + 1 = t.bits
  BY DEF IsType
<1>2. h \in Nat \ {0} /\ m = 2 * h
  BY <1>1, TwoToStep
<1>3. As(x, t) = IF t.signed /\ x % m >= h THEN (x % m) - m ELSE x % m
  BY DEF As
<1> QED
  BY <1>2, <1>3

LEMMA UnsignedFits ==
    ASSUME NEW t, IsType(t), ~t.signed, NEW q \in Int, NEW r \in 0 .. TwoTo(t.bits) - 1
    PROVE  As(TwoTo(t.bits) * q + r, t) = r
<1>1. PICK m, h : m = TwoTo(t.bits) /\ h = TwoTo(t.bits - 1)
  OBVIOUS
<1>2. m \in Nat \ {0} /\ r \in 0 .. m - 1
  BY <1>1, AsOfType
<1>3. (m * q + r) % m = r
  BY <1>2, RestOfSum
<1>4. As(m * q + r, t) = (m * q + r) % m
  BY <1>1, AsOfType
<1> QED
  BY <1>1, <1>3, <1>4

LEMMA UnsignedKept ==
    ASSUME NEW t, IsType(t), ~t.signed, NEW r \in 0 .. TwoTo(t.bits) - 1
    PROVE  As(r, t) = r
<1>1. PICK m : m = TwoTo(t.bits)
  OBVIOUS
<1>2. m \in Nat \ {0}
  BY <1>1, AsOfType
<1>3. m * 0 + r = r
  BY <1>1, <1>2
<1>4. As(m * 0 + r, t) = r
  BY <1>1, UnsignedFits
<1> QED
  BY <1>3, <1>4

LEMMA SignedKept ==
    ASSUME NEW t, IsType(t), t.signed,
           NEW r \in - TwoTo(t.bits - 1) .. TwoTo(t.bits - 1) - 1
    PROVE  As(r, t) = r
<1>1. PICK m, h : m = TwoTo(t.bits) /\ h = TwoTo(t.bits - 1)
  OBVIOUS
<1>2. m \in Nat \ {0} /\ h \in Nat \ {0} /\ m = 2 * h
  BY <1>1, AsOfType
<1>3. As(r, t) = IF r % m >= h THEN (r % m) - m ELSE r % m
  BY <1>1, AsOfType
<1>4. r \in - h .. h - 1
  BY <1>1
<1>5. CASE r >= 0
  <2>1. r \in 0 .. m - 1 /\ m * 0 + r = r
    BY <1>2, <1>4, <1>5
  <2>2. r % m = r
    BY <1>2, <2>1, RestOfSum
  <2>3. ~(r >= h)
    BY <1>2, <1>4
  <2> QED
    BY <1>3, <2>2, <2>3
<1>6. CASE r < 0
  <2>1. r + m \in 0 .. m - 1 /\ m * (-1) + (r + m) = r /\ r + m >= h /\ (r + m) - m = r
    BY <1>2, <1>4, <1>6
  <2>2. r % m = r + m
    BY <1>2, <2>1, RestOfSum
  <2> QED
    BY <1>3, <2>1, <2>2
<1> QED
  BY <1>4, <1>5, <1>6

LEMMA PromotedIsWide ==
    ASSUME NEW t, IsType(t)
    PROVE  IsType(Promoted(t)) /\ IntBits <= Promoted(t).bits
<1>1. IntBits \in Nat \ {0}
  BY WidthsAssumption
<1>2. CASE t.bits < IntBits
  <2>1. Promoted(t) = [bits |-> IntBits, signed |-> TRUE]
    BY <1>2 DEF Promoted, Type
  <2> QED
    BY <1>1, <2>1 DEF IsType
<1>3. CASE ~(t.bits < IntBits)
  <2>1. Promoted(t) = t
    BY <1>3 DEF Promoted
  <2>2. t.bits \in Nat
    BY DEF IsType
  <2>3. IntBits <= t.bits
    BY <1>1, <1>3, <2>2
  <2> QED
    BY <2>1, <2>3
<1> QED
  BY <1>2, <1>3

LEMMA CommonIsWide ==
    ASSUME NEW t, NEW u, IsType(t), IsType(u)
    PROVE  IsType(Common(t, u)) /\ IntBits <= Common(t, u).bits
<1> DEFINE p == Promoted(t)
           q == Promoted(u)
<1>2. IsType(p) /\ IntBits <= p.bits /\ IsType(q) /\ IntBits <= q.bits
  BY PromotedIsWide
<1>4. Common(t, u) = IF p.bits = q.bits THEN Type(p.bits, p.signed /\ q.signed)
                     ELSE IF p.bits > q.bits THEN p ELSE q
  BY DEF Common
<1> HIDE DEF p, q
<1>5. CASE p.bits = q.bits
  <2>1. Common(t, u) = [bits |-> p.bits, signed |-> p.signed /\ q.signed]
    BY <1>4, <1>5 DEF Type
  <2>2. (p.signed /\ q.signed) \in BOOLEAN
    OBVIOUS
  <2> QED
    BY <1>2, <2>1, <2>2 DEF IsType
<1>6. CASE p.bits # q.bits
  BY <1>2, <1>4, <1>6
<1> QED
  BY <1>5, <1>6

-----------------------------------------------------------------------------
(* Addresses of entries.                                                   *)

\* No group has as many bytes.
Limit == TwoTo(IntBits - 1)

LEMMA Limits ==
    /\ Limit \in Nat \ {0} /\ Limit <= TwoTo(PtrBits)
    /\ HeaderSize + MaxCount * (MaxBlock + MaxExtra) < Limit
    /\ IsType(Pointer) /\ ~Pointer.signed /\ Pointer.bits = PtrBits
<1>1. IntBits - 1 \in Nat /\ PtrBits \in Nat \ {0} /\ IntBits - 1 <= PtrBits
  BY WidthsAssumption
<1>2. Limit \in Nat \ {0} /\ Limit <= TwoTo(PtrBits)
  BY <1>1, TwoToStep, TwoToMonotone DEF Limit
<1>3. Pointer = [bits |-> PtrBits, signed |-> FALSE]
  BY DEF Pointer, Type
<1> QED
  BY <1>1, <1>2, <1>3, NoOverflowAssumption DEF Limit, IsType

\* Types as wide as an int hold all addresses and differences of a group.
LEMMA WideKeeps ==
    ASSUME NEW t, IsType(t), IntBits <= t.bits, NEW x \in Int, - Limit <= x, x < Limit,
           t.signed \/ x >= 0
    PROVE  As(x, t) = x
<1>1. /\ IntBits - 1 \in Nat /\ t.bits - 1 \in Nat /\ t.bits \in Nat
      /\ IntBits - 1 <= t.bits - 1 /\ IntBits - 1 <= t.bits
  BY WidthsAssumption DEF IsType
<1>2. PICK h, m, l : h = TwoTo(t.bits - 1) /\ m = TwoTo(t.bits) /\ l = Limit
  OBVIOUS
<1>3. h \in Nat /\ m \in Nat /\ l \in Nat
  BY <1>1, <1>2, Limits, TwoToStep
<1>4. l <= h /\ l <= m
  BY <1>1, <1>2, TwoToMonotone DEF Limit
<1>5. - l <= x /\ x < l
  BY <1>2
<1>6. CASE t.signed
  <2>1. x \in - h .. h - 1
    BY <1>3, <1>4, <1>5
  <2> QED
    BY <1>2, <1>6, <2>1, SignedKept
<1>7. CASE ~t.signed
  <2>1. x \in 0 .. m - 1
    BY <1>3, <1>4, <1>5, <1>7
  <2> QED
    BY <1>2, <1>7, <2>1, UnsignedKept
<1> QED
  BY <1>6, <1>7

LEMMA AddressKept ==
    ASSUME NEW x \in 0 .. Limit - 1
    PROVE  As(x, Pointer) = x /\ x \in 0 .. TwoTo(PtrBits) - 1
<1>1. PICK l, m : l = Limit /\ m = TwoTo(PtrBits)
  OBVIOUS
<1>2. l \in Nat /\ l <= m /\ m \in Nat
  <2>1. PtrBits \in Nat
    BY WidthsAssumption
  <2> QED
    BY <1>1, <2>1, Limits, TwoToStep
<1>3. x \in 0 .. m - 1
  BY <1>1, <1>2
<1> QED
  BY <1>1, <1>3, Limits, UnsignedKept

\* A difference that is made unsigned is made so in all of the address's bits.
LEMMA WrapsAround ==
    ASSUME NEW t, IsType(t), ~t.signed, PtrBits <= t.bits,
           NEW a \in Int, NEW p \in Int, - Limit <= p, p < 0, a + p \in 0 .. Limit - 1
    PROVE  As(a + As(p, t), Pointer) = a + p
<1>1. PtrBits \in Nat /\ t.bits \in Nat
  BY WidthsAssumption DEF IsType
<1>2. PICK l, m, w : l = Limit /\ m = TwoTo(PtrBits) /\ w = TwoTo(t.bits)
  OBVIOUS
<1>3. PICK q \in Nat \ {0} : w = m * q
  BY <1>1, <1>2, TwoToGrows
<1>4. m \in Nat \ {0} /\ w \in Nat \ {0} /\ l \in Nat /\ l <= m
  BY <1>1, <1>2, Limits, TwoToStep
<1>5. m <= w
  BY <1>1, <1>2, TwoToMonotone
<1>6. - l <= p /\ a + p \in 0 .. l - 1
  BY <1>2
<1>7. p + w \in 0 .. w - 1 /\ w * (-1) + (p + w) = p
  BY <1>4, <1>5, <1>6
<1>8. As(p, t) = p + w
  BY <1>2, <1>7, UnsignedFits
<1>9. a + (p + w) = m * q + (a + p)
  BY <1>3, <1>4
<1>10. a + p \in 0 .. m - 1
  BY <1>4, <1>6
<1>11. As(m * q + (a + p), Pointer) = a + p
  BY <1>2, <1>10, Limits, UnsignedFits
<1> QED
  BY <1>8, <1>9, <1>11

\* The product of a number of entries and a block length is small.
LEMMA ProductBound ==
    ASSUME NEW n \in Int, NEW b \in Nat, NEW c \in Nat, NEW m \in Nat,
           - c <= n, n <= c, b <= m
    PROVE  - (c * m) <= n * b /\ n * b <= c * m /\ n * b \in Int
           /\ (n >= 0 => n * b >= 0) /\ (n <= 0 => n * b <= 0)
<1>1. c * b <= c * m
  OBVIOUS
<1>2. n * b <= c * b
  OBVIOUS
<1>3. - (c * b) <= n * b
  OBVIOUS
<1>4. n * b \in Int /\ (n >= 0 => n * b >= 0) /\ (n <= 0 => n * b <= 0)
  OBVIOUS
<1> QED
  BY <1>1, <1>2, <1>3, <1>4

LEMMA SmallProducts ==
    ASSUME NEW n \in Int, NEW b \in 0 .. MaxBlock, - MaxCount <= n, n <= MaxCount
    PROVE  /\ n * b \in Int /\ - Limit <= n * b /\ n * b < Limit
           /\ n >= 0 => HeaderSize + n * b \in 0 .. Limit - 1
           /\ n >= 0 => n * b >= 0
           /\ n <= 0 => n * b <= 0
<1>1. PICK h, c, m, e : h = HeaderSize /\ c = MaxCount /\ m = MaxBlock /\ e = MaxExtra
  OBVIOUS
<1>2. h \in Nat /\ c \in Nat /\ m \in Nat /\ e \in Nat
  BY <1>1, BoundsAssumption
<1>3. PICK l : l = Limit
  OBVIOUS
<1>4. l \in Nat /\ h + c * (m + e) < l
  BY <1>1, <1>3, Limits
<1>5. c * m <= c * (m + e)
  BY <1>2
<1>6. c * m \in Nat /\ c * (m + e) \in Nat
  BY <1>2
<1>7. h + c * m < l
  BY <1>2, <1>4, <1>5, <1>6
<1>8. b \in Nat /\ b <= m /\ - c <= n /\ n <= c
  BY <1>1, <1>2
<1>9. /\ - (c * m) <= n * b /\ n * b <= c * m /\ n * b \in Int
      /\ (n >= 0 => n * b >= 0) /\ (n <= 0 => n * b <= 0)
  BY <1>2, <1>8, ProductBound
<1>10. PICK p, x : p = n * b /\ x = c * m
  OBVIOUS
<1>11. p \in Int /\ - x <= p /\ p <= x /\ x \in Nat /\ h + x < l
       /\ (n >= 0 => p >= 0)
  BY <1>6, <1>7, <1>9, <1>10
<1>12. - l <= p /\ p < l /\ (n >= 0 => h + p \in 0 .. l - 1)
  BY <1>2, <1>4, <1>11
<1> QED
  BY <1>1, <1>3, <1>9, <1>10, <1>12

-----------------------------------------------------------------------------
(* The invariant.                                                          *)

\* Entries of a flat group have the size of their block.
EntrySizes == IF dim.flat THEN {block} ELSE block .. block + MaxExtra

Shape ==
    /\ dim \in Dims /\ room \in Rooms /\ block \in 0 .. MaxBlock
    /\ Count \in 0 .. MaxCount
    /\ sizes \in [1 .. Count -> EntrySizes]

\* Only flat groups have iterators of random access.
KindOfGroup ==
    /\ kind \in {"none", "random_access", "forward", "cursor"}
    /\ kind = "random_access" => dim.flat
    /\ kind = "forward" => ~dim.flat
    /\ last \in Nat

\* A call in progress is one that the program may make.
CallAllowed ==
    /\ status \in {"idle", "busy", "failed"}
    /\ status = "busy" =>
           /\ call.op \in Members
           /\ <<call.n, call.m>> \in Args(call.op)
           /\ MayCall(call.op, call.n, call.m)

\* The loop of size_bytes() is in a nested group and in the view.
WalkAllowed ==
    /\ status = "idle" => walk = NoWalk
    /\ status = "busy" /\ walk # NoWalk =>
           /\ call.op = "size_bytes" /\ ~dim.flat
           /\ HeaderSize <= room /\ walk.ptr <= room

IInv == Shape /\ KindOfGroup /\ IteratorAtEntry /\ CallAllowed /\ WalkAllowed

Start(i) == Promise!EntryAt(sizes, i)

LEMMA LenOfFunction ==
    ASSUME NEW n \in Nat, NEW S, NEW s \in [1 .. n -> S]
    PROVE  Len(s) = n
<1>1. s \in Seq(S)
  BY SeqDef
<1>2. DOMAIN s = 1 .. n
  OBVIOUS
<1> QED
  BY <1>1, <1>2

LEMMA TypesOfGroup ==
    ASSUME Shape
    PROVE  /\ IsType(SizeType) /\ ~SizeType.signed
           /\ IsType(DifferenceType) /\ DifferenceType.signed
           /\ IsType(BlockType) /\ ~BlockType.signed
           /\ \A i \in 0 .. MaxCount : As(i, SizeType) = i
           /\ MaxCount \in Nat /\ MaxBlock \in Nat /\ HeaderSize \in Nat /\ MaxExtra \in Nat
           /\ dim.flat \in BOOLEAN
           /\ block \in Nat /\ Count \in Nat /\ Count <= MaxCount
<1>1. /\ dim.index \in Nat \ {0} /\ dim.block \in Nat \ {0} /\ dim.flat \in BOOLEAN
      /\ MaxCount < TwoTo(dim.index)
  BY DimsAssumption DEF Shape
<1>2. /\ SizeType = [bits |-> dim.index, signed |-> FALSE]
      /\ DifferenceType = [bits |-> dim.index, signed |-> TRUE]
      /\ BlockType = [bits |-> dim.block, signed |-> FALSE]
  BY DEF SizeType, DifferenceType, BlockType, Type
<1>3. /\ IsType(SizeType) /\ ~SizeType.signed
      /\ IsType(DifferenceType) /\ DifferenceType.signed
      /\ IsType(BlockType) /\ ~BlockType.signed
  BY <1>1, <1>2 DEF IsType
<1>4. MaxCount \in Nat /\ MaxBlock \in Nat /\ HeaderSize \in Nat /\ MaxExtra \in Nat
  BY BoundsAssumption
<1>5. ASSUME NEW i \in 0 .. MaxCount
      PROVE  As(i, SizeType) = i
  <2>1. PICK m : m = TwoTo(dim.index)
    OBVIOUS
  <2>2. m \in Nat /\ MaxCount < m
    BY <1>1, <2>1, TwoToStep
  <2>3. i \in 0 .. m - 1
    BY <1>4, <2>2
  <2>4. i \in 0 .. TwoTo(SizeType.bits) - 1
    BY <1>2, <2>1, <2>3
  <2> QED
    BY <1>3, <2>4, UnsignedKept
<1>6. block \in Nat /\ Count \in Nat /\ Count <= MaxCount
  BY <1>4 DEF Shape
<1> QED
  BY <1>1, <1>3, <1>4, <1>5, <1>6

LEMMA SizeOfEntry ==
    ASSUME Shape, NEW i \in 1 .. Count
    PROVE  /\ sizes[i] \in 0 .. MaxBlock + MaxExtra
           /\ dim.flat => sizes[i] = block
<1>1. sizes[i] \in EntrySizes
  BY DEF Shape
<1>2. block \in 0 .. MaxBlock /\ MaxBlock \in Nat /\ MaxExtra \in Nat
  BY TypesOfGroup DEF Shape
<1> QED
  BY <1>1, <1>2 DEF EntrySizes

\* Where entries begin, in a group and in the part of it in front of them.
LEMMA Starts ==
    ASSUME Shape
    PROVE  /\ Start(0) = HeaderSize
           /\ \A i \in 0 .. Count : Start(i) \in 0 .. Limit - 1
           /\ \A i \in 0 .. Count - 1 : Start(i + 1) = Start(i) + sizes[i + 1]
           /\ dim.flat => \A i \in 0 .. Count : Start(i) = HeaderSize + i * block
<1>1. Count \in Nat /\ Count <= MaxCount /\ MaxCount \in Nat
      /\ MaxBlock \in Nat /\ MaxExtra \in Nat /\ HeaderSize \in Nat
  BY TypesOfGroup
<1>2. /\ Start(0) = HeaderSize
      /\ \A i \in 0 .. Count - 1 : Start(i + 1) = Start(i) + sizes[i + 1]
  BY <1>1, EntryAtStep DEF Start
<1>3. sizes \in [1 .. Count -> 0 .. MaxBlock + MaxExtra]
  <2>1. sizes = [i \in 1 .. Count |-> sizes[i]]
    BY DEF Shape
  <2>2. \A i \in 1 .. Count : sizes[i] \in 0 .. MaxBlock + MaxExtra
    BY SizeOfEntry
  <2> QED
    BY <2>1, <2>2
<1>4. ASSUME NEW i \in 0 .. Count
      PROVE  Start(i) \in 0 .. Limit - 1
  <2>1. PICK m, c : m = MaxBlock + MaxExtra /\ c = Count
    OBVIOUS
  <2>2. m \in Nat /\ c \in Nat /\ i \in 0 .. c /\ c <= MaxCount
    BY <1>1, <2>1
  <2>3. sizes \in [1 .. c -> 0 .. m]
    BY <1>3, <2>1
  <2>4. Start(i) \in Nat /\ Start(i) <= HeaderSize + i * m
    BY <2>2, <2>3, EntryAtBounds DEF Start
  <2>5. i * m <= MaxCount * m
    <3>1. i \in Nat /\ i <= MaxCount
      BY <1>1, <2>2
    <3>2. PICK x : x = MaxCount
      OBVIOUS
    <3> QED
      BY <1>1, <2>2, <3>1, <3>2, ProductBound
  <2>6. HeaderSize + MaxCount * m < Limit /\ Limit \in Nat
    BY <2>1, Limits
  <2>7. PICK p, q, h, l, a : /\ p = i * m /\ q = MaxCount * m /\ h = HeaderSize
                             /\ l = Limit /\ a = Start(i)
    OBVIOUS
  <2>8. p \in Int /\ q \in Int
    BY <1>1, <2>2, <2>7
  <2>9. a \in Nat /\ a <= h + p /\ p <= q /\ h + q < l /\ l \in Nat /\ h \in Nat
    BY <1>1, <2>4, <2>5, <2>6, <2>7
  <2>10. a \in 0 .. l - 1
    BY <2>8, <2>9
  <2> QED
    BY <2>7, <2>10
<1>5. ASSUME dim.flat, NEW i \in 0 .. Count
      PROVE  Start(i) = HeaderSize + i * block
  <2>1. sizes \in [1 .. Count -> {block}]
    BY <1>5 DEF Shape, EntrySizes
  <2>2. block \in Nat
    BY TypesOfGroup
  <2> QED
    BY <1>1, <1>5, <2>1, <2>2, EntryAtFlat DEF Start
<1> QED
  BY <1>2, <1>4, <1>5

LEMMA ConversionsOfGroup ==
    ASSUME Shape, NEW t, IsType(t), NEW n \in Int, - MaxCount <= n, n <= MaxCount,
           NEW a \in Int, a + n * block \in 0 .. Limit - 1,
           LET c == Common(t, BlockType)
           IN  ~(n < 0 /\ ~c.signed /\ c.bits < PtrBits)
    PROVE  PlusEntries(a, n, t) = a + n * block
<1> PICK c : c = Common(t, BlockType)
  OBVIOUS
<1>1. IsType(c) /\ IntBits <= c.bits
  BY TypesOfGroup, CommonIsWide
<1>2. PICK p : p = n * block
  OBVIOUS
<1>3. /\ p \in Int /\ - Limit <= p /\ p < Limit
      /\ n >= 0 => p >= 0
      /\ n <= 0 => p <= 0
  BY <1>2, SmallProducts DEF Shape
<1>4. a + p \in 0 .. Limit - 1 /\ As(a + p, Pointer) = a + p
  BY <1>2, AddressKept
<1>5. PlusEntries(a, n, t) = As(a + As(p, c), Pointer)
  BY <1>2 DEF PlusEntries
<1>6. CASE c.signed \/ p >= 0
  <2>1. As(p, c) = p
    BY <1>1, <1>3, <1>6, WideKeeps
  <2> QED
    BY <1>2, <1>4, <1>5, <2>1
<1>7. CASE ~c.signed /\ p < 0
  <2>1. n < 0
    BY <1>3, <1>7
  <2>2. ~(c.bits < PtrBits) /\ c.bits \in Int /\ PtrBits \in Int
    BY <1>1, <1>7, <2>1, WidthsAssumption DEF IsType
  <2>3. PtrBits <= c.bits
    BY <2>2
  <2>4. As(a + As(p, c), Pointer) = a + p
    BY <1>1, <1>3, <1>4, <1>7, <2>3, WrapsAround
  <2> QED
    BY <1>2, <1>5, <2>4
<1> QED
  BY <1>3, <1>6, <1>7

\* Moving by n entries of a flat group, forwards or backwards.
LEMMA MovesByEntries ==
    ASSUME Shape, dim.flat, NEW i \in 0 .. Count, NEW n \in Int, i + n \in 0 .. Count,
           LET c == Common(DifferenceType, BlockType)
           IN  ~(n < 0 /\ ~c.signed /\ c.bits < PtrBits)
    PROVE  PlusEntries(Start(i), n, DifferenceType) = Start(i + n)
<1>1. Count \in Nat /\ Count <= MaxCount /\ MaxCount \in Nat /\ block \in Nat
      /\ HeaderSize \in Nat
  BY TypesOfGroup
<1>2. - MaxCount <= n /\ n <= MaxCount
  BY <1>1
<1>3. Start(i) = HeaderSize + i * block /\ Start(i + n) = HeaderSize + (i + n) * block
  BY Starts
<1>4. (HeaderSize + i * block) + n * block = HeaderSize + (i + n) * block
  BY <1>1
<1>5. Start(i) + n * block = Start(i + n)
  BY <1>3, <1>4
<1>6. Start(i) \in Int /\ Start(i + n) \in 0 .. Limit - 1
  <2>1. Start(i) \in 0 .. Limit - 1 /\ Limit \in Nat
    BY Starts, Limits
  <2> QED
    BY <2>1, Starts
<1>7. IsType(DifferenceType)
  BY TypesOfGroup
<1>8. Start(i) + n * block \in 0 .. Limit - 1
  BY <1>5, <1>6
<1>9. PlusEntries(Start(i), n, DifferenceType) = Start(i) + n * block
  BY <1>2, <1>6, <1>7, <1>8, ConversionsOfGroup
<1> QED
  BY <1>5, <1>9

\* size_bytes() of a flat group leads to the end of the last entry.
LEMMA SizeBytesIsEnd ==
    ASSUME Shape, dim.flat
    PROVE  SizeBytes = Start(Count)
<1>1. Count \in Nat /\ Count <= MaxCount /\ MaxCount \in Nat /\ block \in Nat
      /\ HeaderSize \in Nat
  BY TypesOfGroup
<1>2. IsType(SizeType) /\ IsType(BlockType)
  BY TypesOfGroup
<1>3. Start(Count) = HeaderSize + Count * block /\ Start(Count) \in 0 .. Limit - 1
  BY <1>1, Starts
<1>4. - MaxCount <= Count /\ Count \in Int /\ ~(Count < 0)
  BY <1>1
<1>5. PlusEntries(HeaderSize, Count, SizeType) = HeaderSize + Count * block
  <2>1. HeaderSize \in Int /\ HeaderSize + Count * block \in 0 .. Limit - 1
    BY <1>1, <1>3
  <2> QED
    BY <1>1, <1>2, <1>4, <2>1, ConversionsOfGroup
<1>6. SizeBytes = PlusEntries(HeaderSize, Count, SizeType)
  BY DEF SizeBytes, PlusEntries
<1> QED
  BY <1>3, <1>5, <1>6

\* No entry begins behind the end of the last one.
LEMMA StartsAscend ==
    ASSUME Shape, NEW i \in 0 .. Count
    PROVE  Start(i) <= Start(Count)
<1> DEFINE T == {j \in i .. Count : Start(i) <= Start(j)}
<1>1. /\ Count \in Nat /\ i \in Int /\ i \in i .. Count /\ Count \in i .. Count
      /\ Start(i) \in Int
  <2>1. Start(i) \in 0 .. Limit - 1 /\ Limit \in Nat
    BY Starts, Limits
  <2> QED
    BY <2>1, TypesOfGroup
<1>2. i \in T
  BY <1>1
<1>3. ASSUME NEW j \in i .. Count - 1, j \in T
      PROVE  j + 1 \in T
  <2>1. j \in 0 .. Count - 1 /\ j \in 0 .. Count /\ j + 1 \in 1 .. Count /\ j + 1 \in i .. Count
    BY <1>1
  <2>2. Start(j + 1) = Start(j) + sizes[j + 1]
    BY <2>1, Starts
  <2>3. sizes[j + 1] \in 0 .. MaxBlock + MaxExtra /\ MaxBlock \in Nat /\ MaxExtra \in Nat
    BY <2>1, SizeOfEntry, TypesOfGroup
  <2>4. Start(j) \in 0 .. Limit - 1 /\ Limit \in Nat
    BY <2>1, Starts, Limits
  <2>5. PICK a, b, n : a = Start(j) /\ b = Start(j + 1) /\ n = sizes[j + 1]
    OBVIOUS
  <2>6. a \in Int /\ n \in Nat /\ b = a + n /\ Start(i) <= a
    BY <1>3, <2>2, <2>3, <2>4, <2>5
  <2>7. Start(i) <= b
    BY <1>1, <2>6
  <2> QED
    BY <2>1, <2>5, <2>7
<1> HIDE DEF T
<1>4. i .. Count \subseteq T
  BY <1>1, <1>2, <1>3, IntervalInduction
<1> QED
  BY <1>1, <1>4 DEF T

\* What a size check of n bytes at p says.
LEMMA RoomChecked ==
    ASSUME Shape, NEW p \in 0 .. Limit - 1, NEW n \in Nat, p + n \in 0 .. Limit - 1
    PROVE  HasRoom(p, n) <=> p + n <= room \/ p > room
<1>1. PICK l, m : l = Limit /\ m = TwoTo(PtrBits)
  OBVIOUS
<1>2. l \in Nat /\ m \in Nat \ {0} /\ l <= m
  BY <1>1, Limits, TwoToStep, WidthsAssumption
<1>3. room \in 0 .. m - 1 /\ p \in 0 .. l - 1 /\ p + n \in 0 .. l - 1
  BY <1>1, RoomsAssumption DEF Shape
<1>4. HasRoom(p, n) <=> n <= As(room - p, Pointer)
  BY DEF HasRoom
<1>5. CASE p <= room
  <2>1. room - p \in 0 .. m - 1
    BY <1>2, <1>3, <1>5
  <2>2. As(room - p, Pointer) = room - p
    BY <1>1, <2>1, Limits, UnsignedKept
  <2> QED
    BY <1>2, <1>3, <1>4, <1>5, <2>2
<1>6. CASE p > room
  <2>1. (room - p) + m \in 0 .. m - 1 /\ m * (-1) + ((room - p) + m) = room - p
    BY <1>2, <1>3, <1>6
  <2>2. As(room - p, Pointer) = (room - p) + m
    BY <1>1, <2>1, Limits, UnsignedFits
  <2>3. n <= (room - p) + m
    BY <1>2, <1>3
  <2> QED
    BY <1>4, <1>6, <2>2, <2>3
<1> QED
  BY <1>2, <1>3, <1>5, <1>6

\* Of a header.
LEMMA HeaderChecked ==
    ASSUME Shape
    PROVE  HasRoom(0, HeaderSize) <=> HeaderSize <= room
<1>1. Count \in Nat /\ HeaderSize \in Nat /\ Limit \in Nat
  BY TypesOfGroup, Limits
<1>2. HeaderSize \in 0 .. Limit - 1
  BY <1>1, Starts
<1>3. 0 \in 0 .. Limit - 1 /\ 0 + HeaderSize = HeaderSize
  BY <1>1, <1>2
<1>4. HasRoom(0, HeaderSize) <=> HeaderSize <= room \/ 0 > room
  BY <1>1, <1>2, <1>3, RoomChecked
<1>5. ~(0 > room)
  BY RoomsAssumption, TwoToStep, WidthsAssumption DEF Shape
<1> QED
  BY <1>4, <1>5

\* The address of the entry in front of i.
LEMMA BeforeEntry ==
    ASSUME Shape, dim.flat, NEW i \in 1 .. Count
    PROVE  As(Start(i) - block, Pointer) = Start(i - 1)
<1>1. Count \in Nat /\ block \in Nat /\ HeaderSize \in Nat
  BY TypesOfGroup
<1>2. i - 1 \in 0 .. Count /\ i - 1 \in 0 .. Count - 1 /\ (i - 1) + 1 = i
      /\ i \in 0 .. Count
  BY <1>1
<1>3. Start(i) = Start(i - 1) + sizes[i] /\ sizes[i] = block
  BY <1>2, Starts, SizeOfEntry
<1>4. Start(i - 1) \in 0 .. Limit - 1
  BY <1>2, Starts
<1>5. Start(i) - block = Start(i - 1)
  <2>1. PICK a, b : a = Start(i - 1) /\ b = Start(i)
    OBVIOUS
  <2>2. a \in Int /\ b = a + block
    BY <1>3, <1>4, <2>1, Limits
  <2>3. b - block = a
    BY <1>1, <2>2
  <2> QED
    BY <2>1, <2>3
<1> QED
  BY <1>4, <1>5, AddressKept

\* The address of the entry behind i, at the end of the entry i.
LEMMA BehindEntry ==
    ASSUME Shape, index \in 0 .. Count - 1
    PROVE  /\ Start(index) + EntrySize = Start(index + 1)
           /\ As(Start(index) + EntrySize, Pointer) = Start(index + 1)
           /\ As(index + 1, SizeType) = index + 1
           /\ index + 1 \in 0 .. Count
<1>1. Count \in Nat /\ Count <= MaxCount /\ MaxCount \in Nat
  BY TypesOfGroup
<1>2. index + 1 \in 1 .. Count /\ index + 1 \in 0 .. Count /\ index + 1 \in 0 .. MaxCount
  BY <1>1
<1>3. EntrySize = sizes[index + 1]
  BY <1>2, SizeOfEntry DEF EntrySize
<1>4. Start(index + 1) = Start(index) + sizes[index + 1]
  BY Starts
<1>5. Start(index + 1) \in 0 .. Limit - 1
  BY <1>2, Starts
<1>6. As(Start(index + 1), Pointer) = Start(index + 1)
  BY <1>5, AddressKept
<1>7. As(index + 1, SizeType) = index + 1
  BY <1>2, TypesOfGroup
<1> QED
  BY <1>2, <1>3, <1>4, <1>6, <1>7

-----------------------------------------------------------------------------
(* Execution of a call.                                                    *)

\* What EntrySequence calls pos.
Pos == IF kind = "none" THEN -1 ELSE index

\* What is shown of every execution.
Kept ==
    /\ Shape' /\ KindOfGroup' /\ IteratorAtEntry' /\ WalkAllowed'
    /\ Promise!Answer \/ Promise!Fail

LEMMA Unchanged ==
    ASSUME IInv, UNCHANGED <<group, iterator>>, walk' = walk \/ walk' = NoWalk
    PROVE  Shape' /\ KindOfGroup' /\ IteratorAtEntry'
<1>1. /\ dim' = dim /\ room' = room /\ block' = block /\ sizes' = sizes
      /\ kind' = kind /\ ptr' = ptr /\ index' = index /\ last' = last
  BY DEF group, iterator
<1>2. Count' = Count /\ EntrySizes' = EntrySizes
  BY <1>1 DEF Count, EntrySizes
<1>3. Shape' /\ KindOfGroup'
  BY <1>1, <1>2 DEF IInv, Shape, KindOfGroup
<1>4. IteratorAtEntry'
  BY <1>1, <1>2 DEF IInv, IteratorAtEntry
<1> QED
  BY <1>3, <1>4

LEMMA GroupUnchanged ==
    ASSUME Shape, UNCHANGED group
    PROVE  /\ Shape' /\ Count' = Count /\ dim' = dim
           /\ \A i : Promise!EntryAt(sizes, i)' = Start(i)
<1>1. dim' = dim /\ room' = room /\ block' = block /\ sizes' = sizes
  BY DEF group
<1>2. Count' = Count /\ EntrySizes' = EntrySizes
  BY <1>1 DEF Count, EntrySizes
<1>3. Shape'
  BY <1>1, <1>2 DEF Shape
<1>4. \A i : Promise!EntryAt(sizes, i)' = Start(i)
  BY <1>1 DEF Start
<1> QED
  BY <1>1, <1>2, <1>3, <1>4

\* An assertion or a size check stops a call that it is for.
LEMMA Fails ==
    ASSUME IInv, status = "busy", Fail, ~Promise!Passes(call) \/ Promise!MayFail(call)
    PROVE  Kept
<1>1. /\ status' = "failed" /\ call' = call /\ answer' = answer /\ walk' = walk
      /\ UNCHANGED <<group, iterator>>
  BY DEF Fail
<1>2. /\ dim' = dim /\ room' = room /\ sizes' = sizes
      /\ kind' = kind /\ index' = index
  BY <1>1 DEF group, iterator
<1>3. Promise!Fail
  BY <1>1, <1>2 DEF Promise!Fail
<1>4. WalkAllowed'
  BY <1>1 DEF WalkAllowed
<1> QED
  BY <1>1, <1>3, <1>4, Unchanged DEF Kept

\* A call that is not resize() answers, and moves the iterator where it should.
LEMMA Answers ==
    ASSUME status = "busy", UNCHANGED group, NEW v, Done(v), Promise!Passes(call),
           call.op # "resize", Pos' = Promise!Moved(call), v = Promise!Told(call)
    PROVE  Promise!Answer /\ WalkAllowed'
<1>1. dim' = dim /\ room' = room /\ sizes' = sizes
  BY DEF group
<1>2. answer' = v /\ call' = Promise!NoCall /\ walk' = NoWalk /\ status' = "idle"
  BY DEF Done
<1>3. WalkAllowed'
  BY <1>2 DEF WalkAllowed
<1> QED
  BY <1>1, <1>2, <1>3 DEF Promise!Answer, Pos

\* A call that only looks.
LEMMA Looks ==
    ASSUME IInv, status = "busy", UNCHANGED <<group, iterator>>, NEW v, Done(v),
           Promise!Passes(call), call.op # "resize",
           Pos = Promise!Moved(call), v = Promise!Told(call)
    PROVE  Kept
<1>1. UNCHANGED group /\ kind' = kind /\ index' = index
  BY DEF iterator
<1>2. Pos' = Promise!Moved(call)
  BY <1>1 DEF Pos
<1>3. Promise!Answer /\ WalkAllowed'
  BY <1>1, <1>2, Answers
<1>4. walk' = NoWalk
  BY DEF Done
<1> QED
  BY <1>3, <1>4, Unchanged DEF Kept

\* A call that moves the iterator to an entry, or makes one that is there.
LEMMA Moves ==
    ASSUME IInv, status = "busy", UNCHANGED group, NEW v, Done(v),
           Promise!Passes(call), call.op # "resize",
           NEW i \in 0 .. Count, index' = i, ptr' = Start(i),
           kind' \in {"random_access", "forward", "cursor"},
           kind' = "random_access" => dim.flat, kind' = "forward" => ~dim.flat,
           kind' = "cursor" => i <= last' /\ last' <= Count, last' \in Nat,
           i = Promise!Moved(call), v = Promise!Told(call)
    PROVE  Kept
<1>1. /\ Shape' /\ Count' = Count /\ dim' = dim
      /\ Promise!EntryAt(sizes, i)' = Start(i)
  BY GroupUnchanged DEF IInv
<1>2. KindOfGroup'
  BY <1>1 DEF KindOfGroup
<1>3. IteratorAtEntry'
  <2>1. Promise!EntryAt(sizes, index)' = Start(i)
    BY <1>1
  <2>2. walk' = NoWalk
    BY DEF Done
  <2> QED
    BY <1>1, <2>1, <2>2 DEF IteratorAtEntry
<1>4. Pos' = Promise!Moved(call)
  BY DEF Pos
<1>5. Promise!Answer /\ WalkAllowed'
  BY <1>4, Answers
<1> QED
  BY <1>1, <1>2, <1>3, <1>5 DEF Kept

\* Which iterator and which kind of group a member is of.
LEMMA MemberOf ==
    ASSUME KindOfGroup, NEW op \in Members
    PROVE  /\ op \in OnFlat => dim.flat
           /\ op \in {"previous", "plus", "minus", "at", "distance"} =>
                  kind = "random_access" /\ dim.flat
           /\ op \in {"next", "get"} => kind \in {"random_access", "forward"}
           /\ op = "read" => kind = "cursor"
           /\ op # "none"
<1> DEFINE mine == CASE kind = "random_access" -> OnRandom
                     [] kind = "forward"       -> OnForward
                     [] kind = "cursor"        -> OnCursor
                     [] kind = "none"          -> {}
<1>1. op \in OnGroup \/ (dim.flat /\ op \in OnFlat) \/ op \in mine
  BY DEF Members
<1>2. CASE op \in OnGroup
  BY <1>2 DEF OnGroup, OnFlat
<1>3. CASE dim.flat /\ op \in OnFlat
  BY <1>3 DEF OnFlat
<1>4. CASE op \in mine
  <2>1. \/ kind = "random_access" /\ mine = OnRandom
        \/ kind = "forward" /\ mine = OnForward
        \/ kind = "cursor" /\ mine = OnCursor
        \/ kind = "none" /\ mine = {}
    BY DEF KindOfGroup
  <2> HIDE DEF mine
  <2>2. CASE kind = "random_access" /\ op \in OnRandom
    BY <2>2 DEF OnRandom, OnFlat, KindOfGroup
  <2>3. CASE kind = "forward" /\ op \in OnForward
    BY <2>3 DEF OnForward, OnFlat
  <2>4. CASE kind = "cursor" /\ op \in OnCursor
    BY <2>4 DEF OnCursor, OnFlat
  <2> QED
    BY <1>4, <2>1, <2>2, <2>3, <2>4
<1> QED
  BY <1>1, <1>2, <1>3, <1>4

\* What is known of a call in progress.
LEMMA CallInProgress ==
    ASSUME IInv, status = "busy", Liberties = {}
    PROVE  /\ Shape /\ KindOfGroup /\ IteratorAtEntry
           /\ call.op \in Members
           /\ <<call.n, call.m>> \in Args(call.op)
           /\ MayCall(call.op, call.n, call.m)
           /\ ~Far(call.op, call.n) /\ ~Backward(call.op, call.n)
           /\ Count \in Nat
           /\ kind # "none" => /\ index \in 0 .. Count
                               /\ ptr = Start(index) /\ Pos = index
<1>1. /\ Shape /\ KindOfGroup /\ IteratorAtEntry
      /\ call.op \in Members
      /\ <<call.n, call.m>> \in Args(call.op)
      /\ MayCall(call.op, call.n, call.m)
  BY DEF IInv, CallAllowed
<1>2. ~Far(call.op, call.n) /\ ~Backward(call.op, call.n)
  BY <1>1 DEF MayCall
<1>3. Count \in Nat
  BY <1>1, TypesOfGroup
<1> QED
  BY <1>1, <1>2, <1>3 DEF IteratorAtEntry, Start, Pos

\* What a program may call depends on the group and its iterator.
LEMMA CallStays ==
    ASSUME CallAllowed, UNCHANGED <<group, iterator, call, status>>
    PROVE  CallAllowed'
<1>1. /\ dim' = dim /\ sizes' = sizes /\ call' = call /\ status' = status
      /\ kind' = kind /\ index' = index /\ last' = last
  BY DEF group, iterator
<1>2. Members' = Members
  BY <1>1 DEF Members
<1>3. Args(call.op)' = Args(call.op)
  BY <1>1 DEF Args, Is, As, DifferenceType
<1>4. MayCall(call.op, call.n, call.m)' = MayCall(call.op, call.n, call.m)
  BY <1>1 DEF MayCall, Count, Step, Far, Backward, Is, As, Common, Promoted,
     DifferenceType, BlockType
<1> QED
  BY <1>1, <1>2, <1>3, <1>4 DEF CallAllowed

-----------------------------------------------------------------------------
(* Members of groups.                                                      *)

\* Without a header in the view no member of a group answers.
LEMMA TruncatedHeaderStep ==
    ASSUME IInv, TruncatedHeader
    PROVE  Kept
<1>1. status = "busy" /\ call.op \in OnGroup \cup OnFlat /\ Fail
  BY DEF TruncatedHeader
<1>2. ~(HeaderSize <= room)
  BY HeaderChecked DEF IInv, TruncatedHeader
<1>3. call.op \in Promise!OfGroup
  BY <1>1 DEF OnGroup, OnFlat, Promise!OfGroup
<1>4. ~Promise!Passes(call)
  BY <1>2, <1>3 DEF Promise!Passes
<1> QED
  BY <1>1, <1>4, Fails

LEMMA FlatSizeBytesStep ==
    ASSUME IInv, FlatSizeBytes
    PROVE  Kept
<1>1. /\ status = "busy" /\ call.op = "size_bytes" /\ dim.flat
      /\ Done(SizeBytes) /\ UNCHANGED <<group, iterator>>
  BY DEF FlatSizeBytes, CalledWithHeader, Called
<1>2. HeaderSize <= room
  BY HeaderChecked DEF IInv, FlatSizeBytes, CalledWithHeader
<1>3. SizeBytes = Start(Count)
  BY <1>1, SizeBytesIsEnd DEF IInv
<1>4. Promise!Passes(call)
  BY <1>1, <1>2 DEF Promise!Passes
<1>5. Pos = Promise!Moved(call)
  BY <1>1 DEF Promise!Moved, Pos
<1>6. Promise!Told(call) = Start(Count)
  BY <1>1 DEF Promise!Told, Promise!Count, Count, Start
<1> QED
  BY <1>1, <1>3, <1>4, <1>5, <1>6, Looks

\* A step within the loop changes nothing but the loop.
LEMMA WalkOn ==
    ASSUME IInv, status = "busy", UNCHANGED <<group, iterator, call, answer, status>>,
           call.op = "size_bytes", ~dim.flat, HeaderSize <= room,
           NEW i \in 0 .. Count, walk'.index = i, walk'.ptr = Start(i),
           walk'.size = Start(i), Start(i) <= room
    PROVE  IInv' /\ UNCHANGED Promise!vars
<1>1. UNCHANGED group /\ UNCHANGED iterator
  OBVIOUS
<1>2. /\ dim' = dim /\ room' = room /\ sizes' = sizes
      /\ kind' = kind /\ ptr' = ptr /\ index' = index /\ last' = last
  BY <1>1 DEF group, iterator
<1>3. /\ Shape' /\ Count' = Count
      /\ Promise!EntryAt(sizes, i)' = Start(i)
  BY <1>1, GroupUnchanged DEF IInv
<1>4. KindOfGroup'
  BY <1>2 DEF IInv, KindOfGroup
<1>5. IteratorAtEntry'
  <2>1. Promise!EntryAt(sizes, index)' = Start(index)
    BY <1>2 DEF Start
  <2>2. Promise!EntryAt(sizes, walk.index)' = Start(i)
    BY <1>3
  <2> QED
    BY <1>2, <1>3, <2>1, <2>2 DEF IInv, IteratorAtEntry, Start
<1>6. WalkAllowed'
  BY <1>2 DEF WalkAllowed
<1>7. CallAllowed'
  BY CallStays DEF IInv
<1>8. UNCHANGED Promise!vars
  BY <1>2 DEF Promise!vars
<1> QED
  BY <1>3, <1>4, <1>5, <1>6, <1>7, <1>8 DEF IInv

LEMMA StartWalkStep ==
    ASSUME IInv, StartWalk
    PROVE  IInv' /\ UNCHANGED Promise!vars
<1>1. /\ status = "busy" /\ call.op = "size_bytes" /\ ~dim.flat
      /\ walk' = [ptr |-> HeaderSize, index |-> 0, size |-> HeaderSize]
      /\ UNCHANGED <<group, iterator, call, answer, status>>
  BY DEF StartWalk, CalledWithHeader, Called
<1>2. HeaderSize <= room
  BY HeaderChecked DEF IInv, StartWalk, CalledWithHeader
<1>3. Start(0) = HeaderSize /\ 0 \in 0 .. Count
  BY Starts, TypesOfGroup DEF IInv
<1> QED
  BY <1>1, <1>2, <1>3, WalkOn

\* Where the loop is.
LEMMA InWalk ==
    ASSUME IInv, status = "busy", walk # NoWalk
    PROVE  /\ call.op = "size_bytes" /\ ~dim.flat
           /\ HeaderSize <= room
           /\ walk.index \in 0 .. Count /\ Count \in Nat
           /\ walk.ptr = Start(walk.index) /\ walk.size = walk.ptr
           /\ walk.ptr <= room
BY TypesOfGroup DEF IInv, WalkAllowed, IteratorAtEntry, Start

LEMMA WalkOverStep ==
    ASSUME IInv, WalkOver
    PROVE  Kept \/ (IInv' /\ UNCHANGED Promise!vars)
<1> PICK i, n : i = walk.index /\ n = sizes[i + 1]
  OBVIOUS
<1>1. /\ status = "busy" /\ walk # NoWalk /\ i # Count
      /\ \/ ~HasRoom(walk.ptr, n) /\ Fail
         \/ /\ HasRoom(walk.ptr, n)
            /\ walk' = [ptr   |-> As(walk.ptr + n, Pointer),
                         index |-> As(i + 1, SizeType),
                         size  |-> As(walk.size + n, Pointer)]
            /\ UNCHANGED <<group, iterator, call, answer, status>>
  BY DEF WalkOver
<1>2. /\ call.op = "size_bytes" /\ ~dim.flat /\ HeaderSize <= room
      /\ i \in 0 .. Count /\ Count \in Nat /\ Shape
      /\ walk.ptr = Start(i) /\ walk.size = Start(i) /\ Start(i) <= room
  BY <1>1, InWalk DEF IInv
<1>3. /\ i \in 0 .. Count - 1 /\ i + 1 \in 0 .. Count /\ i + 1 \in 1 .. Count
      /\ i + 1 \in 0 .. MaxCount /\ i \in Int
  BY <1>1, <1>2, TypesOfGroup
<1>4. Start(i) + n = Start(i + 1) /\ Start(i) \in 0 .. Limit - 1 /\ n \in Nat
      /\ Start(i + 1) \in 0 .. Limit - 1 /\ Limit \in Nat /\ room \in Nat
  <2>1. Start(i) + n = Start(i + 1) /\ Start(i) \in 0 .. Limit - 1
        /\ Start(i + 1) \in 0 .. Limit - 1 /\ Limit \in Nat
    BY <1>2, <1>3, Starts, Limits
  <2>2. n \in 0 .. MaxBlock + MaxExtra /\ MaxBlock \in Nat /\ MaxExtra \in Nat
    BY <1>2, <1>3, SizeOfEntry, TypesOfGroup
  <2>3. room \in Nat
    BY <1>2, RoomsAssumption, TwoToStep, WidthsAssumption DEF Shape
  <2> QED
    BY <2>1, <2>2, <2>3
<1>5. HasRoom(Start(i), n) <=> Start(i + 1) <= room
  <2>1. Start(i) + n \in 0 .. Limit - 1
    BY <1>4
  <2>2. HasRoom(Start(i), n) <=> Start(i) + n <= room \/ Start(i) > room
    BY <1>2, <1>4, <2>1, RoomChecked
  <2>3. PICK a : a = Start(i)
    OBVIOUS
  <2>4. a \in Int /\ a <= room /\ room \in Int
    BY <1>2, <1>4, <2>3
  <2>5. ~(a > room)
    BY <2>4
  <2> QED
    BY <1>4, <2>2, <2>3, <2>5
<1>6. CASE ~HasRoom(walk.ptr, n) /\ Fail
  <2>1. ~(Start(i + 1) <= room)
    BY <1>2, <1>5, <1>6
  <2>2. Start(i + 1) <= Start(Count) /\ Start(Count) \in 0 .. Limit - 1
    BY <1>2, <1>3, StartsAscend, Starts
  <2>3. ~(Start(Count) <= room)
    <3>1. PICK a, b : a = Start(i + 1) /\ b = Start(Count)
      OBVIOUS
    <3>2. a \in Int /\ b \in Int /\ a <= b /\ ~(a <= room) /\ room \in Int
      BY <1>4, <2>1, <2>2, <3>1
    <3>3. ~(b <= room)
      BY <3>2
    <3> QED
      BY <3>1, <3>3
  <2>4. ~Promise!Passes(call)
    BY <1>2, <2>3 DEF Promise!Passes, Promise!Count, Count, Start
  <2> QED
    BY <1>1, <1>6, <2>4, Fails
<1>7. CASE /\ HasRoom(walk.ptr, n)
           /\ walk' = [ptr   |-> As(walk.ptr + n, Pointer),
                        index |-> As(i + 1, SizeType),
                        size  |-> As(walk.size + n, Pointer)]
           /\ UNCHANGED <<group, iterator, call, answer, status>>
  <2>1. As(Start(i) + n, Pointer) = Start(i + 1) /\ As(i + 1, SizeType) = i + 1
    BY <1>2, <1>3, <1>4, AddressKept, TypesOfGroup
  <2>2. walk'.ptr = Start(i + 1) /\ walk'.size = Start(i + 1) /\ walk'.index = i + 1
    BY <1>2, <1>7, <2>1
  <2>3. Start(i + 1) <= room
    BY <1>2, <1>5, <1>7
  <2>4. PICK k : k = i + 1
    OBVIOUS
  <2>5. k \in 0 .. Count /\ walk'.ptr = Start(k) /\ walk'.size = Start(k)
        /\ walk'.index = k /\ Start(k) <= room
    BY <1>3, <2>2, <2>3, <2>4
  <2> QED
    BY <1>1, <1>2, <1>7, <2>5, WalkOn
<1> QED
  BY <1>1, <1>6, <1>7

LEMMA NestedSizeBytesStep ==
    ASSUME IInv, NestedSizeBytes
    PROVE  Kept
<1>1. /\ status = "busy" /\ walk # NoWalk /\ walk.index = Count
      /\ Done(walk.size) /\ UNCHANGED <<group, iterator>>
  BY DEF NestedSizeBytes
<1>2. /\ call.op = "size_bytes" /\ HeaderSize <= room
      /\ walk.size = Start(Count) /\ Start(Count) <= room
  BY <1>1, InWalk
<1>3. Promise!Passes(call)
  BY <1>2 DEF Promise!Passes, Promise!Count, Count, Start
<1>4. Pos = Promise!Moved(call)
  BY <1>2 DEF Promise!Moved, Pos
<1>5. Promise!Told(call) = Start(Count)
  BY <1>2 DEF Promise!Told, Promise!Count, Count, Start
<1> QED
  BY <1>1, <1>2, <1>3, <1>4, <1>5, Looks

LEMMA SizesInside ==
    ASSUME NEW m \in Nat, NEW e \in Nat, NEW b \in 0 .. m
    PROVE  b .. b + e \subseteq 0 .. m + e /\ {b} \subseteq 0 .. m + e
<1>1. ASSUME NEW x \in b .. b + e
      PROVE  x \in 0 .. m + e
  <2>1. x \in Int /\ b <= x /\ x <= b + e /\ b \in Int /\ 0 <= b /\ b <= m
    OBVIOUS
  <2>2. 0 <= x /\ x <= m + e
    BY <2>1
  <2> QED
    BY <2>1, <2>2
<1>2. b \in 0 .. m + e
  OBVIOUS
<1> QED
  BY <1>1, <1>2

LEMMA ResizeStep ==
    ASSUME IInv, Liberties = {}, Resize
    PROVE  Kept
<1>0. HeaderSize <= room
  BY HeaderChecked DEF IInv, Resize, CalledWithHeader
<1>1. /\ status = "busy" /\ call.op = "resize" /\ dim' = dim /\ room' = room
      /\ block' \in {block, MaxBlock} /\ kind' = "none" /\ last' = 0 /\ Done(0)
      /\ sizes' \in [1 .. call.n -> IF dim.flat THEN {block'}
                                    ELSE block' .. block' + MaxExtra]
  BY DEF Resize, CalledWithHeader, Called
<1>2. call.n \in 0 .. MaxCount
  BY <1>1, CallInProgress DEF Args
<1>3. /\ MaxCount \in Nat /\ MaxBlock \in Nat /\ MaxExtra \in Nat /\ dim \in Dims
      /\ room \in Rooms /\ block \in 0 .. MaxBlock
  BY TypesOfGroup DEF IInv, Shape
<1>4. call.n \in Nat /\ block' \in 0 .. MaxBlock
  BY <1>1, <1>2, <1>3
<1>5. Len(sizes') = call.n
  BY <1>1, <1>4, LenOfFunction
<1>6. Shape'
  <2>1. Count' = call.n
    BY <1>5 DEF Count
  <2>2. EntrySizes' = IF dim.flat THEN {block'} ELSE block' .. block' + MaxExtra
    BY <1>1 DEF EntrySizes
  <2> QED
    BY <1>1, <1>2, <1>3, <1>4, <2>1, <2>2 DEF Shape
<1>7. KindOfGroup' /\ IteratorAtEntry' /\ WalkAllowed'
  BY <1>1 DEF KindOfGroup, IteratorAtEntry, WalkAllowed, Done
<1>8. sizes' \in Entries
  <2>1. (IF dim.flat THEN {block'} ELSE block' .. block' + MaxExtra)
            \subseteq 0 .. MaxBlock + MaxExtra
    BY <1>3, <1>4, SizesInside
  <2>2. PICK S : S = IF dim.flat THEN {block'} ELSE block' .. block' + MaxExtra
    OBVIOUS
  <2>3. sizes' \in [1 .. call.n -> 0 .. MaxBlock + MaxExtra]
    BY <1>1, <2>1, <2>2
  <2> QED
    BY <1>2, <2>3 DEF Entries
<1>9. Promise!Answer
  <2>1. Promise!Passes(call) /\ Promise!Moved(call) = -1 /\ Promise!Told(call) = 0
    BY <1>0, <1>1 DEF Promise!Passes, Promise!Moved, Promise!Told, Promise!Nowhere
  <2>2. answer' = 0 /\ call' = Promise!NoCall /\ status' = "idle"
    BY <1>1 DEF Done
  <2> QED
    BY <1>1, <1>5, <1>8, <2>1, <2>2 DEF Promise!Answer
<1> QED
  BY <1>6, <1>7, <1>9 DEF Kept

LEMMA BeginStep ==
    ASSUME IInv, Liberties = {}, Begin
    PROVE  Kept
<1>0. HeaderSize <= room
  BY HeaderChecked DEF IInv, Begin, CalledWithHeader
<1>1. /\ status = "busy" /\ call.op = "begin" /\ Done(0) /\ UNCHANGED group
      /\ kind' = IF dim.flat THEN "random_access" ELSE "forward"
      /\ ptr' = HeaderSize /\ index' = 0 /\ last' = 0
  BY DEF Begin, CalledWithHeader, Called
<1>2. Start(0) = HeaderSize /\ Count \in Nat /\ dim.flat \in BOOLEAN
  BY Starts, TypesOfGroup DEF IInv
<1>3. Promise!Passes(call) /\ Promise!Moved(call) = 0 /\ Promise!Told(call) = 0
  BY <1>0, <1>1 DEF Promise!Passes, Promise!Moved, Promise!Told
<1>4. 0 \in 0 .. Count
  BY <1>2
<1>5. /\ kind' \in {"random_access", "forward", "cursor"}
      /\ kind' = "random_access" => dim.flat
      /\ kind' = "forward" => ~dim.flat
      /\ kind' # "cursor"
  BY <1>1, <1>2
<1> QED
  BY <1>1, <1>2, <1>3, <1>4, <1>5, Moves

LEMMA EndStep ==
    ASSUME IInv, Liberties = {}, End
    PROVE  Kept
<1>0. HeaderSize <= room
  BY HeaderChecked DEF IInv, End, CalledWithHeader
<1>1. /\ status = "busy" /\ call.op = "end" /\ Done(0) /\ UNCHANGED group
      /\ kind' = "random_access" /\ ptr' = SizeBytes /\ index' = Count /\ last' = 0
  BY DEF End, CalledWithHeader, Called
<1>2. dim.flat /\ Count \in Nat
  BY <1>1, CallInProgress, MemberOf DEF OnFlat
<1>3. SizeBytes = Start(Count)
  BY <1>2, SizeBytesIsEnd DEF IInv
<1>4. Promise!Passes(call) /\ Promise!Moved(call) = Count /\ Promise!Told(call) = 0
  BY <1>0, <1>1 DEF Promise!Passes, Promise!Moved, Promise!Told, Promise!Count, Count
<1>5. Count \in 0 .. Count
  BY <1>2
<1> QED
  BY <1>1, <1>2, <1>3, <1>4, <1>5, Moves

LEMMA FrontStep ==
    ASSUME IInv, Liberties = {}, Front
    PROVE  Kept
<1>0. HeaderSize <= room
  BY HeaderChecked DEF IInv, Front, CalledWithHeader
<1>1. status = "busy" /\ call.op = "front"
  BY DEF Front, CalledWithHeader, Called
<1>2. Start(0) = HeaderSize /\ Count \in Nat
  BY Starts, TypesOfGroup DEF IInv
<1>3. Promise!Passes(call) <=> HasEntry(0)
  BY <1>0, <1>1, <1>2 DEF Promise!Passes, HasEntry, Promise!Count, Count
<1>4. CASE ~HasEntry(0) /\ Fail
  BY <1>1, <1>3, <1>4, Fails
<1>5. CASE HasEntry(0) /\ Done(HeaderSize) /\ UNCHANGED <<group, iterator>>
  <2>1. Pos = Promise!Moved(call)
    BY <1>1 DEF Promise!Moved, Pos
  <2>2. Promise!Told(call) = Start(0)
    BY <1>1 DEF Promise!Told, Start
  <2> QED
    BY <1>1, <1>2, <1>3, <1>5, <2>1, <2>2, Looks
<1> QED
  BY <1>4, <1>5 DEF Front

LEMMA BackStep ==
    ASSUME IInv, Liberties = {}, Back
    PROVE  Kept
<1>0. HeaderSize <= room
  BY HeaderChecked DEF IInv, Back, CalledWithHeader
<1>1. status = "busy" /\ call.op = "back"
  BY DEF Back, CalledWithHeader, Called
<1>2. Count \in Nat /\ Shape
  BY TypesOfGroup DEF IInv
<1>3. Promise!Passes(call) <=> HasEntry(0)
  BY <1>0, <1>1, <1>2 DEF Promise!Passes, HasEntry, Promise!Count, Count
<1>4. CASE ~HasEntry(0) /\ Fail
  BY <1>1, <1>3, <1>4, Fails
<1>5. CASE /\ HasEntry(0) /\ Done(As(SizeBytes - block, Pointer))
           /\ UNCHANGED <<group, iterator>>
  <2>1. dim.flat
    BY <1>1, CallInProgress, MemberOf DEF OnFlat
  <2>2. Count \in 1 .. Count
    BY <1>2, <1>5 DEF HasEntry
  <2>3. As(SizeBytes - block, Pointer) = Start(Count - 1)
    BY <1>2, <2>1, <2>2, SizeBytesIsEnd, BeforeEntry
  <2>4. Pos = Promise!Moved(call)
    BY <1>1 DEF Promise!Moved, Pos
  <2>5. Promise!Told(call) = Start(Count - 1)
    BY <1>1 DEF Promise!Told, Start, Promise!Count, Count
  <2> QED
    BY <1>1, <1>3, <1>5, <2>3, <2>4, <2>5, Looks
<1> QED
  BY <1>4, <1>5 DEF Back

LEMMA SubscriptStep ==
    ASSUME IInv, Liberties = {}, Subscript
    PROVE  Kept
<1>0. HeaderSize <= room
  BY HeaderChecked DEF IInv, Subscript, CalledWithHeader
<1>1. status = "busy" /\ call.op = "subscript"
  BY DEF Subscript, CalledWithHeader, Called
<1>2. Count \in Nat /\ Shape /\ Start(0) = HeaderSize
  BY TypesOfGroup, Starts DEF IInv
<1>3. Promise!Passes(call) <=> HasEntry(call.n)
  BY <1>0, <1>1, <1>2 DEF Promise!Passes, HasEntry, Promise!Count, Count
<1>4. CASE ~HasEntry(call.n) /\ Fail
  BY <1>1, <1>3, <1>4, Fails
<1>5. CASE /\ HasEntry(call.n)
           /\ Done(PlusEntries(HeaderSize, As(call.n, DifferenceType), DifferenceType))
           /\ UNCHANGED <<group, iterator>>
  <2>1. dim.flat
    BY <1>1, CallInProgress, MemberOf DEF OnFlat
  <2>2. call.n \in 0 .. Count /\ call.n \in Nat
    <3>1. call.n \in 0 .. MaxCount
      BY <1>1, CallInProgress DEF Args
    <3>2. MaxCount \in Nat /\ call.n < Count
      BY <1>5, BoundsAssumption DEF HasEntry
    <3> QED
      BY <1>2, <3>1, <3>2
  <2>3. As(call.n, DifferenceType) = call.n
    BY <1>1, CallInProgress DEF Far, Is
  <2>4. PlusEntries(HeaderSize, call.n, DifferenceType) = Start(call.n)
    <3>1. PICK n : n = call.n
      OBVIOUS
    <3>2. 0 \in 0 .. Count /\ 0 + n \in 0 .. Count /\ 0 + n = n /\ n \in Int /\ ~(n < 0)
      BY <1>2, <2>2, <3>1
    <3>3. PlusEntries(Start(0), n, DifferenceType) = Start(0 + n)
      BY <1>2, <2>1, <3>2, MovesByEntries
    <3> QED
      BY <1>2, <3>1, <3>2, <3>3
  <2>5. Pos = Promise!Moved(call)
    BY <1>1 DEF Promise!Moved, Pos
  <2>6. Promise!Told(call) = Start(call.n)
    BY <1>1 DEF Promise!Told, Start
  <2> QED
    BY <1>1, <1>3, <1>5, <2>3, <2>4, <2>5, <2>6, Looks
<1> QED
  BY <1>4, <1>5 DEF Subscript

-----------------------------------------------------------------------------
(* Iterators.                                                              *)

LEMMA IncrementStep ==
    ASSUME IInv, Liberties = {}, Increment
    PROVE  Kept
<1>1. status = "busy" /\ call.op = "next"
  BY DEF Increment, Called
<1>2. /\ kind \in {"random_access", "forward"} /\ Shape
      /\ index \in 0 .. Count /\ ptr = Start(index) /\ Pos = index /\ Count \in Nat
      /\ kind = "random_access" => dim.flat
      /\ kind = "forward" => ~dim.flat
      /\ last \in Nat
  BY <1>1, CallInProgress, MemberOf DEF KindOfGroup
<1>3. index + 1 \in 0 .. Count
  BY <1>1, CallInProgress DEF MayCall, Step
<1>4. index \in 0 .. Count - 1
  BY <1>2, <1>3
<1>5. /\ ptr + EntrySize = Start(index + 1)
      /\ As(ptr + EntrySize, Pointer) = Start(index + 1)
      /\ As(index + 1, SizeType) = index + 1
  BY <1>2, <1>4, BehindEntry
<1>6. Promise!Passes(call) <=> HasRoom(ptr, EntrySize)
  <2>1. Promise!Passes(call) <=> \/ Promise!EntryAt(sizes, Pos + 1) <= room
                                 \/ Promise!EntryAt(sizes, Pos) > room
    BY <1>1 DEF Promise!Passes, Promise!OfGroup, Pos
  <2>2. /\ Start(index) \in 0 .. Limit - 1 /\ Start(index + 1) \in 0 .. Limit - 1
        /\ EntrySize \in Nat
    <3>1. Start(index) \in 0 .. Limit - 1 /\ Start(index + 1) \in 0 .. Limit - 1
      BY <1>2, <1>3, Starts
    <3>2. index + 1 \in 1 .. Count
      BY <1>2, <1>3
    <3>3. sizes[index + 1] \in 0 .. MaxBlock + MaxExtra /\ block \in Nat
          /\ MaxBlock \in Nat /\ MaxExtra \in Nat
      BY <1>2, <3>2, SizeOfEntry, TypesOfGroup
    <3> QED
      BY <3>1, <3>3 DEF EntrySize
  <2>3. Start(index) + EntrySize \in 0 .. Limit - 1
    BY <1>2, <1>5, <2>2
  <2>4. HasRoom(Start(index), EntrySize) <=>
            Start(index) + EntrySize <= room \/ Start(index) > room
    BY <1>2, <2>2, <2>3, RoomChecked
  <2> QED
    BY <1>2, <1>5, <2>1, <2>4 DEF Start
<1>7. CASE ~HasRoom(ptr, EntrySize) /\ Fail
  BY <1>1, <1>6, <1>7, Fails
<1>8. CASE /\ HasRoom(ptr, EntrySize)
           /\ ptr' = As(ptr + EntrySize, Pointer)
           /\ index' = As(index + 1, SizeType)
           /\ Done(0)
           /\ UNCHANGED <<group, kind, last>>
  <2>1. Promise!Moved(call) = index + 1 /\ Promise!Told(call) = 0
    BY <1>1, <1>2 DEF Promise!Moved, Promise!Told, Pos
  <2>2. PICK i : i = index + 1
    OBVIOUS
  <2>3. /\ i \in 0 .. Count /\ index' = i /\ ptr' = Start(i) /\ kind' = kind
        /\ Promise!Passes(call) /\ i = Promise!Moved(call) /\ kind # "cursor"
        /\ last' \in Nat
    BY <1>2, <1>3, <1>5, <1>6, <1>8, <2>1, <2>2
  <2> QED
    BY <1>1, <1>2, <1>8, <2>1, <2>3, Moves
<1> QED
  BY <1>7, <1>8 DEF Increment

\* Members of iterators of random access that have moved by a difference.
LEMMA MovedRandomly ==
    ASSUME IInv, status = "busy", kind = "random_access", UNCHANGED <<group, kind, last>>,
           Done(0), call.op \in {"previous", "plus", "minus"},
           NEW i \in 0 .. Count, index' = i, ptr' = Start(i), i = Promise!Moved(call)
    PROVE  Kept
<1>1. Promise!Passes(call) /\ Promise!Told(call) = 0 /\ call.op # "resize"
  BY DEF Promise!Passes, Promise!OfGroup, Promise!Told
<1>2. UNCHANGED group /\ kind' = "random_access" /\ dim.flat /\ last' \in Nat
  BY DEF IInv, KindOfGroup
<1> QED
  BY <1>1, <1>2, Moves

LEMMA DecrementStep ==
    ASSUME IInv, Liberties = {}, Decrement
    PROVE  Kept
<1>1. /\ status = "busy" /\ call.op = "previous" /\ Done(0)
      /\ UNCHANGED <<group, kind, last>>
      /\ ptr' = As(ptr - block, Pointer) /\ index' = As(index - 1, SizeType)
  BY DEF Decrement, Called
<1>2. /\ kind = "random_access" /\ dim.flat /\ Shape
      /\ index \in 0 .. Count /\ ptr = Start(index) /\ Pos = index /\ Count \in Nat
      /\ Count <= MaxCount /\ MaxCount \in Nat
  BY <1>1, CallInProgress, MemberOf, TypesOfGroup
<1>3. index + (-1) \in 0 .. Count
  BY <1>1, CallInProgress DEF MayCall, Step
<1>4. /\ index \in 1 .. Count /\ index - 1 \in 0 .. Count /\ index - 1 \in 0 .. MaxCount
  BY <1>2, <1>3
<1>5. ptr' = Start(index - 1)
  BY <1>1, <1>2, <1>4, BeforeEntry
<1>6. index' = index - 1
  BY <1>1, <1>2, <1>4, TypesOfGroup
<1>7. Promise!Moved(call) = index - 1
  BY <1>1, <1>2 DEF Promise!Moved, Pos
<1> QED
  BY <1>1, <1>2, <1>4, <1>5, <1>6, <1>7, MovedRandomly

\* The step of a difference that the program may make.
LEMMA StepIsKept ==
    ASSUME IInv, Liberties = {}, status = "busy", call.op \in {"plus", "minus", "at"}
    PROVE  LET n == Step(call.op, call.n)
           IN  /\ n \in Int /\ As(n, DifferenceType) = n
               /\ ~(/\ n < 0
                    /\ ~Common(DifferenceType, BlockType).signed
                    /\ Common(DifferenceType, BlockType).bits < PtrBits)
               /\ call.op = "minus" => n = - call.n
               /\ call.op # "minus" => n = call.n
               /\ call.n \in Int
<1>1. call.n \in - MaxCount .. MaxCount /\ Is(call.n, DifferenceType)
  BY CallInProgress DEF Args
<1>2. call.n \in Int
  BY <1>1, BoundsAssumption
<1>3. ~Far(call.op, call.n) /\ ~Backward(call.op, call.n)
  BY CallInProgress
<1>4. CASE call.op = "minus"
  <2>1. Step(call.op, call.n) = - call.n
    BY <1>4 DEF Step
  <2>2. As(- call.n, DifferenceType) = - call.n
    BY <1>3, <1>4 DEF Far, Is
  <2> QED
    BY <1>2, <1>3, <1>4, <2>1, <2>2 DEF Backward
<1>5. CASE call.op \in {"plus", "at"}
  <2>1. Step(call.op, call.n) = call.n
    BY <1>5 DEF Step
  <2>2. As(call.n, DifferenceType) = call.n
    BY <1>1 DEF Is
  <2> QED
    BY <1>2, <1>3, <1>5, <2>1, <2>2 DEF Backward
<1> QED
  BY <1>4, <1>5

LEMMA AdvanceStep ==
    ASSUME IInv, Liberties = {}, Advance
    PROVE  Kept
<1> PICK n : n = Step(call.op, call.n)
  OBVIOUS
<1>1. /\ status = "busy" /\ call.op \in {"plus", "minus"} /\ Done(0)
      /\ UNCHANGED <<group, kind, last>>
      /\ ptr' = PlusEntries(ptr, As(n, DifferenceType), DifferenceType)
      /\ index' = As(index + As(n, DifferenceType), SizeType)
  BY DEF Advance, Called
<1>2. /\ kind = "random_access" /\ dim.flat /\ Shape
      /\ index \in 0 .. Count /\ ptr = Start(index) /\ Pos = index /\ Count \in Nat
      /\ Count <= MaxCount /\ MaxCount \in Nat
  BY <1>1, CallInProgress, MemberOf, TypesOfGroup
<1>3. index + n \in 0 .. Count
  BY <1>1, CallInProgress DEF MayCall
<1>4. /\ n \in Int /\ As(n, DifferenceType) = n
      /\ ~(/\ n < 0
           /\ ~Common(DifferenceType, BlockType).signed
           /\ Common(DifferenceType, BlockType).bits < PtrBits)
      /\ call.op = "minus" => n = - call.n
      /\ call.op # "minus" => n = call.n
      /\ call.n \in Int
  BY <1>1, StepIsKept
<1>5. ptr' = Start(index + n)
  BY <1>1, <1>2, <1>3, <1>4, MovesByEntries
<1>6. index + n \in 0 .. MaxCount
  BY <1>2, <1>3
<1>7. index' = index + n
  BY <1>1, <1>2, <1>4, <1>6, TypesOfGroup
<1>8. Promise!Moved(call) = index + n
  <2>1. CASE call.op = "plus"
    BY <1>2, <1>4, <2>1 DEF Promise!Moved, Pos
  <2>2. CASE call.op = "minus"
    <3>1. Promise!Moved(call) = index - call.n
      BY <1>2, <2>2 DEF Promise!Moved, Pos
    <3>2. index \in Int /\ n = - call.n
      BY <1>2, <1>4, <2>2
    <3> QED
      BY <1>4, <3>1, <3>2
  <2> QED
    BY <1>1, <2>1, <2>2
<1> QED
  BY <1>1, <1>2, <1>3, <1>5, <1>7, <1>8, MovedRandomly

LEMMA DereferenceStep ==
    ASSUME IInv, Liberties = {}, Dereference
    PROVE  Kept
<1>1. /\ status = "busy" /\ call.op = "get" /\ Done(ptr)
      /\ UNCHANGED <<group, iterator>>
  BY DEF Dereference, Called
<1>2. ptr = Start(index) /\ Pos = index
  BY <1>1, CallInProgress, MemberOf
<1>3. Promise!Passes(call) /\ Pos = Promise!Moved(call)
  BY <1>1 DEF Promise!Passes, Promise!OfGroup, Promise!Moved, Pos
<1>4. Promise!Told(call) = Promise!EntryAt(sizes, Pos)
  BY <1>1 DEF Promise!Told, Pos
<1> QED
  BY <1>1, <1>2, <1>3, <1>4, Looks DEF Start

LEMMA DereferenceAtStep ==
    ASSUME IInv, Liberties = {}, DereferenceAt
    PROVE  Kept
<1> PICK n : n = call.n
  OBVIOUS
<1>1. /\ status = "busy" /\ call.op = "at" /\ UNCHANGED <<group, iterator>>
      /\ Done(PlusEntries(ptr, n, DifferenceType))
  BY DEF DereferenceAt, Called
<1>2. /\ dim.flat /\ Shape /\ index \in 0 .. Count /\ Count \in Nat
      /\ ptr = Start(index) /\ Pos = index
  BY <1>1, CallInProgress, MemberOf
<1>3. Step(call.op, call.n) = n
  BY <1>1 DEF Step
<1>4. index + n \in 0 .. Count - 1
  BY <1>1, <1>3, CallInProgress DEF MayCall
<1>5. /\ n \in Int
      /\ ~(/\ n < 0
           /\ ~Common(DifferenceType, BlockType).signed
           /\ Common(DifferenceType, BlockType).bits < PtrBits)
  BY <1>1, <1>3, StepIsKept
<1>6. index + n \in 0 .. Count
  BY <1>2, <1>4
<1>7. PlusEntries(ptr, n, DifferenceType) = Start(index + n)
  BY <1>2, <1>5, <1>6, MovesByEntries
<1>8. Promise!Passes(call) /\ Pos = Promise!Moved(call)
  BY <1>1 DEF Promise!Passes, Promise!OfGroup, Promise!Moved, Pos
<1>9. Promise!Told(call) = Promise!EntryAt(sizes, Pos + n)
  BY <1>1 DEF Promise!Told, Pos
<1> QED
  BY <1>1, <1>2, <1>7, <1>8, <1>9, Looks DEF Start

LEMMA DistanceStep ==
    ASSUME IInv, Liberties = {}, Distance
    PROVE  Kept
<1>1. /\ status = "busy" /\ call.op = "distance" /\ UNCHANGED <<group, iterator>>
      /\ Done(As(index - 0, DifferenceType))
  BY DEF Distance, Called
<1>2. index \in 0 .. Count /\ Count \in Nat /\ Pos = index
  BY <1>1, CallInProgress, MemberOf
<1>3. As(index, DifferenceType) = index /\ index - 0 = index
  BY <1>1, <1>2, CallInProgress DEF Far, Is
<1>4. /\ Promise!Passes(call) /\ Pos = Promise!Moved(call)
      /\ Promise!Told(call) = Pos
  BY <1>1 DEF Promise!Passes, Promise!OfGroup, Promise!Moved, Promise!Told, Pos
<1> QED
  BY <1>1, <1>2, <1>3, <1>4, Looks

-----------------------------------------------------------------------------
(* Cursor ranges.                                                          *)

LEMMA RangeStarts ==
    ASSUME IInv, status = "busy", call.op \in {"range", "subrange"},
           Promise!Passes(call), NEW n, StartRange(call.n, n),
           call.n \in 0 .. Count, n \in Nat, call.n + n <= Count,
           call.n = 0 \/ (kind = "cursor" /\ call.n = index)
    PROVE  Kept
<1>1. /\ kind' = "cursor" /\ index' = call.n /\ Done(0) /\ UNCHANGED group
      /\ ptr' = IF call.n = 0 THEN HeaderSize ELSE ptr
      /\ last' = As(call.n + n, SizeType)
  BY DEF StartRange
<1>2. Shape /\ Start(0) = HeaderSize /\ Count \in Nat /\ Count <= MaxCount /\ MaxCount \in Nat
  BY Starts, TypesOfGroup DEF IInv
<1>3. ptr' = Start(call.n)
  BY <1>1, <1>2 DEF IInv, IteratorAtEntry, Start
<1>4. call.n + n \in 0 .. MaxCount
  BY <1>2
<1>5. last' = call.n + n
  BY <1>1, <1>2, <1>4, TypesOfGroup
<1>6. call.n <= last' /\ last' <= Count /\ last' \in Nat
  BY <1>2, <1>5
<1>7. Promise!Moved(call) = call.n /\ Promise!Told(call) = 0 /\ call.op # "resize"
  BY DEF Promise!Moved, Promise!Told
<1> QED
  BY <1>1, <1>3, <1>6, <1>7, Moves

LEMMA CursorRangeStep ==
    ASSUME IInv, Liberties = {}, CursorRange
    PROVE  Kept
<1>0. HeaderSize <= room
  BY HeaderChecked DEF IInv, CursorRange, CalledWithHeader
<1>1. status = "busy" /\ call.op = "range" /\ StartRange(0, Count)
  BY DEF CursorRange, CalledWithHeader, Called
<1>2. call.n = 0
  BY <1>1, CallInProgress DEF Args
<1>3. Count \in Nat
  BY TypesOfGroup DEF IInv
<1>4. call.n \in 0 .. Count /\ call.n + Count <= Count
  BY <1>2, <1>3
<1>5. Promise!Passes(call)
  BY <1>0, <1>1 DEF Promise!Passes
<1> QED
  BY <1>1, <1>2, <1>3, <1>4, <1>5, RangeStarts

LEMMA CursorSubrangeStep ==
    ASSUME IInv, Liberties = {}, CursorSubrange
    PROVE  Kept
<1>0. HeaderSize <= room
  BY HeaderChecked DEF IInv, CursorSubrange, CalledWithHeader
<1>1. status = "busy" /\ call.op = "subrange"
  BY DEF CursorSubrange, CalledWithHeader, Called
<1>2. Promise!Passes(call) <=> FitsRange(call.n, call.m)
  BY <1>0, <1>1 DEF Promise!Passes, FitsRange, HasEntry, Promise!Count, Count
<1>3. CASE ~FitsRange(call.n, call.m) /\ Fail
  BY <1>1, <1>2, <1>3, Fails
<1>4. CASE FitsRange(call.n, call.m) /\ StartRange(call.n, call.m)
  <2>1. call.n \in 0 .. MaxCount /\ call.m \in 0 .. MaxCount
    BY <1>1, CallInProgress DEF Args
  <2>2. Count \in Nat /\ MaxCount \in Nat
    BY TypesOfGroup DEF IInv
  <2>3. call.n < Count /\ call.m <= Count - call.n
    BY <1>4 DEF FitsRange, HasEntry
  <2>4. call.n \in 0 .. Count /\ call.m \in Nat /\ call.n + call.m <= Count
    BY <2>1, <2>2, <2>3
  <2>5. call.n = 0 \/ (kind = "cursor" /\ call.n = index)
    BY <1>1, CallInProgress DEF MayCall
  <2> QED
    BY <1>1, <1>2, <1>4, <2>4, <2>5, RangeStarts
<1> QED
  BY <1>3, <1>4 DEF CursorSubrange

LEMMA ReadEntryStep ==
    ASSUME IInv, Liberties = {}, ReadEntry
    PROVE  Kept
<1>1. status = "busy" /\ call.op = "read"
  BY DEF ReadEntry, Called
<1>2. /\ kind = "cursor" /\ Shape /\ index \in 0 .. Count /\ ptr = Start(index)
      /\ Pos = index /\ Count \in Nat
  BY <1>1, CallInProgress, MemberOf
<1>3. index # last /\ index <= last /\ last <= Count /\ last \in Nat
  BY <1>1, <1>2, CallInProgress DEF MayCall, IteratorAtEntry, KindOfGroup
<1>4. index \in 0 .. Count - 1 /\ index + 1 <= last
  BY <1>2, <1>3
<1>5. /\ ptr + EntrySize = Start(index + 1)
      /\ As(ptr + EntrySize, Pointer) = Start(index + 1)
      /\ As(index + 1, SizeType) = index + 1 /\ index + 1 \in 0 .. Count
  BY <1>2, <1>4, BehindEntry
<1>6. CASE ptr + EntrySize > room /\ Fail
  <2>1. Promise!MayFail(call) <=> Promise!EntryAt(sizes, Pos + 1) > room
    BY <1>1 DEF Promise!MayFail, Pos
  <2>2. Promise!MayFail(call)
    BY <1>2, <1>5, <1>6, <2>1 DEF Start
  <2> QED
    BY <1>1, <1>6, <2>2, Fails
<1>7. CASE /\ ptr' = As(ptr + EntrySize, Pointer)
           /\ index' = As(index + 1, SizeType)
           /\ Done(0)
           /\ UNCHANGED <<group, kind, last>>
  <2>1. Promise!Passes(call) /\ Promise!Moved(call) = index + 1 /\ Promise!Told(call) = 0
    BY <1>1, <1>2 DEF Promise!Passes, Promise!OfGroup, Promise!Moved, Promise!Told, Pos
  <2>2. UNCHANGED group /\ kind' = kind /\ last' = last
    BY <1>7
  <2> QED
    BY <1>1, <1>2, <1>3, <1>4, <1>5, <1>7, <2>1, <2>2, Moves
<1> QED
  BY <1>6, <1>7 DEF ReadEntry

-----------------------------------------------------------------------------
(* All steps.                                                              *)

LEMMA Initially == Init => IInv /\ Promise!Init
<1> SUFFICES ASSUME Init
             PROVE  IInv /\ Promise!Init
  OBVIOUS
<1>1. PICK n \in 0 .. MaxCount :
          sizes \in [1 .. n -> IF dim.flat THEN {block} ELSE block .. block + MaxExtra]
  BY DEF Init
<1>2. /\ dim \in Dims /\ room \in Rooms /\ block \in 0 .. MaxBlock
      /\ kind = "none" /\ last = 0
      /\ call = Promise!NoCall /\ walk = NoWalk /\ answer = 0 /\ status = "idle"
  BY DEF Init
<1>3. Count = n
  BY <1>1, LenOfFunction, BoundsAssumption DEF Count
<1>4. Shape
  BY <1>1, <1>2, <1>3 DEF Shape, EntrySizes
<1>5. IInv
  BY <1>2, <1>4 DEF IInv, KindOfGroup, IteratorAtEntry, CallAllowed, WalkAllowed
<1>6. sizes \in Entries
  <2>1. sizes = [i \in 1 .. Count |-> sizes[i]]
    BY <1>4 DEF Shape
  <2>2. sizes \in [1 .. Count -> 0 .. MaxBlock + MaxExtra]
    BY <1>4, <2>1, SizeOfEntry
  <2> QED
    BY <1>4, <2>2 DEF Entries, Shape
<1>7. dim.flat \in BOOLEAN
  BY <1>4, TypesOfGroup
<1> QED
  BY <1>2, <1>5, <1>6, <1>7 DEF Promise!Init, Promise!Nowhere

LEMMA InvokeStep ==
    ASSUME IInv, Invoke
    PROVE  IInv' /\ Promise!Invoke
<1>1. /\ status = "idle" /\ status' = "busy" /\ UNCHANGED <<group, iterator, walk, answer>>
  BY DEF Invoke
<1>2. PICK op \in Members : \E a \in Args(op) :
          MayCall(op, a[1], a[2]) /\ call' = [op |-> op, n |-> a[1], m |-> a[2]]
  BY DEF Invoke
<1>3. PICK a \in Args(op) :
          MayCall(op, a[1], a[2]) /\ call' = [op |-> op, n |-> a[1], m |-> a[2]]
  BY <1>2
<1>4. Shape' /\ KindOfGroup' /\ IteratorAtEntry'
  BY <1>1, Unchanged
<1>5. /\ dim' = dim /\ room' = room /\ block' = block /\ sizes' = sizes
      /\ kind' = kind /\ ptr' = ptr /\ index' = index /\ last' = last
  BY <1>1 DEF group, iterator
<1>6. a = <<a[1], a[2]>>
  BY <1>2 DEF Args, Members, OnGroup, OnFlat, OnRandom, OnForward, OnCursor
<1>7. call'.op = op /\ call'.n = a[1] /\ call'.m = a[2]
  BY <1>3
<1>8. CallAllowed'
  <2>1. Members' = Members
    BY <1>5 DEF Members
  <2>2. Args(call.op)' = Args(op)
    BY <1>5, <1>7 DEF Args, Is, As, DifferenceType
  <2>3. MayCall(call.op, call.n, call.m)' = MayCall(op, a[1], a[2])
    BY <1>5, <1>7 DEF MayCall, Count, Step, Far, Backward, Is, As, Common, Promoted,
       DifferenceType, BlockType
  <2> QED
    BY <1>1, <1>2, <1>3, <1>6, <1>7, <2>1, <2>2, <2>3 DEF CallAllowed
<1>9. call' # Promise!NoCall
  <2>1. op # "none"
    BY <1>2, MemberOf DEF IInv
  <2> QED
    BY <1>7, <2>1 DEF Promise!NoCall
<1>10. Promise!Invoke
  BY <1>1, <1>5, <1>9 DEF Promise!Invoke
<1>11. WalkAllowed'
  BY <1>1 DEF IInv, WalkAllowed
<1> QED
  BY <1>4, <1>8, <1>10, <1>11 DEF IInv

LEMMA ExecutesStep ==
    ASSUME IInv, Liberties = {}, Executes
    PROVE  IInv' /\ (Promise!Answer \/ Promise!Fail \/ UNCHANGED Promise!vars)
<1>1. Kept \/ (IInv' /\ UNCHANGED Promise!vars)
  BY TruncatedHeaderStep, FlatSizeBytesStep, StartWalkStep, WalkOverStep,
     NestedSizeBytesStep, ResizeStep, BeginStep, EndStep, SubscriptStep, FrontStep,
     BackStep, IncrementStep, DecrementStep, AdvanceStep, DereferenceStep,
     DereferenceAtStep, DistanceStep, CursorRangeStep, CursorSubrangeStep,
     ReadEntryStep DEF Executes
<1>2. CASE Kept
  <2>1. status' \in {"idle", "failed"}
    BY <1>2 DEF Kept, Promise!Answer, Promise!Fail
  <2>2. CallAllowed'
    BY <2>1 DEF CallAllowed
  <2> QED
    BY <1>2, <2>2 DEF Kept, IInv
<1> QED
  BY <1>1, <1>2

LEMMA Stutters ==
    ASSUME IInv, UNCHANGED vars
    PROVE  IInv' /\ UNCHANGED Promise!vars
<1>1. /\ UNCHANGED <<group, iterator>> /\ call' = call /\ walk' = walk
      /\ answer' = answer /\ status' = status
  BY DEF vars
<1>2. Shape' /\ KindOfGroup' /\ IteratorAtEntry'
  BY <1>1, Unchanged
<1>3. /\ dim' = dim /\ room' = room /\ sizes' = sizes
      /\ kind' = kind /\ index' = index
  BY <1>1 DEF group, iterator
<1>4. CallAllowed'
  BY <1>1, CallStays DEF IInv
<1>5. WalkAllowed'
  BY <1>1, <1>3 DEF IInv, WalkAllowed
<1>6. UNCHANGED Promise!vars
  BY <1>1, <1>3 DEF Promise!vars
<1> QED
  BY <1>2, <1>4, <1>5, <1>6 DEF IInv

\* A group that a program uses without the liberties is in its shape, and so is
\* its iterator.
THEOREM Invariance ==
    ASSUME Liberties = {}
    PROVE  Spec => []IInv
<1>1. IInv /\ [Next]_vars => IInv'
  BY InvokeStep, ExecutesStep, Stutters DEF Next
<1>2. Init => IInv
  BY Initially
<1> QED
  BY <1>1, <1>2, PTL DEF Spec

\* After any calls the iterator points to the entry that its index tells, or to
\* where the last one ends, and a cursor range does not leave the group.
THEOREM IteratorsKept ==
    ASSUME Liberties = {}
    PROVE  Spec => []IteratorAtEntry
<1>1. IInv => IteratorAtEntry
  BY DEF IInv
<1> QED
  BY <1>1, Invariance, PTL

\* Without its fairness, the refinement of the sequence of entries: members
\* answer with the addresses, the counts and the sizes that are promised, and
\* assertions and size checks fail for what is misused or not in the view.
THEOREM EntriesImplemented ==
    ASSUME Liberties = {}
    PROVE  Spec => Promise!Init /\ [][Promise!Next]_(Promise!vars)
<1>1. IInv /\ [Next]_vars => [Promise!Next]_(Promise!vars)
  BY InvokeStep, ExecutesStep, Stutters DEF Next, Promise!Next
<1>2. Init => Promise!Init
  BY Initially
<1> QED
  BY <1>1, <1>2, Invariance, PTL DEF Spec
=============================================================================
