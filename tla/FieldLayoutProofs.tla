------------------------- MODULE FieldLayoutProofs -------------------------
(***************************************************************************)
(* FieldLayout for every set of levels and every width of offset_t.        *)
(*                                                                         *)
(* The inductive invariant compares both walks over the fields with the    *)
(* history variable before, the offsets the validator's walk went through. *)
(***************************************************************************)
EXTENDS FieldLayout, SequenceTheorems, WellFoundedInduction, TLAPS

-----------------------------------------------------------------------------
(* Sets of natural numbers.                                                *)

LessThan == {p \in Nat \X Nat : p[1] < p[2]}

LEMMA LessThanIsWellFounded == IsWellFoundedOn(LessThan, Nat)
<1>1. IsWellFoundedOn(OpToRel(<, Nat), Nat)
  BY NatLessThanWellFounded
<1>2. OpToRel(<, Nat) = LessThan
  BY DEF OpToRel, LessThan
<1> QED
  BY <1>1, <1>2

\* A set of natural numbers has a least element.
LEMMA LeastNatural ==
    ASSUME NEW T \in SUBSET Nat, T # {}
    PROVE  \E x \in T : \A y \in T : x <= y
<1>1. PICK x \in T : \A y \in T : <<y, x>> \notin LessThan
  BY LessThanIsWellFounded, WFMin, Zenon
<1>2. ASSUME NEW y \in T
      PROVE  x <= y
  <2>1. <<y, x>> \notin LessThan /\ x \in Nat /\ y \in Nat
    BY <1>1
  <2>2. y < x => <<y, x>> \in LessThan
    BY <2>1 DEF LessThan
  <2> QED
    BY <2>1, <2>2
<1> QED
  BY <1>2

\* A set of numbers up to b has a greatest element.
LEMMA GreatestNatural ==
    ASSUME NEW b \in Nat, NEW T \in SUBSET (0 .. b), T # {}
    PROVE  \E x \in T : \A y \in T : y <= x
<1> DEFINE U == {n \in Nat : b - n \in T}
<1>1. PICK z \in T : z \in 0 .. b
  OBVIOUS
<1>2. b - z \in Nat /\ b - (b - z) = z
  BY <1>1
<1>3. U # {}
  BY <1>1, <1>2
<1>4. PICK u \in U : \A v \in U : u <= v
  <2> HIDE DEF U
  <2>1. U \in SUBSET Nat
    BY DEF U
  <2> QED
    BY <1>3, <2>1, LeastNatural
<1>5. b - u \in T /\ u \in Nat
  BY <1>4
<1>6. ASSUME NEW y \in T
      PROVE  y <= b - u
  <2>1. y \in 0 .. b /\ b - y \in Nat /\ b - (b - y) = y
    BY <1>6
  <2>2. b - y \in U
    BY <1>6, <2>1
  <2>3. u <= b - y
    BY <1>4, <2>2
  <2> QED
    BY <1>5, <2>1, <2>3
<1> QED
  BY <1>5, <1>6

-----------------------------------------------------------------------------
(* The inductive invariant.                                                *)

N == Len(schema.fields)

\* How many fields the validator has passed.
Passed == IF phase \in {"validate", "rejected"} THEN i - 1 ELSE N

\* What passing field k means.
PassedField(k) ==
    /\ Field(k).constant => before[k + 1] = before[k]
    /\ ~Field(k).constant =>
           /\ Field(k).custom =>
                  /\ Field(k).offset >= before[k]
                  /\ placed[k] = Field(k).offset
           /\ ~Field(k).custom => placed[k] = before[k]
           /\ before[k + 1] = Add(placed[k], Field(k).size)
           /\ ~wrapped => placed[k] + Field(k).size < OffsetLimit

Walk ==
    /\ before[1] = 0
    /\ \A k \in 1 .. N : k <= Passed => PassedField(k)
    /\ \/ phase = "validate"
       \/ phase = "compile" /\ schema.kind # "composite"
       => offset = before[i]

Ascending ==
    ~wrapped => \A j, k \in 1 .. N + 1 :
                    j <= k /\ k <= Passed + 1 => before[j] <= before[k]

\* Constant fields leave the running offset where it is.
Steady ==
    \A j, k \in 1 .. N + 1 :
        /\ j <= k /\ k <= Passed + 1
        /\ \A n \in 1 .. N : j <= n /\ n < k => Field(n).constant
        => before[j] = before[k]

Enough ==
    Accepted => /\ before[N + 1] <= block
                /\ schema.hasBlockLength => block = schema.blockLength

\* What the compiler gives both accessors of field k.
EmittedField(k) ==
    /\ cursor[k].rel = Subtract(placed[k], before[k])
    /\ cursor[k].abs = Add(placed[k], schema.header)
    /\ cursor[k].last = IsLast(k)
    /\ normal[k] = Add(placed[k], schema.header)

Emitted ==
    Accepted /\ schema.kind # "composite" =>
        \A k \in 1 .. N : k < i /\ ~Field(k).constant => EmittedField(k)

Finished == phase = "done" => i = N + 1

\* at puts the fields of the level into its block.
IsLayout(at) ==
    /\ at \in [Located -> Numbers]
    /\ \A k \in Located :
           /\ Field(k).custom => at[k] = Field(k).offset
           /\ schema.hasBlockLength => at[k] + Field(k).size <= schema.blockLength
    /\ \A j, k \in Located : j < k => at[j] + Field(j).size <= at[k]

\* No layout can put the fields to come before the running offset.
Least ==
    phase = "validate" /\ ~wrapped =>
        \A at \in [Located -> Numbers] : IsLayout(at) =>
            /\ \A k \in Located : i <= k => offset <= at[k]
            /\ schema.hasBlockLength => offset <= schema.blockLength

Rejected ==
    phase = "rejected" /\ ~wrapped =>
        \A at \in [Located -> Numbers] : ~IsLayout(at)

IInv ==
    /\ TypeOK
    /\ Walk /\ Ascending /\ Steady
    /\ Enough /\ Emitted /\ Finished
    /\ Least /\ Rejected

-----------------------------------------------------------------------------
(* Arithmetic of offset_t.                                                 *)

\* A sum of offsets is an offset.
LEMMA AddIsNumber ==
    ASSUME NEW a \in Numbers, NEW b \in Numbers
    PROVE  Add(a, b) \in Numbers /\ Subtract(a, b) \in Numbers
BY OffsetLimitAssumption DEF Add, Subtract, Numbers

\* A sum that does not exceed offset_t is the sum of the numbers.
LEMMA AddIsSum ==
    ASSUME NEW a \in Numbers, NEW b \in Numbers, a + b < OffsetLimit
    PROVE  Add(a, b) = a + b
BY OffsetLimitAssumption DEF Add, Numbers

\* What the type invariant says of the level and its fields.
LEMMA LevelFacts ==
    ASSUME TypeOK
    PROVE  /\ N \in Nat
           /\ Indices = 1 .. N
           /\ IsLevel(schema)
           /\ schema.header \in Numbers
           /\ schema.blockLength \in Numbers
           /\ \A k \in 1 .. N : /\ Field(k).size \in Numbers
                                /\ Field(k).offset \in Numbers
                                /\ Field(k).custom \in BOOLEAN
                                /\ Field(k).constant \in BOOLEAN
           /\ 0 \in Numbers
<1>1. IsLevel(schema)
    BY SchemasAssumption DEF TypeOK
<1>2. schema.fields \in Seq(Fields)
    BY <1>1 DEF IsLevel
<1>3. \A k \in 1 .. N : Field(k) \in Fields
    BY <1>2 DEF N, Field
<1>4. 0 \in Numbers
    BY OffsetLimitAssumption DEF Numbers
<1>5. N \in Nat /\ Indices = 1 .. N
    BY <1>2 DEF N, Indices
<1>6. schema.header \in Numbers /\ schema.blockLength \in Numbers
    BY <1>1 DEF IsLevel
<1>7. \A k \in 1 .. N : /\ Field(k).size \in Numbers
                        /\ Field(k).offset \in Numbers
                        /\ Field(k).custom \in BOOLEAN
                        /\ Field(k).constant \in BOOLEAN
    BY <1>3 DEF Fields
<1>. QED
    BY <1>1, <1>4, <1>5, <1>6, <1>7

-----------------------------------------------------------------------------
LEMMA InitIInv == Init => IInv
<1> SUFFICES ASSUME Init PROVE IInv
    OBVIOUS
<1>1. IsLevel(schema) /\ schema.fields \in Seq(Fields)
    BY SchemasAssumption DEF Init, IsLevel
<1>2. 0 \in Numbers
    BY OffsetLimitAssumption DEF Numbers
<1>3. N \in Nat /\ Indices = 1 .. N
    BY <1>1 DEF N, Indices
<1>4. cursor \in [Indices -> CursorAccessors]
    <2> DEFINE none == [rel |-> 0, abs |-> 0, last |-> FALSE]
    <2>1. none \in CursorAccessors
        BY <1>2 DEF CursorAccessors
    <2>2. cursor = [k \in Indices |-> none]
        BY DEF Init
    <2> HIDE DEF none
    <2>. QED
        BY <2>1, <2>2
<1>5. TypeOK
    <2>1. /\ schema \in Schemas /\ phase = "validate" /\ wrapped \in BOOLEAN
          /\ offset \in Numbers /\ block \in Numbers
        BY <1>2 DEF Init
    <2>2. i \in 1 .. N + 1
        BY <1>3 DEF Init
    <2>3. placed \in [Indices -> Numbers] /\ normal \in [Indices -> Numbers]
        BY <1>2 DEF Init
    <2>4. before \in [1 .. N + 1 -> Numbers]
        BY <1>2 DEF Init, N
    <2>. QED
        BY <1>4, <2>1, <2>2, <2>3, <2>4 DEF TypeOK, N
<1>6. Passed = 0
    BY DEF Init, Passed
<1>7. before[1] = 0 /\ offset = 0 /\ i = 1 /\ phase = "validate"
    BY <1>3 DEF Init, N
<1>8. Walk /\ Ascending /\ Steady
    BY <1>3, <1>6, <1>7 DEF Walk, Ascending, Steady
<1>9. Enough /\ Emitted /\ Finished /\ Rejected
    BY <1>7 DEF Enough, Emitted, Finished, Accepted, Rejected
<1>10. Least
    <2>1. schema.blockLength \in Numbers
        BY <1>5, LevelFacts
    <2>. QED
        BY <1>7, <2>1 DEF Least, Numbers
<1>. QED
    BY <1>5, <1>8, <1>9, <1>10 DEF IInv

-----------------------------------------------------------------------------
(* The validator's walk.                                                   *)

\* The next field has been passed: the history up to it is kept, and the
\* running offsets still ascend.
LEMMA ValidatorStep ==
    ASSUME IInv, phase = "validate", i \in Indices,
           schema' = schema, phase' = phase, i' = i + 1,
           before' = [before EXCEPT ![i + 1] = offset'],
           offset' \in Numbers,
           placed' \in [Indices -> Numbers],
           \A k \in Indices : k # i => placed'[k] = placed[k],
           wrapped' \in BOOLEAN, wrapped => wrapped',
           \A k \in Indices : k = i => PassedField(k)',
           ~wrapped' => offset <= offset',
           ~wrapped' =>
               \A at \in [Located -> Numbers] : IsLayout(at) =>
                   /\ \A k \in Located : i + 1 <= k => offset' <= at[k]
                   /\ schema.hasBlockLength => offset' <= schema.blockLength,
           UNCHANGED <<block, normal, cursor>>
    PROVE  IInv'
<1>1. TypeOK /\ Walk /\ Ascending /\ Steady /\ Emitted
    BY DEF IInv
<1>2. /\ N \in Nat /\ Indices = 1 .. N /\ i \in 1 .. N /\ N' = N
      /\ Indices' = Indices
    BY <1>1, LevelFacts DEF N, Indices
<1>3. before \in [1 .. N + 1 -> Numbers] /\ offset \in Numbers
    BY <1>1 DEF TypeOK, N
<1>4. /\ before' \in [1 .. N + 1 -> Numbers]
      /\ before'[i + 1] = offset'
      /\ \A k \in 1 .. N + 1 : k # i + 1 => before'[k] = before[k]
    BY <1>2, <1>3
<1>5. TypeOK'
    BY <1>1, <1>2, <1>4 DEF TypeOK, N
<1>6. Passed = i - 1 /\ Passed' = i /\ before[i] = offset
    BY <1>1, <1>2 DEF Passed, Walk
<1>7. Walk'
    <2>1. \A k \in 1 .. N : k <= i => PassedField(k)'
        <3> SUFFICES ASSUME NEW k \in 1 .. N, k <= i, k # i
                     PROVE  PassedField(k)'
            BY <1>2
        <3>1. PassedField(k)
            BY <1>1, <1>2, <1>6 DEF Walk
        <3>2. k + 1 \in 1 .. N + 1 /\ k + 1 # i + 1 /\ k # i + 1
            BY <1>2
        <3>3. before'[k] = before[k] /\ before'[k + 1] = before[k + 1]
              /\ placed'[k] = placed[k]
            BY <1>2, <1>4, <3>2
        <3>. QED
            BY <3>1, <3>3 DEF PassedField, Field
    <2>. QED
        BY <1>1, <1>2, <1>4, <1>6, <2>1 DEF Walk
<1>8. Ascending'
    <2> SUFFICES ASSUME ~wrapped', NEW j \in 1 .. N + 1, NEW k \in 1 .. N + 1,
                        j <= k, k <= i + 1
                 PROVE  before'[j] <= before'[k]
        BY <1>2, <1>6 DEF Ascending
    <2>1. \A l, n \in 1 .. N + 1 : l <= n /\ n <= i => before[l] <= before[n]
        BY <1>1, <1>2, <1>6 DEF Ascending
    <2>2. CASE k <= i
        BY <1>2, <1>4, <2>1, <2>2
    <2>3. CASE k = i + 1 /\ j <= i
        <3>1. before[j] <= before[i]
            BY <1>2, <2>1, <2>3
        <3>2. before[j] \in Numbers /\ j # i + 1
            BY <1>2, <1>3, <2>3
        <3>. QED
            BY <1>3, <1>4, <1>6, <2>3, <3>1, <3>2 DEF Numbers
    <2>4. CASE k = i + 1 /\ j = i + 1
        BY <1>4, <2>4 DEF Numbers
    <2>. QED
        BY <1>2, <2>2, <2>3, <2>4
<1>9. Steady'
    <2> SUFFICES ASSUME NEW j \in 1 .. N + 1, NEW k \in 1 .. N + 1,
                        j <= k, k <= i + 1,
                        \A n \in 1 .. N : j <= n /\ n < k => Field(n).constant
                 PROVE  before'[j] = before'[k]
        BY <1>2, <1>6 DEF Steady, Field
    <2>1. CASE k <= i
        <3>1. before[j] = before[k]
            BY <1>1, <1>2, <1>6, <2>1 DEF Steady
        <3>. QED
            BY <1>2, <1>4, <2>1, <3>1
    <2>2. CASE k = i + 1 /\ j <= i
        <3>1. Field(i).constant
            BY <1>2, <2>2
        <3>2. before'[i + 1] = before'[i]
            BY <1>2, <3>1 DEF PassedField, Field
        <3>3. \A n \in 1 .. N : j <= n /\ n < i => Field(n).constant
            BY <1>2, <2>2
        <3>4. before[j] = before[i]
            BY <1>1, <1>2, <1>6, <2>2, <3>3 DEF Steady
        <3>. QED
            BY <1>2, <1>4, <2>2, <3>2, <3>4
    <2>3. CASE k = i + 1 /\ j = i + 1
        BY <2>3
    <2>. QED
        BY <1>2, <2>1, <2>2, <2>3
<1>10. Least'
    <2>1. Located' = Located
        BY DEF Located, Indices, Field
    <2>2. ASSUME NEW at \in [Located -> Numbers]
          PROVE  IsLayout(at)' <=> IsLayout(at)
        BY <2>1 DEF IsLayout, Field
    <2>. QED
        BY <2>1, <2>2 DEF Least
<1>. QED
    BY <1>5, <1>7, <1>8, <1>9, <1>10
    DEF IInv, Enough, Emitted, EmittedField, Finished, Accepted, Rejected

LEMMA PassConstantStep == ASSUME IInv, PassConstant PROVE IInv'
<1>1. TypeOK /\ Walk
    BY DEF IInv
<1>2. i \in 1 .. N /\ N \in Nat /\ before[i] = offset
    BY <1>1, LevelFacts DEF PassConstant, Walk
<1>3. offset \in Numbers /\ before \in [1 .. N + 1 -> Numbers]
    BY <1>1 DEF TypeOK, N
<1>4. before' = [before EXCEPT ![i + 1] = offset'] /\ offset' = offset
    BY DEF PassConstant
<1>5. before'[i] = before[i] /\ before'[i + 1] = offset
    BY <1>2, <1>3, <1>4
<1>6. i' = i + 1 /\ Field(i).constant /\ schema' = schema
    BY DEF PassConstant, Untouched
<1>7. \A k \in Indices : k = i => PassedField(k)'
    BY <1>2, <1>5, <1>6 DEF PassedField, Field
<1>8. \A k \in Indices : k # i => placed'[k] = placed[k]
    BY DEF PassConstant
<1>9. offset <= offset'
    BY <1>3, <1>4 DEF Numbers
<1>10. placed' \in [Indices -> Numbers] /\ wrapped' \in BOOLEAN
    BY <1>1 DEF PassConstant, TypeOK
<1>11. ~wrapped' =>
           \A at \in [Located -> Numbers] : IsLayout(at) =>
               /\ \A k \in Located : i + 1 <= k => offset' <= at[k]
               /\ schema.hasBlockLength => offset' <= schema.blockLength
    <2>1. \A k \in Located : i + 1 <= k => i <= k
        BY <1>1, <1>2, LevelFacts DEF Located
    <2>. QED
        BY <1>4, <2>1 DEF IInv, Least, PassConstant
<1>. QED
    BY <1>3, <1>4, <1>6, <1>7, <1>8, <1>9, <1>10, <1>11, ValidatorStep
    DEF PassConstant, Untouched

LEMMA PlaceStep == ASSUME IInv, Place PROVE IInv'
<1>1. TypeOK /\ Walk
    BY DEF IInv
<1>2. i \in 1 .. N /\ N \in Nat /\ before[i] = offset /\ Indices = 1 .. N
    BY <1>1, LevelFacts DEF Place, Walk, Located
<1>3. offset \in Numbers /\ before \in [1 .. N + 1 -> Numbers]
      /\ placed \in [Indices -> Numbers]
    BY <1>1 DEF TypeOK, N
<1>4. Field(i).size \in Numbers /\ Start(i) \in Numbers /\ offset <= Start(i)
    BY <1>1, <1>2, <1>3, LevelFacts DEF Place, TooLow, Start, Numbers
<1>5. offset' = Add(Start(i), Field(i).size) /\ offset' \in Numbers
    BY <1>4, AddIsNumber DEF Place
<1>6. before' = [before EXCEPT ![i + 1] = offset'] /\ i' = i + 1
      /\ placed' = [placed EXCEPT ![i] = Start(i)] /\ schema' = schema
    BY DEF Place, Untouched
<1>7. before'[i] = offset /\ before'[i + 1] = offset'
      /\ placed'[i] = Start(i)
    BY <1>2, <1>3, <1>6
<1>8. ~wrapped' => Start(i) + Field(i).size < OffsetLimit
    <2>1. wrapped' = (wrapped \/ Start(i) + Field(i).size >= OffsetLimit)
        BY DEF Place
    <2>2. ~wrapped' => ~(Start(i) + Field(i).size >= OffsetLimit)
        BY <2>1, Zenon
    <2>. QED
        BY <1>4, <2>2, OffsetLimitAssumption DEF Numbers
<1>9. \A k \in Indices : k = i => PassedField(k)'
    <2>1. ~Field(i).constant
        <3>1. i \in Located
            BY DEF Place
        <3>2. ~Field(i).constant
            BY <3>1 DEF Located
        <3>. QED
            BY <3>2
    <2>2. Field(i).custom => Field(i).offset >= offset /\ Start(i) = Field(i).offset
        BY <1>1, <1>2, <1>3, LevelFacts DEF Place, TooLow, Start, Numbers
    <2>3. ~Field(i).custom => Start(i) = offset
        BY DEF Start
    <2>4. /\ schema'.fields[i] = Field(i)
        BY <1>6 DEF Field
    <2>5. SUFFICES ASSUME NEW k \in Indices, k = i
                   PROVE  PassedField(k)'
        OBVIOUS
    <2>6. schema'.fields[k] = Field(i) /\ before'[k] = offset
          /\ before'[k + 1] = Add(placed'[k], Field(i).size)
          /\ placed'[k] = Start(i)
        BY <1>5, <1>7, <2>4, <2>5
    <2>. QED
        BY <1>8, <2>1, <2>2, <2>3, <2>5, <2>6 DEF PassedField, Field
<1>10. ~wrapped' => offset <= offset'
    BY <1>3, <1>4, <1>5, <1>8, AddIsSum DEF Numbers
<1>11. \A k \in Indices : k # i => placed'[k] = placed[k]
    BY <1>3, <1>6
<1>12. placed' \in [Indices -> Numbers] /\ wrapped' \in BOOLEAN
       /\ (wrapped => wrapped')
    BY <1>1, <1>3, <1>4, <1>6 DEF Place, TypeOK
<1>13. ASSUME ~wrapped', NEW at \in [Located -> Numbers], IsLayout(at)
       PROVE  /\ \A k \in Located : i + 1 <= k => offset' <= at[k]
              /\ schema.hasBlockLength => offset' <= schema.blockLength
    <2>1. i \in Located /\ at[i] \in Numbers
        BY <1>13 DEF Place
    <2>2. ~wrapped
        BY <1>12, <1>13
    <2>3. offset <= at[i]
        BY <1>2, <1>13, <2>1, <2>2 DEF IInv, Least, Place
    <2>4. Start(i) <= at[i]
        <3>1. Field(i).custom => at[i] = Field(i).offset
            BY <1>13, <2>1 DEF IsLayout
        <3>. QED
            BY <1>4, <2>1, <2>3, <3>1 DEF Start, Numbers
    <2>5. offset' = Start(i) + Field(i).size
        BY <1>4, <1>5, <1>8, <1>13, AddIsSum
    <2>6. offset' <= at[i] + Field(i).size
        BY <1>4, <2>1, <2>4, <2>5 DEF Numbers
    <2>7. ASSUME NEW k \in Located, i + 1 <= k
          PROVE  offset' <= at[k]
        <3>1. i < k
            BY <1>1, <1>2, <2>7, LevelFacts DEF Located
        <3>2. at[i] + Field(i).size <= at[k]
            BY <1>13, <2>1, <3>1 DEF IsLayout
        <3>3. at[k] \in Numbers
            BY <1>13
        <3>. QED
            BY <1>4, <1>5, <2>1, <2>6, <3>2, <3>3 DEF Numbers
    <2>8. ASSUME schema.hasBlockLength
          PROVE  offset' <= schema.blockLength
        <3>1. at[i] + Field(i).size <= schema.blockLength
            BY <1>13, <2>1, <2>8 DEF IsLayout
        <3>2. schema.blockLength \in Numbers
            BY <1>1, LevelFacts
        <3>. QED
            BY <1>4, <1>5, <2>1, <2>6, <3>1, <3>2 DEF Numbers
    <2>. QED
        BY <2>7, <2>8
<1>. QED
    BY <1>2, <1>5, <1>6, <1>9, <1>10, <1>11, <1>12, <1>13, ValidatorStep
    DEF Place, Untouched

LEMMA RejectOffsetStep == ASSUME IInv, RejectOffset PROVE IInv'
<1>1. TypeOK' /\ Passed' = Passed /\ N' = N
    BY DEF IInv, TypeOK, RejectOffset, Untouched, Passed, N, Indices
<1>2. Located' = Located
    BY DEF Located, Indices, Field, RejectOffset, Untouched
<1>3. Rejected'
    <2> SUFFICES ASSUME ~wrapped, NEW at \in [Located -> Numbers], IsLayout(at)
                 PROVE  FALSE
        BY <1>2 DEF Rejected, IsLayout, Field, RejectOffset, Untouched
    <2>1. i \in Located /\ i \in Int
        BY LevelFacts DEF RejectOffset, IInv, Located
    <2>2. offset <= at[i] /\ at[i] = Field(i).offset
        BY <2>1 DEF IInv, Least, IsLayout, RejectOffset, TooLow
    <2>3. Field(i).offset < offset /\ offset \in Numbers /\ at[i] \in Numbers
        BY <2>1 DEF RejectOffset, TooLow, IInv, TypeOK
    <2>. QED
        BY <2>2, <2>3 DEF Numbers
<1>4. Walk' /\ Ascending' /\ Steady'
    BY <1>1 DEF IInv, Walk, PassedField, Field, Ascending, Steady,
        RejectOffset, Untouched
<1>5. Enough' /\ Emitted' /\ Finished' /\ Least'
    BY DEF Enough, Emitted, Finished, Accepted, Least, RejectOffset
<1>. QED
    BY <1>1, <1>3, <1>4, <1>5 DEF IInv

LEMMA FinishValidationStep == ASSUME IInv, FinishValidation PROVE IInv'
<1>1. TypeOK /\ Walk /\ Ascending /\ Steady /\ Finished
    BY DEF IInv
<1>2. N \in Nat /\ Indices = 1 .. N /\ schema.blockLength \in Numbers
      /\ 0 \in Numbers
    BY <1>1, LevelFacts
<1>3. i = N + 1 /\ Passed = N /\ offset = before[N + 1] /\ offset \in Numbers
    BY <1>1, <1>2 DEF FinishValidation, Passed, Walk, TypeOK, N
<1>4. N' = N /\ schema' = schema /\ before' = before /\ placed' = placed
      /\ wrapped' = wrapped /\ normal' = normal /\ cursor' = cursor
      /\ Indices' = Indices
    BY DEF FinishValidation, N, Indices
<1>5. CASE BlockTooShort /\ phase' = "rejected" /\ UNCHANGED <<block, i, offset>>
    <2>1. TypeOK'
        BY <1>1, <1>4, <1>5 DEF TypeOK
    <2>2. Passed' = N
        BY <1>2, <1>3, <1>4, <1>5 DEF Passed
    <2>3. Walk' /\ Ascending' /\ Steady'
        BY <1>1, <1>3, <1>4, <1>5, <2>2
        DEF Walk, PassedField, Field, Ascending, Steady
    <2>4. Enough' /\ Emitted' /\ Finished' /\ Least'
        BY <1>5 DEF Enough, Emitted, Finished, Accepted, Least
    <2>5. Rejected'
        <3> SUFFICES ASSUME ~wrapped, NEW at \in [Located -> Numbers], IsLayout(at)
                     PROVE  FALSE
            BY <1>4 DEF Rejected, IsLayout, Located, Indices, Field
        <3>1. schema.hasBlockLength /\ schema.blockLength < offset
            BY <1>5 DEF FinishValidation, BlockTooShort
        <3>2. offset <= schema.blockLength
            BY <3>1 DEF IInv, Least, FinishValidation
        <3>. QED
            BY <1>2, <1>3, <3>1, <3>2 DEF Numbers
    <2>. QED
        BY <2>1, <2>3, <2>4, <2>5 DEF IInv
<1>6. CASE /\ phase' = "compile" /\ i' = 1 /\ offset' = 0 /\ ~BlockTooShort
           /\ block' = IF schema.hasBlockLength THEN schema.blockLength
                                                ELSE offset
    <2>1. block' \in Numbers /\ before[N + 1] <= block'
        BY <1>2, <1>3, <1>6 DEF BlockTooShort, Numbers
    <2>2. TypeOK'
        BY <1>1, <1>2, <1>4, <1>6, <2>1 DEF TypeOK, N
    <2>3. Passed' = N
        BY <1>4, <1>6 DEF Passed
    <2>4. Walk' /\ Ascending' /\ Steady'
        BY <1>1, <1>2, <1>3, <1>4, <1>6, <2>3
        DEF Walk, PassedField, Field, Ascending, Steady
    <2>5. Enough'
        BY <1>4, <1>6, <2>1 DEF Enough
    <2>6. Emitted' /\ Finished' /\ Least' /\ Rejected'
        BY <1>2, <1>4, <1>6 DEF Emitted, Finished, Least, Rejected
    <2>. QED
        BY <2>2, <2>4, <2>5, <2>6 DEF IInv
<1>. QED
    BY <1>5, <1>6 DEF FinishValidation
-----------------------------------------------------------------------------
(* The compiler's walk.                                                    *)

\* What the compiler's walk finds: the offsets of the validator's walk.
LEMMA CompilerFacts ==
    ASSUME IInv, phase = "compile"
    PROVE  /\ TypeOK /\ N \in Nat /\ Indices = 1 .. N /\ Passed = N
           /\ schema.kind # "composite" => offset = before[i]
           /\ \A k \in 1 .. N : PassedField(k)
           /\ offset \in Numbers
           /\ \A k \in Indices : placed[k] \in Numbers
           /\ schema.header \in Numbers
           /\ \A k \in 1 .. N : Field(k).size \in Numbers
           /\ \A k \in 1 .. N : Field(k).offset \in Numbers
           /\ \A k \in 1 .. N : before[k] \in Numbers
<1>1. TypeOK /\ Walk
    BY DEF IInv
<1>2. N \in Nat /\ Indices = 1 .. N /\ schema.header \in Numbers
      /\ \A k \in 1 .. N : Field(k).size \in Numbers /\ Field(k).offset \in Numbers
    BY <1>1, LevelFacts
<1>3. Passed = N
    BY DEF Passed
<1>4. before \in [1 .. N + 1 -> Numbers] /\ placed \in [Indices -> Numbers]
      /\ offset \in Numbers
    BY <1>1 DEF TypeOK, N
<1>. QED
    BY <1>1, <1>2, <1>3, <1>4 DEF Walk

\* A step of the compiler keeps what the validator has found.
LEMMA CompilerStep ==
    ASSUME IInv, phase = "compile", Kept, TypeOK',
           phase' \in {"compile", "done"},
           phase' = "compile" /\ schema.kind # "composite"
               => offset' = before[i'],
           phase' = "done" => i' = N + 1,
           Emitted'
    PROVE  IInv'
<1>1. N' = N /\ Passed = N /\ Passed' = N
    BY DEF Kept, N, Passed
<1>2. Walk'
    BY <1>1 DEF IInv, Walk, PassedField, Field, Kept
<1>3. Ascending' /\ Steady' /\ Enough'
    BY <1>1 DEF IInv, Ascending, Steady, Field, Enough, Accepted, Kept
<1>4. Finished' /\ Least' /\ Rejected'
    BY <1>1 DEF Finished, Least, Rejected
<1>. QED
    BY <1>2, <1>3, <1>4 DEF IInv

\* Whether a field is the last one is not changed.
LEMMA LastKept ==
    ASSUME schema' = schema, NEW k
    PROVE  IsLast(k)' = IsLast(k)
BY DEF IsLast, Located, Indices, Field

LEMMA PassConstantAgainStep == ASSUME IInv, PassConstantAgain PROVE IInv'
<1>1. phase = "compile" /\ phase' = "compile" /\ i \in Indices /\ i' = i + 1
      /\ Field(i).constant /\ Kept /\ UNCHANGED <<offset, normal, cursor>>
    BY DEF PassConstantAgain
<1>2. TypeOK /\ N \in Nat /\ Indices = 1 .. N /\ PassedField(i)
      /\ (schema.kind # "composite" => offset = before[i])
    BY <1>1, CompilerFacts
<1>3. N' = N /\ Indices' = Indices
    BY <1>1 DEF Kept, N, Indices
<1>4. TypeOK'
    BY <1>1, <1>2, <1>3 DEF TypeOK, Kept, N
<1>5. schema.kind # "composite" => offset' = before[i']
    BY <1>1, <1>2 DEF PassedField
<1>6. Emitted'
    <2> SUFFICES ASSUME schema.kind # "composite",
                        NEW k \in 1 .. N, k < i + 1, ~Field(k).constant
                 PROVE  EmittedField(k)'
        BY <1>1, <1>3 DEF Emitted, Field, Kept
    <2>1. k < i
        BY <1>1, <1>2
    <2>2. EmittedField(k)
        BY <1>1, <2>1 DEF IInv, Emitted, Accepted
    <2>. QED
        BY <1>1, <2>2, LastKept DEF EmittedField, Kept
<1>. QED
    BY <1>1, <1>4, <1>5, <1>6, CompilerStep

LEMMA CompilerAccepts == ASSUME IInv, Throws PROVE FALSE
<1>1. phase = "compile" /\ i \in Located /\ TooLow(i)
      /\ schema.kind # "composite"
    BY DEF Throws
<1>2. i \in Indices /\ ~Field(i).constant
    BY <1>1 DEF Located
<1>3. /\ PassedField(i) /\ offset = before[i] /\ before[i] \in Numbers
      /\ Field(i).offset \in Numbers
    BY <1>1, <1>2, CompilerFacts
<1>4. Field(i).custom /\ Field(i).offset < before[i]
    BY <1>1, <1>3 DEF TooLow
<1>. QED
    BY <1>2, <1>3, <1>4 DEF PassedField, Numbers

LEMMA EmitStep == ASSUME IInv, Emit PROVE IInv'
<1>1. phase = "compile" /\ phase' = "compile" /\ i \in Located /\ i' = i + 1
      /\ schema.kind # "composite" /\ Kept
      /\ offset' = Add(Start(i), Field(i).size)
      /\ normal' = [normal EXCEPT ![i] = Add(placed[i], schema.header)]
      /\ cursor' = [cursor EXCEPT ![i] = CursorOffsets(i)]
    BY DEF Emit
<1>2. i \in Indices /\ ~Field(i).constant
    BY <1>1 DEF Located
<1>3. TypeOK /\ N \in Nat /\ Indices = 1 .. N /\ PassedField(i)
      /\ offset = before[i] /\ offset \in Numbers /\ placed[i] \in Numbers
      /\ schema.header \in Numbers /\ Field(i).size \in Numbers
    BY <1>1, <1>2, CompilerFacts
<1>4. Start(i) = placed[i]
    BY <1>2, <1>3 DEF PassedField, Start
<1>5. N' = N /\ Indices' = Indices
    BY <1>1 DEF Kept, N, Indices
<1>6. Add(placed[i], schema.header) \in Numbers
      /\ Subtract(Start(i), offset) \in Numbers
      /\ offset' \in Numbers
    BY <1>1, <1>3, <1>4, AddIsNumber
<1>7. IsLast(i) \in BOOLEAN
    BY DEF IsLast
<1>8. CursorOffsets(i) \in CursorAccessors
    BY <1>4, <1>6, <1>7, Zenon DEF CursorOffsets, CursorAccessors
<1>9. normal \in [Indices -> Numbers] /\ cursor \in [Indices -> CursorAccessors]
    BY <1>3 DEF TypeOK
<1>10. normal' \in [Indices -> Numbers] /\ cursor' \in [Indices -> CursorAccessors]
    BY <1>1, <1>6, <1>8, <1>9
<1>11. TypeOK'
    BY <1>1, <1>2, <1>3, <1>5, <1>6, <1>10 DEF TypeOK, Kept, N
<1>12. offset' = before[i']
    BY <1>1, <1>2, <1>3, <1>4 DEF PassedField
<1>13. Emitted'
    <2> SUFFICES ASSUME NEW k \in 1 .. N, k < i + 1, ~Field(k).constant
                 PROVE  EmittedField(k)'
        BY <1>1, <1>5 DEF Emitted, Field, Kept
    <2>1. CASE k = i
        <3>1. cursor'[k] = CursorOffsets(k)
              /\ normal'[k] = Add(placed[k], schema.header)
            BY <1>1, <1>2, <1>9, <2>1
        <3>2. /\ CursorOffsets(k).rel = Subtract(Start(k), offset)
              /\ CursorOffsets(k).abs = Add(Start(k), schema.header)
            BY DEF CursorOffsets
        <3>3. CursorOffsets(k).last = IsLast(k)
            BY Zenon DEF CursorOffsets
        <3>4. /\ cursor'[k].rel = Subtract(placed[k], before[k])
              /\ cursor'[k].abs = Add(placed[k], schema.header)
            BY <1>3, <1>4, <2>1, <3>1, <3>2
        <3>5. placed' = placed /\ before' = before /\ schema' = schema
            BY <1>1 DEF Kept
        <3>6. IsLast(k)' = IsLast(k)
            BY <3>5, LastKept
        <3>7. cursor'[k].last = IsLast(k)'
            BY <3>1, <3>3, <3>6, Zenon
        <3>. QED
            BY <3>1, <3>4, <3>5, <3>7 DEF EmittedField
    <2>2. CASE k # i
        <3>1. k < i /\ cursor'[k] = cursor[k] /\ normal'[k] = normal[k]
            BY <1>1, <1>2, <1>3, <1>9, <2>2
        <3>2. EmittedField(k)
            BY <1>1, <3>1 DEF IInv, Emitted, Accepted
        <3>. QED
            BY <1>1, <3>1, <3>2, LastKept DEF EmittedField, Kept
    <2>. QED
        BY <2>1, <2>2
<1>. QED
    BY <1>1, <1>11, <1>12, <1>13, CompilerStep

LEMMA EmitElementStep == ASSUME IInv, EmitElement PROVE IInv'
<1>1. phase = "compile" /\ phase' = "compile" /\ i \in Indices /\ i' = i + 1
      /\ schema.kind = "composite" /\ Kept /\ UNCHANGED <<offset, cursor>>
      /\ normal' = [normal EXCEPT ![i] = placed[i]]
    BY DEF EmitElement, Located
<1>2. TypeOK /\ N \in Nat /\ Indices = 1 .. N /\ placed[i] \in Numbers
    BY <1>1, CompilerFacts
<1>3. N' = N /\ Indices' = Indices /\ schema' = schema
    BY <1>1 DEF Kept, N, Indices
<1>4. normal' \in [Indices -> Numbers]
    BY <1>1, <1>2 DEF TypeOK
<1>5. TypeOK'
    BY <1>1, <1>2, <1>3, <1>4 DEF TypeOK, Kept, N
<1>6. Emitted'
    BY <1>1, <1>3 DEF Emitted
<1>. QED
    BY <1>1, <1>5, <1>6, CompilerStep

LEMMA FinishCompilationStep == ASSUME IInv, FinishCompilation PROVE IInv'
<1>1. phase = "compile" /\ phase' = "done" /\ i \notin Indices /\ i' = i
      /\ Kept /\ UNCHANGED <<offset, normal, cursor>>
    BY DEF FinishCompilation
<1>2. TypeOK /\ N \in Nat /\ Indices = 1 .. N
    BY <1>1, CompilerFacts
<1>3. N' = N /\ Indices' = Indices /\ schema' = schema
    BY <1>1 DEF Kept, N, Indices
<1>4. i = N + 1
    BY <1>1, <1>2 DEF TypeOK, N
<1>5. TypeOK'
    BY <1>1, <1>2, <1>3 DEF TypeOK, Kept
<1>6. Emitted'
    BY <1>1, <1>3, LastKept DEF IInv, Emitted, EmittedField, Accepted, Field, Kept
<1>. QED
    BY <1>1, <1>4, <1>5, <1>6, CompilerStep

-----------------------------------------------------------------------------
LEMMA StutterIInv == ASSUME IInv, UNCHANGED vars PROVE IInv'
<1>1. TypeOK'
    BY DEF IInv, TypeOK, Indices, vars
<1>2. Walk' /\ Ascending' /\ Steady'
    BY DEF IInv, Walk, PassedField, Field, Ascending, Steady, Passed, N, vars
<1>3. Enough' /\ Emitted' /\ Finished'
    BY LastKept DEF IInv, Enough, Emitted, EmittedField, Field, Finished, Accepted,
        N, vars
<1>4. Least' /\ Rejected'
    BY DEF IInv, Least, Rejected, IsLayout, Located, Indices, Field, vars
<1>. QED
    BY <1>1, <1>2, <1>3, <1>4 DEF IInv

LEMMA Invariant == Spec => []IInv
<1>1. Init => IInv
    BY InitIInv
<1>2. IInv /\ [Next]_vars => IInv'
    BY PassConstantStep, RejectOffsetStep, PlaceStep, FinishValidationStep,
       PassConstantAgainStep, EmitStep, EmitElementStep,
       FinishCompilationStep, StutterIInv
    DEF Next
<1>. QED
    BY <1>1, <1>2, PTL DEF Spec

\* The running offsets, the offsets of both kinds of accessors and the block
\* stay within offset_t for every level (validate_members and
\* make_fields_cursor_accessors).
THEOREM TypeCorrect == Spec => []TypeOK
<1>1. IInv => TypeOK
    BY DEF IInv
<1>. QED
    BY <1>1, Invariant, PTL

\* What the validator has accepted the compiler never throws on, for every
\* schema and even when offsets wrap around (get_valid_offset).
THEOREM NeverThrows == Spec => []CompilerNeverThrows
<1>1. IInv => CompilerNeverThrows
    BY CompilerAccepts DEF CompilerNeverThrows
<1>. QED
    BY <1>1, Invariant, PTL

\* The cursor accessor and the normal accessor of a field use the same
\* absolute offset, for every schema (make_fields_cursor_accessors,
\* make_field_accessors).
THEOREM AccessorsAgree == Spec => []CursorOffsetsAgree
<1>1. IInv => CursorOffsetsAgree
    <2> SUFFICES ASSUME IInv, schema.kind # "composite", NEW k \in Located,
                        phase = "done" \/ (phase = "compile" /\ k < i)
                 PROVE  cursor[k].abs = normal[k]
        BY DEF CursorOffsetsAgree
    <2>1. k \in 1 .. N /\ N \in Nat /\ ~Field(k).constant
        BY LevelFacts DEF IInv, Located
    <2>2. k < i
        BY <2>1 DEF IInv, Finished
    <2>. QED
        <3>1. EmittedField(k)
            BY <2>1, <2>2 DEF IInv, Emitted, Accepted
        <3>. QED
            BY <3>1 DEF EmittedField
<1>. QED
    BY <1>1, Invariant, PTL

\* The fields of an accepted level are within the block, one behind the other.
LEMMA LaidOut == IInv => FieldsFillBlockInOrder
<1> SUFFICES ASSUME IInv, Accepted, ~wrapped
             PROVE  /\ \A k \in Located : placed[k] + Field(k).size <= block
                    /\ \A j, k \in Located :
                          j < k => placed[j] + Field(j).size <= placed[k]
    BY DEF FieldsFillBlockInOrder
<1>1. TypeOK /\ Walk /\ Ascending /\ Enough
    BY DEF IInv
<1>2. N \in Nat /\ Indices = 1 .. N /\ Passed = N
    BY <1>1, LevelFacts DEF Passed, Accepted
<1>3. before \in [1 .. N + 1 -> Numbers] /\ block \in Numbers
      /\ placed \in [1 .. N -> Numbers]
    BY <1>1, <1>2 DEF TypeOK, N
<1>4. \A j, k \in 1 .. N + 1 : j <= k => before[j] <= before[k]
    BY <1>1, <1>2 DEF Ascending
<1>5. ASSUME NEW k \in Located
      PROVE  /\ k \in 1 .. N
             /\ before[k + 1] = placed[k] + Field(k).size
             /\ before[k] <= placed[k]
    <2>1. k \in 1 .. N /\ ~Field(k).constant
        BY <1>2, <1>5 DEF Located
    <2>2. PassedField(k)
        BY <1>1, <1>2, <2>1 DEF Walk
    <2>3. Field(k).size \in Numbers /\ placed[k] \in Numbers
          /\ before[k] \in Numbers /\ Field(k).offset \in Numbers
          /\ Field(k).custom \in BOOLEAN
        BY <1>1, <1>2, <1>3, <2>1, LevelFacts
    <2>4. before[k + 1] = placed[k] + Field(k).size
        BY <2>1, <2>2, <2>3, AddIsSum DEF PassedField
    <2>. QED
        BY <2>1, <2>2, <2>3, <2>4 DEF PassedField, Numbers
<1>6. ASSUME NEW k \in Located
      PROVE  placed[k] + Field(k).size <= block
    <2>1. before[k + 1] <= before[N + 1] /\ before[N + 1] <= block
        BY <1>1, <1>2, <1>4, <1>5 DEF Enough
    <2>2. before[k + 1] \in Numbers /\ before[N + 1] \in Numbers
        BY <1>2, <1>3, <1>5
    <2>. QED
        BY <1>3, <1>5, <2>1, <2>2 DEF Numbers
<1>7. ASSUME NEW j \in Located, NEW k \in Located, j < k
      PROVE  placed[j] + Field(j).size <= placed[k]
    <2>1. j \in 1 .. N /\ k \in 1 .. N /\ before[j + 1] <= before[k]
        BY <1>2, <1>4, <1>5, <1>7
    <2>2. before[j + 1] \in Numbers /\ before[k] \in Numbers
          /\ placed[k] \in Numbers
        BY <1>2, <1>3, <2>1
    <2>. QED
        BY <1>5, <2>1, <2>2 DEF Numbers
<1>. QED
    BY <1>6, <1>7

\* In every accepted level whose offsets have not wrapped around, the fields
\* follow one another without overlap and lie inside the block
\* (validate_field_offset, validate_block_length, validate_element_offset).
THEOREM FieldsLaidOut == Spec => []FieldsFillBlockInOrder
BY LaidOut, Invariant, PTL

-----------------------------------------------------------------------------
(* A cursor moved from field to field.                                     *)

\* Sums of up to three numbers, and differences.
LEMMA SumWrapped ==
    ASSUME NEW a \in Int, NEW b \in Int, 0 <= a + b, a + b < 3 * OffsetLimit
    PROVE  Add(a, b) = IF a + b < OffsetLimit THEN a + b
                       ELSE IF a + b < 2 * OffsetLimit THEN a + b - OffsetLimit
                       ELSE a + b - 2 * OffsetLimit
<1>1. ASSUME NEW x \in Int, 0 <= x, x < 3 * OffsetLimit
      PROVE  x % OffsetLimit = IF x < OffsetLimit THEN x
                               ELSE IF x < 2 * OffsetLimit THEN x - OffsetLimit
                               ELSE x - 2 * OffsetLimit
    BY <1>1, OffsetLimitAssumption
<1>2. PICK x \in Int : x = a + b
    OBVIOUS
<1>3. x % OffsetLimit = IF x < OffsetLimit THEN x
                        ELSE IF x < 2 * OffsetLimit THEN x - OffsetLimit
                        ELSE x - 2 * OffsetLimit
    BY <1>1, <1>2
<1>4. Add(a, b) = x % OffsetLimit
    BY <1>2 DEF Add
<1>. QED
    BY <1>2, <1>3, <1>4, OffsetLimitAssumption

LEMMA DifferenceWrapped ==
    ASSUME NEW a \in Numbers, NEW b \in Numbers
    PROVE  Subtract(a, b) = IF a < b THEN a - b + OffsetLimit ELSE a - b
<1>1. ASSUME NEW x \in Int, -OffsetLimit <= x, x < OffsetLimit
      PROVE  x % OffsetLimit = IF x < 0 THEN x + OffsetLimit ELSE x
    BY <1>1, OffsetLimitAssumption
<1>2. a - b \in Int /\ -OffsetLimit <= a - b /\ a - b < OffsetLimit
    BY OffsetLimitAssumption DEF Numbers
<1>. QED
    BY <1>1, <1>2, OffsetLimitAssumption DEF Subtract, Numbers

\* The relative offset, from the end of the field before to the field, takes a
\* cursor from the absolute end of that field to the field's absolute offset,
\* wherever sums wrap around.
LEMMA Chains ==
    ASSUME NEW p \in Numbers, NEW s \in Numbers, NEW h \in Numbers, NEW q \in Numbers
    PROVE  Add(Add(p, h) + s, Subtract(q, Add(p, s))) = Add(q, h)
<1> PICK L \in Nat \ {0} : L = OffsetLimit
    BY OffsetLimitAssumption
<1>1. p \in 0 .. L - 1 /\ s \in 0 .. L - 1 /\ h \in 0 .. L - 1 /\ q \in 0 .. L - 1
    BY DEF Numbers
<1>2. ASSUME NEW a \in 0 .. L - 1, NEW b \in 0 .. L - 1
      PROVE  Add(a, b) = IF a + b < L THEN a + b ELSE a + b - L
    <2>1. a \in Int /\ b \in Int /\ 0 <= a + b /\ a + b < 2 * L /\ a + b < 3 * L
        OBVIOUS
    <2>. QED
        BY <2>1, SumWrapped
<1> DEFINE ph == Add(p, h)
           ps == Add(p, s)
           r  == Subtract(q, ps)
<1>3. ph = IF p + h < L THEN p + h ELSE p + h - L
    BY <1>1, <1>2
<1>4. ps = IF p + s < L THEN p + s ELSE p + s - L
    BY <1>1, <1>2
<1>5. Add(q, h) = IF q + h < L THEN q + h ELSE q + h - L
    BY <1>1, <1>2
<1>6. ps \in Numbers
    BY <1>1, <1>4 DEF Numbers
<1> HIDE DEF ph, ps
<1>7. r = IF q < ps THEN q - ps + L ELSE q - ps
    BY <1>6, DifferenceWrapped
<1> HIDE DEF r
<1>8. /\ ph + s \in Int /\ r \in Int /\ 0 <= (ph + s) + r /\ (ph + s) + r < 3 * L
    BY <1>1, <1>3, <1>4, <1>7
<1>9. Add(ph + s, r) = IF (ph + s) + r < L THEN (ph + s) + r
                       ELSE IF (ph + s) + r < 2 * L THEN (ph + s) + r - L
                       ELSE (ph + s) + r - 2 * L
    BY <1>8, SumWrapped
<1>10. Add(ph + s, r) = Add(q, h)
    BY <1>1, <1>3, <1>4, <1>5, <1>7, <1>9
<1>. QED
    BY <1>10 DEF ph, ps, r

\* Where a cursor stands in front of field k, in terms of the validator's walk:
\* the end of the field before, without the header.
LEMMA EndBefore ==
    ASSUME IInv, phase = "done", NEW k \in Located
    PROVE  LET js == {j \in Located : j < k}
           IN  /\ js = {} => before[k] = 0
               /\ js # {} =>
                      \E j \in js : /\ \A l \in js : l <= j
                                    /\ before[k] = before[j + 1]
<1> DEFINE js == {j \in Located : j < k}
<1>1. /\ TypeOK /\ N \in Nat /\ Indices = 1 .. N /\ Passed = N /\ k \in 1 .. N
      /\ before[1] = 0
    BY LevelFacts DEF IInv, Passed, Located, Walk
<1>2. ASSUME NEW j \in 1 .. N + 1, j <= k,
             \A n \in 1 .. N : j <= n /\ n < k => n \notin js
      PROVE  before[j] = before[k]
    <2>1. \A n \in 1 .. N : j <= n /\ n < k => Field(n).constant
        BY <1>1, <1>2 DEF Located
    <2>. QED
        BY <1>1, <1>2, <2>1 DEF IInv, Steady
<1>3. ASSUME js = {}
      PROVE  before[k] = 0
    <2>1. 1 \in 1 .. N + 1 /\ 1 <= k
        BY <1>1
    <2>. QED
        BY <1>1, <1>2, <1>3, <2>1
<1>4. ASSUME js # {}
      PROVE  \E j \in js : (\A l \in js : l <= j) /\ before[k] = before[j + 1]
    <2>1. js \subseteq 1 .. k
        BY <1>1 DEF Located
    <2>2. PICK j \in js : \A l \in js : l <= j
        <3> HIDE DEF js
        <3>1. k \in Nat /\ js \in SUBSET (0 .. k)
            BY <1>1, <2>1
        <3>. QED
            BY <1>4, <3>1, GreatestNatural
    <2>3. /\ j + 1 \in 1 .. N + 1 /\ j + 1 <= k
          /\ \A n \in 1 .. N : j + 1 <= n /\ n < k => n \notin js
        BY <1>1, <2>1, <2>2 DEF Located
    <2>. QED
        BY <1>2, <2>2, <2>3
<1>. QED
    BY <1>3, <1>4

\* The cursor accessors of a level agree with one another and with the header,
\* for every level and every width of offset_t: a cursor that has read a field
\* passes the assertion of the next one (make_fields_cursor_accessors).
THEOREM OffsetsChain == Spec => []CursorOffsetsChain
<1>1. IInv => CursorOffsetsChain
    <2> SUFFICES ASSUME IInv, phase = "done", schema.kind # "composite",
                        NEW k \in Located
                 PROVE  /\ Add(PreviousEnd(k), cursor[k].rel) = cursor[k].abs
                        /\ cursor[k].last <=> \A j \in Located : j <= k
        BY DEF CursorOffsetsChain
    <2> DEFINE js == {j \in Located : j < k}
    <2>1. /\ TypeOK /\ N \in Nat /\ Indices = 1 .. N /\ i = N + 1 /\ Passed = N
          /\ schema.header \in Numbers /\ 0 \in Numbers
          /\ \A n \in 1 .. N : Field(n).size \in Numbers
        BY LevelFacts DEF IInv, Finished, Passed
    <2>2. ASSUME NEW n \in Located
          PROVE  /\ EmittedField(n) /\ n \in 1 .. N /\ PassedField(n)
                 /\ placed[n] \in Numbers /\ ~Field(n).constant
        <3>1. n \in 1 .. N /\ n < i /\ ~Field(n).constant
            BY <2>1 DEF Located
        <3>2. EmittedField(n)
            BY <3>1 DEF IInv, Emitted, Accepted
        <3>3. PassedField(n)
            BY <2>1, <3>1 DEF IInv, Walk
        <3>. QED
            BY <2>1, <3>1, <3>2, <3>3 DEF TypeOK
    <2>3. cursor[k].last <=> \A j \in Located : j <= k
        BY <2>2 DEF EmittedField, IsLast
    <2>4. /\ cursor[k].rel = Subtract(placed[k], before[k])
          /\ cursor[k].abs = Add(placed[k], schema.header)
        BY <2>2 DEF EmittedField
    <2>5. CASE js = {}
        <3>1. before[k] = 0 /\ PreviousEnd(k) = schema.header
            BY <2>5, EndBefore DEF PreviousEnd
        <3>2. Subtract(placed[k], 0) = placed[k]
            BY <2>1, <2>2, DifferenceWrapped DEF Numbers
        <3>3. Add(schema.header, placed[k]) = Add(placed[k], schema.header)
            BY <2>1, <2>2 DEF Add, Numbers
        <3>. QED
            BY <2>3, <2>4, <3>1, <3>2, <3>3
    <2>6. CASE js # {}
        <3> DEFINE IsGreatest(n) == \A l \in js : l <= n
                   j == CHOOSE n \in js : IsGreatest(n)
        <3>1. PICK g \in js : IsGreatest(g) /\ before[k] = before[g + 1]
            BY <2>6, EndBefore
        <3>2. j \in js /\ IsGreatest(j)
            BY <3>1
        <3>3. j = g
            <4>1. j \in Int /\ g \in Int /\ j <= g /\ g <= j
                BY <2>1, <3>1, <3>2 DEF Located
            <4>. QED
                BY <4>1
        <3>4. PreviousEnd(k) = cursor[j].abs + Field(j).size
            BY <2>6 DEF PreviousEnd
        <3> HIDE DEF j
        <3>5. g \in Located /\ Field(g).size \in Numbers
            BY <2>1, <2>2, <3>1
        <3>6. before[k] = Add(placed[g], Field(g).size)
            BY <2>2, <3>1, <3>5 DEF PassedField
        <3>7. cursor[g].abs = Add(placed[g], schema.header)
            BY <2>2, <3>5 DEF EmittedField
        <3>8. Add(Add(placed[g], schema.header) + Field(g).size,
                  Subtract(placed[k], Add(placed[g], Field(g).size)))
                  = Add(placed[k], schema.header)
            BY <2>1, <2>2, <3>5, Chains
        <3>. QED
            BY <2>3, <2>4, <3>3, <3>4, <3>6, <3>7, <3>8
    <2>. QED
        BY <2>5, <2>6
<1>. QED
    BY <1>1, Invariant, PTL

\* A layout as the property defines it.
LEMMA LayoutFound ==
    ASSUME TypeOK
    PROVE  HasLayout(schema) <=> \E at \in [Located -> Numbers] : IsLayout(at)
<1>1. {k \in DOMAIN schema.fields : ~schema.fields[k].constant} = Located
    BY DEF Located, Indices, Field
<1>. QED
    BY <1>1 DEF HasLayout, IsLayout, Field

\* The validator reports a level exactly if its fields cannot be put into the
\* block in their order, for every level whose offsets do not wrap around
\* (validate_field_offset, validate_block_length).
THEOREM ReportsExactly == Spec => []RejectsExactly
<1>1. IInv => FieldsFillBlockInOrder
    BY LaidOut
<1>2. IInv /\ FieldsFillBlockInOrder => RejectsExactly
    <2> SUFFICES ASSUME IInv, FieldsFillBlockInOrder, ~wrapped
                 PROVE  /\ phase = "rejected" => ~HasLayout(schema)
                        /\ Accepted => HasLayout(schema)
        BY DEF RejectsExactly
    <2>1. TypeOK
        BY DEF IInv
    <2>2. phase = "rejected" => ~HasLayout(schema)
        BY <2>1, LayoutFound DEF IInv, Rejected
    <2>3. ASSUME Accepted
          PROVE  HasLayout(schema)
        <3> DEFINE at == [k \in Located |-> placed[k]]
        <3>1. /\ N \in Nat /\ Indices = 1 .. N /\ Passed = N
              /\ placed \in [Indices -> Numbers]
            BY <2>1, <2>3, LevelFacts DEF Passed, Accepted, TypeOK
        <3>2. at \in [Located -> Numbers]
            BY <3>1 DEF Located
        <3>3. ASSUME NEW k \in Located
              PROVE  Field(k).custom => placed[k] = Field(k).offset
            <4>1. k \in 1 .. N /\ ~Field(k).constant
                BY <3>1 DEF Located
            <4>2. PassedField(k)
                BY <3>1, <4>1 DEF IInv, Walk
            <4>. QED
                BY <4>1, <4>2 DEF PassedField
        <3>4. \A k \in Located : schema.hasBlockLength =>
                  placed[k] + Field(k).size <= schema.blockLength
            BY <2>3 DEF FieldsFillBlockInOrder, IInv, Enough
        <3>5. \A j, k \in Located :
                  j < k => placed[j] + Field(j).size <= placed[k]
            BY <2>3 DEF FieldsFillBlockInOrder
        <3>6. IsLayout(at)
            BY <3>2, <3>3, <3>4, <3>5 DEF IsLayout
        <3>. QED
            BY <2>1, <3>2, <3>6, LayoutFound
    <2>. QED
        BY <2>2, <2>3
<1>. QED
    BY <1>1, <1>2, Invariant, PTL
=============================================================================
