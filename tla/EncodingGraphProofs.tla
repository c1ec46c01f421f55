------------------------ MODULE EncodingGraphProofs ------------------------
(***************************************************************************)
(* Proofs about EncodingGraph, for any set of schemas.                     *)
(*                                                                         *)
(* Inv is the invariant of both walks: an encoding has a size only when    *)
(* all that is inside of it has one, the stack of the validator leads from *)
(* a public encoding from frame to frame to what is being validated, and   *)
(* only schemas all of whose encodings have sizes are compiled.            *)
(***************************************************************************)
EXTENDS EncodingGraph, FiniteSetTheorems, SequenceTheorems, WellFoundedInduction, TLAPS

-----------------------------------------------------------------------------
(* Induction.  The provers cannot instantiate a predicate, but they can a  *)
(* set: to show P for all numbers, show it of the set of those for which   *)
(* it holds.                                                               *)

LessThan == {p \in Nat \X Nat : p[1] < p[2]}

LEMMA LessThanIsWellFounded == IsWellFoundedOn(LessThan, Nat)
<1>1. IsWellFoundedOn(OpToRel(<, Nat), Nat)
  BY NatLessThanWellFounded
<1>2. OpToRel(<, Nat) = LessThan
  BY DEF OpToRel, LessThan
<1> QED
  BY <1>1, <1>2

\* A set of natural numbers has a least element.
LEMMA LeastNatural ==
    ASSUME NEW T \in SUBSET Nat, T # {}
    PROVE  \E x \in T : \A y \in T : x <= y
<1>1. PICK x \in T : \A y \in T : <<y, x>> \notin LessThan
  BY LessThanIsWellFounded, WFMin, Zenon
<1>2. ASSUME NEW y \in T
      PROVE  x <= y
  <2>1. <<y, x>> \notin LessThan /\ x \in Nat /\ y \in Nat
    BY <1>1
  <2>2. y < x => <<y, x>> \in LessThan
    BY <2>1 DEF LessThan
  <2> QED
    BY <2>1, <2>2
<1> QED
  BY <1>2

\* A set that has 0 and with n also n + 1 has all of them.
LEMMA NaturalInduction ==
    ASSUME NEW T, 0 \in T, \A n \in Nat : n \in T => n + 1 \in T
    PROVE  Nat \subseteq T
<1> SUFFICES ASSUME Nat \ T # {}
             PROVE  FALSE
  OBVIOUS
<1>1. PICK x \in Nat \ T : \A y \in Nat \ T : x <= y
  BY LeastNatural
<1>2. x # 0 /\ x - 1 \in Nat
  BY <1>1
<1>3. x - 1 \in T
  BY <1>1, <1>2
<1>4. (x - 1) + 1 \in T
  BY <1>2, <1>3
<1> QED
  BY <1>1, <1>4

\* The same from a up to b.
LEMMA IntervalInduction ==
    ASSUME NEW a \in Int, NEW b \in Int, NEW T,
           a \in T, \A i \in a .. b - 1 : i \in T => i + 1 \in T
    PROVE  a .. b \subseteq T
<1> DEFINE U == {n \in Nat : a + n <= b => a + n \in T}
<1>1. 0 \in U
  OBVIOUS
<1>2. ASSUME NEW n \in Nat, n \in U
      PROVE  n + 1 \in U
  <2>1. CASE a + (n + 1) <= b
    <3>1. a + n \in T /\ a + n \in a .. b - 1
      BY <1>2, <2>1
    <3>2. (a + n) + 1 \in T
      BY <3>1
    <3> QED
      BY <3>2
  <2>2. CASE ~(a + (n + 1) <= b)
    BY <2>2
  <2> QED
    BY <2>1, <2>2
<1> HIDE DEF U
<1>3. Nat \subseteq U
  BY <1>1, <1>2, NaturalInduction
<1>4. ASSUME NEW i \in a .. b
      PROVE  i \in T
  <2>1. i - a \in U
    BY <1>3
  <2>2. a + (i - a) = i /\ i <= b
    OBVIOUS
  <2> QED
    BY <2>1, <2>2 DEF U
<1> QED
  BY <1>4

-----------------------------------------------------------------------------
(* The invariant of both walks.                                            *)

Phases == {"validate", "types", "tags", "messages", "top", "done",
           "rejected", "failed", "assert"}

\* The phases in which only the validator has run.
Validation == {"validate", "rejected", "assert"}

FrameSet == [node : schema.nodes, next : Nat \ {0}, offset : Nat, calls : Seq(Public)]

Typed ==
    /\ schema \in Schemas
    /\ phase \in Phases
    /\ phase \in {"validate", "types"} => todo \subseteq Public
    /\ phase = "messages" => todo \subseteq Messages
    /\ stack \in Seq(FrameSet)
    /\ \A i \in 1 .. Len(stack) : stack[i].next <= Len(Elements(stack[i].node)) + 1
    /\ progress \in [Public -> {"new", "in_progress", "complete"}]
    /\ size \in [DOMAIN size -> Nat]
    /\ DOMAIN size \subseteq schema.nodes
    /\ compiled \subseteq Public
    /\ deps \in Seq(SUBSET Public)

\* What a ref of a complete encoding refers to is complete.
Sized ==
    /\ \A n \in DOMAIN size : \A j \in DOMAIN Elements(n) : Elements(n)[j] \in DOMAIN size
    /\ \A n \in DOMAIN size : Kind(n) = "ref" =>
           Target(n) \in Public /\ progress[Target(n)] = "complete"
    /\ \A n \in Public : n \in DOMAIN size <=> progress[n] = "complete"

\* Frame f is what frame p waits for.
CalledBy(s, p, f) ==
    \/ /\ p.next \in DOMAIN s.elements[p.node]
       /\ f.node = s.elements[p.node][p.next]
    \/ /\ s.kind[p.node] = "ref" /\ s.target[p.node] \in s.public
       /\ f.node = s.target[p.node]

Walk ==
    /\ stack # <<>> => stack[1].node \in Public
    /\ \A i \in 1 .. Len(stack) - 1 : CalledBy(schema, stack[i], stack[i + 1])
    /\ \A i \in 1 .. Len(stack) : stack[i].node \notin DOMAIN size
    /\ \A i \in 1 .. Len(stack) : stack[i].node \in Public =>
           progress[stack[i].node] = "in_progress"
    /\ \A i \in 1 .. Len(stack), j \in 1 .. Len(stack) :
           stack[i].node = stack[j].node => i = j
    /\ \A i \in 1 .. Len(stack), j \in Nat : 1 <= j /\ j < stack[i].next =>
           Elements(stack[i].node)[j] \in DOMAIN size
    /\ \A n \in Public : progress[n] = "new" => n \in todo
    /\ \A n \in Public : progress[n] = "in_progress" =>
           \E i \in 1 .. Len(stack) : stack[i].node = n
    /\ \A y \in schema.nodes : \A j \in DOMAIN Elements(y) :
           Elements(y)[j] \in DOMAIN size =>
               \/ y \in DOMAIN size
               \/ \E i \in 1 .. Len(stack) : stack[i].node = y /\ j < stack[i].next

Inv ==
    /\ Typed
    /\ Sized
    /\ phase \in Validation => phase # "assert" /\ Walk
    /\ phase \notin Validation => Public \subseteq DOMAIN size
    /\ phase \notin Validation =>
           \A i \in 1 .. Len(stack) : stack[i].node \in DOMAIN size

-----------------------------------------------------------------------------
(* Sequences.                                                              *)

LEMMA LastPlace ==
    ASSUME NEW n \in Nat, n # 0
    PROVE  /\ (IF 1 <= n - 1 THEN (n - 1) - 1 + 1 ELSE 0) = n - 1
           /\ n \in 1 .. n
           /\ \A i \in 1 .. n - 1 :
                  /\ i \in 1 .. n /\ i # n
                  /\ i \in 1 .. (n - 1) - 1 + 1 /\ 1 + i - 1 = i
OBVIOUS

LEMMA FrontFacts ==
    ASSUME NEW S, NEW s \in Seq(S), s # <<>>
    PROVE  /\ Front(s) \in Seq(S)
           /\ Len(Front(s)) = Len(s) - 1
           /\ \A i \in 1 .. Len(s) - 1 : Front(s)[i] = s[i]
<1>1. Len(s) \in Nat /\ Len(s) # 0
  OBVIOUS
<1>2. \A i \in 1 .. Len(s) - 1 : s[i] \in S
  BY <1>1, ElementOfSeq
<1>3. Front(s) = SubSeq(s, 1, Len(s) - 1)
  BY DEF Front
<1>4. \A i \in 1 .. (Len(s) - 1) - 1 + 1 : SubSeq(s, 1, Len(s) - 1)[i] = s[1 + i - 1]
  BY <1>1, <1>2, SubSeqProperties
<1>5. Len(SubSeq(s, 1, Len(s) - 1)) =
          IF 1 <= Len(s) - 1 THEN (Len(s) - 1) - 1 + 1 ELSE 0
  BY <1>1, <1>2, SubSeqProperties
<1>6. SubSeq(s, 1, Len(s) - 1) \in Seq(S)
  BY <1>1, <1>2, SubSeqProperties
<1>7. Len(Front(s)) = Len(s) - 1
  <2>1. (IF 1 <= Len(s) - 1 THEN (Len(s) - 1) - 1 + 1 ELSE 0) = Len(s) - 1
    BY <1>1, LastPlace
  <2> QED
    BY <1>3, <1>5, <2>1
<1>8. ASSUME NEW i \in 1 .. Len(s) - 1
      PROVE  Front(s)[i] = s[i]
  <2>1. i \in 1 .. (Len(s) - 1) - 1 + 1 /\ 1 + i - 1 = i
    BY <1>1, LastPlace
  <2> QED
    BY <1>3, <1>4, <2>1
<1> QED
  BY <1>3, <1>6, <1>7, <1>8

LEMMA AppendFacts ==
    ASSUME NEW S, NEW s \in Seq(S), NEW e \in S
    PROVE  /\ Append(s, e) \in Seq(S)
           /\ Len(s) \in Nat
           /\ Len(Append(s, e)) = Len(s) + 1
           /\ \A i \in 1 .. Len(s) : Append(s, e)[i] = s[i]
           /\ Append(s, e)[Len(s) + 1] = e
BY AppendProperties, LenProperties

\* Exchanging the last element.
LEMMA LastChanged ==
    ASSUME NEW S, NEW s \in Seq(S), s # <<>>, NEW e \in S
    PROVE  /\ [s EXCEPT ![Len(s)] = e] \in Seq(S)
           /\ Len([s EXCEPT ![Len(s)] = e]) = Len(s)
           /\ \A i \in 1 .. Len(s) - 1 : [s EXCEPT ![Len(s)] = e][i] = s[i]
           /\ [s EXCEPT ![Len(s)] = e][Len(s)] = e
<1>1. Len(s) \in Nat /\ Len(s) # 0 /\ DOMAIN s = 1 .. Len(s)
  OBVIOUS
<1>2. Len(s) \in 1 .. Len(s)
  BY <1>1
<1>3. [s EXCEPT ![Len(s)] = e] \in Seq(S) /\ Len([s EXCEPT ![Len(s)] = e]) = Len(s)
  BY <1>2, ExceptSeq
<1>4. [s EXCEPT ![Len(s)] = e][Len(s)] = e
  BY <1>1, <1>2
<1>5. ASSUME NEW i \in 1 .. Len(s) - 1
      PROVE  [s EXCEPT ![Len(s)] = e][i] = s[i]
  <2>1. i \in 1 .. Len(s) /\ i # Len(s)
    BY <1>1, LastPlace
  <2>2. i \in DOMAIN s
    BY <1>1, <2>1
  <2> QED
    BY <2>1, <2>2
<1> QED
  BY <1>3, <1>4, <1>5

-----------------------------------------------------------------------------
(* Schemas.                                                                *)

LEMMA SchemaFacts ==
    ASSUME NEW s \in Schemas
    PROVE  /\ IsFiniteSet(s.nodes)
           /\ s.public \subseteq s.nodes /\ None \notin s.nodes
           /\ s.kind \in [s.nodes -> {"type", "constant", "enum", "ref", "composite"}]
           /\ s.target \in [s.nodes -> s.public \cup {None}]
           /\ s.width \in [s.nodes -> Nat]
           /\ \A n \in s.nodes :
                  /\ s.elements[n] \in Seq(s.nodes \ s.public)
                  /\ Len(s.elements[n]) \in Nat
                  /\ DOMAIN s.elements[n] = 1 .. Len(s.elements[n])
                  /\ \A j \in DOMAIN s.elements[n] :
                         s.elements[n][j] \in s.nodes \ s.public
                  /\ s.kind[n] # "composite" => Len(s.elements[n]) = 0
           /\ \A n \in s.public : s.kind[n] # "ref"
           /\ \A n1 \in s.nodes, n2 \in s.nodes :
                  \A i \in DOMAIN s.elements[n1], j \in DOMAIN s.elements[n2] :
                      s.elements[n1][i] = s.elements[n2][j] => n1 = n2 /\ i = j
<1>1. IsSchema(s)
  BY SchemasAssumption
<1>2. ASSUME NEW n \in s.nodes
      PROVE  /\ s.elements[n] \in Seq(s.nodes \ s.public)
             /\ Len(s.elements[n]) \in Nat
             /\ DOMAIN s.elements[n] = 1 .. Len(s.elements[n])
             /\ \A j \in DOMAIN s.elements[n] : s.elements[n][j] \in s.nodes \ s.public
             /\ s.kind[n] # "composite" => Len(s.elements[n]) = 0
  <2>1. s.elements[n] \in Seq(s.nodes \ s.public)
    BY <1>1 DEF IsSchema
  <2>2. \A j \in DOMAIN s.elements[n] : s.elements[n][j] \in s.nodes \ s.public
    BY <2>1, ElementOfSeq
  <2>3. s.kind[n] # "composite" => s.elements[n] = <<>>
    BY <1>1 DEF IsSchema
  <2> QED
    BY <2>1, <2>2, <2>3
<1>3. \A n1 \in s.nodes, n2 \in s.nodes :
          \A i \in DOMAIN s.elements[n1], j \in DOMAIN s.elements[n2] :
              s.elements[n1][i] = s.elements[n2][j] => n1 = n2 /\ i = j
  BY <1>1 DEF IsSchema
<1> QED
  BY <1>1, <1>2, <1>3 DEF IsSchema

\* An element is in one composite, at one place.
LEMMA OneParent ==
    ASSUME NEW s \in Schemas, NEW n1 \in s.nodes, NEW n2 \in s.nodes,
           NEW i \in DOMAIN s.elements[n1], NEW j \in DOMAIN s.elements[n2],
           s.elements[n1][i] = s.elements[n2][j]
    PROVE  n1 = n2 /\ i = j
<1>1. IsSchema(s)
  BY SchemasAssumption
<1>2. \A x \in s.nodes, y \in s.nodes :
          \A u \in DOMAIN s.elements[x], v \in DOMAIN s.elements[y] :
              s.elements[x][u] = s.elements[y][v] => x = y /\ u = v
  BY <1>1 DEF IsSchema
<1> QED
  BY <1>2

-----------------------------------------------------------------------------
(* The validator's steps.                                                  *)

\* The frame on top of the stack.
LEMMA TopFacts ==
    ASSUME Typed, stack # <<>>
    PROVE  /\ Len(stack) \in Nat /\ Len(stack) \in 1 .. Len(stack)
           /\ Len(stack) - 1 \in Nat
           /\ Top = stack[Len(stack)] /\ Top \in FrameSet
           /\ Top.node \in schema.nodes
           /\ Top.next \in Nat /\ Top.next # 0 /\ Top.offset \in Nat
           /\ Top.calls \in Seq(Public)
           /\ Top.next <= Len(Elements(Top.node)) + 1
<1>1. stack \in Seq(FrameSet)
  BY DEF Typed
<1>2. Len(stack) \in Nat /\ Len(stack) # 0
  BY <1>1
<1>3. Len(stack) \in 1 .. Len(stack) /\ Len(stack) - 1 \in Nat
  BY <1>2, LastPlace
<1>4. stack[Len(stack)] \in FrameSet
  BY <1>1, <1>3, ElementOfSeq
<1>5. Top = stack[Len(stack)]
  BY DEF Top
<1>6. Top.next <= Len(Elements(Top.node)) + 1
  BY <1>3, <1>5 DEF Typed
<1> QED
  BY <1>2, <1>3, <1>4, <1>5, <1>6 DEF FrameSet

\* What is not on the stack and has no size yet is validated next.
LEMMA PushKeeps ==
    ASSUME Inv, phase = "validate", NEW n \in schema.nodes, n \notin DOMAIN size,
           \A i \in 1 .. Len(stack) : stack[i].node # n,
           stack = <<>> => n \in Public,
           stack # <<>> => CalledBy(schema, Top, Frame(n)),
           stack' = Append(stack, Frame(n)),
           progress' = IF n \in Public
                       THEN [progress EXCEPT ![n] = "in_progress"] ELSE progress,
           todo' = todo \/ (todo' = todo \ {n} /\ n \in Public),
           UNCHANGED <<schema, phase, size, compiler>>
    PROVE  Inv'
<1> USE DEF Kind, Elements, Target, Public, Messages, compiler
<1> DEFINE k == Len(stack)
<1>1. Typed /\ Sized /\ Walk /\ schema \in Schemas /\ stack \in Seq(FrameSet)
  BY DEF Inv, Typed, Validation
<1>3. Frame(n) \in FrameSet /\ Frame(n).node = n /\ Frame(n).next = 1
  BY DEF Frame, FrameSet
<1>4. /\ stack' \in Seq(FrameSet) /\ k \in Nat
      /\ Len(stack') = k + 1
      /\ \A i \in 1 .. k : stack'[i] = stack[i]
      /\ stack'[k + 1] = Frame(n)
  BY <1>1, <1>3, AppendFacts
<1>5. /\ progress' \in [schema.public -> {"new", "in_progress", "complete"}]
      /\ n \in schema.public => progress'[n] = "in_progress"
      /\ \A x \in schema.public : x # n => progress'[x] = progress[x]
      /\ schema.public \subseteq schema.nodes
  BY <1>1, SchemaFacts DEF Typed
<1> HIDE DEF k
<1>6. \A i \in 1 .. Len(stack') : (i \in 1 .. k /\ stack'[i] = stack[i])
                                  \/ (i = k + 1 /\ stack'[i] = Frame(n))
  BY <1>4
<1>7. Typed'
  <2>1. \A i \in 1 .. Len(stack') :
            stack'[i].next <= Len(schema.elements[stack'[i].node]) + 1
    <3> SUFFICES ASSUME NEW i \in 1 .. Len(stack')
                 PROVE  stack'[i].next <= Len(schema.elements[stack'[i].node]) + 1
      OBVIOUS
    <3>1. CASE i \in 1 .. k /\ stack'[i] = stack[i]
      BY <1>1, <3>1 DEF Typed, k
    <3>2. CASE stack'[i] = Frame(n)
      <4>1. Len(schema.elements[n]) \in Nat
        BY <1>1, SchemaFacts
      <4> QED
        BY <1>3, <3>2, <4>1
    <3> QED
      BY <1>6, <3>1, <3>2
  <2> QED
    BY <1>1, <1>4, <1>5, <2>1 DEF Typed, FrameSet
<1>8. Sized'
  BY <1>1, <1>5 DEF Sized
<1>9. Walk'
  <2>0. \A i \in 1 .. k : stack[i].node # n
    BY DEF k
  <2>1. (stack # <<>> => stack[1].node \in Public)'
    BY <1>1, <1>3, <1>4 DEF Walk, k
  <2>2. (\A i \in 1 .. Len(stack) - 1 : CalledBy(schema, stack[i], stack[i + 1]))'
    <3> SUFFICES ASSUME NEW i \in 1 .. Len(stack') - 1
                 PROVE  CalledBy(schema, stack'[i], stack'[i + 1])
      OBVIOUS
    <3>1. i \in 1 .. k
      BY <1>4
    <3>2. stack'[i] = stack[i]
      BY <1>4, <3>1
    <3>3. CASE i = k
      <4>1. stack'[i + 1] = Frame(n)
        BY <1>4, <3>3
      <4>2. stack # <<>> /\ stack[i] = Top
        BY <1>1, <3>1, <3>3 DEF Top, k
      <4> QED
        BY <1>3, <3>2, <4>1, <4>2 DEF CalledBy
    <3>4. CASE i # k
      <4>1. i + 1 \in 1 .. k /\ i \in 1 .. k - 1
        BY <1>4, <3>1, <3>4
      <4>2. stack'[i + 1] = stack[i + 1]
        BY <1>4, <4>1
      <4>3. CalledBy(schema, stack[i], stack[i + 1])
        BY <1>1, <4>1 DEF Walk, k
      <4> QED
        BY <3>2, <4>2, <4>3 DEF CalledBy
    <3> QED
      BY <3>3, <3>4
  <2>3. (\A i \in 1 .. Len(stack) : stack[i].node \notin DOMAIN size)'
    BY <1>1, <1>3, <1>6 DEF Walk, k
  <2>4. (\A i \in 1 .. Len(stack) : stack[i].node \in Public =>
             progress[stack[i].node] = "in_progress")'
    <3>1. \A i \in 1 .. k : stack[i].node \in schema.public =>
              progress[stack[i].node] = "in_progress"
      BY <1>1 DEF Walk, k
    <3> QED
      BY <1>3, <1>5, <1>6, <2>0, <3>1
  <2>5. (\A i \in 1 .. Len(stack), j \in 1 .. Len(stack) :
             stack[i].node = stack[j].node => i = j)'
    <3>1. \A i \in 1 .. k, j \in 1 .. k : stack[i].node = stack[j].node => i = j
      BY <1>1 DEF Walk, k
    <3> QED
      BY <1>3, <1>6, <2>0, <3>1
  <2>6. (\A i \in 1 .. Len(stack), j \in Nat : 1 <= j /\ j < stack[i].next =>
             Elements(stack[i].node)[j] \in DOMAIN size)'
    BY <1>1, <1>3, <1>6 DEF Walk, k
  <2>7. (\A x \in Public : progress[x] = "new" => x \in todo)'
    BY <1>1, <1>5 DEF Walk
  <2>8. (\A x \in Public : progress[x] = "in_progress" =>
             \E i \in 1 .. Len(stack) : stack[i].node = x)'
    <3>1. k + 1 \in 1 .. Len(stack') /\ 1 .. k \subseteq 1 .. Len(stack')
      BY <1>4
    <3>2. \A x \in schema.public : progress[x] = "in_progress" =>
              \E i \in 1 .. k : stack[i].node = x
      BY <1>1 DEF Walk, k
    <3> QED
      BY <1>3, <1>4, <1>5, <3>1, <3>2
  <2>9. (\A y \in schema.nodes : \A j \in DOMAIN Elements(y) :
             Elements(y)[j] \in DOMAIN size =>
                 \/ y \in DOMAIN size
                 \/ \E i \in 1 .. Len(stack) : stack[i].node = y /\ j < stack[i].next)'
    BY <1>1, <1>4 DEF Walk, k
  <2> QED
    BY <2>1, <2>2, <2>3, <2>4, <2>5, <2>6, <2>7, <2>8, <2>9 DEF Walk
<1> QED
  BY <1>7, <1>8, <1>9 DEF Inv, Validation

\* A public encoding that is new is entered.
LEMMA EnterKeeps ==
    ASSUME Inv, phase = "validate", NEW n \in Public, progress[n] = "new",
           EnterPublic(n),
           stack # <<>> => Kind(Top.node) = "ref" /\ Target(Top.node) = n,
           todo' = todo \/ todo' = todo \ {n},
           UNCHANGED <<schema, phase, size, compiler>>
    PROVE  Inv'
<1>1. Typed /\ Sized /\ Walk /\ schema \in Schemas
  BY DEF Inv, Typed, Validation
<1>2. n \in schema.nodes /\ n \notin DOMAIN size
  BY <1>1, SchemaFacts DEF Sized, Public
<1>3. \A i \in 1 .. Len(stack) : stack[i].node # n
  BY <1>1 DEF Walk
<1>4. Frame(n).node = n
  BY DEF Frame
<1>5. stack # <<>> => CalledBy(schema, Top, Frame(n))
  BY <1>4 DEF CalledBy, Kind, Target, Public
<1> QED
  BY <1>2, <1>3, <1>5, PushKeeps DEF EnterPublic, Marked

LEMMA ValidateNextKeeps ==
    ASSUME Inv, ValidateNext
    PROVE  Inv'
<1>1. PICK n \in todo :
          /\ todo' = todo \ {n}
          /\ IF progress[n] = "new" THEN EnterPublic(n) ELSE UNCHANGED <<progress, stack>>
  BY DEF ValidateNext
<1>2. /\ phase = "validate" /\ stack = <<>>
      /\ UNCHANGED <<schema, phase, size, compiler>>
  BY DEF ValidateNext
<1>3. n \in Public
  BY <1>2 DEF Inv, Typed
<1>4. CASE progress[n] = "new"
  BY <1>1, <1>2, <1>3, <1>4, EnterKeeps
<1>5. CASE progress[n] # "new"
  <2>1. UNCHANGED <<progress, stack>>
    BY <1>1, <1>5
  <2>2. Typed /\ Sized /\ Walk
    BY <1>2 DEF Inv, Validation
  <2>3. Typed'
    BY <1>1, <1>2, <2>1, <2>2 DEF Typed, FrameSet, Elements, Public, Messages, compiler
  <2>4. Sized'
    BY <1>2, <2>1, <2>2 DEF Sized, Kind, Target, Elements, Public
  <2>5. Walk'
    BY <1>1, <1>2, <1>5, <2>1, <2>2 DEF Walk, Elements, Public
  <2> QED
    BY <1>2, <2>3, <2>4, <2>5 DEF Inv, Validation
<1> QED
  BY <1>4, <1>5

LEMMA FollowRefKeeps ==
    ASSUME Inv, FollowRef
    PROVE  Inv'
<1>1. Typed /\ phase = "validate" /\ stack # <<>> /\ schema \in Schemas
  BY DEF FollowRef, Validating, Inv, Typed
<1>2. Top.node \in schema.nodes
  BY <1>1, TopFacts
<1>3. Target(Top.node) \in Public
  <2>1. Target(Top.node) # None
    BY DEF FollowRef
  <2>2. schema.target[Top.node] \in schema.public \cup {None}
    BY <1>1, <1>2, SchemaFacts
  <2> QED
    BY <2>1, <2>2 DEF Target, Public
<1> QED
  BY <1>1, <1>3, EnterKeeps DEF FollowRef, Validating

LEMMA ValidateElementKeeps ==
    ASSUME Inv, ValidateElement
    PROVE  Inv'
<1> DEFINE y == Top.node
           e == schema.elements[y][Top.next]
           k == Len(stack)
<1>1. /\ Typed /\ Walk /\ phase = "validate" /\ stack # <<>> /\ schema \in Schemas
      /\ stack' = Append(stack, Frame(e)) /\ Top.next <= Len(schema.elements[y])
      /\ UNCHANGED <<schema, phase, todo, progress, size, compiler>>
  BY DEF ValidateElement, Validating, Inv, Typed, Validation, Elements, validator
<1>2. /\ k \in Nat /\ k \in 1 .. k /\ Top = stack[k] /\ y \in schema.nodes
      /\ Top.next \in Nat /\ Top.next # 0
  BY <1>1, TopFacts
<1>3. Top.next \in DOMAIN schema.elements[y]
  BY <1>1, <1>2, SchemaFacts
<1>4. e \in schema.nodes /\ e \notin schema.public
  BY <1>1, <1>2, <1>3, SchemaFacts
<1>5. e \notin DOMAIN size
  <2> SUFFICES ASSUME e \in DOMAIN size
               PROVE  FALSE
    OBVIOUS
  <2>1. y \in DOMAIN size \/ \E i \in 1 .. k : stack[i].node = y /\ Top.next < stack[i].next
    BY <1>1, <1>2, <1>3 DEF Walk, Elements
  <2>2. y \notin DOMAIN size
    BY <1>1, <1>2 DEF Walk
  <2>3. PICK i \in 1 .. k : stack[i].node = y /\ Top.next < stack[i].next
    BY <2>1, <2>2
  <2>4. i = k
    BY <1>1, <1>2, <2>3 DEF Walk
  <2> QED
    BY <1>2, <2>3, <2>4
<1>6. ASSUME NEW i \in 1 .. k, stack[i].node = e
      PROVE  FALSE
  <2>1. i # 1
    BY <1>1, <1>4, <1>6 DEF Walk, Public
  <2>2. i - 1 \in 1 .. k - 1 /\ i - 1 \in 1 .. k /\ (i - 1) + 1 = i /\ i - 1 # k
    BY <1>2, <2>1
  <2>3. CalledBy(schema, stack[i - 1], stack[i])
    BY <1>1, <2>2 DEF Walk
  <2>4. /\ stack[i - 1].next \in DOMAIN schema.elements[stack[i - 1].node]
        /\ schema.elements[stack[i - 1].node][stack[i - 1].next] = e
    BY <1>4, <1>6, <2>3 DEF CalledBy
  <2>5. stack[i - 1].node \in schema.nodes
    <3>1. stack[i - 1] \in FrameSet
      BY <1>1, <2>2, ElementOfSeq DEF Typed
    <3> QED
      BY <3>1 DEF FrameSet
  <2>6. stack[i - 1].node = y
    BY <1>1, <1>2, <1>3, <2>4, <2>5, OneParent
  <2> QED
    BY <1>1, <1>2, <2>2, <2>6 DEF Walk
<1>7. CalledBy(schema, Top, Frame(e))
  BY <1>3 DEF CalledBy, Frame
<1> HIDE DEF e
<1> QED
  BY <1>1, <1>4, <1>5, <1>6, <1>7, PushKeeps DEF Public

\* What a composite does when one of its elements has been validated.
Advanced(f, n, bytes) ==
    [f EXCEPT ![Len(f)].next = @ + 1,
              ![Len(f)].offset = OffsetAfter(@, n, bytes)]

LEMMA AdvanceFacts ==
    ASSUME Typed, NEW f \in Seq(FrameSet), f # <<>>, NEW n, NEW bytes \in Nat,
           NEW p, p = f[Len(f)], NEW g, g = Advanced(f, n, bytes)
    PROVE  /\ g \in Seq(FrameSet)
           /\ Len(g) = Len(f)
           /\ \A i \in 1 .. Len(f) - 1 : g[i] = f[i]
           /\ g[Len(f)].node = p.node
           /\ g[Len(f)].next = p.next + 1
           /\ g[Len(f)].offset = OffsetAfter(p.offset, n, bytes)
<1> DEFINE q == [node |-> p.node, next |-> p.next + 1,
                 offset |-> OffsetAfter(p.offset, n, bytes), calls |-> p.calls]
<1>1. Len(f) \in Nat /\ Len(f) # 0 /\ DOMAIN f = 1 .. Len(f) /\ Len(f) \in 1 .. Len(f)
  BY LastPlace
<1>2. p \in FrameSet
  BY <1>1, ElementOfSeq
<1>3. OffsetAfter(p.offset, n, bytes) \in Nat
  BY <1>2 DEF FrameSet, OffsetAfter
<1>4. q \in FrameSet
  BY <1>2, <1>3 DEF FrameSet
<1>5. g = [f EXCEPT ![Len(f)] = q]
  <2> DEFINE h == [f EXCEPT ![Len(f)].next = @ + 1]
  <2>1. f[Len(f)] \in [node : schema.nodes, next : Nat \ {0}, offset : Nat,
                       calls : Seq(Public)]
    BY <1>2 DEF FrameSet
  <2>2. h[Len(f)] = [f[Len(f)] EXCEPT !.next = @ + 1]
    BY <1>1
  <2>3. h[Len(f)].offset = f[Len(f)].offset
    BY <2>1, <2>2
  <2>4. g = [h EXCEPT ![Len(f)].offset = OffsetAfter(@, n, bytes)]
    BY <2>3 DEF Advanced
  <2>5. g[Len(f)] = [h[Len(f)] EXCEPT !.offset = OffsetAfter(@, n, bytes)]
    BY <1>1, <2>4
  <2>6. g[Len(f)] = q
    BY <2>1, <2>2, <2>5
  <2>7. \A i \in DOMAIN f : i # Len(f) => g[i] = f[i]
    BY DEF Advanced
  <2>8. DOMAIN g = DOMAIN f
    BY DEF Advanced
  <2>9. g = [i \in DOMAIN g |-> g[i]]
    BY DEF Advanced
  <2> HIDE DEF q
  <2> QED
    BY <1>1, <2>6, <2>7, <2>8, <2>9
<1> HIDE DEF q
<1>6. /\ g \in Seq(FrameSet) /\ Len(g) = Len(f)
      /\ \A i \in 1 .. Len(f) - 1 : g[i] = f[i]
      /\ g[Len(f)] = q
  <2>1. /\ [f EXCEPT ![Len(f)] = q] \in Seq(FrameSet)
        /\ Len([f EXCEPT ![Len(f)] = q]) = Len(f)
        /\ \A i \in 1 .. Len(f) - 1 : [f EXCEPT ![Len(f)] = q][i] = f[i]
        /\ [f EXCEPT ![Len(f)] = q][Len(f)] = q
    BY <1>4, LastChanged
  <2> QED
    BY <1>5, <2>1
<1> QED
  BY <1>6 DEF q

\* s is what is left of a stack of k frames when a function on n has returned
\* to the one of p.
Returned(k, n, p, s, bytes) ==
    /\ s \in Seq(FrameSet)
    /\ Len(s) = k - 1
    /\ \A i \in 1 .. k - 2 : s[i] = stack[i]
    /\ k # 1 =>
           \/ /\ Kind(p.node) = "ref" /\ s[k - 1] = p
              /\ Target(p.node) = n
           \/ /\ Kind(p.node) # "ref"
              /\ s[k - 1].node = p.node
              /\ s[k - 1].next = p.next + 1
              /\ s[k - 1].offset = OffsetAfter(p.offset, n, bytes)
              /\ p.next \in DOMAIN Elements(p.node)
              /\ Elements(p.node)[p.next] = n

\* The innermost function returns, and its caller goes on.
LEMMA ReturnToFacts ==
    ASSUME Typed, Walk, stack # <<>>, NEW bytes \in Nat
    PROVE  Returned(Len(stack), Top.node, stack[Len(stack) - 1],
                    ReturnTo(Front(stack), Top.node, bytes), bytes)
<1> USE DEF Kind, Elements, Target, Public
<1>a. PICK k : k = Len(stack)
  OBVIOUS
<1>b. PICK n : n = Top.node
  OBVIOUS
<1>c. PICK p : p = stack[k - 1]
  OBVIOUS
<1>d. PICK s : s = ReturnTo(Front(stack), n, bytes)
  OBVIOUS
<1> SUFFICES Returned(k, n, p, s, bytes)
  BY <1>a, <1>b, <1>c, <1>d
<1> USE <1>a, <1>b, <1>c, <1>d DEF Returned
<1> DEFINE f == Front(stack)
<1>1. /\ k \in Nat /\ k \in 1 .. k /\ k # 0 /\ Top = stack[k] /\ schema \in Schemas
      /\ stack \in Seq(FrameSet)
  BY TopFacts DEF Typed
<1>2. f \in Seq(FrameSet) /\ Len(f) = k - 1 /\ \A i \in 1 .. k - 1 : f[i] = stack[i]
  BY <1>1, FrontFacts
<1>3. CASE k = 1
  <2>1. f = <<>>
    BY <1>1, <1>2, <1>3
  <2>2. s = f
    BY <2>1 DEF ReturnTo
  <2>3. \A i \in 1 .. k - 2 : s[i] = stack[i]
    BY <1>3
  <2> QED
    BY <1>2, <1>3, <2>2, <2>3
<1>4. CASE k # 1
  <2>1. /\ k - 1 \in 1 .. k - 1 /\ (k - 1) + 1 = k /\ f # <<>>
        /\ \A i \in 1 .. k - 2 : i \in 1 .. (k - 1) - 1
    BY <1>1, <1>2, <1>4
  <2>2. f[Len(f)] = p
    BY <1>2, <2>1
  <2>3. CalledBy(schema, p, Top)
    BY <1>1, <2>1 DEF Walk
  <2>4. p \in FrameSet
    <3>1. k - 1 \in 1 .. k
      BY <1>1, <2>1
    <3> QED
      BY <1>1, <3>1, ElementOfSeq
  <2>5. CASE Kind(p.node) = "ref"
    <3>1. s = f
      BY <2>2, <2>5 DEF ReturnTo
    <3>2. Len(schema.elements[p.node]) = 0
      BY <1>1, <2>4, <2>5, SchemaFacts DEF FrameSet
    <3>3. schema.target[p.node] = n
      <4>1. p.node \in schema.nodes
        BY <2>4 DEF FrameSet
      <4>2. DOMAIN schema.elements[p.node] = {}
        BY <1>1, <3>2, <4>1, SchemaFacts
      <4> QED
        BY <2>3, <4>2 DEF CalledBy
    <3> QED
      BY <1>2, <2>1, <2>5, <3>1, <3>3
  <2>6. CASE Kind(p.node) # "ref"
    <3>1. s = Advanced(f, n, bytes)
      BY <2>1, <2>2, <2>6 DEF ReturnTo, Advanced
    <3>2. /\ s \in Seq(FrameSet) /\ Len(s) = Len(f)
          /\ \A i \in 1 .. Len(f) - 1 : s[i] = f[i]
          /\ s[Len(f)].node = p.node
          /\ s[Len(f)].next = p.next + 1
          /\ s[Len(f)].offset = OffsetAfter(p.offset, n, bytes)
      <4> HIDE DEF f
      <4>1. p = f[Len(f)] /\ f # <<>> /\ f \in Seq(FrameSet)
        BY <1>2, <2>1, <2>2
      <4> QED
        BY <3>1, <4>1, AdvanceFacts
    <3>3. p.next \in DOMAIN schema.elements[p.node] /\ schema.elements[p.node][p.next] = n
      BY <2>3, <2>6 DEF CalledBy
    <3>4. \A i \in 1 .. k - 2 : s[i] = stack[i]
      <4> SUFFICES ASSUME NEW i \in 1 .. k - 2
                   PROVE  s[i] = stack[i]
        OBVIOUS
      <4>1. i \in 1 .. Len(f) - 1 /\ i \in 1 .. k - 1
        BY <1>1, <1>2, <2>1
      <4> QED
        BY <1>2, <3>2, <4>1
    <3>5. Len(s) = k - 1 /\ Len(f) = k - 1
      BY <1>2, <3>2
    <3> HIDE DEF f
    <3> QED
      BY <2>6, <3>2, <3>3, <3>4, <3>5
  <2> QED
    BY <2>5, <2>6
<1> QED
  BY <1>3, <1>4

\* The encoding on top has been validated, and all that is inside of it before.
LEMMA ReturnKeeps ==
    ASSUME Inv, phase = "validate", stack # <<>>, NEW bytes \in Nat,
           \A j \in DOMAIN Elements(Top.node) : Elements(Top.node)[j] \in DOMAIN size,
           Kind(Top.node) = "ref" =>
               /\ Target(Top.node) \in Public
               /\ progress[Target(Top.node)] = "complete",
           Return(bytes)
    PROVE  Inv'
<1> USE DEF Kind, Elements, Target, Public, Messages, compiler
<1>a. PICK k : k = Len(stack)
  OBVIOUS
<1>b. PICK n : n = Top.node
  OBVIOUS
<1>c. PICK p : p = stack[k - 1]
  OBVIOUS
<1>1. /\ Typed /\ Sized /\ Walk /\ schema \in Schemas /\ stack \in Seq(FrameSet)
      /\ k \in Nat /\ k \in 1 .. k /\ k # 0 /\ Top = stack[k]
      /\ n \in schema.nodes /\ n \notin DOMAIN size
  <2>1. Typed /\ Sized /\ Walk
    BY DEF Inv, Validation
  <2>2. schema \in Schemas /\ stack \in Seq(FrameSet)
    BY <2>1 DEF Typed
  <2>3. k \in Nat /\ k \in 1 .. k /\ k # 0 /\ Top = stack[k] /\ n \in schema.nodes
    BY <1>a, <1>b, <2>1, TopFacts
  <2>4. n \notin DOMAIN size
    BY <1>a, <1>b, <2>1, <2>3 DEF Walk
  <2> QED
    BY <2>1, <2>2, <2>3, <2>4
<1>2. /\ size' = [x \in DOMAIN size \cup {n} |-> IF x = n THEN bytes ELSE size[x]]
      /\ stack' = ReturnTo(Front(stack), n, bytes)
      /\ progress' = IF n \in schema.public
                     THEN [progress EXCEPT ![n] = "complete"] ELSE progress
      /\ UNCHANGED <<schema, phase, todo, compiler>>
  BY <1>b, <1>1 DEF Return
<1>3. /\ stack' \in Seq(FrameSet)
      /\ Len(stack') = k - 1
      /\ \A i \in 1 .. k - 2 : stack'[i] = stack[i]
      /\ k # 1 =>
             \/ /\ schema.kind[p.node] = "ref" /\ stack'[k - 1] = p
                /\ schema.target[p.node] = n
             \/ /\ schema.kind[p.node] # "ref"
                /\ stack'[k - 1].node = p.node
                /\ stack'[k - 1].next = p.next + 1
                /\ p.next \in DOMAIN schema.elements[p.node]
                /\ schema.elements[p.node][p.next] = n
  <2>1. Returned(k, n, p, ReturnTo(Front(stack), n, bytes), bytes)
    BY <1>a, <1>b, <1>c, <1>1, ReturnToFacts
  <2>2. Returned(k, n, p, stack', bytes)
    BY <1>2, <2>1
  <2> QED
    BY <2>2 DEF Returned
<1>4. ASSUME NEW i \in 1 .. Len(stack')
      PROVE  /\ i \in 1 .. k /\ i # k /\ i \in 1 .. k - 1
             /\ stack'[i].node = stack[i].node
             /\ stack'[i].next \in Nat /\ stack[i].next \in Nat
             /\ \/ stack'[i] = stack[i]
                \/ /\ i = k - 1
                   /\ schema.elements[stack[i].node][stack[i].next] = n
                   /\ stack[i].next \in DOMAIN schema.elements[stack[i].node]
                   /\ stack'[i].next = stack[i].next + 1
  <2>1. i \in 1 .. k /\ i # k /\ i \in 1 .. k - 1 /\ (i = k - 1 => k # 1)
        /\ (i # k - 1 => i \in 1 .. k - 2)
    BY <1>1, <1>3
  <2>2. stack[i] \in FrameSet /\ stack'[i] \in FrameSet
    <3>1. stack[i] \in FrameSet
      BY <1>a, <1>1, <2>1, ElementOfSeq
    <3>2. stack'[i] \in FrameSet
      BY <1>3, ElementOfSeq
    <3> QED
      BY <3>1, <3>2
  <2>3. stack[i].next \in Nat /\ stack'[i].next \in Nat
    BY <2>2 DEF FrameSet
  <2> QED
    BY <1>c, <1>3, <2>1, <2>3
<1>5. /\ DOMAIN size' = DOMAIN size \cup {n}
      /\ size'[n] = bytes
      /\ \A x \in DOMAIN size : size'[x] = size[x]
  BY <1>1, <1>2
<1>6. /\ progress' \in [schema.public -> {"new", "in_progress", "complete"}]
      /\ n \in schema.public => progress'[n] = "complete"
      /\ \A x \in schema.public : x # n => progress'[x] = progress[x]
      /\ schema.public \subseteq schema.nodes
  BY <1>1, <1>2, SchemaFacts DEF Typed
<1>7. Typed'
  <2>1. size' \in [DOMAIN size' -> Nat] /\ DOMAIN size' \subseteq schema.nodes
    BY <1>1, <1>2, <1>5 DEF Typed
  <2>2. \A i \in 1 .. Len(stack') :
            stack'[i].next <= Len(schema.elements[stack'[i].node]) + 1
    <3> SUFFICES ASSUME NEW i \in 1 .. Len(stack')
                 PROVE  stack'[i].next <= Len(schema.elements[stack'[i].node]) + 1
      OBVIOUS
    <3>1. stack[i].next <= Len(schema.elements[stack[i].node]) + 1
      BY <1>a, <1>1, <1>4 DEF Typed
    <3>2. stack[i].node \in schema.nodes
      <4>1. stack[i] \in FrameSet
        BY <1>a, <1>1, <1>4, ElementOfSeq
      <4> QED
        BY <4>1 DEF FrameSet
    <3>3. /\ DOMAIN schema.elements[stack[i].node] = 1 .. Len(schema.elements[stack[i].node])
          /\ Len(schema.elements[stack[i].node]) \in Nat
      BY <1>1, <3>2, SchemaFacts
    <3>4. CASE stack'[i] = stack[i]
      BY <3>1, <3>4
    <3>5. CASE /\ stack[i].next \in DOMAIN schema.elements[stack[i].node]
               /\ stack'[i].next = stack[i].next + 1
      <4>1. stack'[i].node = stack[i].node /\ stack[i].next \in Nat
        BY <1>4
      <4>2. stack[i].next <= Len(schema.elements[stack[i].node])
        BY <3>3, <3>5
      <4> QED
        BY <3>3, <3>5, <4>1, <4>2
    <3> QED
      BY <1>4, <3>4, <3>5
  <2> QED
    BY <1>1, <1>2, <1>3, <1>6, <2>1, <2>2 DEF Typed, FrameSet
<1>8. Sized'
  <2>1. (\A x \in DOMAIN size : \A j \in DOMAIN Elements(x) :
            Elements(x)[j] \in DOMAIN size)'
    BY <1>b, <1>1, <1>2, <1>5 DEF Sized
  <2>2. ASSUME NEW x \in DOMAIN size', schema.kind[x] = "ref"
        PROVE  schema.target[x] \in schema.public /\ progress'[schema.target[x]] = "complete"
    <3>1. schema.target[x] \in schema.public /\ progress[schema.target[x]] = "complete"
      BY <1>b, <1>1, <1>5, <2>2 DEF Sized
    <3> QED
      BY <1>6, <3>1
  <2>3. ASSUME NEW x \in schema.public
        PROVE  x \in DOMAIN size' <=> progress'[x] = "complete"
    BY <1>1, <1>5, <1>6 DEF Sized
  <2> QED
    BY <1>2, <2>1, <2>2, <2>3 DEF Sized
<1>9. Walk'
  <2>0. \A i \in 1 .. k : stack[i].node = n => i = k
    BY <1>a, <1>b, <1>1 DEF Walk
  <2>1. (stack # <<>> => stack[1].node \in Public)'
    BY <1>1, <1>2, <1>3, <1>4 DEF Walk
  <2>2. (\A i \in 1 .. Len(stack) - 1 : CalledBy(schema, stack[i], stack[i + 1]))'
    <3> SUFFICES ASSUME NEW i \in 1 .. Len(stack') - 1
                 PROVE  CalledBy(schema, stack'[i], stack'[i + 1])
      BY <1>2
    <3>1. i \in 1 .. k - 2 /\ i \in 1 .. k - 1 /\ i + 1 \in 1 .. Len(stack')
      BY <1>1, <1>3
    <3>2. stack'[i] = stack[i] /\ stack'[i + 1].node = stack[i + 1].node
      BY <1>3, <1>4, <3>1
    <3>3. CalledBy(schema, stack[i], stack[i + 1])
      BY <1>a, <1>1, <3>1 DEF Walk
    <3> QED
      BY <3>2, <3>3 DEF CalledBy
  <2>3. (\A i \in 1 .. Len(stack) : stack[i].node \notin DOMAIN size)'
    BY <1>a, <1>1, <1>4, <1>5, <2>0 DEF Walk
  <2>4. (\A i \in 1 .. Len(stack) : stack[i].node \in Public =>
             progress[stack[i].node] = "in_progress")'
    <3> SUFFICES ASSUME NEW i \in 1 .. Len(stack'), stack'[i].node \in schema.public
                 PROVE  progress'[stack'[i].node] = "in_progress"
      BY <1>2
    <3>1. stack[i].node # n /\ progress[stack[i].node] = "in_progress"
      BY <1>a, <1>1, <1>4, <2>0 DEF Walk
    <3> QED
      BY <1>4, <1>6, <3>1
  <2>5. (\A i \in 1 .. Len(stack), j \in 1 .. Len(stack) :
             stack[i].node = stack[j].node => i = j)'
    BY <1>a, <1>1, <1>4 DEF Walk
  <2>6. (\A i \in 1 .. Len(stack), j \in Nat : 1 <= j /\ j < stack[i].next =>
             Elements(stack[i].node)[j] \in DOMAIN size)'
    <3> SUFFICES ASSUME NEW i \in 1 .. Len(stack'), NEW j \in Nat,
                        1 <= j, j < stack'[i].next
                 PROVE  schema.elements[stack[i].node][j] \in DOMAIN size'
      BY <1>2, <1>4
    <3>1. CASE j < stack[i].next
      <4>1. schema.elements[stack[i].node][j] \in DOMAIN size
        BY <1>a, <1>1, <1>4, <3>1 DEF Walk
      <4> QED
        BY <1>5, <4>1
    <3>2. CASE ~(j < stack[i].next)
      <4>1. j = stack[i].next /\ schema.elements[stack[i].node][stack[i].next] = n
        BY <1>4, <3>2
      <4> QED
        BY <1>5, <4>1
    <3> QED
      BY <3>1, <3>2
  <2>7. (\A x \in Public : progress[x] = "new" => x \in todo)'
    BY <1>1, <1>2, <1>6 DEF Walk
  <2>8. (\A x \in Public : progress[x] = "in_progress" =>
             \E i \in 1 .. Len(stack) : stack[i].node = x)'
    <3> SUFFICES ASSUME NEW x \in schema.public, progress'[x] = "in_progress"
                 PROVE  \E i \in 1 .. Len(stack') : stack'[i].node = x
      BY <1>2
    <3>1. x # n /\ progress[x] = "in_progress"
      BY <1>6
    <3>2. PICK i \in 1 .. k : stack[i].node = x
      BY <1>a, <1>1, <3>1 DEF Walk
    <3>3. i # k
      BY <1>b, <1>1, <3>1, <3>2
    <3>4. i \in 1 .. Len(stack')
      BY <1>1, <1>3, <3>2, <3>3
    <3> QED
      BY <1>4, <3>2, <3>4
  <2>9. (\A y \in schema.nodes : \A j \in DOMAIN Elements(y) :
             Elements(y)[j] \in DOMAIN size =>
                 \/ y \in DOMAIN size
                 \/ \E i \in 1 .. Len(stack) : stack[i].node = y /\ j < stack[i].next)'
    <3> SUFFICES ASSUME NEW y \in schema.nodes, NEW j \in DOMAIN schema.elements[y],
                        schema.elements[y][j] \in DOMAIN size', y \notin DOMAIN size'
                 PROVE  \E i \in 1 .. Len(stack') : stack'[i].node = y /\ j < stack'[i].next
      BY <1>2
    <3>0. y # n /\ y \notin DOMAIN size /\ j \in Nat
      <4>1. DOMAIN schema.elements[y] = 1 .. Len(schema.elements[y])
        BY <1>1, SchemaFacts
      <4>2. j \in Nat
        BY <4>1
      <4> QED
        BY <1>5, <4>2
    <3>1. CASE schema.elements[y][j] \in DOMAIN size
      <4>1. PICK i \in 1 .. k : stack[i].node = y /\ j < stack[i].next
        BY <1>a, <1>1, <3>0, <3>1 DEF Walk
      <4>2. i # k
        BY <1>b, <1>1, <3>0, <4>1
      <4>3. i \in 1 .. Len(stack')
        BY <1>1, <1>3, <4>1, <4>2
      <4>4. stack'[i].node = y /\ stack[i].next \in Nat
            /\ (stack'[i].next = stack[i].next \/ stack'[i].next = stack[i].next + 1)
        BY <1>4, <4>1, <4>3
      <4>5. j < stack'[i].next
        BY <3>0, <4>1, <4>4
      <4> QED
        BY <4>3, <4>4, <4>5
    <3>2. CASE schema.elements[y][j] = n
      <4>1. n \notin schema.public
        BY <1>1, <3>2, SchemaFacts
      <4>2. k # 1
        BY <1>b, <1>1, <4>1 DEF Walk
      <4>3. k - 1 \in 1 .. Len(stack') /\ k - 1 \in 1 .. k - 1 /\ (k - 1) + 1 = k
            /\ k - 1 \in 1 .. k
        BY <1>1, <1>3, <4>2
      <4>4. schema.kind[p.node] # "ref"
        <5>1. CalledBy(schema, p, Top)
          BY <1>a, <1>c, <1>1, <4>3 DEF Walk
        <5>2. p.node \in schema.nodes
          <6>1. p \in FrameSet
            BY <1>a, <1>c, <1>1, <4>3, ElementOfSeq
          <6> QED
            BY <6>1 DEF FrameSet
        <5> SUFFICES ASSUME schema.kind[p.node] = "ref"
                     PROVE  FALSE
          OBVIOUS
        <5>3. DOMAIN schema.elements[p.node] = {}
          <6>1. /\ DOMAIN schema.elements[p.node] = 1 .. Len(schema.elements[p.node])
                /\ Len(schema.elements[p.node]) = 0
            BY <1>1, <5>2, SchemaFacts
          <6> QED
            BY <6>1
        <5> QED
          BY <1>b, <4>1, <5>1, <5>3 DEF CalledBy
      <4>5. /\ stack'[k - 1].node = p.node /\ stack'[k - 1].next = p.next + 1
            /\ p.next \in DOMAIN schema.elements[p.node]
            /\ schema.elements[p.node][p.next] = n
        BY <1>3, <4>2, <4>4
      <4>6. p.node \in schema.nodes /\ p.next \in Nat
        <5>1. p \in FrameSet
          BY <1>a, <1>c, <1>1, <4>3, ElementOfSeq
        <5> QED
          BY <5>1 DEF FrameSet
      <4>7. p.node = y /\ p.next = j
        BY <1>1, <3>2, <4>5, <4>6, OneParent
      <4> QED
        BY <4>3, <4>5, <4>6, <4>7
    <3> QED
      BY <1>5, <3>1, <3>2
  <2> QED
    BY <2>1, <2>2, <2>3, <2>4, <2>5, <2>6, <2>7, <2>8, <2>9 DEF Walk
<1> QED
  BY <1>2, <1>7, <1>8, <1>9 DEF Inv, Validation

LEMMA ReturnLeafKeeps ==
    ASSUME Inv, ReturnLeaf
    PROVE  Inv'
<1>1. /\ phase = "validate" /\ stack # <<>> /\ Typed /\ schema \in Schemas
      /\ Kind(Top.node) \in {"type", "constant", "enum"}
      /\ Return(schema.width[Top.node])
  BY DEF ReturnLeaf, Validating, Inv, Typed
<1>2. Top.node \in schema.nodes
  BY <1>1, TopFacts
<1>3. schema.width[Top.node] \in Nat
  BY <1>1, <1>2, SchemaFacts
<1>4. DOMAIN Elements(Top.node) = {}
  <2>1. /\ DOMAIN schema.elements[Top.node] = 1 .. Len(schema.elements[Top.node])
        /\ Len(schema.elements[Top.node]) = 0
    BY <1>1, <1>2, SchemaFacts DEF Kind
  <2> QED
    BY <2>1 DEF Elements
<1>5. Kind(Top.node) # "ref"
  BY <1>1
<1> QED
  BY <1>1, <1>3, <1>4, <1>5, ReturnKeeps

LEMMA ReturnCompositeKeeps ==
    ASSUME Inv, ReturnComposite
    PROVE  Inv'
<1>1. /\ phase = "validate" /\ stack # <<>> /\ Typed /\ Walk /\ schema \in Schemas
      /\ Kind(Top.node) = "composite" /\ Top.next > Len(Elements(Top.node))
      /\ Return(Top.offset)
  BY DEF ReturnComposite, Validating, Inv, Typed, Validation
<1>2. /\ Top.node \in schema.nodes /\ Top.offset \in Nat /\ Top.next \in Nat
      /\ Len(stack) \in 1 .. Len(stack) /\ Top = stack[Len(stack)]
  BY <1>1, TopFacts
<1>3. ASSUME NEW j \in DOMAIN Elements(Top.node)
      PROVE  Elements(Top.node)[j] \in DOMAIN size
  <2>1. /\ DOMAIN Elements(Top.node) = 1 .. Len(Elements(Top.node))
        /\ Len(Elements(Top.node)) \in Nat
    BY <1>1, <1>2, SchemaFacts DEF Elements
  <2>2. j \in Nat /\ 1 <= j /\ j < Top.next
    BY <1>1, <1>2, <2>1
  <2> QED
    BY <1>1, <1>2, <2>2 DEF Walk
<1>4. Kind(Top.node) # "ref"
  BY <1>1
<1> QED
  BY <1>1, <1>2, <1>3, <1>4, ReturnKeeps

LEMMA ReturnRefKeeps ==
    ASSUME Inv, ReturnRef
    PROVE  Inv'
<1>1. /\ phase = "validate" /\ stack # <<>> /\ Typed /\ Sized /\ schema \in Schemas
      /\ Kind(Top.node) = "ref" /\ Target(Top.node) # None
      /\ progress[Target(Top.node)] = "complete"
  BY DEF ReturnRef, Validating, Inv, Typed
<1>2. Top.node \in schema.nodes
  BY <1>1, TopFacts
<1>3. Target(Top.node) \in Public
  <2>1. schema.target[Top.node] \in schema.public \cup {None}
    BY <1>1, <1>2, SchemaFacts
  <2> QED
    BY <1>1, <2>1 DEF Target, Public
<1>4. Target(Top.node) \in DOMAIN size
  BY <1>1, <1>3 DEF Sized
<1>5. Return(size[Target(Top.node)])
  BY <1>4 DEF ReturnRef
<1>6. size[Target(Top.node)] \in Nat
  BY <1>1, <1>4 DEF Typed
<1>7. DOMAIN Elements(Top.node) = {}
  <2>1. /\ DOMAIN schema.elements[Top.node] = 1 .. Len(schema.elements[Top.node])
        /\ Len(schema.elements[Top.node]) = 0
    BY <1>1, <1>2, SchemaFacts DEF Kind
  <2> QED
    BY <2>1 DEF Elements
<1> QED
  BY <1>1, <1>3, <1>5, <1>6, <1>7, ReturnKeeps

\* The program stops, and leaves all as it is.
LEMMA StopKeeps ==
    ASSUME Inv, UNCHANGED <<schema, todo, stack, validator, compiler>>,
           \/ phase = "validate" /\ phase' = "rejected"
           \/ phase \notin Validation /\ phase' = "failed"
    PROVE  Inv'
<1>1. Typed'
  BY DEF Inv, Typed, FrameSet, Elements, Public, Messages, validator, compiler, Phases
<1>2. Sized'
  BY DEF Inv, Sized, Kind, Target, Elements, Public, validator
<1>3. Walk => Walk'
  BY DEF Walk, Elements, Public, validator
<1>4. UNCHANGED <<schema, stack, size>>
  BY DEF validator
<1>5. CASE phase = "validate" /\ phase' = "rejected"
  <2>1. Walk
    BY <1>5 DEF Inv, Validation
  <2> QED
    BY <1>1, <1>2, <1>3, <1>4, <1>5, <2>1 DEF Inv, Validation
<1>6. CASE phase \notin Validation /\ phase' = "failed"
  <2>1. /\ schema.public \subseteq DOMAIN size
        /\ \A i \in 1 .. Len(stack) : stack[i].node \in DOMAIN size
    BY <1>6 DEF Inv, Public
  <2>2. /\ schema'.public \subseteq DOMAIN size'
        /\ \A i \in 1 .. Len(stack') : stack'[i].node \in DOMAIN size'
    BY <1>4, <2>1
  <2>3. phase' \notin Validation
    BY <1>4, <1>6 DEF Validation
  <2>4. Validation' = Validation
    BY DEF Validation
  <2> QED
    BY <1>1, <1>2, <2>2, <2>3, <2>4 DEF Inv, Public
<1> QED
  BY <1>5, <1>6

LEMMA RejectKeeps ==
    ASSUME Inv, RejectMissing \/ RejectCycle
    PROVE  Inv'
<1>1. /\ phase = "validate" /\ phase' = "rejected"
      /\ UNCHANGED <<schema, todo, stack, validator, compiler>>
  BY DEF RejectMissing, RejectCycle, Validating, Stop
<1> QED
  BY <1>1, StopKeeps

LEMMA EncodingsValidKeeps ==
    ASSUME Inv, EncodingsValid
    PROVE  Inv'
<1>1. /\ phase = "validate" /\ stack = <<>> /\ todo = {} /\ phase' = "types"
      /\ todo' = Public /\ UNCHANGED <<schema, stack, progress, size, compiled, deps>>
  BY DEF EncodingsValid, validator, compiler
<1>2. Typed /\ Sized /\ Walk
  BY <1>1 DEF Inv, Validation
<1>3. Len(stack) = 0
  BY <1>1
<1>4. Public \subseteq DOMAIN size
  <2> SUFFICES ASSUME NEW n \in Public
               PROVE  progress[n] = "complete"
    BY <1>2 DEF Sized
  <2>1. progress[n] # "new"
    BY <1>1, <1>2 DEF Walk
  <2>2. progress[n] # "in_progress"
    <3>1. 1 .. Len(stack) = {}
      BY <1>3
    <3> QED
      BY <1>2, <3>1 DEF Walk
  <2> QED
    BY <1>2, <2>1, <2>2 DEF Typed
<1>5. Typed'
  BY <1>1, <1>2 DEF Typed, FrameSet, Elements, Public, Messages, Phases
<1>6. Sized'
  BY <1>1, <1>2 DEF Sized, Kind, Target, Elements, Public
<1>7. 1 .. Len(stack') = {}
  BY <1>1, <1>3
<1> QED
  BY <1>1, <1>4, <1>5, <1>6, <1>7 DEF Inv, Validation, Public

-----------------------------------------------------------------------------
(* The compiler.                                                           *)

\* levels are the places of the public encodings on the stack.  There is one
\* set of dependencies for each and one below; what they have in them has been
\* compiled, or is the public encoding one level up.
Leveled(levels) ==
    /\ levels \in Seq(Nat)
    /\ \A j \in 1 .. Len(levels) :
           levels[j] \in 1 .. Len(stack) /\ stack[levels[j]].node \in Public
    /\ \A i \in 1 .. Len(levels), j \in 1 .. Len(levels) :
           i < j => levels[i] < levels[j]
    /\ \A i \in 1 .. Len(stack) : stack[i].node \in Public =>
           \E j \in 1 .. Len(levels) : levels[j] = i
    /\ stack = <<>> => deps = <<>>
    /\ stack # <<>> => stack[1].node \in Public /\ Len(deps) = Len(levels) + 1
    /\ \A j \in 1 .. Len(deps) : \A n \in deps[j] :
           n \in compiled \/ (j <= Len(levels) /\ n = stack[levels[j]].node)

\* What has been written so far.
MessageHeaders(ms) == {<<"messages", m>> : m \in ms}

Written ==
    /\ phase \in Validation => compiled = {} /\ deps = <<>> /\ DOMAIN files = {}
    /\ \A h \in DOMAIN files \ {TopHeader} : files[h] \subseteq DOMAIN files
    /\ \A n \in compiled : Header(n) \in DOMAIN files
    /\ phase # "done" => TopHeader \notin DOMAIN files
    /\ phase \in {"types", "tags"} => DOMAIN files = {Header(n) : n \in compiled}
    /\ phase \in {"tags", "messages", "top"} => compiled = Public
    /\ phase \in {"messages", "top"} =>
           DOMAIN files = {Header(n) : n \in Public} \cup {SchemaHeader}
                          \cup MessageHeaders(Messages \ todo)
    /\ phase = "top" => todo = {}
    /\ CompleteAtTheEnd

CompilerInv ==
    /\ Inv
    /\ phase = "types" =>
           /\ \E levels \in Seq(Nat) : Leveled(levels)
           /\ \A n \in Public :
                  n \in todo \cup compiled \/ \E i \in 1 .. Len(stack) : stack[i].node = n
    /\ Written

\* The frame on top with other calls, and with the next element.
Calling(c) == [stack EXCEPT ![Len(stack)].calls = c]

Passed(c) == [stack EXCEPT ![Len(stack)].next = @ + 1, ![Len(stack)].calls = c]

\* s has the nodes of the stack, and q on top.
OnTop(s, q) ==
    /\ s \in Seq(FrameSet)
    /\ Len(s) = Len(stack)
    /\ \A i \in 1 .. Len(stack) - 1 : s[i] = stack[i]
    /\ s[Len(stack)] = q
    /\ \A i \in 1 .. Len(stack) : s[i].node = stack[i].node

LEMMA OnTopFacts ==
    ASSUME Typed, stack # <<>>, NEW q \in FrameSet, q.node = Top.node
    PROVE  OnTop([stack EXCEPT ![Len(stack)] = q], q)
<1>1. /\ [stack EXCEPT ![Len(stack)] = q] \in Seq(FrameSet)
      /\ Len([stack EXCEPT ![Len(stack)] = q]) = Len(stack)
      /\ \A i \in 1 .. Len(stack) - 1 : [stack EXCEPT ![Len(stack)] = q][i] = stack[i]
      /\ [stack EXCEPT ![Len(stack)] = q][Len(stack)] = q
  BY LastChanged DEF Typed
<1>2. Len(stack) \in Nat /\ stack[Len(stack)] = Top
  BY TopFacts
<1>3. ASSUME NEW i \in 1 .. Len(stack)
      PROVE  [stack EXCEPT ![Len(stack)] = q][i].node = stack[i].node
  <2>1. i \in 1 .. Len(stack) - 1 \/ i = Len(stack)
    BY <1>2
  <2> QED
    BY <1>1, <1>2, <2>1
<1> QED
  BY <1>1, <1>3 DEF OnTop

LEMMA CallingFacts ==
    ASSUME Typed, stack # <<>>, NEW c \in Seq(Public)
    PROVE  OnTop(Calling(c), [node |-> Top.node, next |-> Top.next,
                              offset |-> Top.offset, calls |-> c])
<1> DEFINE q == [node |-> Top.node, next |-> Top.next,
                 offset |-> Top.offset, calls |-> c]
           l == Len(stack)
<1>1. /\ l \in Nat /\ l \in 1 .. l /\ Top = stack[l] /\ Top \in FrameSet
      /\ DOMAIN stack = 1 .. l
  BY TopFacts DEF Typed
<1>2. q \in FrameSet /\ q.node = Top.node
  BY <1>1 DEF FrameSet
<1>3. Calling(c) = [stack EXCEPT ![l] = q]
  <2>1. stack[l] \in [node : schema.nodes, next : Nat \ {0}, offset : Nat,
                       calls : Seq(Public)]
    BY <1>1 DEF FrameSet
  <2>2. Calling(c)[l] = [stack[l] EXCEPT !.calls = c]
    BY <1>1 DEF Calling
  <2>3. Calling(c)[l] = q
    BY <1>1, <2>1, <2>2
  <2>4. \A i \in DOMAIN stack : i # l => Calling(c)[i] = stack[i]
    BY DEF Calling
  <2>5. DOMAIN Calling(c) = DOMAIN stack
    BY DEF Calling
  <2>6. Calling(c) = [i \in DOMAIN Calling(c) |-> Calling(c)[i]]
    BY DEF Calling
  <2> HIDE DEF q
  <2> QED
    BY <1>1, <2>3, <2>4, <2>5, <2>6
<1> QED
  BY <1>2, <1>3, OnTopFacts

LEMMA PassedFacts ==
    ASSUME Typed, stack # <<>>, NEW c \in Seq(Public)
    PROVE  OnTop(Passed(c), [node |-> Top.node, next |-> Top.next + 1,
                             offset |-> Top.offset, calls |-> c])
<1> DEFINE q == [node |-> Top.node, next |-> Top.next + 1,
                 offset |-> Top.offset, calls |-> c]
           l == Len(stack)
           h == [stack EXCEPT ![l].next = @ + 1]
<1>1. /\ l \in Nat /\ l \in 1 .. l /\ Top = stack[l] /\ Top \in FrameSet
      /\ DOMAIN stack = 1 .. l
  BY TopFacts DEF Typed
<1>2. q \in FrameSet /\ q.node = Top.node
  BY <1>1 DEF FrameSet
<1>3. Passed(c) = [stack EXCEPT ![l] = q]
  <2>1. stack[l] \in [node : schema.nodes, next : Nat \ {0}, offset : Nat,
                       calls : Seq(Public)]
    BY <1>1 DEF FrameSet
  <2>2. h[l] = [stack[l] EXCEPT !.next = @ + 1]
    BY <1>1
  <2>3. Passed(c) = [h EXCEPT ![l].calls = c]
    BY DEF Passed
  <2>4. Passed(c)[l] = [h[l] EXCEPT !.calls = c]
    BY <1>1, <2>3
  <2>5. Passed(c)[l] = q
    BY <1>1, <2>1, <2>2, <2>4
  <2>6. \A i \in DOMAIN stack : i # l => Passed(c)[i] = stack[i]
    BY DEF Passed
  <2>7. DOMAIN Passed(c) = DOMAIN stack
    BY DEF Passed
  <2>8. Passed(c) = [i \in DOMAIN Passed(c) |-> Passed(c)[i]]
    BY DEF Passed
  <2> HIDE DEF q
  <2> QED
    BY <1>1, <2>5, <2>6, <2>7, <2>8
<1> QED
  BY <1>2, <1>3, OnTopFacts

\* Steps of the compiler and after it leave the validator's work alone.
LEMMA CompilingKeeps ==
    ASSUME Inv, phase \notin Validation, phase' \in Phases, phase' \notin Validation,
           UNCHANGED <<schema, validator>>,
           phase' = "types" => todo' \subseteq Public,
           phase' = "messages" => todo' \subseteq Messages,
           stack' \in Seq(FrameSet),
           \A i \in 1 .. Len(stack') :
               /\ stack'[i].next <= Len(schema.elements[stack'[i].node]) + 1
               /\ stack'[i].node \in DOMAIN size,
           compiled' \subseteq Public, deps' \in Seq(SUBSET Public)
    PROVE  Inv'
<1>1. Typed /\ Sized /\ Public \subseteq DOMAIN size
  BY DEF Inv
<1>2. Typed'
  BY <1>1 DEF Typed, FrameSet, Elements, Public, Messages, validator, Phases, Validation
<1>3. Sized'
  BY <1>1 DEF Sized, Kind, Target, Elements, Public, validator
<1>4. (Public \subseteq DOMAIN size)'
  BY <1>1 DEF Public, validator
<1>5. \A i \in 1 .. Len(stack') : stack'[i].node \in DOMAIN size'
  BY DEF validator
<1>6. Validation' = Validation
  BY DEF Validation
<1> QED
  BY <1>2, <1>3, <1>4, <1>5, <1>6 DEF Inv

LEMMA CompilingFacts ==
    ASSUME CompilerInv, Compiling
    PROVE  /\ Inv /\ Typed /\ Sized /\ schema \in Schemas
           /\ phase = "types" /\ phase \notin Validation /\ todo \subseteq Public
           /\ stack # <<>> /\ stack \in Seq(FrameSet)
           /\ deps # <<>> /\ deps \in Seq(SUBSET Public)
           /\ compiled \subseteq Public
           /\ \A i \in 1 .. Len(stack) :
                  /\ stack[i].next <= Len(schema.elements[stack[i].node]) + 1
                  /\ stack[i].node \in DOMAIN size
           /\ Top.node \in DOMAIN size
<1>1. Inv /\ phase = "types" /\ stack # <<>>
  BY DEF CompilerInv, Compiling
<1>2. Typed /\ Sized /\ phase \notin Validation
  BY <1>1 DEF Inv, Validation
<1>3. \A i \in 1 .. Len(stack) : stack[i].node \in DOMAIN size
  BY <1>1, <1>2 DEF Inv
<1>4. Top.node \in DOMAIN size
  BY <1>1, <1>2, <1>3, TopFacts
<1>5. deps # <<>>
  <2>1. PICK levels \in Seq(Nat) : Leveled(levels)
    BY <1>1 DEF CompilerInv
  <2>2. Len(deps) = Len(levels) + 1 /\ Len(levels) \in Nat
    BY <1>1, <2>1 DEF Leveled
  <2> QED
    BY <2>2
<1> QED
  BY <1>1, <1>2, <1>3, <1>4, <1>5 DEF Typed, Elements

LEMMA AddedFacts ==
    ASSUME NEW d \in Seq(SUBSET Public), d # <<>>, NEW n \in Public
    PROVE  /\ AddDependency(n, d) \in Seq(SUBSET Public)
           /\ Len(AddDependency(n, d)) = Len(d)
           /\ \A i \in 1 .. Len(d) - 1 : AddDependency(n, d)[i] = d[i]
           /\ AddDependency(n, d)[Len(d)] = d[Len(d)] \cup {n}
<1> DEFINE e == d[Len(d)] \cup {n}
<1>1. Len(d) \in Nat /\ Len(d) # 0
  OBVIOUS
<1>2. Len(d) \in 1 .. Len(d)
  BY <1>1, LastPlace
<1>3. e \in SUBSET Public
  <2>1. d[Len(d)] \in SUBSET Public
    BY <1>2, ElementOfSeq
  <2> QED
    BY <2>1
<1>4. AddDependency(n, d) = [d EXCEPT ![Len(d)] = e]
  BY DEF AddDependency
<1> HIDE DEF e
<1>5. /\ [d EXCEPT ![Len(d)] = e] \in Seq(SUBSET Public)
      /\ Len([d EXCEPT ![Len(d)] = e]) = Len(d)
      /\ \A i \in 1 .. Len(d) - 1 : [d EXCEPT ![Len(d)] = e][i] = d[i]
      /\ [d EXCEPT ![Len(d)] = e][Len(d)] = e
  BY <1>3, LastChanged
<1> QED
  BY <1>4, <1>5 DEF e

\* The calls of an element.
LEMMA CallsFacts ==
    ASSUME Typed, Sized, NEW e \in DOMAIN size
    PROVE  Calls(e) \in Seq(Public)
<1>1. schema \in Schemas /\ e \in schema.nodes
  BY DEF Typed
<1>2. ASSUME NEW x \in schema.nodes
      PROVE  ValueRefOf(x) \in Seq(Public)
  <2>1. CASE Kind(x) = "constant" /\ Target(x) # None
    <3>1. schema.target[x] \in schema.public \cup {None}
      BY <1>1, SchemaFacts
    <3>2. Target(x) \in Public
      BY <2>1, <3>1 DEF Target, Public
    <3> QED
      BY <2>1, <3>2 DEF ValueRefOf
  <2>2. CASE ~(Kind(x) = "constant" /\ Target(x) # None)
    BY <2>2 DEF ValueRefOf
  <2> QED
    BY <2>1, <2>2
<1>3. CASE Kind(e) = "ref"
  <2>1. Target(e) \in Public
    BY <1>3 DEF Sized
  <2>2. Target(e) \in schema.nodes
    BY <1>1, <2>1, SchemaFacts DEF Public
  <2>3. ValueRefOf(Target(e)) \in Seq(Public)
    BY <1>2, <2>2
  <2>4. <<Target(e)>> \in Seq(Public)
    BY <2>1
  <2> QED
    BY <1>3, <2>3, <2>4, ConcatProperties DEF Calls
<1>4. CASE Kind(e) # "ref"
  BY <1>1, <1>2, <1>4 DEF Calls
<1> QED
  BY <1>3, <1>4

LEMMA CompileNextKeeps ==
    ASSUME CompilerInv, CompileNext
    PROVE  CompilerInv'
<1>1. PICK n \in todo :
          /\ todo' = todo \ {n}
          /\ IF n \in compiled THEN UNCHANGED <<stack, deps>>
             ELSE stack' = <<Frame(n)>> /\ deps' = <<{n}, {}>>
  BY DEF CompileNext
<1>2. /\ phase = "types" /\ stack = <<>>
      /\ UNCHANGED <<schema, phase, validator, compiled, files>>
  BY DEF CompileNext
<1>3. Inv /\ Typed /\ schema \in Schemas /\ Written /\ n \in Public /\ n \in schema.nodes
      /\ phase \notin Validation /\ phase \in Phases
  <2>1. Inv /\ Typed /\ Written
    BY DEF CompilerInv, Inv
  <2>2. n \in Public /\ schema \in Schemas
    BY <1>2, <2>1 DEF Typed
  <2>3. n \in schema.nodes
    BY <2>2, SchemaFacts DEF Public
  <2> QED
    BY <1>2, <2>1, <2>2, <2>3 DEF Validation, Phases
<1>4. Written'
  BY <1>2, <1>3 DEF Written, Validation, Public, Messages, MessageHeaders, TopHeader,
     Header, SchemaHeader, CompleteAtTheEnd
<1>5. PICK levels \in Seq(Nat) : Leveled(levels)
  BY <1>2 DEF CompilerInv
<1>6. \A x \in Public : x \in todo \cup compiled
  <2>1. 1 .. Len(stack) = {}
    BY <1>2
  <2> QED
    BY <1>2, <2>1 DEF CompilerInv
<1>7. CASE n \in compiled
  <2>1. UNCHANGED <<stack, deps>>
    BY <1>1, <1>7
  <2>2. Inv'
    <3>1. 1 .. Len(stack') = {}
      BY <1>2, <2>1
    <3> QED
      BY <1>1, <1>2, <1>3, <2>1, <3>1, CompilingKeeps DEF Typed
  <2>3. Leveled(levels)'
    BY <1>2, <1>5, <2>1 DEF Leveled, Public
  <2>4. \A x \in Public : x \in todo' \cup compiled
    BY <1>1, <1>6, <1>7
  <2> QED
    BY <1>2, <1>4, <1>5, <2>2, <2>3, <2>4 DEF CompilerInv, Public
<1>8. CASE n \notin compiled
  <2>1. stack' = <<Frame(n)>> /\ deps' = <<{n}, {}>>
    BY <1>1, <1>8
  <2>2. Frame(n) \in FrameSet /\ Frame(n).node = n /\ Frame(n).next = 1
    BY <1>3 DEF Frame, FrameSet
  <2>3. /\ stack' \in Seq(FrameSet) /\ Len(stack') = 1 /\ stack'[1].node = n
        /\ stack'[1].next = 1 /\ stack' # <<>>
    BY <2>1, <2>2
  <2>4. /\ deps' \in Seq(SUBSET Public) /\ Len(deps') = 2
        /\ deps'[1] = {n} /\ deps'[2] = {}
    BY <1>3, <2>1
  <2>5. Inv'
    <3>1. n \in DOMAIN size /\ Len(schema.elements[n]) \in Nat
      BY <1>3, SchemaFacts DEF Inv
    <3>2. \A i \in 1 .. Len(stack') :
              /\ stack'[i].next <= Len(schema.elements[stack'[i].node]) + 1
              /\ stack'[i].node \in DOMAIN size
      BY <2>3, <3>1
    <3>3. compiled' \subseteq Public /\ todo' \subseteq Public
      BY <1>1, <1>2, <1>3 DEF Typed
    <3> QED
      BY <1>2, <1>3, <2>3, <2>4, <3>2, <3>3, CompilingKeeps
  <2>6. PICK one \in Seq(Nat) : Len(one) = 1 /\ one[1] = 1
    <3>1. Append(<<>>, 1) \in Seq(Nat) /\ Len(Append(<<>>, 1)) = 1
      OBVIOUS
    <3>2. Append(<<>>, 1)[1] = 1
      OBVIOUS
    <3> QED
      BY <3>1, <3>2
  <2>7. Leveled(one)'
    BY <1>2, <1>3, <2>3, <2>4, <2>6 DEF Leveled, Public
  <2>8. \A x \in Public : x \in todo' \cup compiled \/ \E i \in 1 .. Len(stack') : stack'[i].node = x
    BY <1>1, <1>6, <2>3
  <2> QED
    BY <1>2, <1>4, <2>5, <2>6, <2>7, <2>8 DEF CompilerInv, Public
<1> QED
  BY <1>7, <1>8

\* What has been written does not depend on the stack.
LEMMA WrittenStays ==
    ASSUME Written, phase = "types", UNCHANGED <<schema, phase, compiled, files>>
    PROVE  Written'
BY DEF Written, Validation, Public, Messages, MessageHeaders, TopHeader,
   Header, SchemaHeader, CompleteAtTheEnd

\* Functions on what is not public come and go: the levels stay as they are.
LEMMA LevelsStay ==
    ASSUME NEW levels, Leveled(levels), stack # <<>>, Len(stack) \in Nat,
           Len(stack') \in Nat, stack' # <<>>,
           \A i \in 1 .. Len(stack) : i \notin 1 .. Len(stack') => stack[i].node \notin Public,
           \A i \in 1 .. Len(stack') : i \notin 1 .. Len(stack) => stack'[i].node \notin Public,
           \A i \in 1 .. Len(stack) : i \in 1 .. Len(stack') => stack'[i].node = stack[i].node,
           deps' = deps \/ (/\ Len(deps') = Len(deps)
                            /\ \A j \in 1 .. Len(deps), n \in Public :
                                   n \in deps'[j] => n \in deps[j] \cup compiled
                            /\ \A j \in 1 .. Len(deps) : deps'[j] \subseteq Public),
           UNCHANGED <<schema, compiled>>
    PROVE  Leveled(levels)'
<1> SUFFICES ASSUME NEW ls, ls = levels
             PROVE  Leveled(ls)'
  OBVIOUS
<1>1. /\ ls \in Seq(Nat)
      /\ \A i \in 1 .. Len(ls), j \in 1 .. Len(ls) : i < j => ls[i] < ls[j]
      /\ stack[1].node \in Public /\ Len(deps) = Len(ls) + 1
  BY DEF Leveled
<1>2. \A j \in 1 .. Len(ls) :
          ls[j] \in 1 .. Len(stack') /\ stack'[ls[j]].node \in Public
  BY DEF Leveled
<1>3. \A i \in 1 .. Len(stack') : stack'[i].node \in Public =>
          \E j \in 1 .. Len(ls) : ls[j] = i
  BY DEF Leveled
<1>4. stack'[1].node \in Public /\ Len(deps') = Len(ls) + 1
  <2>1. Len(stack') # 0 /\ Len(stack) # 0
    BY <1>1, <1>2 DEF Leveled
  <2>2. 1 \in 1 .. Len(stack) /\ 1 \in 1 .. Len(stack')
    BY <2>1
  <2> QED
    BY <1>1, <2>2
<1>5. \A j \in 1 .. Len(deps') : \A n \in deps'[j] :
          n \in compiled \/ (j <= Len(ls) /\ n = stack'[ls[j]].node)
  <2> SUFFICES ASSUME NEW j \in 1 .. Len(deps'), NEW n \in deps'[j]
               PROVE  n \in compiled \/ (j <= Len(ls) /\ n = stack'[ls[j]].node)
    OBVIOUS
  <2>1. j \in 1 .. Len(deps) /\ n \in deps[j] \cup compiled
    OBVIOUS
  <2>2. n \in compiled \/ (j <= Len(ls) /\ n = stack[ls[j]].node)
    BY <2>1 DEF Leveled
  <2>3. j <= Len(ls) => j \in 1 .. Len(ls)
    BY <1>1, <2>1
  <2>4. j \in 1 .. Len(ls) => ls[j] \in 1 .. Len(stack)
    BY DEF Leveled
  <2> QED
    BY <1>2, <2>2, <2>3, <2>4
<1> QED
  BY <1>1, <1>2, <1>3, <1>4, <1>5 DEF Leveled, Public

LEMMA CompileElementKeeps ==
    ASSUME CompilerInv, CompileElement
    PROVE  CompilerInv'
<1>a. PICK k : k = Len(stack)
  OBVIOUS
<1>b. PICK e : e = TopElement
  OBVIOUS
<1>0. /\ Compiling /\ Top.next <= Len(Elements(Top.node)) /\ Top.calls = <<>>
      /\ UNCHANGED <<schema, phase, todo, validator, compiled, deps, files>>
      /\ stack' = IF Kind(e) = "composite" THEN Append(Passed(Calls(e)), Frame(e))
                                           ELSE Passed(Calls(e))
  BY <1>b DEF CompileElement, HasElement, Passed, compiler
<1>1. /\ Inv /\ Typed /\ Sized /\ schema \in Schemas
      /\ phase = "types" /\ phase \notin Validation /\ todo \subseteq Public
      /\ stack # <<>> /\ stack \in Seq(FrameSet)
      /\ deps # <<>> /\ deps \in Seq(SUBSET Public)
      /\ compiled \subseteq Public
      /\ \A i \in 1 .. k :
             /\ stack[i].next <= Len(schema.elements[stack[i].node]) + 1
             /\ stack[i].node \in DOMAIN size
      /\ Top.node \in DOMAIN size
  BY <1>a, <1>0, CompilingFacts
<1>2. /\ k \in Nat /\ k \in 1 .. k /\ Top = stack[k] /\ Top.node \in schema.nodes
      /\ Top.next \in Nat /\ Top.next # 0
  BY <1>a, <1>1, TopFacts
<1>3. /\ Top.next \in DOMAIN Elements(Top.node) /\ Len(Elements(Top.node)) \in Nat
      /\ e = Elements(Top.node)[Top.next]
  <2>1. /\ DOMAIN Elements(Top.node) = 1 .. Len(Elements(Top.node))
        /\ Len(Elements(Top.node)) \in Nat
    BY <1>1, <1>2, SchemaFacts DEF Elements
  <2> QED
    BY <1>b, <1>0, <1>2, <2>1 DEF TopElement
<1>4. e \in DOMAIN size /\ e \in schema.nodes /\ e \notin schema.public
  <2>1. e \in DOMAIN size
    BY <1>1, <1>3 DEF Sized
  <2>2. e \in schema.nodes /\ e \notin schema.public
    BY <1>1, <1>2, <1>3, SchemaFacts DEF Elements
  <2> QED
    BY <2>1, <2>2
<1>c. PICK q : q = [node |-> Top.node, next |-> Top.next + 1,
                    offset |-> Top.offset, calls |-> Calls(e)]
  OBVIOUS
<1>d. PICK s : s = Passed(Calls(e))
  OBVIOUS
<1>5. /\ s \in Seq(FrameSet) /\ Len(s) = k
      /\ \A i \in 1 .. k - 1 : s[i] = stack[i]
      /\ s[k] = q
      /\ \A i \in 1 .. k : s[i].node = stack[i].node
  <2>1. Calls(e) \in Seq(Public)
    BY <1>1, <1>4, CallsFacts
  <2>2. OnTop(Passed(Calls(e)), [node |-> Top.node, next |-> Top.next + 1,
                                 offset |-> Top.offset, calls |-> Calls(e)])
    BY <1>1, <2>1, PassedFacts
  <2>3. OnTop(s, q)
    BY <1>c, <1>d, <2>2
  <2> QED
    BY <1>a, <2>3 DEF OnTop
<1>6. \A i \in 1 .. k :
          /\ s[i].next <= Len(schema.elements[s[i].node]) + 1
          /\ s[i].node \in DOMAIN size
  <2> SUFFICES ASSUME NEW i \in 1 .. k
               PROVE  /\ s[i].next <= Len(schema.elements[s[i].node]) + 1
                      /\ s[i].node \in DOMAIN size
    OBVIOUS
  <2>1. CASE i = k
    <3>1. s[i].next = Top.next + 1 /\ s[i].node = Top.node
      BY <1>c, <1>5, <2>1
    <3> QED
      BY <1>0, <1>1, <1>2, <1>3, <3>1 DEF Elements
  <2>2. CASE i # k
    <3>1. i \in 1 .. k - 1
      BY <1>2, <2>2
    <3> QED
      BY <1>1, <1>5, <3>1
  <2> QED
    BY <2>1, <2>2
<1>7. /\ stack' \in Seq(FrameSet) /\ Len(stack') \in Nat /\ stack' # <<>>
      /\ \A i \in 1 .. Len(stack') :
             /\ stack'[i].next <= Len(schema.elements[stack'[i].node]) + 1
             /\ stack'[i].node \in DOMAIN size
      /\ \A i \in 1 .. k : i \in 1 .. Len(stack') /\ stack'[i].node = stack[i].node
      /\ \A i \in 1 .. Len(stack') : i \notin 1 .. k => stack'[i].node \notin Public
  <2>1. CASE Kind(e) = "composite"
    <3>1. stack' = Append(s, Frame(e))
      BY <1>0, <1>d, <2>1
    <3>2. Frame(e) \in FrameSet /\ Frame(e).node = e /\ Frame(e).next = 1
      BY <1>4 DEF Frame, FrameSet
    <3>3. /\ stack' \in Seq(FrameSet) /\ Len(stack') = k + 1
          /\ \A i \in 1 .. k : stack'[i] = s[i]
          /\ stack'[k + 1] = Frame(e)
      BY <1>5, <3>1, <3>2, AppendFacts
    <3>4. \A i \in 1 .. Len(stack') : i \in 1 .. k \/ i = k + 1
      BY <1>2, <3>3
    <3>5. \A i \in 1 .. k : i \in 1 .. Len(stack')
      BY <1>2, <3>3
    <3>6. Len(schema.elements[e]) \in Nat
      BY <1>1, <1>4, SchemaFacts
    <3>7. 1 <= Len(schema.elements[e]) + 1
      BY <3>6
    <3>8. \A i \in 1 .. Len(stack') :
             /\ stack'[i].next <= Len(schema.elements[stack'[i].node]) + 1
             /\ stack'[i].node \in DOMAIN size
      BY <1>4, <1>6, <3>2, <3>3, <3>4, <3>7
    <3>9. \A i \in 1 .. Len(stack') : i \notin 1 .. k => stack'[i].node \notin Public
      BY <1>4, <3>2, <3>3, <3>4 DEF Public
    <3>10. stack' # <<>> /\ Len(stack') \in Nat
      BY <1>2, <3>3
    <3> QED
      BY <1>5, <3>3, <3>5, <3>8, <3>9, <3>10
  <2>2. CASE Kind(e) # "composite"
    <3>1. stack' = s
      BY <1>0, <1>d, <2>2
    <3> QED
      BY <1>2, <1>5, <1>6, <3>1
  <2> QED
    BY <2>1, <2>2
<1>8. Inv'
  BY <1>0, <1>1, <1>7, CompilingKeeps DEF Phases
<1>9. PICK levels \in Seq(Nat) : Leveled(levels)
  BY <1>1 DEF CompilerInv
<1>10. Leveled(levels)'
  BY <1>a, <1>0, <1>1, <1>2, <1>7, <1>9, LevelsStay
<1>11. \A n \in Public : n \in todo' \cup compiled'
                             \/ \E i \in 1 .. Len(stack') : stack'[i].node = n
  <2>1. \A n \in Public : n \in todo \cup compiled \/ \E i \in 1 .. k : stack[i].node = n
    BY <1>a, <1>1 DEF CompilerInv
  <2> QED
    BY <1>0, <1>7, <2>1
<1>12. Written'
  BY <1>0, <1>1, WrittenStays DEF CompilerInv
<1> QED
  BY <1>0, <1>8, <1>9, <1>10, <1>11, <1>12 DEF CompilerInv, Public

LEMMA CompileCallKeeps ==
    ASSUME CompilerInv, CompileCall
    PROVE  CompilerInv'
<1>a. PICK k : k = Len(stack)
  OBVIOUS
<1>b. PICK n : n = Head(Top.calls)
  OBVIOUS
<1>d. PICK s : s = Calling(Tail(Top.calls))
  OBVIOUS
<1>1. /\ Inv /\ Typed /\ Sized /\ schema \in Schemas
      /\ phase = "types" /\ phase \notin Validation /\ todo \subseteq Public
      /\ stack # <<>> /\ stack \in Seq(FrameSet)
      /\ deps # <<>> /\ deps \in Seq(SUBSET Public)
      /\ compiled \subseteq Public
      /\ \A i \in 1 .. k :
             /\ stack[i].next <= Len(schema.elements[stack[i].node]) + 1
             /\ stack[i].node \in DOMAIN size
      /\ Top.node \in DOMAIN size
  BY <1>a, CompilingFacts DEF CompileCall
<1>2. /\ k \in Nat /\ k \in 1 .. k /\ Top = stack[k] /\ Top.node \in schema.nodes
      /\ Top.calls \in Seq(Public)
  BY <1>a, <1>1, TopFacts
<1>3. /\ UNCHANGED <<schema, phase, todo, validator, compiled, files>>
      /\ Top.calls # <<>>
      /\ CompilePublic(n, s)
  <2>1. [stack EXCEPT ![Len(stack)].calls = Tail(@)] = s
    <3>1. [stack EXCEPT ![Len(stack)].calls = Tail(@)]
              = [stack EXCEPT ![Len(stack)].calls = Tail(Top.calls)]
      BY DEF Top
    <3> QED
      BY <1>d, <3>1 DEF Calling
  <2> QED
    BY <1>b, <2>1 DEF CompileCall
<1>4. n \in Public /\ Tail(Top.calls) \in Seq(Public)
  BY <1>b, <1>2, <1>3, HeadTailProperties
<1>c. PICK q : q = [node |-> Top.node, next |-> Top.next,
                    offset |-> Top.offset, calls |-> Tail(Top.calls)]
  OBVIOUS
<1>5. /\ s \in Seq(FrameSet) /\ Len(s) = k
      /\ \A i \in 1 .. k - 1 : s[i] = stack[i]
      /\ s[k] = q
      /\ \A i \in 1 .. k : s[i].node = stack[i].node
  <2>1. OnTop(Calling(Tail(Top.calls)),
              [node |-> Top.node, next |-> Top.next,
               offset |-> Top.offset, calls |-> Tail(Top.calls)])
    BY <1>1, <1>4, CallingFacts
  <2>2. OnTop(s, q)
    BY <1>c, <1>d, <2>1
  <2> QED
    BY <1>a, <2>2 DEF OnTop
<1>6. \A i \in 1 .. k :
          /\ s[i].next <= Len(schema.elements[s[i].node]) + 1
          /\ s[i].node \in DOMAIN size
  <2> SUFFICES ASSUME NEW i \in 1 .. k
               PROVE  /\ s[i].next = stack[i].next /\ s[i].node = stack[i].node
    BY <1>1
  <2>1. CASE i = k
    BY <1>c, <1>2, <1>5, <2>1
  <2>2. CASE i # k
    <3>1. i \in 1 .. k - 1
      BY <1>2, <2>2
    <3> QED
      BY <1>5, <3>1
  <2> QED
    BY <2>1, <2>2
<1>7. Written'
  BY <1>1, <1>3, WrittenStays DEF CompilerInv
<1>8. PICK levels \in Seq(Nat) : Leveled(levels)
  BY <1>1 DEF CompilerInv
<1>9. /\ AddDependency(n, deps) \in Seq(SUBSET Public)
      /\ Len(AddDependency(n, deps)) = Len(deps)
      /\ \A i \in 1 .. Len(deps) - 1 : AddDependency(n, deps)[i] = deps[i]
      /\ AddDependency(n, deps)[Len(deps)] = deps[Len(deps)] \cup {n}
  BY <1>1, <1>4, AddedFacts
<1>10. \A x \in Public : x \in todo \cup compiled \/ \E i \in 1 .. k : stack[i].node = x
  BY <1>a, <1>1 DEF CompilerInv
<1>11. CASE n \in compiled
  <2>1. stack' = s /\ deps' = AddDependency(n, deps)
    BY <1>3, <1>11 DEF CompilePublic
  <2>2. Inv'
    BY <1>1, <1>3, <1>5, <1>6, <1>9, <2>1, CompilingKeeps DEF Phases
  <2>3. Len(stack') \in Nat /\ stack' # <<>> /\ Len(stack') = k
    BY <1>2, <1>5, <2>1
  <2>4. /\ Len(deps') = Len(deps)
        /\ \A j \in 1 .. Len(deps), x \in Public :
               x \in deps'[j] => x \in deps[j] \cup compiled
        /\ \A j \in 1 .. Len(deps) : deps'[j] \subseteq Public
    <3>1. \A j \in 1 .. Len(deps) : j \in 1 .. Len(deps) - 1 \/ j = Len(deps)
      <4>1. Len(deps) \in Nat
        BY <1>1
      <4> QED
        BY <4>1
    <3>2. ASSUME NEW j \in 1 .. Len(deps)
          PROVE  deps'[j] \subseteq Public
      <4>1. deps'[j] \in SUBSET Public
        BY <1>9, <2>1, ElementOfSeq
      <4> QED
        BY <4>1
    <3>3. ASSUME NEW j \in 1 .. Len(deps), NEW x \in Public, x \in deps'[j]
          PROVE  x \in deps[j] \cup compiled
      BY <1>9, <1>11, <2>1, <3>1, <3>3
    <3> QED
      BY <1>9, <2>1, <3>2, <3>3
  <2>5. Leveled(levels)'
    BY <1>a, <1>1, <1>2, <1>3, <1>5, <1>8, <2>1, <2>3, <2>4, LevelsStay
  <2>6. \A x \in Public : x \in todo' \cup compiled'
                             \/ \E i \in 1 .. Len(stack') : stack'[i].node = x
    BY <1>3, <1>5, <1>10, <2>1, <2>3
  <2> QED
    BY <1>3, <1>7, <1>8, <2>2, <2>5, <2>6 DEF CompilerInv, Public
<1>12. CASE n \notin compiled
  <2>1. stack' = Append(s, Frame(n)) /\ deps' = Append(AddDependency(n, deps), {})
    BY <1>3, <1>12 DEF CompilePublic
  <2>2. Frame(n) \in FrameSet /\ Frame(n).node = n /\ Frame(n).next = 1
        /\ n \in schema.nodes
    <3>1. n \in schema.nodes
      BY <1>1, <1>4, SchemaFacts DEF Public
    <3> QED
      BY <3>1 DEF Frame, FrameSet
  <2>3. /\ stack' \in Seq(FrameSet) /\ Len(stack') = k + 1
        /\ \A i \in 1 .. k : stack'[i] = s[i]
        /\ stack'[k + 1] = Frame(n)
    BY <1>5, <2>1, <2>2, AppendFacts
  <2>4. /\ deps' \in Seq(SUBSET Public) /\ Len(deps') = Len(deps) + 1
        /\ \A i \in 1 .. Len(deps) : deps'[i] = AddDependency(n, deps)[i]
        /\ deps'[Len(deps) + 1] = {}
    <3>1. {} \in SUBSET Public
      OBVIOUS
    <3> QED
      BY <1>9, <2>1, <3>1, AppendFacts
  <2>5. /\ \A i \in 1 .. k : i \in 1 .. Len(stack') /\ stack'[i].node = stack[i].node
        /\ \A i \in 1 .. Len(stack') : i \in 1 .. k \/ i = k + 1
        /\ k + 1 \in 1 .. Len(stack') /\ stack'[k + 1].node = n
        /\ k + 1 \in Nat
    <3>1. /\ k + 1 \in Nat
          /\ k + 1 \in 1 .. k + 1
          /\ \A i \in 1 .. k : i \in 1 .. k + 1
          /\ \A i \in 1 .. k + 1 : i \in 1 .. k \/ i = k + 1
      BY <1>2
    <3> QED
      BY <1>5, <2>2, <2>3, <3>1
  <2>6. Inv'
    <3>1. n \in DOMAIN size
      BY <1>1, <1>4 DEF Inv
    <3>2. Len(schema.elements[n]) \in Nat
      BY <1>1, <2>2, SchemaFacts
    <3>3. 1 <= Len(schema.elements[n]) + 1
      BY <3>2
    <3>4. \A i \in 1 .. Len(stack') :
              /\ stack'[i].next <= Len(schema.elements[stack'[i].node]) + 1
              /\ stack'[i].node \in DOMAIN size
      BY <1>6, <2>2, <2>3, <2>5, <3>1, <3>3
    <3> QED
      BY <1>1, <1>3, <2>3, <2>4, <3>4, CompilingKeeps DEF Phases
  <2>7. PICK ls : ls = Append(levels, k + 1)
    OBVIOUS
  <2>8. PICK h : h = Len(levels)
    OBVIOUS
  <2>9. /\ h \in Nat /\ Len(deps) = h + 1
        /\ ls \in Seq(Nat) /\ Len(ls) = h + 1
        /\ \A j \in 1 .. h : ls[j] = levels[j]
        /\ ls[h + 1] = k + 1
    <3>1. levels \in Seq(Nat) /\ Len(deps) = Len(levels) + 1
      BY <1>1, <1>8 DEF Leveled
    <3> QED
      BY <2>5, <2>7, <2>8, <3>1, AppendFacts
  <2>10. /\ \A j \in 1 .. h + 1 : j \in 1 .. h \/ j = h + 1
         /\ h + 1 \in 1 .. h + 1
         /\ \A j \in 1 .. h : j \in 1 .. h + 1 /\ j <= h + 1 /\ j # h + 1
         /\ \A j \in 1 .. h + 2 : j \in 1 .. h \/ j = h + 1 \/ j = h + 2
    BY <2>9
  <2>11. Leveled(ls)'
    <3> SUFFICES ASSUME NEW l, l = ls
                 PROVE  Leveled(l)'
      OBVIOUS
    <3>1. \A j \in 1 .. Len(l) :
              l[j] \in 1 .. Len(stack') /\ stack'[l[j]].node \in Public
      <4>1. \A j \in 1 .. h : levels[j] \in 1 .. k /\ stack[levels[j]].node \in Public
        BY <1>a, <1>8, <2>8 DEF Leveled
      <4> QED
        BY <1>4, <2>5, <2>9, <2>10, <4>1
    <3>2. \A i \in 1 .. Len(l), j \in 1 .. Len(l) : i < j => l[i] < l[j]
      <4> SUFFICES ASSUME NEW i \in 1 .. h + 1, NEW j \in 1 .. h + 1, i < j
                   PROVE  l[i] < l[j]
        BY <2>9
      <4>1. i \in 1 .. h
        BY <2>9
      <4>2. CASE j = h + 1
        <5>1. levels[i] \in 1 .. k
          BY <1>a, <1>8, <2>8, <4>1 DEF Leveled
        <5>2. levels[i] < k + 1
          BY <1>2, <5>1
        <5> QED
          BY <2>9, <4>1, <4>2, <5>2
      <4>3. CASE j # h + 1
        <5>1. j \in 1 .. h
          BY <2>10, <4>3
        <5> QED
          BY <1>8, <2>8, <2>9, <4>1, <5>1 DEF Leveled
      <4> QED
        BY <4>2, <4>3
    <3>3. \A i \in 1 .. Len(stack') : stack'[i].node \in Public =>
              \E j \in 1 .. Len(l) : l[j] = i
      <4>1. \A i \in 1 .. k : stack[i].node \in Public =>
                \E j \in 1 .. h : levels[j] = i
        BY <1>a, <1>8, <2>8 DEF Leveled
      <4> QED
        BY <2>5, <2>9, <2>10, <4>1
    <3>4. stack' # <<>> /\ stack'[1].node \in Public /\ Len(deps') = Len(l) + 1
      <4>1. stack[1].node \in Public
        BY <1>1, <1>8 DEF Leveled
      <4>2. 1 \in 1 .. k
        BY <1>2
      <4>3. stack' # <<>>
        BY <1>2, <2>3
      <4> QED
        BY <2>4, <2>5, <2>9, <4>1, <4>2, <4>3
    <3>5. ASSUME NEW j \in 1 .. Len(deps'), NEW x \in deps'[j]
          PROVE  x \in compiled \/ (j <= Len(l) /\ x = stack'[l[j]].node)
      <4>1. j \in 1 .. h + 2 /\ Len(deps) + 1 = h + 2
        BY <2>4, <2>9
      <4>2. CASE j \in 1 .. h
        <5>1. j \in 1 .. Len(deps) - 1 /\ j \in 1 .. Len(deps) /\ j <= h /\ j <= h + 1
          BY <2>9, <4>2
        <5>2. x \in deps[j]
          BY <1>9, <2>4, <3>5, <5>1
        <5>3. x \in compiled \/ x = stack[levels[j]].node
          BY <1>8, <2>8, <5>1, <5>2 DEF Leveled
        <5>4. levels[j] \in 1 .. k
          BY <1>a, <1>8, <2>8, <4>2 DEF Leveled
        <5> QED
          BY <2>5, <2>9, <4>2, <5>1, <5>3, <5>4
      <4>3. CASE j = h + 1
        <5>1. h + 1 \in 1 .. Len(deps) /\ ~(h + 1 <= h) /\ h + 1 <= h + 1
          BY <2>9
        <5>2. x \in deps[h + 1] \cup {n}
          BY <1>9, <2>4, <2>9, <3>5, <4>3, <5>1
        <5>3. x \in deps[h + 1] => x \in compiled
          BY <1>8, <2>8, <5>1 DEF Leveled
        <5> QED
          BY <2>5, <2>9, <4>3, <5>1, <5>2, <5>3
      <4>4. CASE j = h + 2
        BY <2>4, <3>5, <4>1, <4>4
      <4> QED
        BY <2>10, <4>1, <4>2, <4>3, <4>4
    <3> QED
      BY <1>3, <2>9, <3>1, <3>2, <3>3, <3>4, <3>5 DEF Leveled, Public
  <2>12. \A x \in Public : x \in todo' \cup compiled'
                             \/ \E i \in 1 .. Len(stack') : stack'[i].node = x
    BY <1>3, <1>10, <2>5
  <2> QED
    BY <1>3, <1>7, <2>6, <2>9, <2>11, <2>12 DEF CompilerInv, Public
<1> QED
  BY <1>11, <1>12

\* The innermost function returns: what is left of the stack.
LEMMA FrontOfStack ==
    ASSUME Typed, stack # <<>>
    PROVE  /\ Front(stack) \in Seq(FrameSet)
           /\ Len(Front(stack)) = Len(stack) - 1
           /\ Len(stack) - 1 \in Nat
           /\ \A i \in 1 .. Len(Front(stack)) :
                  i \in 1 .. Len(stack) /\ i # Len(stack) /\ Front(stack)[i] = stack[i]
           /\ \A i \in 1 .. Len(stack) : i \in 1 .. Len(Front(stack)) \/ i = Len(stack)
<1>1. stack \in Seq(FrameSet)
  BY DEF Typed
<1>2. /\ Front(stack) \in Seq(FrameSet)
      /\ Len(Front(stack)) = Len(stack) - 1
      /\ \A i \in 1 .. Len(stack) - 1 : Front(stack)[i] = stack[i]
  BY <1>1, FrontFacts
<1>3. Len(stack) \in Nat /\ Len(stack) # 0
  BY <1>1
<1>4. \A i \in 1 .. Len(stack) - 1 : i \in 1 .. Len(stack) /\ i # Len(stack)
  BY <1>3
<1>5. \A i \in 1 .. Len(stack) : i \in 1 .. Len(stack) - 1 \/ i = Len(stack)
  BY <1>3
<1>6. Len(stack) - 1 \in Nat
  BY <1>3
<1> QED
  BY <1>2, <1>4, <1>5, <1>6

LEMMA CompiledInlineKeeps ==
    ASSUME CompilerInv, CompiledInline
    PROVE  CompilerInv'
<1>1. /\ Inv /\ Typed /\ Sized /\ schema \in Schemas
      /\ phase = "types" /\ phase \notin Validation /\ todo \subseteq Public
      /\ stack # <<>> /\ stack \in Seq(FrameSet)
      /\ deps # <<>> /\ deps \in Seq(SUBSET Public)
      /\ compiled \subseteq Public
      /\ \A i \in 1 .. Len(stack) :
             /\ stack[i].next <= Len(schema.elements[stack[i].node]) + 1
             /\ stack[i].node \in DOMAIN size
  BY CompilingFacts DEF CompiledInline, Compiled
<1>2. Len(stack) \in Nat /\ Top = stack[Len(stack)] /\ Len(stack) \in 1 .. Len(stack)
  BY <1>1, TopFacts
<1>3. /\ stack' = Front(stack) /\ stack[Len(stack)].node \notin Public
      /\ UNCHANGED <<schema, phase, todo, validator, compiled, deps, files>>
  BY <1>2 DEF CompiledInline, compiler
<1>4. /\ stack' \in Seq(FrameSet) /\ Len(stack') = Len(stack) - 1 /\ Len(stack') \in Nat
      /\ \A i \in 1 .. Len(stack') :
             i \in 1 .. Len(stack) /\ i # Len(stack) /\ stack'[i] = stack[i]
      /\ \A i \in 1 .. Len(stack) : i \in 1 .. Len(stack') \/ i = Len(stack)
  BY <1>1, <1>3, FrontOfStack
<1>5. Inv'
  BY <1>1, <1>3, <1>4, CompilingKeeps DEF Phases
<1>6. PICK levels \in Seq(Nat) : Leveled(levels)
  BY <1>1 DEF CompilerInv
<1>7. stack' # <<>>
  <2>1. stack[1].node \in Public
    BY <1>1, <1>6 DEF Leveled
  <2>2. Len(stack) # 1
    BY <1>3, <2>1
  <2>3. Len(stack') # 0
    BY <1>2, <1>4, <2>2
  <2> QED
    BY <2>3
<1>8. Leveled(levels)'
  BY <1>1, <1>2, <1>3, <1>4, <1>6, <1>7, LevelsStay
<1>9. \A x \in Public : x \in todo' \cup compiled'
                             \/ \E i \in 1 .. Len(stack') : stack'[i].node = x
  <2>1. \A x \in Public : x \in todo \cup compiled
                              \/ \E i \in 1 .. Len(stack) : stack[i].node = x
    BY <1>1 DEF CompilerInv
  <2> QED
    BY <1>3, <1>4, <2>1
<1>10. Written'
  BY <1>1, <1>3, WrittenStays DEF CompilerInv
<1> QED
  BY <1>3, <1>5, <1>6, <1>8, <1>9, <1>10 DEF CompilerInv, Public

\* A file cannot be written.
LEMMA CannotWriteKeeps ==
    ASSUME CompilerInv, CannotWrite, phase \notin Validation, phase # "done"
    PROVE  CompilerInv'
<1>1. /\ phase' = "failed"
      /\ UNCHANGED <<schema, todo, stack, validator, compiler>>
  BY DEF CannotWrite, Stop
<1>2. Inv'
  BY <1>1, StopKeeps DEF CompilerInv
<1>3. Written'
  BY <1>1 DEF CompilerInv, Written, Validation, Public, Messages, TopHeader,
     Header, compiler, CompleteAtTheEnd
<1> QED
  BY <1>1, <1>2, <1>3 DEF CompilerInv

\* One more header.
LEMMA WriteFacts ==
    ASSUME NEW header, NEW includes, Write(header, includes)
    PROVE  /\ DOMAIN files' = DOMAIN files \cup {header}
           /\ files'[header] = includes
           /\ \A h \in DOMAIN files : h # header => files'[h] = files[h]
BY DEF Write

LEMMA HeaderNames ==
    ASSUME NEW n
    PROVE  /\ Header(n) # TopHeader /\ <<"messages", n>> # TopHeader
           /\ SchemaHeader # TopHeader /\ Header(n) # SchemaHeader
<1>1. /\ Len(<<"types", n>>) = 2 /\ Len(<<"messages", n>>) = 2
      /\ Len(<<"top">>) = 1 /\ Len(<<"schema">>) = 1
  OBVIOUS
<1>2. <<"top">>[1] = "top" /\ <<"schema">>[1] = "schema"
  OBVIOUS
<1> QED
  BY <1>1, <1>2 DEF Header, TopHeader, SchemaHeader

LEMMA CompiledPublicKeeps ==
    ASSUME CompilerInv, CompiledPublic
    PROVE  CompilerInv'
<1>a. PICK k : k = Len(stack)
  OBVIOUS
<1>b. PICK n : n = Top.node
  OBVIOUS
<1>1. /\ Inv /\ Typed /\ Sized /\ schema \in Schemas
      /\ phase = "types" /\ phase \notin Validation /\ todo \subseteq Public
      /\ stack # <<>> /\ stack \in Seq(FrameSet)
      /\ deps # <<>> /\ deps \in Seq(SUBSET Public)
      /\ compiled \subseteq Public
      /\ \A i \in 1 .. k :
             /\ stack[i].next <= Len(schema.elements[stack[i].node]) + 1
             /\ stack[i].node \in DOMAIN size
  BY <1>a, CompilingFacts DEF CompiledPublic, Compiled
<1>2. k \in Nat /\ Top = stack[k] /\ k \in 1 .. k
  BY <1>a, <1>1, TopFacts
<1>3. CASE CannotWrite
  BY <1>1, <1>3, CannotWriteKeeps
<1>4. CASE ~CannotWrite
  <2>1. /\ compiled' = compiled \cup {n}
        /\ Write(Header(n), {Header(x) : x \in deps[Len(deps)]})
        /\ deps' = IF k = 1 THEN <<>> ELSE Front(deps)
        /\ stack' = Front(stack)
        /\ UNCHANGED <<schema, phase, todo, validator>>
        /\ n \in Public
    BY <1>a, <1>b, <1>4 DEF CompiledPublic
  <2>2. /\ stack' \in Seq(FrameSet) /\ Len(stack') = k - 1 /\ Len(stack') \in Nat
        /\ \A i \in 1 .. Len(stack') : i \in 1 .. k /\ i # k /\ stack'[i] = stack[i]
        /\ \A i \in 1 .. k : i \in 1 .. Len(stack') \/ i = k
    BY <1>a, <1>1, <2>1, FrontOfStack
  <2>3. PICK levels \in Seq(Nat) : Leveled(levels)
    BY <1>1 DEF CompilerInv
  <2>4. PICK h : h = Len(levels)
    OBVIOUS
  <2>5. h \in Nat /\ Len(deps) = h + 1 /\ stack[1].node \in Public
    BY <1>1, <2>3, <2>4 DEF Leveled
  \* The innermost public encoding is the one on top.
  <2>6. h \in 1 .. h /\ levels[h] = k
    <3>1. PICK j \in 1 .. h : levels[j] = k
      BY <1>a, <1>b, <1>2, <2>1, <2>3, <2>4 DEF Leveled
    <3>2. h \in 1 .. h
      BY <2>5, <3>1
    <3>3. levels[h] \in 1 .. k
      BY <1>a, <2>3, <2>4, <3>2 DEF Leveled
    <3>4. j < h => levels[j] < levels[h]
      BY <2>3, <2>4, <3>1, <3>2 DEF Leveled
    <3>5. ~(j < h)
      BY <1>2, <3>1, <3>3, <3>4
    <3>6. j = h
      BY <2>5, <3>1, <3>5
    <3> QED
      BY <3>1, <3>2, <3>6
  <2>7. ASSUME NEW x \in deps[Len(deps)]
        PROVE  x \in compiled
    <3>1. Len(deps) \in 1 .. Len(deps) /\ ~(Len(deps) <= h)
      BY <2>5
    <3> QED
      BY <2>3, <2>4, <2>7, <3>1 DEF Leveled
  <2>8. /\ deps' \in Seq(SUBSET Public)
        /\ k = 1 => deps' = <<>>
        /\ k # 1 => /\ Len(deps') = h
                    /\ \A j \in 1 .. h : deps'[j] = deps[j]
    <3>1. /\ Front(deps) \in Seq(SUBSET Public) /\ Len(Front(deps)) = Len(deps) - 1
          /\ \A j \in 1 .. Len(deps) - 1 : Front(deps)[j] = deps[j]
      BY <1>1, FrontFacts
    <3>2. Len(deps) - 1 = h
      BY <2>5
    <3>3. <<>> \in Seq(SUBSET Public)
      OBVIOUS
    <3> QED
      BY <2>1, <3>1, <3>2, <3>3
  <2>9. compiled' \subseteq Public
    BY <1>1, <2>1
  <2>10. Inv'
    <3>1. \A i \in 1 .. Len(stack') :
              /\ stack'[i].next <= Len(schema.elements[stack'[i].node]) + 1
              /\ stack'[i].node \in DOMAIN size
      BY <1>1, <2>2
    <3> QED
      BY <1>1, <2>1, <2>2, <2>8, <2>9, <3>1, CompilingKeeps DEF Phases
  <2>11. PICK ls : ls = Front(levels)
    OBVIOUS
  <2>12. /\ ls \in Seq(Nat) /\ Len(ls) = h - 1
         /\ \A j \in 1 .. h - 1 : ls[j] = levels[j]
    <3>1. levels # <<>>
      BY <2>4, <2>6
    <3> QED
      BY <2>4, <2>11, <3>1, FrontFacts
  <2>13. \A j \in 1 .. h - 1 : j \in 1 .. h /\ j < h /\ j # h
    BY <2>5
  <2>14. ASSUME NEW j \in 1 .. h - 1
         PROVE  /\ levels[j] \in 1 .. Len(stack') /\ levels[j] # k
                /\ stack'[levels[j]].node = stack[levels[j]].node
                /\ stack'[levels[j]].node \in Public
    <3>1. levels[j] \in 1 .. k /\ stack[levels[j]].node \in Public
      BY <1>a, <2>3, <2>4, <2>13 DEF Leveled
    <3>2. levels[j] < levels[h]
      BY <2>3, <2>4, <2>6, <2>13 DEF Leveled
    <3>3. levels[j] # k
      BY <2>6, <3>1, <3>2
    <3> QED
      BY <2>2, <3>1, <3>3
  <2>15. Leveled(ls)'
    <3> SUFFICES ASSUME NEW l, l = ls
                 PROVE  Leveled(l)'
      OBVIOUS
    <3>1. \A j \in 1 .. Len(l) :
              l[j] \in 1 .. Len(stack') /\ stack'[l[j]].node \in Public
      BY <2>12, <2>14
    <3>2. \A i \in 1 .. Len(l), j \in 1 .. Len(l) : i < j => l[i] < l[j]
      BY <2>3, <2>4, <2>12, <2>13 DEF Leveled
    <3>3. \A i \in 1 .. Len(stack') : stack'[i].node \in Public =>
              \E j \in 1 .. Len(l) : l[j] = i
      <4> SUFFICES ASSUME NEW i \in 1 .. Len(stack'), stack'[i].node \in Public
                   PROVE  \E j \in 1 .. h - 1 : levels[j] = i
        BY <2>12
      <4>1. PICK j \in 1 .. h : levels[j] = i
        BY <1>a, <2>2, <2>3, <2>4 DEF Leveled
      <4>2. j # h
        BY <2>2, <2>6, <4>1
      <4>3. j \in 1 .. h - 1
        BY <2>5, <4>1, <4>2
      <4> QED
        BY <4>1, <4>3
    <3>4. stack' = <<>> => deps' = <<>>
      <4>1. stack' = <<>> => k = 1
        BY <1>2, <2>2
      <4> QED
        BY <2>8, <4>1
    <3>5. stack' # <<>> => stack'[1].node \in Public /\ Len(deps') = Len(l) + 1
      <4> SUFFICES ASSUME stack' # <<>>
                   PROVE  stack'[1].node \in Public /\ Len(deps') = Len(l) + 1
        OBVIOUS
      <4>1. k # 1 /\ 1 \in 1 .. Len(stack')
        BY <1>2, <2>2
      <4>2. Len(l) + 1 = h
        BY <2>5, <2>12
      <4> QED
        BY <2>2, <2>5, <2>8, <4>1, <4>2
    <3>6. ASSUME NEW j \in 1 .. Len(deps'), NEW x \in deps'[j]
          PROVE  x \in compiled' \/ (j <= Len(l) /\ x = stack'[l[j]].node)
      <4>1. k # 1
        BY <2>8
      <4>2. j \in 1 .. h /\ x \in deps[j] /\ j \in 1 .. Len(deps)
        <5>1. j \in 1 .. h
          BY <2>8, <4>1
        <5>2. j \in 1 .. Len(deps)
          BY <2>5, <5>1
        <5> QED
          BY <2>8, <3>6, <4>1, <5>1, <5>2
      <4>3. x \in compiled \/ x = stack[levels[j]].node
        BY <2>3, <2>4, <4>2 DEF Leveled
      <4>4. CASE j = h
        BY <1>2, <1>b, <2>1, <2>6, <4>3, <4>4
      <4>5. CASE j # h
        <5>1. j \in 1 .. h - 1 /\ j <= h - 1
          BY <2>5, <4>2, <4>5
        <5> QED
          BY <2>1, <2>12, <2>14, <4>3, <5>1
      <4> QED
        BY <4>4, <4>5
    <3> QED
      BY <2>1, <2>12, <3>1, <3>2, <3>3, <3>4, <3>5, <3>6 DEF Leveled, Public
  <2>16. \A x \in Public : x \in todo' \cup compiled'
                              \/ \E i \in 1 .. Len(stack') : stack'[i].node = x
    <3>1. \A x \in Public : x \in todo \cup compiled
                                \/ \E i \in 1 .. k : stack[i].node = x
      BY <1>a, <1>1 DEF CompilerInv
    <3> QED
      BY <1>2, <1>b, <2>1, <2>2, <3>1
  <2>17. Written'
    <3>1. Written
      BY DEF CompilerInv
    <3>2. /\ DOMAIN files' = DOMAIN files \cup {Header(n)}
          /\ files'[Header(n)] = {Header(x) : x \in deps[Len(deps)]}
          /\ \A g \in DOMAIN files : g # Header(n) => files'[g] = files[g]
      BY <2>1, WriteFacts
    <3>3. TopHeader \notin DOMAIN files' /\ phase' = "types"
      BY <1>1, <2>1, <3>1, <3>2, HeaderNames DEF Written
    <3>4. \A x \in compiled' : Header(x) \in DOMAIN files'
      BY <2>1, <3>1, <3>2 DEF Written
    <3>5. \A g \in DOMAIN files' : files'[g] \subseteq DOMAIN files'
      <4> SUFFICES ASSUME NEW g \in DOMAIN files'
                   PROVE  files'[g] \subseteq DOMAIN files'
        OBVIOUS
      <4>1. CASE g = Header(n)
        BY <2>7, <3>1, <3>2, <4>1 DEF Written
      <4>2. CASE g # Header(n)
        <5>1. g \in DOMAIN files \ {TopHeader}
          BY <3>2, <3>3, <4>2
        <5> QED
          BY <3>1, <3>2, <4>2, <5>1 DEF Written
      <4> QED
        BY <4>1, <4>2
    <3>6. DOMAIN files' = {Header(x) : x \in compiled'}
      <4>1. DOMAIN files = {Header(x) : x \in compiled}
        BY <1>1, <3>1 DEF Written
      <4> QED
        BY <2>1, <3>2, <4>1
    <3>7. (phase \notin Validation)' /\ phase' \notin {"tags", "messages", "top", "done"}
      BY <3>3 DEF Validation
    <3>8. CompleteAtTheEnd'
      BY <3>3 DEF CompleteAtTheEnd, TopHeader
    <3>9. (\A x \in compiled : Header(x) \in DOMAIN files)'
      BY <3>4 DEF Header
    <3>10. (DOMAIN files = {Header(x) : x \in compiled})'
      BY <3>6 DEF Header
    <3>11. (\A g \in DOMAIN files \ {TopHeader} : files[g] \subseteq DOMAIN files)'
      BY <3>5
    <3>12. (TopHeader \notin DOMAIN files)'
      BY <3>3 DEF TopHeader
    <3> QED
      BY <3>7, <3>8, <3>9, <3>10, <3>11, <3>12 DEF Written
  <2>18. ls \in Seq(Nat)
    BY <2>12
  <2> QED
    BY <2>1, <2>10, <2>15, <2>16, <2>17, <2>18 DEF CompilerInv, Public
<1> QED
  BY <1>3, <1>4

\* After the types, the stack and the types' headers stay as they are.
LEMMA AfterTypesKeeps ==
    ASSUME Inv, phase \notin Validation, phase' \in {"tags", "messages", "top", "done"},
           UNCHANGED <<schema, stack, validator, compiled, deps>>,
           phase' = "messages" => todo' \subseteq Messages
    PROVE  Inv'
<1>1. /\ stack \in Seq(FrameSet) /\ compiled \subseteq Public
      /\ deps \in Seq(SUBSET Public)
      /\ \A i \in 1 .. Len(stack) :
             /\ stack[i].next <= Len(schema.elements[stack[i].node]) + 1
             /\ stack[i].node \in DOMAIN size
  BY DEF Inv, Typed, Elements
<1>2. phase' \in Phases /\ phase' \notin Validation /\ phase' # "types"
  BY DEF Phases, Validation
<1> QED
  BY <1>1, <1>2, CompilingKeeps

LEMMA TypesCompiledKeeps ==
    ASSUME CompilerInv, TypesCompiled
    PROVE  CompilerInv'
<1>1. /\ phase = "types" /\ stack = <<>> /\ todo = {} /\ phase' = "tags"
      /\ UNCHANGED <<schema, todo, stack, validator, compiled, deps, files>>
  BY DEF TypesCompiled, compiler
<1>2. Inv'
  BY <1>1, AfterTypesKeeps DEF CompilerInv, Validation
<1>3. compiled = Public
  <2>1. 1 .. Len(stack) = {}
    BY <1>1
  <2>2. Public \subseteq compiled
    BY <1>1, <2>1 DEF CompilerInv
  <2>3. compiled \subseteq Public
    BY DEF CompilerInv, Inv, Typed
  <2> QED
    BY <2>2, <2>3
<1>4. Written'
  BY <1>1, <1>3 DEF CompilerInv, Written, Validation, Public, Messages, TopHeader,
     Header, CompleteAtTheEnd
<1> QED
  BY <1>1, <1>2, <1>4 DEF CompilerInv

LEMMA WriteTagsKeeps ==
    ASSUME CompilerInv, WriteTags
    PROVE  CompilerInv'
<1>1. CASE CannotWrite
  BY <1>1, CannotWriteKeeps DEF WriteTags, Validation
<1>2. CASE ~CannotWrite
  <2>1. /\ phase = "tags" /\ phase' = "messages" /\ todo' = Messages
        /\ Write(SchemaHeader, {})
        /\ UNCHANGED <<schema, stack, validator, compiled, deps>>
    BY <1>2 DEF WriteTags
  <2>2. Inv'
    BY <2>1, AfterTypesKeeps DEF CompilerInv, Validation
  <2>3. /\ Written /\ compiled = Public /\ DOMAIN files = {Header(n) : n \in compiled}
        /\ TopHeader \notin DOMAIN files
    BY <2>1 DEF CompilerInv, Written
  <2>4. /\ DOMAIN files' = DOMAIN files \cup {SchemaHeader}
        /\ files'[SchemaHeader] = {}
        /\ \A h \in DOMAIN files : h # SchemaHeader => files'[h] = files[h]
    BY <2>1, WriteFacts
  <2>5. TopHeader \notin DOMAIN files'
    BY <2>3, <2>4, HeaderNames
  <2>6. \A h \in DOMAIN files' : files'[h] \subseteq DOMAIN files'
    BY <2>3, <2>4, <2>5 DEF Written
  <2>7. \A n \in compiled : Header(n) \in DOMAIN files'
    BY <2>3, <2>4
  <2>8. MessageHeaders(Messages \ Messages) = {}
    BY DEF MessageHeaders
  <2>9. DOMAIN files' = {Header(n) : n \in Public} \cup {SchemaHeader}
                        \cup MessageHeaders(Messages \ Messages)
    BY <2>3, <2>4, <2>8
  <2>10. (DOMAIN files = {Header(n) : n \in Public} \cup {SchemaHeader}
                         \cup MessageHeaders(Messages \ todo))'
    BY <2>1, <2>9 DEF Header, SchemaHeader, MessageHeaders, Messages, Public
  <2>11. CompleteAtTheEnd'
    BY <2>5 DEF CompleteAtTheEnd, TopHeader
  <2>12. (compiled = Public)'
    BY <2>1, <2>3 DEF Public
  <2>13. (\A h \in DOMAIN files \ {TopHeader} : files[h] \subseteq DOMAIN files)'
    BY <2>6
  <2>14. (\A n \in compiled : Header(n) \in DOMAIN files)'
    BY <2>1, <2>7 DEF Header
  <2>15. (TopHeader \notin DOMAIN files)'
    BY <2>5 DEF TopHeader
  <2>16. (phase \notin Validation)'
    BY <2>1 DEF Validation
  <2>17. Written'
    BY <2>1, <2>10, <2>11, <2>12, <2>13, <2>14, <2>15, <2>16 DEF Written
  <2> QED
    BY <2>1, <2>2, <2>17 DEF CompilerInv
<1> QED
  BY <1>1, <1>2

LEMMA WriteMessageKeeps ==
    ASSUME CompilerInv, WriteMessage
    PROVE  CompilerInv'
<1>1. CASE CannotWrite
  BY <1>1, CannotWriteKeeps DEF WriteMessage, Validation
<1>2. CASE ~CannotWrite
  <2>a. PICK m \in todo :
            /\ Write(<<"messages", m>>, MessageIncludes(m))
            /\ todo' = todo \ {m}
            /\ UNCHANGED <<schema, phase, stack, validator, compiled, deps>>
    BY <1>2 DEF WriteMessage
  <2>b. PICK header : header = <<"messages", m>>
    OBVIOUS
  <2>1. phase = "messages" /\ phase' = "messages"
    BY <2>a DEF WriteMessage
  <2>2. todo \subseteq Messages /\ m \in Messages /\ schema \in Schemas
    BY <2>1 DEF CompilerInv, Inv, Typed
  <2>3. Inv'
    BY <2>1, <2>2, <2>a, AfterTypesKeeps DEF CompilerInv, Validation
  <2>4. /\ Written /\ compiled = Public /\ TopHeader \notin DOMAIN files
        /\ DOMAIN files = {Header(n) : n \in Public} \cup {SchemaHeader}
                          \cup MessageHeaders(Messages \ todo)
    BY <2>1 DEF CompilerInv, Written
  <2>5. /\ DOMAIN files' = DOMAIN files \cup {header}
        /\ files'[header] = MessageIncludes(m)
        /\ \A h \in DOMAIN files : h # header => files'[h] = files[h]
    BY <2>a, <2>b, WriteFacts
  <2>6. TopHeader \notin DOMAIN files'
    BY <2>4, <2>5, <2>b, HeaderNames
  <2>7. MessageIncludes(m) \subseteq {Header(n) : n \in Public}
    <3>1. IsSchema(schema)
      BY <2>2, SchemasAssumption
    <3>2. /\ schema.messages[m].fields \in Seq([type     : schema.public \cup {None},
                                               valueRef : schema.public \cup {None}])
          /\ schema.messages[m].headers \subseteq schema.public
      BY <2>2, <3>1 DEF IsSchema, Messages
    <3>3. \A f \in Fields(m) : f \in [type     : schema.public \cup {None},
                                      valueRef : schema.public \cup {None}]
      <4> SUFFICES ASSUME NEW i \in DOMAIN schema.messages[m].fields
                   PROVE  schema.messages[m].fields[i]
                              \in [type     : schema.public \cup {None},
                                   valueRef : schema.public \cup {None}]
        BY DEF Fields, Range
      <4>1. PICK R : R = [type     : schema.public \cup {None},
                        valueRef : schema.public \cup {None}]
        OBVIOUS
      <4>2. schema.messages[m].fields \in Seq(R)
        BY <3>2, <4>1
      <4>3. i \in 1 .. Len(schema.messages[m].fields)
        BY <4>2
      <4>4. schema.messages[m].fields[i] \in R
        BY <4>2, <4>3, ElementOfSeq
      <4> QED
        BY <4>1, <4>4
    <3>4. \A f \in Fields(m) : f.type # None => f.type \in Public
      BY <3>3 DEF Public
    <3> QED
      BY <3>2, <3>4 DEF MessageIncludes, Headers, Public
  <2>8. \A h \in DOMAIN files' : files'[h] \subseteq DOMAIN files'
    <3> SUFFICES ASSUME NEW h \in DOMAIN files'
                 PROVE  files'[h] \subseteq DOMAIN files'
      OBVIOUS
    <3>1. CASE h = header
      BY <2>4, <2>5, <2>7, <3>1
    <3>2. CASE h # header
      <4>1. h \in DOMAIN files \ {TopHeader}
        BY <2>5, <2>6, <3>2
      <4> QED
        BY <2>4, <2>5, <3>2, <4>1 DEF Written
    <3> QED
      BY <3>1, <3>2
  <2>9. \A n \in compiled : Header(n) \in DOMAIN files'
    BY <2>4, <2>5
  <2>10. MessageHeaders(Messages \ todo') = MessageHeaders(Messages \ todo) \cup {header}
    BY <2>2, <2>a, <2>b DEF MessageHeaders
  <2>11. DOMAIN files' = {Header(n) : n \in Public} \cup {SchemaHeader}
                         \cup MessageHeaders(Messages \ todo')
    BY <2>4, <2>5, <2>10
  <2>12. (DOMAIN files = {Header(n) : n \in Public} \cup {SchemaHeader}
                         \cup MessageHeaders(Messages \ todo))'
    BY <2>a, <2>11 DEF Header, SchemaHeader, MessageHeaders, Messages, Public
  <2>13. CompleteAtTheEnd'
    BY <2>6 DEF CompleteAtTheEnd, TopHeader
  <2>14. (compiled = Public)'
    BY <2>a, <2>4 DEF Public
  <2>15. (\A h \in DOMAIN files \ {TopHeader} : files[h] \subseteq DOMAIN files)'
    BY <2>8
  <2>16. (\A n \in compiled : Header(n) \in DOMAIN files)'
    BY <2>a, <2>9 DEF Header
  <2>17. (TopHeader \notin DOMAIN files)'
    BY <2>6 DEF TopHeader
  <2>18. (phase \notin Validation)'
    BY <2>1 DEF Validation
  <2>19. Written'
    BY <2>1, <2>12, <2>13, <2>14, <2>15, <2>16, <2>17, <2>18 DEF Written
  <2> QED
    BY <2>1, <2>3, <2>19 DEF CompilerInv
<1> QED
  BY <1>1, <1>2

LEMMA MessagesCompiledKeeps ==
    ASSUME CompilerInv, MessagesCompiled
    PROVE  CompilerInv'
<1>1. /\ phase = "messages" /\ phase' = "top" /\ todo = {}
      /\ UNCHANGED <<schema, todo, stack, validator, compiled, deps, files>>
  BY DEF MessagesCompiled, compiler
<1>2. Inv'
  BY <1>1, AfterTypesKeeps DEF CompilerInv, Validation
<1>3. Written'
  BY <1>1 DEF CompilerInv, Written, Validation, Public, Messages, TopHeader,
     Header, SchemaHeader, MessageHeaders, CompleteAtTheEnd
<1> QED
  BY <1>1, <1>2, <1>3 DEF CompilerInv

LEMMA WriteTopKeeps ==
    ASSUME CompilerInv, WriteTop
    PROVE  CompilerInv'
<1>1. CASE CannotWrite
  BY <1>1, CannotWriteKeeps DEF WriteTop, Validation
<1>2. CASE ~CannotWrite
  <2>1. /\ phase = "top" /\ phase' = "done" /\ Write(TopHeader, DOMAIN files)
        /\ UNCHANGED <<schema, todo, stack, validator, compiled, deps>>
    BY <1>2 DEF WriteTop
  <2>2. Inv'
    BY <2>1, AfterTypesKeeps DEF CompilerInv, Validation
  <2>3. /\ Written /\ compiled = Public /\ todo = {} /\ TopHeader \notin DOMAIN files
        /\ DOMAIN files = {Header(n) : n \in Public} \cup {SchemaHeader}
                          \cup MessageHeaders(Messages \ todo)
    BY <2>1 DEF CompilerInv, Written
  <2>4. /\ DOMAIN files' = DOMAIN files \cup {TopHeader}
        /\ files'[TopHeader] = DOMAIN files
        /\ \A h \in DOMAIN files : h # TopHeader => files'[h] = files[h]
    BY <2>1, WriteFacts
  <2>5. files'[TopHeader] = {Header(n) : n \in Public} \cup {SchemaHeader}
                            \cup {<<"messages", m>> : m \in Messages}
    BY <2>3, <2>4 DEF MessageHeaders
  <2>6. CompleteAtTheEnd'
    BY <2>1, <2>5 DEF CompleteAtTheEnd, Header, SchemaHeader, Messages, Public, TopHeader
  <2>7. \A h \in DOMAIN files' \ {TopHeader} : files'[h] \subseteq DOMAIN files'
    BY <2>3, <2>4 DEF Written
  <2>8. \A n \in compiled : Header(n) \in DOMAIN files'
    BY <2>3, <2>4
  <2>9. (\A h \in DOMAIN files \ {TopHeader} : files[h] \subseteq DOMAIN files)'
    BY <2>7 DEF TopHeader
  <2>10. (\A n \in compiled : Header(n) \in DOMAIN files)'
    BY <2>1, <2>8 DEF Header
  <2>11. (phase \notin Validation)'
    BY <2>1 DEF Validation
  <2>12. Written'
    BY <2>1, <2>6, <2>9, <2>10, <2>11 DEF Written
  <2> QED
    BY <2>1, <2>2, <2>12 DEF CompilerInv
<1> QED
  BY <1>1, <1>2

\* The validator's steps.
LEMMA ValidatorKeeps ==
    ASSUME Inv,
           \/ ValidateNext \/ FollowRef \/ RejectMissing \/ RejectCycle
           \/ ValidateElement \/ ReturnLeaf \/ ReturnComposite \/ ReturnRef
           \/ EncodingsValid
    PROVE  Inv'
BY ValidateNextKeeps, FollowRefKeeps, RejectKeeps, ValidateElementKeeps,
   ReturnLeafKeeps, ReturnCompositeKeeps, ReturnRefKeeps, EncodingsValidKeeps

\* They write nothing.
LEMMA ValidatorWritesNothing ==
    ASSUME CompilerInv,
           \/ ValidateNext \/ FollowRef \/ RejectMissing \/ RejectCycle
           \/ ValidateElement \/ ReturnLeaf \/ ReturnComposite \/ ReturnRef
           \/ EncodingsValid
    PROVE  CompilerInv'
<1>1. Inv'
  BY ValidatorKeeps DEF CompilerInv
<1>2. phase = "validate" /\ UNCHANGED <<schema, compiled, deps, files>>
  BY DEF ValidateNext, FollowRef, RejectMissing, RejectCycle, ValidateElement,
     ReturnLeaf, ReturnComposite, ReturnRef, EncodingsValid, Validating, Return,
     Stop, compiler
<1>3. \/ phase' \in Validation
      \/ phase' = "types" /\ todo' = Public /\ stack' = <<>>
  BY DEF ValidateNext, FollowRef, RejectMissing, RejectCycle, ValidateElement,
     ReturnLeaf, ReturnComposite, ReturnRef, EncodingsValid, Validating, Return,
     Stop, Validation
<1>4. compiled = {} /\ deps = <<>> /\ DOMAIN files = {}
  BY <1>2 DEF CompilerInv, Written, Validation
<1>5. Written'
  <2>1. DOMAIN files' = {} /\ compiled' = {} /\ deps' = <<>>
    BY <1>2, <1>4
  <2>2. phase' \notin {"tags", "messages", "top"}
    BY <1>3 DEF Validation
  <2>3. CompleteAtTheEnd'
    BY <2>1 DEF CompleteAtTheEnd
  <2>4. (DOMAIN files = {Header(n) : n \in compiled})'
    BY <2>1
  <2> QED
    BY <2>1, <2>2, <2>3, <2>4 DEF Written
<1>6. CASE phase' \in Validation
  BY <1>1, <1>5, <1>6 DEF CompilerInv, Validation
<1>7. CASE phase' = "types" /\ todo' = Public /\ stack' = <<>>
  <2>1. Leveled(<<>>)'
    <3> SUFFICES ASSUME NEW l, l = <<>>
                 PROVE  Leveled(l)'
      OBVIOUS
    <3>1. /\ 1 .. Len(l) = {} /\ 1 .. Len(stack') = {} /\ 1 .. Len(deps') = {}
          /\ l \in Seq(Nat)
      BY <1>2, <1>4, <1>7
    <3>2. stack' = <<>> /\ deps' = <<>>
      BY <1>2, <1>4, <1>7
    <3> QED
      BY <3>1, <3>2 DEF Leveled
  <2>2. <<>> \in Seq(Nat)
    OBVIOUS
  <2>3. (\A n \in Public : n \in todo)'
    BY <1>2, <1>7 DEF Public
  <2> QED
    BY <1>1, <1>5, <2>1, <2>2, <2>3 DEF CompilerInv
<1> QED
  BY <1>3, <1>6, <1>7

LEMMA Initially == Init => CompilerInv
<1> SUFFICES ASSUME Init
             PROVE  CompilerInv
  OBVIOUS
<1>1. /\ schema \in Schemas /\ phase = "validate" /\ todo = Public /\ stack = <<>>
      /\ progress = [n \in Public |-> "new"] /\ DOMAIN size = {}
      /\ compiled = {} /\ deps = <<>> /\ DOMAIN files = {}
  BY DEF Init
<1>2. 1 .. Len(stack) = {} /\ stack \in Seq(FrameSet) /\ deps \in Seq(SUBSET Public)
      /\ 1 .. Len(stack) - 1 = {}
  BY <1>1
<1>3. size \in [DOMAIN size -> Nat]
  BY DEF Init
<1>4. Typed
  BY <1>1, <1>2, <1>3 DEF Typed, Phases
<1>5. Sized
  BY <1>1 DEF Sized
<1>6. Walk
  <2>1. \A y \in schema.nodes : \A j \in DOMAIN Elements(y) :
            Elements(y)[j] \notin DOMAIN size
    BY <1>1
  <2> QED
    BY <1>1, <1>2, <2>1 DEF Walk
<1>7. Written
  BY <1>1 DEF Written, CompleteAtTheEnd
<1> QED
  BY <1>1, <1>4, <1>5, <1>6, <1>7 DEF CompilerInv, Inv, Validation

LEMMA EveryStep == CompilerInv /\ [Next]_vars => CompilerInv'
<1> SUFFICES ASSUME CompilerInv, [Next]_vars
             PROVE  CompilerInv'
  OBVIOUS
<1>1. CASE \/ ValidateNext \/ FollowRef \/ RejectMissing \/ RejectCycle
           \/ ValidateElement \/ ReturnLeaf \/ ReturnComposite \/ ReturnRef
           \/ EncodingsValid
  BY <1>1, ValidatorWritesNothing
<1>2. CASE CompileNext
  BY <1>2, CompileNextKeeps
<1>3. CASE CompileElement
  BY <1>3, CompileElementKeeps
<1>4. CASE CompileCall
  BY <1>4, CompileCallKeeps
<1>5. CASE CompiledInline
  BY <1>5, CompiledInlineKeeps
<1>6. CASE CompiledPublic
  BY <1>6, CompiledPublicKeeps
<1>7. CASE TypesCompiled
  BY <1>7, TypesCompiledKeeps
<1>8. CASE WriteTags
  BY <1>8, WriteTagsKeeps
<1>9. CASE WriteMessage
  BY <1>9, WriteMessageKeeps
<1>10. CASE MessagesCompiled
  BY <1>10, MessagesCompiledKeeps
<1>11. CASE WriteTop
  BY <1>11, WriteTopKeeps
<1>12. CASE UNCHANGED vars
  <2>1. UNCHANGED <<schema, phase, todo, stack, progress, size, compiled, deps, files>>
    BY <1>12 DEF vars, validator, compiler
  <2>2. Typed' = Typed /\ Sized' = Sized /\ Walk' = Walk
    BY <2>1 DEF Typed, Sized, Walk, FrameSet, Kind, Elements, Target, Public, Messages, Phases
  <2>3. Inv' = Inv
    BY <2>1, <2>2 DEF Inv, Validation, Public
  <2>4. Written' = Written
    BY <2>1 DEF Written, Validation, Public, Messages, MessageHeaders, TopHeader,
       Header, SchemaHeader, CompleteAtTheEnd
  <2>5. \A levels : Leveled(levels) => Leveled(levels)'
    BY <2>1 DEF Leveled, Public
  <2> QED
    BY <2>1, <2>3, <2>4, <2>5 DEF CompilerInv, Public
<1> QED
  BY <1>1, <1>2, <1>3, <1>4, <1>5, <1>6, <1>7, <1>8, <1>9, <1>10, <1>11, <1>12 DEF Next

\* The invariant of both walks.
THEOREM Invariance == Spec => []CompilerInv
<1>1. Init => CompilerInv
  BY Initially
<1>2. CompilerInv /\ [Next]_vars => CompilerInv'
  BY EveryStep
<1> QED
  BY <1>1, <1>2, PTL DEF Spec

\* Every header is written after those it includes, whatever order the map of
\* types is iterated in and however encodings refer to each other.
THEOREM HeadersExist == Spec => []IncludedHeadersExist
<1>1. CompilerInv => IncludedHeadersExist
  BY DEF CompilerInv, Written, IncludedHeadersExist
<1> QED
  BY <1>1, Invariance, PTL

\* The top header is written only when there is a header for every encoding
\* and every message, and includes them all.
THEOREM AllWritten == Spec => []CompleteAtTheEnd
<1>1. CompilerInv => CompleteAtTheEnd
  BY DEF CompilerInv, Written
<1> QED
  BY <1>1, Invariance, PTL

-----------------------------------------------------------------------------
(* What the walks decide and compute: exactly the sound schemas are        *)
(* accepted, sizes add up, and headers include all that their code names.  *)

\* OnWire in schema s, with the sizes sz.
WireOf(s, sz, n) ==
    [j \in DOMAIN s.elements[n] |->
        IF \/ s.kind[s.elements[n][j]] = "constant"
           \/ /\ s.kind[s.elements[n][j]] = "ref"
              /\ s.kind[s.target[s.elements[n][j]]] = "constant"
        THEN 0 ELSE sz[s.elements[n][j]]]

\* The size of n is what SizesAddUp says.
AddsUp(s, sz, n) ==
    CASE s.kind[n] = "composite" ->
             sz[n] = SumUpTo(WireOf(s, sz, n), Len(s.elements[n]))
      [] s.kind[n] = "ref" -> sz[n] = sz[s.target[n]]
      [] OTHER -> sz[n] = s.width[n]

\* The offset of a composite being validated is that of the elements it has had.
FrameAdds(s, sz, f) ==
    s.kind[f.node] = "composite" =>
        f.offset = SumUpTo(WireOf(s, sz, f.node), f.next - 1)

Sums ==
    /\ \A n \in DOMAIN size : AddsUp(schema, size, n)
    /\ phase \in Validation =>
           \A i \in 1 .. Len(stack) : FrameAdds(schema, size, stack[i])

\* Inside and Refers in schema s.
Grown(s, S) == S \cup UNION {Range(s.elements[x]) : x \in S}

InsideOf(s, n) ==
    LET In[k \in 0 .. Cardinality(s.nodes)] ==
            IF k = 0 THEN {n}
            ELSE In[k - 1] \cup UNION {Range(s.elements[x]) : x \in In[k - 1]}
    IN  In[Cardinality(s.nodes)]

RefersOf(s, n) == {s.target[x] : x \in {y \in InsideOf(s, n) : s.kind[y] = "ref"}}

SoundIn(s) ==
    /\ \A n \in s.public : None \notin RefersOf(s, n)
    /\ \A S \in (SUBSET s.public) \ {{}} : \E n \in S : RefersOf(s, n) \cap S = {}

\* A public encoding on the stack contains what is being validated, or refers
\* to one further up.
Chained(s, st) ==
    /\ \A i \in 1 .. Len(st), k \in 1 .. Len(st) :
           k <= i /\ st[k].node \in s.public =>
               \/ st[i].node \in InsideOf(s, st[k].node)
               \/ \E l \in 1 .. Len(st) :
                      /\ k < l /\ l <= i
                      /\ st[l].node \in s.public
                      /\ st[l].node \in RefersOf(s, st[k].node)
    /\ \A i \in 1 .. Len(st) : \E k \in 1 .. Len(st) :
           /\ k <= i /\ st[k].node \in s.public
           /\ st[i].node \in InsideOf(s, st[k].node)

\* No complete encodings refer to each other in a circle.
Acyclic(s, done) ==
    \A S \in SUBSET s.public :
        S # {} /\ (\A n \in S : done[n] = "complete") =>
            \E n \in S : RefersOf(s, n) \cap S = {}

Rules ==
    /\ phase = "validate" => Chained(schema, stack)
    /\ Acyclic(schema, progress)
    /\ phase = "rejected" => ~SoundIn(schema)
    /\ phase \notin Validation => SoundIn(schema)

\* NamesOfElement in schema s, and the names of all that is inside of n.
NamedBy(s, e) ==
    LET c == IF s.kind[e] = "ref" THEN s.target[e] ELSE e
    IN  ({s.target[e]} \cup
         (IF s.kind[c] = "constant" THEN {s.target[c]} ELSE {})) \ {None}

NamedInside(s, n) == UNION {NamedBy(s, x) : x \in InsideOf(s, n)}

\* The names of the qth element of frame i are in d, or about to be: the frame
\* still has to make the calls for them, or the next frame is the element's.
HasNoted(s, st, d, i, q) ==
    LET e == s.elements[st[i].node][q]
    IN  \/ NamedInside(s, e) \subseteq d
        \/ /\ q + 1 = st[i].next
           /\ s.kind[e] # "composite"
           /\ NamedBy(s, e) \subseteq d \cup Range(st[i].calls)
        \/ /\ q + 1 = st[i].next
           /\ s.kind[e] = "composite"
           /\ i + 1 \in 1 .. Len(st) /\ st[i + 1].node = e

\* lv[i] is the place in the stack of dependencies ds of those of frame i.
Noted(s, st, ds, lv) ==
    /\ Len(st) # 0 => lv[1] = 2 /\ lv[Len(st)] = Len(ds)
    /\ \A i \in 1 .. Len(st) : lv[i] \in 1 .. Len(ds)
    /\ \A i \in 1 .. Len(st), j \in 1 .. Len(st) : i <= j => lv[i] <= lv[j]
    /\ \A i \in 1 .. Len(st) : i + 1 \in 1 .. Len(st) =>
           lv[i + 1] = IF st[i + 1].node \in s.public THEN lv[i] + 1 ELSE lv[i]
    /\ \A i \in 1 .. Len(st) : \A q \in 1 .. Len(s.elements[st[i].node]) :
           q < st[i].next => HasNoted(s, st, ds[lv[i]], i, q)

\* Every header is one of an encoding, with all names it needs, of a message,
\* or one of the two for all.
Headed ==
    /\ IsFiniteSet(DOMAIN files)
    /\ \A h \in DOMAIN files :
           \/ \E n \in Public :
                  /\ h = Header(n)
                  /\ \A q \in DOMAIN Elements(n) :
                         \A x \in NamedInside(schema, Elements(n)[q]) :
                             Header(x) \in files[h]
           \/ \E m \in Messages :
                  h = <<"messages", m>> /\ files[h] = MessageIncludes(m)
           \/ h \in {SchemaHeader, TopHeader}

-----------------------------------------------------------------------------
(* Sums.                                                                   *)

\* f[k] is the sum of the first k.
IsSums(f, w, b) == f = [k \in 0 .. b |-> IF k = 0 THEN 0 ELSE f[k - 1] + w[k]]

LEMMA SumsExist ==
    ASSUME NEW w, NEW b \in Nat
    PROVE  \E f : IsSums(f, w, b)
<1> DEFINE T == {n \in Nat : \E f : IsSums(f, w, n)}
<1>1. 0 \in T
  <2>1. IsSums([k \in 0 .. 0 |-> 0], w, 0)
    BY DEF IsSums
  <2> QED
    BY <2>1
<1>2. ASSUME NEW n \in Nat, n \in T
      PROVE  n + 1 \in T
  <2>1. PICK f : IsSums(f, w, n)
    BY <1>2
  <2> DEFINE g == [k \in 0 .. n + 1 |-> IF k = n + 1 THEN f[n] + w[n + 1] ELSE f[k]]
  <2>2. ASSUME NEW k \in 0 .. n + 1
        PROVE  g[k] = IF k = 0 THEN 0 ELSE g[k - 1] + w[k]
    <3>1. CASE k = n + 1
      <4>1. k - 1 \in 0 .. n + 1 /\ k - 1 # n + 1 /\ k # 0 /\ k - 1 = n
        BY <3>1
      <4> QED
        BY <3>1, <4>1
    <3>2. CASE k # n + 1
      <4>1. k \in 0 .. n /\ (k # 0 => k - 1 \in 0 .. n + 1 /\ k - 1 # n + 1)
        BY <3>2
      <4>2. f[k] = IF k = 0 THEN 0 ELSE f[k - 1] + w[k]
        BY <2>1, <4>1 DEF IsSums
      <4> QED
        BY <3>2, <4>1, <4>2
    <3> QED
      BY <3>1, <3>2
  <2>3. g = [k \in 0 .. n + 1 |-> IF k = 0 THEN 0 ELSE g[k - 1] + w[k]]
    <3>1. g = [k \in 0 .. n + 1 |-> g[k]]
      OBVIOUS
    <3> HIDE DEF g
    <3> QED
      BY <2>2, <3>1
  <2>4. IsSums(g, w, n + 1)
    BY <2>3 DEF IsSums
  <2> HIDE DEF g
  <2> QED
    BY <2>4
<1> HIDE DEF T
<1>3. Nat \subseteq T
  BY <1>1, <1>2, NaturalInduction
<1> QED
  BY <1>3 DEF T

LEMMA SumIsLast ==
    ASSUME NEW w, NEW b \in Nat
    PROVE  \E f : IsSums(f, w, b) /\ SumUpTo(w, b) = f[b]
<1>1. \E f : f = [k \in 0 .. b |-> IF k = 0 THEN 0 ELSE f[k - 1] + w[k]]
  BY SumsExist DEF IsSums
<1> DEFINE s == CHOOSE f : f = [k \in 0 .. b |-> IF k = 0 THEN 0 ELSE f[k - 1] + w[k]]
<1>2. s = [k \in 0 .. b |-> IF k = 0 THEN 0 ELSE s[k - 1] + w[k]]
  BY <1>1
<1>3. SumUpTo(w, b) = s[b]
  BY DEF SumUpTo
<1> HIDE DEF s
<1>4. IsSums(s, w, b)
  BY <1>2 DEF IsSums
<1> QED
  BY <1>3, <1>4

\* Partial sums of what is the same are the same.
LEMMA SameSums ==
    ASSUME NEW w, NEW v, NEW a \in Nat, NEW b \in Nat, NEW c \in Nat,
           c <= a, c <= b, \A k \in 1 .. c : w[k] = v[k],
           NEW f, NEW g, IsSums(f, w, a), IsSums(g, v, b)
    PROVE  f[c] = g[c]
<1> DEFINE T == {k \in 0 .. c : f[k] = g[k]}
<1>1. 0 \in T
  BY DEF IsSums
<1>2. ASSUME NEW k \in 0 .. c - 1, k \in T
      PROVE  k + 1 \in T
  <2>1. k + 1 \in 0 .. a /\ k + 1 \in 0 .. b /\ k + 1 \in 1 .. c /\ k + 1 # 0
        /\ (k + 1) - 1 = k /\ k + 1 \in 0 .. c
    OBVIOUS
  <2>2. f[k + 1] = f[k] + w[k + 1] /\ g[k + 1] = g[k] + v[k + 1]
    BY <2>1 DEF IsSums
  <2>3. w[k + 1] = v[k + 1]
    BY <2>1
  <2> QED
    BY <1>2, <2>1, <2>2, <2>3
<1> HIDE DEF T
<1>3. 0 .. c \subseteq T
  BY <1>1, <1>2, IntervalInduction
<1>4. c \in 0 .. c
  OBVIOUS
<1> QED
  BY <1>3, <1>4 DEF T

LEMMA SumOfSame ==
    ASSUME NEW w, NEW v, NEW b \in Nat, \A k \in 1 .. b : w[k] = v[k]
    PROVE  SumUpTo(w, b) = SumUpTo(v, b)
<1>1. PICK f : IsSums(f, w, b) /\ SumUpTo(w, b) = f[b]
  BY SumIsLast
<1>2. PICK g : IsSums(g, v, b) /\ SumUpTo(v, b) = g[b]
  BY SumIsLast
<1>3. b <= b
  OBVIOUS
<1> QED
  BY <1>1, <1>2, <1>3, SameSums

LEMMA SumStep ==
    ASSUME NEW w, NEW b \in Nat
    PROVE  /\ SumUpTo(w, 0) = 0
           /\ SumUpTo(w, b + 1) = SumUpTo(w, b) + w[b + 1]
<1>1. PICK z : IsSums(z, w, 0) /\ SumUpTo(w, 0) = z[0]
  BY SumIsLast
<1>2. PICK f : IsSums(f, w, b) /\ SumUpTo(w, b) = f[b]
  BY SumIsLast
<1>3. PICK g : IsSums(g, w, b + 1) /\ SumUpTo(w, b + 1) = g[b + 1]
  BY SumIsLast
<1>4. b + 1 \in Nat /\ b <= b /\ b <= b + 1 /\ b + 1 \in 0 .. b + 1
      /\ b + 1 # 0 /\ (b + 1) - 1 = b
  OBVIOUS
<1>5. f[b] = g[b]
  <2>1. PICK v : v = w
    OBVIOUS
  <2>2. PICK d : d = b + 1
    OBVIOUS
  <2>3. IsSums(g, v, d) /\ \A k \in 1 .. b : w[k] = v[k]
    BY <1>3, <2>1, <2>2
  <2>4. IsSums(f, w, b)
    BY <1>2
  <2>5. d \in Nat /\ b <= d /\ b <= b
    BY <2>2
  <2> QED
    BY <2>3, <2>4, <2>5, SameSums
<1>6. z[0] = 0
  BY <1>1 DEF IsSums
<1>7. g[b + 1] = g[b] + w[b + 1]
  BY <1>3, <1>4 DEF IsSums
<1> QED
  BY <1>1, <1>2, <1>3, <1>5, <1>6, <1>7

LEMMA WireIsOnWire == (\A n \in DOMAIN size : AddsUp(schema, size, n)) => SizesAddUp
BY DEF SizesAddUp, AddsUp, WireOf, OnWire, IsConstantElement, Kind, Elements, Target

\* What further sizes there are does not matter to a sum.
LEMMA SumKept ==
    ASSUME NEW s \in Schemas, NEW sz, NEW tz,
           \A x \in DOMAIN sz : tz[x] = sz[x],
           NEW n \in s.nodes, NEW b \in Nat, b <= Len(s.elements[n]),
           \A j \in 1 .. b : s.elements[n][j] \in DOMAIN sz
    PROVE  SumUpTo(WireOf(s, tz, n), b) = SumUpTo(WireOf(s, sz, n), b)
<1>1. /\ DOMAIN s.elements[n] = 1 .. Len(s.elements[n])
      /\ Len(s.elements[n]) \in Nat
  BY SchemaFacts
<1>2. \A j \in 1 .. b : j \in DOMAIN s.elements[n]
  BY <1>1
<1>3. \A j \in 1 .. b : WireOf(s, tz, n)[j] = WireOf(s, sz, n)[j]
  BY <1>2 DEF WireOf
<1> QED
  BY <1>3, SumOfSame

\* A step that adds no size, and no frame but new ones.
LEMMA SumsStay ==
    ASSUME Sums, UNCHANGED <<schema, size>>,
           phase' \in Validation =>
               /\ phase \in Validation
               /\ \A i \in 1 .. Len(stack') :
                      \/ \E j \in 1 .. Len(stack) : stack'[i] = stack[j]
                      \/ stack'[i].next = 1 /\ stack'[i].offset = 0
    PROVE  Sums'
<1>1. \A n \in DOMAIN size' : AddsUp(schema', size', n)
  BY DEF Sums
<1>2. ASSUME phase' \in Validation, NEW i \in 1 .. Len(stack')
      PROVE  FrameAdds(schema', size', stack'[i])
  <2>1. CASE \E j \in 1 .. Len(stack) : stack'[i] = stack[j]
    BY <1>2, <2>1 DEF Sums
  <2>2. CASE stack'[i].next = 1 /\ stack'[i].offset = 0
    <3>1. stack'[i].next - 1 = 0
      BY <2>2
    <3>2. SumUpTo(WireOf(schema', size', stack'[i].node), 0) = 0
      BY SumStep
    <3> QED
      BY <2>2, <3>1, <3>2 DEF FrameAdds
  <2> QED
    BY <1>2, <2>1, <2>2
<1>3. Validation' = Validation
  BY DEF Validation
<1> QED
  BY <1>1, <1>2, <1>3 DEF Sums

\* A frame is pushed.
LEMMA SumsPushed ==
    ASSUME Sums, Typed, phase \in Validation, NEW n \in schema.nodes,
           stack' = Append(stack, Frame(n)), UNCHANGED <<schema, size>>
    PROVE  Sums'
<1>1. /\ Frame(n) \in FrameSet /\ Frame(n).next = 1 /\ Frame(n).offset = 0
      /\ stack \in Seq(FrameSet)
  BY DEF Frame, FrameSet, Typed
<1>2. /\ Len(stack) \in Nat
      /\ Len(stack') = Len(stack) + 1
      /\ \A i \in 1 .. Len(stack) : stack'[i] = stack[i]
      /\ stack'[Len(stack) + 1] = Frame(n)
  BY <1>1, AppendFacts
<1>3. \A i \in 1 .. Len(stack') :
          \/ i \in 1 .. Len(stack)
          \/ i = Len(stack) + 1
  BY <1>2
<1>4. \A i \in 1 .. Len(stack') :
          \/ \E j \in 1 .. Len(stack) : stack'[i] = stack[j]
          \/ stack'[i].next = 1 /\ stack'[i].offset = 0
  BY <1>1, <1>2, <1>3
<1> QED
  BY <1>4, SumsStay

\* An encoding gets its size, and its parent's offset moves on by it.
LEMMA SumsReturned ==
    ASSUME Inv, Sums, phase = "validate", stack # <<>>, NEW bytes \in Nat,
           \A j \in DOMAIN Elements(Top.node) : Elements(Top.node)[j] \in DOMAIN size,
           Kind(Top.node) = "ref" => Target(Top.node) \in DOMAIN size,
           CASE Kind(Top.node) = "composite" ->
                    bytes = SumUpTo(WireOf(schema, size, Top.node),
                                    Len(schema.elements[Top.node]))
             [] Kind(Top.node) = "ref" -> bytes = size[Target(Top.node)]
             [] OTHER -> bytes = schema.width[Top.node],
           Return(bytes)
    PROVE  Sums'
<1> USE DEF Kind, Elements, Target
<1>a. PICK k : k = Len(stack)
  OBVIOUS
<1>b. PICK n : n = Top.node
  OBVIOUS
<1>c. PICK p : p = stack[k - 1]
  OBVIOUS
<1>1. /\ Typed /\ Sized /\ Walk /\ schema \in Schemas /\ stack \in Seq(FrameSet)
      /\ k \in Nat /\ k # 0 /\ n \in schema.nodes /\ n \notin DOMAIN size
  <2>1. Typed /\ Sized /\ Walk
    BY DEF Inv, Validation
  <2>2. /\ k \in Nat /\ k \in 1 .. k /\ k # 0 /\ Top = stack[k] /\ n \in schema.nodes
    BY <1>a, <1>b, <2>1, TopFacts
  <2>3. n \notin DOMAIN size
    BY <1>a, <1>b, <2>1, <2>2 DEF Walk
  <2> QED
    BY <2>1, <2>2, <2>3 DEF Typed
<1>2. /\ size' = [x \in DOMAIN size \cup {n} |-> IF x = n THEN bytes ELSE size[x]]
      /\ stack' = ReturnTo(Front(stack), n, bytes)
      /\ UNCHANGED <<schema, phase>>
  BY <1>b, <1>1 DEF Return
<1>3. /\ DOMAIN size' = DOMAIN size \cup {n}
      /\ size'[n] = bytes
      /\ \A x \in DOMAIN size : size'[x] = size[x] /\ x # n
      /\ DOMAIN size \subseteq schema.nodes
  BY <1>1, <1>2 DEF Typed
<1>4. \A x \in schema.nodes : \A b \in Nat :
          b <= Len(schema.elements[x])
          /\ (\A j \in 1 .. b : schema.elements[x][j] \in DOMAIN size) =>
              SumUpTo(WireOf(schema, size', x), b) = SumUpTo(WireOf(schema, size, x), b)
  BY <1>1, <1>3, SumKept
<1>5. \A x \in schema.nodes :
          /\ Len(schema.elements[x]) \in Nat
          /\ DOMAIN schema.elements[x] = 1 .. Len(schema.elements[x])
          /\ Len(schema.elements[x]) <= Len(schema.elements[x])
  <2>1. \A x \in schema.nodes :
          /\ Len(schema.elements[x]) \in Nat
          /\ DOMAIN schema.elements[x] = 1 .. Len(schema.elements[x])
    BY <1>1, SchemaFacts
  <2> QED
    BY <2>1
<1>6. ASSUME NEW x \in DOMAIN size'
      PROVE  AddsUp(schema, size', x)
  <2>1. CASE x = n
    <3>1. schema.kind[n] = "composite" =>
              bytes = SumUpTo(WireOf(schema, size, n), Len(schema.elements[n]))
      BY <1>b
    <3>2. SumUpTo(WireOf(schema, size', n), Len(schema.elements[n])) =
              SumUpTo(WireOf(schema, size, n), Len(schema.elements[n]))
      BY <1>b, <1>1, <1>4, <1>5
    <3>3. schema.kind[n] = "ref" =>
              schema.target[n] \in DOMAIN size /\ bytes = size[schema.target[n]]
      BY <1>b
    <3>4. schema.kind[n] # "composite" /\ schema.kind[n] # "ref" =>
              bytes = schema.width[n]
      BY <1>b
    <3> QED
      BY <1>3, <2>1, <3>1, <3>2, <3>3, <3>4 DEF AddsUp
  <2>2. CASE x # n
    <3>1. x \in DOMAIN size /\ x \in schema.nodes
      BY <1>3, <2>2
    <3>2. AddsUp(schema, size, x)
      BY <3>1 DEF Sums
    <3>3. SumUpTo(WireOf(schema, size', x), Len(schema.elements[x])) =
              SumUpTo(WireOf(schema, size, x), Len(schema.elements[x]))
      BY <1>1, <1>4, <1>5, <3>1 DEF Sized
    <3>4. schema.kind[x] = "ref" => schema.target[x] \in DOMAIN size
      BY <1>1, <3>1 DEF Sized
    <3> QED
      BY <1>3, <3>1, <3>2, <3>3, <3>4 DEF AddsUp
  <2> QED
    BY <2>1, <2>2
<1>7. Returned(k, n, p, stack', bytes)
  <2>1. Returned(k, n, p, ReturnTo(Front(stack), n, bytes), bytes)
    BY <1>a, <1>b, <1>c, <1>1, ReturnToFacts
  <2> QED
    BY <1>2, <2>1
\* The frames that do not move.
<1>8. ASSUME NEW i \in 1 .. k - 1, schema.kind[stack[i].node] = "composite"
      PROVE  /\ stack[i] \in FrameSet
             /\ stack[i].next - 1 \in Nat
             /\ stack[i].offset = SumUpTo(WireOf(schema, size', stack[i].node),
                                          stack[i].next - 1)
  <2>1. i \in 1 .. k
    BY <1>1
  <2>2. stack[i] \in FrameSet
    BY <1>a, <1>1, <2>1, ElementOfSeq
  <2>3. /\ stack[i].node \in schema.nodes /\ stack[i].next \in Nat
        /\ stack[i].next # 0 /\ stack[i].offset \in Nat
    BY <2>2 DEF FrameSet
  <2>4. PICK b : b = stack[i].next - 1
    OBVIOUS
  <2>5. b \in Nat /\ \A j \in 1 .. b : j \in Nat /\ 1 <= j /\ j < stack[i].next
    BY <2>3, <2>4
  <2>6. b <= Len(schema.elements[stack[i].node])
    <3>1. stack[i].next <= Len(schema.elements[stack[i].node]) + 1
      BY <1>a, <1>1, <2>1 DEF Typed
    <3>2. Len(schema.elements[stack[i].node]) \in Nat
      BY <1>5, <2>3
    <3> QED
      BY <2>3, <2>4, <3>1, <3>2
  <2>7. \A j \in 1 .. b : schema.elements[stack[i].node][j] \in DOMAIN size
    BY <1>a, <1>1, <2>1, <2>5 DEF Walk
  <2>8. stack[i].offset = SumUpTo(WireOf(schema, size, stack[i].node), b)
    BY <1>a, <1>8, <2>1, <2>4 DEF Sums, FrameAdds, Validation
  <2> QED
    BY <1>4, <2>2, <2>3, <2>4, <2>5, <2>6, <2>7, <2>8
<1>9. ASSUME NEW i \in 1 .. Len(stack')
      PROVE  FrameAdds(schema, size', stack'[i])
  <2>1. /\ i \in 1 .. k - 1 /\ (i # k - 1 => i \in 1 .. k - 2)
        /\ (i = k - 1 => k # 1)
    BY <1>1, <1>7 DEF Returned
  <2>2. CASE stack'[i] = stack[i]
    BY <1>8, <2>1, <2>2 DEF FrameAdds
  <2>3. CASE /\ i = k - 1
             /\ Kind(p.node) # "ref"
             /\ stack'[k - 1].node = p.node
             /\ stack'[k - 1].next = p.next + 1
             /\ stack'[k - 1].offset = OffsetAfter(p.offset, n, bytes)
             /\ p.next \in DOMAIN Elements(p.node)
             /\ Elements(p.node)[p.next] = n
    <3> SUFFICES ASSUME schema.kind[p.node] = "composite"
                 PROVE  stack'[i].offset = SumUpTo(WireOf(schema, size', p.node),
                                                   stack'[i].next - 1)
      BY <2>3 DEF FrameAdds
    <3>1. /\ p \in FrameSet /\ p.next - 1 \in Nat
          /\ p.offset = SumUpTo(WireOf(schema, size', p.node), p.next - 1)
      BY <1>c, <1>8, <2>1, <2>3
    <3>2. PICK b : b = p.next - 1
      OBVIOUS
    <3>3. PICK w : w = WireOf(schema, size', p.node)
      OBVIOUS
    <3>4. SumUpTo(w, b + 1) = SumUpTo(w, b) + w[b + 1]
      BY <3>1, <3>2, SumStep
    <3>5. p.next \in Nat /\ p.offset \in Nat
      BY <3>1 DEF FrameSet
    <3>6. b + 1 = p.next /\ (p.next + 1) - 1 = p.next
      BY <3>2, <3>5
    <3>7. w[p.next] = IF IsConstantElement(n) THEN 0 ELSE size'[n]
      BY <2>3, <3>3 DEF WireOf, IsConstantElement
    <3>8. OffsetAfter(p.offset, n, bytes) = p.offset + w[p.next]
      BY <1>3, <3>5, <3>7 DEF OffsetAfter
    <3> QED
      BY <2>3, <3>1, <3>2, <3>3, <3>4, <3>6, <3>8
  <2> QED
    BY <1>c, <1>7, <2>1, <2>2, <2>3 DEF Returned
<1>10. Validation' = Validation
  BY DEF Validation
<1> QED
  BY <1>2, <1>6, <1>9, <1>10 DEF Sums

LEMMA SumsOfReturns ==
    ASSUME Inv, Sums, ReturnLeaf \/ ReturnComposite \/ ReturnRef
    PROVE  Sums'
<1>1. /\ phase = "validate" /\ stack # <<>> /\ Typed /\ Walk /\ Sized
      /\ schema \in Schemas
  BY DEF ReturnLeaf, ReturnComposite, ReturnRef, Validating, Inv, Validation, Typed
<1>2. /\ Top.node \in schema.nodes /\ Top.next \in Nat /\ Top.offset \in Nat
      /\ Len(stack) \in 1 .. Len(stack) /\ Top = stack[Len(stack)]
      /\ Top.next <= Len(Elements(Top.node)) + 1
  BY <1>1, TopFacts
<1>3. /\ DOMAIN Elements(Top.node) = 1 .. Len(Elements(Top.node))
      /\ Len(Elements(Top.node)) \in Nat
      /\ Kind(Top.node) # "composite" => Len(Elements(Top.node)) = 0
  BY <1>1, <1>2, SchemaFacts DEF Elements, Kind
<1>4. Kind(Top.node) # "composite" => DOMAIN Elements(Top.node) = {}
  BY <1>3
<1>5. CASE ReturnLeaf
  <2>1. Kind(Top.node) \in {"type", "constant", "enum"} /\ Return(schema.width[Top.node])
    BY <1>5 DEF ReturnLeaf, Validating
  <2>2. schema.width[Top.node] \in Nat
    BY <1>1, <1>2, SchemaFacts
  <2>3. Kind(Top.node) # "composite" /\ Kind(Top.node) # "ref"
    BY <2>1
  <2> QED
    BY <1>1, <1>4, <2>1, <2>2, <2>3, SumsReturned
<1>6. CASE ReturnComposite
  <2>1. /\ Kind(Top.node) = "composite" /\ Top.next > Len(Elements(Top.node))
        /\ Return(Top.offset)
    BY <1>6 DEF ReturnComposite, Validating
  <2>2. Top.next - 1 = Len(Elements(Top.node))
    BY <1>2, <1>3, <2>1
  <2>3. ASSUME NEW j \in DOMAIN Elements(Top.node)
        PROVE  Elements(Top.node)[j] \in DOMAIN size
    <3>1. j \in Nat /\ 1 <= j /\ j < Top.next
      BY <1>2, <1>3, <2>1
    <3> QED
      BY <1>1, <1>2, <3>1 DEF Walk
  <2>4. Top.offset = SumUpTo(WireOf(schema, size, Top.node), Top.next - 1)
    BY <1>1, <1>2, <2>1 DEF Sums, FrameAdds, Validation, Kind
  <2>5. Top.offset = SumUpTo(WireOf(schema, size, Top.node),
                             Len(schema.elements[Top.node]))
    BY <2>2, <2>4 DEF Elements
  <2> QED
    BY <1>1, <1>2, <2>1, <2>3, <2>5, SumsReturned
<1>7. CASE ReturnRef
  <2>1. /\ Kind(Top.node) = "ref" /\ Target(Top.node) # None
        /\ progress[Target(Top.node)] = "complete"
    BY <1>7 DEF ReturnRef, Validating
  <2>2. Target(Top.node) \in Public
    <3>1. schema.target[Top.node] \in schema.public \cup {None}
      BY <1>1, <1>2, SchemaFacts
    <3> QED
      BY <2>1, <3>1 DEF Target, Public
  <2>3. Target(Top.node) \in DOMAIN size
    BY <1>1, <2>1, <2>2 DEF Sized
  <2>4. Return(size[Target(Top.node)]) /\ size[Target(Top.node)] \in Nat
    BY <1>1, <1>7, <2>3 DEF ReturnRef, Typed
  <2> QED
    BY <1>1, <1>4, <2>1, <2>3, <2>4, SumsReturned
<1> QED
  BY <1>5, <1>6, <1>7

LEMMA SumsOfStep ==
    ASSUME Inv, Sums, [Next]_vars
    PROVE  Sums'
<1>0. Typed /\ schema \in Schemas /\ schema.public \subseteq schema.nodes
  BY SchemaFacts DEF Inv, Typed
<1>1. CASE ValidateNext
  <2>1. PICK n \in todo :
            IF progress[n] = "new" THEN EnterPublic(n) ELSE UNCHANGED <<progress, stack>>
    BY <1>1 DEF ValidateNext
  <2>2. phase = "validate" /\ UNCHANGED <<schema, phase, size>>
    BY <1>1 DEF ValidateNext
  <2>3. n \in schema.nodes
    BY <1>0, <2>2 DEF Typed, Public
  <2>4. CASE progress[n] = "new"
    BY <1>0, <2>1, <2>2, <2>3, <2>4, SumsPushed DEF EnterPublic, Validation
  <2>5. CASE progress[n] # "new"
    BY <2>1, <2>2, <2>5, SumsStay
  <2> QED
    BY <2>4, <2>5
<1>2. CASE FollowRef
  <2>1. /\ phase = "validate" /\ stack # <<>> /\ Target(Top.node) # None
        /\ UNCHANGED <<schema, size>>
        /\ stack' = Append(stack, Frame(Target(Top.node)))
    BY <1>2 DEF FollowRef, Validating, EnterPublic
  <2>2. Target(Top.node) \in schema.nodes
    <3>1. Top.node \in schema.nodes
      BY <1>0, <2>1, TopFacts
    <3>2. schema.target[Top.node] \in schema.public \cup {None}
      BY <1>0, <3>1, SchemaFacts
    <3> QED
      BY <1>0, <2>1, <3>2 DEF Target
  <2> QED
    BY <1>0, <2>1, <2>2, SumsPushed DEF Validation
<1>3. CASE ValidateElement
  <2>1. /\ phase = "validate" /\ stack # <<>> /\ Top.next <= Len(Elements(Top.node))
        /\ UNCHANGED <<schema, size>>
        /\ stack' = Append(stack, Frame(Elements(Top.node)[Top.next]))
    BY <1>3 DEF ValidateElement, Validating, validator
  <2>2. Elements(Top.node)[Top.next] \in schema.nodes
    <3>1. Top.node \in schema.nodes /\ Top.next \in Nat /\ Top.next # 0
      BY <1>0, <2>1, TopFacts
    <3>2. /\ DOMAIN schema.elements[Top.node] = 1 .. Len(schema.elements[Top.node])
          /\ Len(schema.elements[Top.node]) \in Nat
          /\ \A j \in DOMAIN schema.elements[Top.node] :
                 schema.elements[Top.node][j] \in schema.nodes \ schema.public
      BY <1>0, <3>1, SchemaFacts
    <3>3. Top.next \in 1 .. Len(schema.elements[Top.node])
      BY <2>1, <3>1, <3>2 DEF Elements
    <3> QED
      BY <3>2, <3>3 DEF Elements
  <2> QED
    BY <1>0, <2>1, <2>2, SumsPushed DEF Validation
<1>4. CASE RejectMissing \/ RejectCycle \/ UNCHANGED vars
  <2>1. phase' \in Validation => phase \in Validation
    BY <1>4 DEF RejectMissing, RejectCycle, Validating, Validation, vars
  <2>2. UNCHANGED <<schema, stack, size>>
    BY <1>4 DEF RejectMissing, RejectCycle, Stop, vars, validator
  <2> QED
    BY <2>1, <2>2, SumsStay
<1>5. CASE ReturnLeaf \/ ReturnComposite \/ ReturnRef
  BY <1>5, SumsOfReturns
<1>6. CASE \/ EncodingsValid \/ CompileNext \/ CompileElement \/ CompileCall
           \/ CompiledInline \/ CompiledPublic \/ TypesCompiled \/ WriteTags
           \/ WriteMessage \/ MessagesCompiled \/ WriteTop
  <2>1. UNCHANGED <<schema, size>>
    BY <1>6 DEF EncodingsValid, CompileNext, CompileElement, CompileCall,
       CompiledInline, CompiledPublic, TypesCompiled, WriteTags, WriteMessage,
       MessagesCompiled, WriteTop, CannotWrite, Stop, validator
  <2>2. phase' \notin Validation
    BY <1>6 DEF EncodingsValid, CompileNext, CompileElement, CompileCall,
       CompiledInline, CompiledPublic, TypesCompiled, WriteTags, WriteMessage,
       MessagesCompiled, WriteTop, CannotWrite, Stop, Validation, Compiling, Compiled
  <2> QED
    BY <2>1, <2>2, SumsStay
<1> QED
  BY <1>1, <1>2, <1>3, <1>4, <1>5, <1>6 DEF Next

\* Whatever composites contain and whatever refs refer to, sizes add up, an
\* offset never counting a constant or missing an element.
THEOREM SizesCorrect == Spec => []SizesAddUp
<1>1. Init => Sums
  BY DEF Init, Sums
<1>2. CompilerInv /\ Sums /\ [Next]_vars => Sums'
  BY SumsOfStep DEF CompilerInv
<1>3. Sums => SizesAddUp
  BY WireIsOnWire DEF Sums
<1> QED
  BY <1>1, <1>2, <1>3, Invariance, PTL DEF Spec

-----------------------------------------------------------------------------
(* What is inside of an encoding.                                          *)

\* f[k] is what is inside of n up to the depth k.
IsDepths(f, s, n, b) ==
    f = [k \in 0 .. b |-> IF k = 0 THEN {n} ELSE Grown(s, f[k - 1])]

LEMMA DepthsExist ==
    ASSUME NEW s, NEW n, NEW b \in Nat
    PROVE  \E f : IsDepths(f, s, n, b)
<1> DEFINE T == {m \in Nat : \E f : IsDepths(f, s, n, m)}
<1>1. 0 \in T
  <2>1. IsDepths([k \in 0 .. 0 |-> {n}], s, n, 0)
    BY DEF IsDepths
  <2> QED
    BY <2>1
<1>2. ASSUME NEW m \in Nat, m \in T
      PROVE  m + 1 \in T
  <2>1. PICK f : IsDepths(f, s, n, m)
    BY <1>2
  <2> DEFINE g == [k \in 0 .. m + 1 |-> IF k = m + 1 THEN Grown(s, f[m]) ELSE f[k]]
  <2>2. ASSUME NEW k \in 0 .. m + 1
        PROVE  g[k] = IF k = 0 THEN {n} ELSE Grown(s, g[k - 1])
    <3>1. CASE k = m + 1
      <4>1. k - 1 \in 0 .. m + 1 /\ k - 1 # m + 1 /\ k # 0 /\ k - 1 = m
        BY <3>1
      <4> QED
        BY <3>1, <4>1
    <3>2. CASE k # m + 1
      <4>1. k \in 0 .. m /\ (k # 0 => k - 1 \in 0 .. m + 1 /\ k - 1 # m + 1)
        BY <3>2
      <4>2. f[k] = IF k = 0 THEN {n} ELSE Grown(s, f[k - 1])
        BY <2>1, <4>1 DEF IsDepths
      <4> QED
        BY <3>2, <4>1, <4>2
    <3> QED
      BY <3>1, <3>2
  <2>3. g = [k \in 0 .. m + 1 |-> IF k = 0 THEN {n} ELSE Grown(s, g[k - 1])]
    <3>1. g = [k \in 0 .. m + 1 |-> g[k]]
      OBVIOUS
    <3> HIDE DEF g
    <3> QED
      BY <2>2, <3>1
  <2>4. IsDepths(g, s, n, m + 1)
    BY <2>3 DEF IsDepths
  <2> HIDE DEF g
  <2> QED
    BY <2>4
<1> HIDE DEF T
<1>3. Nat \subseteq T
  BY <1>1, <1>2, NaturalInduction
<1> QED
  BY <1>3 DEF T

LEMMA InsideIsDeepest ==
    ASSUME NEW s, NEW n, Cardinality(s.nodes) \in Nat
    PROVE  \E f : /\ IsDepths(f, s, n, Cardinality(s.nodes))
                  /\ InsideOf(s, n) = f[Cardinality(s.nodes)]
<1> DEFINE b == Cardinality(s.nodes)
           F(f) == [k \in 0 .. b |-> IF k = 0 THEN {n}
                                     ELSE f[k - 1] \cup UNION {Range(s.elements[x]) : x \in f[k - 1]}]
           c == CHOOSE f : f = F(f)
<1>1. \E f : f = F(f)
  <2>1. PICK f : IsDepths(f, s, n, b)
    BY DepthsExist
  <2>2. f = F(f)
    BY <2>1 DEF IsDepths, Grown
  <2> HIDE DEF F
  <2> QED
    BY <2>2
<1>2. c = F(c)
  BY <1>1
<1>3. InsideOf(s, n) = c[b]
  BY DEF InsideOf
<1> HIDE DEF c
<1>4. IsDepths(c, s, n, b)
  BY <1>2 DEF IsDepths, Grown
<1> QED
  BY <1>3, <1>4

\* Growing by elements stays in what has them all.
LEMMA GrownStays ==
    ASSUME NEW s \in Schemas, NEW D, NEW S \in SUBSET s.nodes,
           S \subseteq D,
           \A x \in D \cap s.nodes : \A j \in DOMAIN s.elements[x] : s.elements[x][j] \in D
    PROVE  Grown(s, S) \subseteq D /\ S \subseteq Grown(s, S)
BY DEF Grown, Range

\* Inside(n) is the least set that has n and, with a composite, its elements.
LEMMA InsideFacts ==
    ASSUME NEW s \in Schemas, NEW n \in s.nodes
    PROVE  /\ n \in InsideOf(s, n)
           /\ InsideOf(s, n) \subseteq s.nodes
           /\ \A x \in InsideOf(s, n) : \A j \in DOMAIN s.elements[x] :
                  s.elements[x][j] \in InsideOf(s, n)
           /\ \A D : /\ n \in D
                     /\ \A x \in D \cap s.nodes : \A j \in DOMAIN s.elements[x] :
                            s.elements[x][j] \in D
                     => InsideOf(s, n) \subseteq D
<1>1. IsFiniteSet(s.nodes) /\ Cardinality(s.nodes) \in Nat
  BY SchemaFacts, FS_CardinalityType
<1>2. PICK b : b = Cardinality(s.nodes)
  OBVIOUS
<1>3. PICK f : IsDepths(f, s, n, b) /\ InsideOf(s, n) = f[b]
  BY <1>1, <1>2, InsideIsDeepest
<1>4. b \in Nat /\ 0 \in 0 .. b /\ b \in 0 .. b
  BY <1>1, <1>2
<1>5. f[0] = {n} /\ \A k \in 0 .. b - 1 : f[k + 1] = Grown(s, f[k])
  <2>1. f[0] = {n}
    BY <1>3, <1>4 DEF IsDepths
  <2>2. ASSUME NEW k \in 0 .. b - 1
        PROVE  f[k + 1] = Grown(s, f[k])
    <3>1. k + 1 \in 0 .. b /\ k + 1 # 0 /\ (k + 1) - 1 = k
      BY <1>4
    <3> QED
      BY <1>3, <3>1 DEF IsDepths
  <2> QED
    BY <2>1, <2>2
<1>6. \A x \in s.nodes : \A j \in DOMAIN s.elements[x] : s.elements[x][j] \in s.nodes
  BY SchemaFacts
<1>7. \A k \in 0 .. b : n \in f[k] /\ f[k] \subseteq s.nodes
  <2> DEFINE T == {k \in 0 .. b : n \in f[k] /\ f[k] \subseteq s.nodes}
  <2>1. 0 \in T
    BY <1>4, <1>5
  <2>2. ASSUME NEW k \in 0 .. b - 1, k \in T
        PROVE  k + 1 \in T
    <3>1. k + 1 \in 0 .. b
      BY <1>4
    <3>2. f[k] \in SUBSET s.nodes /\ n \in f[k]
      BY <2>2
    <3>3. Grown(s, f[k]) \subseteq s.nodes /\ f[k] \subseteq Grown(s, f[k])
      BY <1>6, <3>2, GrownStays
    <3> QED
      BY <1>5, <3>1, <3>2, <3>3
  <2> HIDE DEF T
  <2>3. 0 .. b \subseteq T
    BY <1>4, <2>1, <2>2, IntervalInduction
  <2> QED
    BY <2>3 DEF T
\* Each level has all, or has one more.
<1>8. \A k \in 0 .. b : Grown(s, f[k]) = f[k] \/ Cardinality(f[k]) > k
  <2> DEFINE T == {k \in 0 .. b : Grown(s, f[k]) = f[k] \/ Cardinality(f[k]) > k}
  <2>1. 0 \in T
    BY <1>4, <1>5, FS_Singleton
  <2>2. ASSUME NEW k \in 0 .. b - 1, k \in T
        PROVE  k + 1 \in T
    <3>1. k + 1 \in 0 .. b /\ k \in 0 .. b
      BY <1>4
    <3>2. CASE Grown(s, f[k]) = f[k]
      BY <1>5, <3>1, <3>2
    <3>3. CASE Grown(s, f[k]) # f[k] /\ Cardinality(f[k]) > k
      <4>1. f[k] \in SUBSET s.nodes /\ f[k + 1] \in SUBSET s.nodes
        BY <1>7, <3>1
      <4>2. f[k] \in SUBSET f[k + 1] /\ f[k] # f[k + 1]
        BY <1>5, <3>3 DEF Grown
      <4>3. IsFiniteSet(f[k + 1]) /\ IsFiniteSet(f[k])
        BY <1>1, <4>1, FS_Subset
      <4>4. /\ Cardinality(f[k]) <= Cardinality(f[k + 1])
            /\ Cardinality(f[k]) # Cardinality(f[k + 1])
        BY <4>2, <4>3, FS_Subset
      <4>5. Cardinality(f[k]) \in Nat /\ Cardinality(f[k + 1]) \in Nat
        BY <4>3, FS_CardinalityType
      <4>6. Cardinality(f[k + 1]) > k + 1
        BY <3>3, <4>4, <4>5
      <4> QED
        BY <3>1, <4>6
    <3> QED
      BY <2>2, <3>2, <3>3
  <2> HIDE DEF T
  <2>3. 0 .. b \subseteq T
    BY <1>4, <2>1, <2>2, IntervalInduction
  <2> QED
    BY <2>3 DEF T
<1>9. Grown(s, f[b]) = f[b]
  <2>1. f[b] \in SUBSET s.nodes
    BY <1>4, <1>7
  <2>2. Cardinality(f[b]) <= b
    BY <1>1, <1>2, <2>1, FS_Subset
  <2>3. Cardinality(f[b]) \in Nat
    BY <1>1, <2>1, FS_Subset, FS_CardinalityType
  <2>4. ~(Cardinality(f[b]) > b)
    BY <1>4, <2>2, <2>3
  <2> QED
    BY <1>4, <1>8, <2>4
<1>10. ASSUME NEW x \in f[b], NEW j \in DOMAIN s.elements[x]
       PROVE  s.elements[x][j] \in f[b]
  <2>1. s.elements[x][j] \in Grown(s, f[b])
    BY DEF Grown, Range
  <2> QED
    BY <1>9, <2>1
<1>11. ASSUME NEW D, n \in D,
              \A x \in D \cap s.nodes : \A j \in DOMAIN s.elements[x] :
                  s.elements[x][j] \in D
       PROVE  f[b] \subseteq D
  <2> DEFINE T == {k \in 0 .. b : f[k] \subseteq D}
  <2>1. 0 \in T
    BY <1>4, <1>5, <1>11
  <2>2. ASSUME NEW k \in 0 .. b - 1, k \in T
        PROVE  k + 1 \in T
    <3>1. k + 1 \in 0 .. b /\ k \in 0 .. b
      BY <1>4
    <3>2. f[k] \in SUBSET s.nodes /\ f[k] \subseteq D
      BY <1>7, <2>2, <3>1
    <3>3. Grown(s, f[k]) \subseteq D
      BY <1>11, <3>2, GrownStays
    <3> QED
      BY <1>5, <3>1, <3>3
  <2> HIDE DEF T
  <2>3. 0 .. b \subseteq T
    BY <1>4, <2>1, <2>2, IntervalInduction
  <2> QED
    BY <1>4, <2>3 DEF T
<1> QED
  BY <1>3, <1>4, <1>7, <1>10, <1>11

-----------------------------------------------------------------------------
(* What is accepted and what is rejected.                                  *)

LEMMA SoundIsSound == IsSound <=> SoundIn(schema)
BY DEF IsSound, SoundIn, Refers, RefersOf, Inside, InsideOf, Elements, Kind, Target, Public

\* tt is the stack of m frames st and a frame of n, of which the one on top is
\* in need.
Pushed(s, m, st, tt, n) ==
    /\ Len(st) = m /\ Len(tt) = m + 1
    /\ \A i \in 1 .. m : st[i].node \in s.nodes /\ tt[i].node = st[i].node
    /\ tt[m + 1].node = n
    /\ m = 0 => n \in s.public
    /\ m # 0 =>
           \/ /\ n \notin s.public
              /\ \E j \in DOMAIN s.elements[st[m].node] : n = s.elements[st[m].node][j]
           \/ s.kind[st[m].node] = "ref" /\ s.target[st[m].node] = n /\ n \in s.public

LEMMA ChainedPushed ==
    ASSUME NEW s \in Schemas, NEW m \in Nat, NEW st, NEW tt, NEW n \in s.nodes,
           Pushed(s, m, st, tt, n), Chained(s, st)
    PROVE  Chained(s, tt)
<1> USE DEF Pushed
<1>1. /\ \A i \in 1 .. Len(tt) : i \in 1 .. m \/ i = m + 1
      /\ m # 0 => m \in 1 .. m
      /\ \A i \in 1 .. m : i \in 1 .. Len(tt) /\ i <= m /\ i < m + 1 /\ i <= m + 1
                           /\ i \in 1 .. Len(st)
      /\ m + 1 \in 1 .. Len(tt) /\ m + 1 <= m + 1
  OBVIOUS
<1>2. \A i \in 1 .. m, k \in 1 .. m : k <= i /\ tt[k].node \in s.public =>
          \/ tt[i].node \in InsideOf(s, tt[k].node)
          \/ \E l \in 1 .. m :
                 /\ k < l /\ l <= i
                 /\ tt[l].node \in s.public
                 /\ tt[l].node \in RefersOf(s, tt[k].node)
  BY DEF Chained
<1>3. \A i \in 1 .. m : \E k \in 1 .. m :
          k <= i /\ tt[k].node \in s.public /\ tt[i].node \in InsideOf(s, tt[k].node)
  BY DEF Chained
<1>4. n \in InsideOf(s, n)
  BY InsideFacts
\* How the new frame hangs on those that were there.
<1>5. ASSUME NEW k \in 1 .. m, tt[k].node \in s.public,
             tt[m].node \in InsideOf(s, tt[k].node)
      PROVE  \/ n \notin s.public /\ n \in InsideOf(s, tt[k].node)
             \/ n \in s.public /\ n \in RefersOf(s, tt[k].node)
  <2>1. m # 0 /\ m \in 1 .. m /\ tt[m].node = st[m].node
    BY <1>1
  <2>2. tt[k].node \in s.nodes
    OBVIOUS
  <2>3. CASE /\ n \notin s.public
             /\ \E j \in DOMAIN s.elements[st[m].node] : n = s.elements[st[m].node][j]
    <3>1. n \in InsideOf(s, tt[k].node)
      BY <1>5, <2>1, <2>2, <2>3, InsideFacts
    <3> QED
      BY <2>3, <3>1
  <2>4. CASE s.kind[st[m].node] = "ref" /\ s.target[st[m].node] = n /\ n \in s.public
    BY <1>5, <2>1, <2>4 DEF RefersOf
  <2> QED
    BY <2>1, <2>3, <2>4
<1>6. ASSUME NEW i \in 1 .. Len(tt), NEW k \in 1 .. Len(tt), k <= i,
             tt[k].node \in s.public
      PROVE  \/ tt[i].node \in InsideOf(s, tt[k].node)
             \/ \E l \in 1 .. Len(tt) :
                    /\ k < l /\ l <= i
                    /\ tt[l].node \in s.public
                    /\ tt[l].node \in RefersOf(s, tt[k].node)
  <2>1. CASE i \in 1 .. m
    <3>1. k \in 1 .. m
      BY <1>6, <2>1
    <3> QED
      BY <1>1, <1>2, <1>6, <2>1, <3>1
  <2>2. CASE i = m + 1 /\ k \in 1 .. m
    <3>1. m # 0 /\ m \in 1 .. m /\ k <= m
      BY <1>1, <2>2
    <3>2. CASE tt[m].node \in InsideOf(s, tt[k].node)
      BY <1>1, <1>5, <1>6, <2>2, <3>2
    <3>3. CASE \E l \in 1 .. m : /\ k < l /\ l <= m
                                 /\ tt[l].node \in s.public
                                 /\ tt[l].node \in RefersOf(s, tt[k].node)
      BY <1>1, <2>2, <3>3
    <3> QED
      BY <1>2, <1>6, <2>2, <3>1, <3>2, <3>3
  <2>3. CASE i = m + 1 /\ k = m + 1
    BY <1>4, <2>3
  <2> QED
    BY <1>1, <2>1, <2>2, <2>3
<1>7. ASSUME NEW i \in 1 .. Len(tt)
      PROVE  \E k \in 1 .. Len(tt) : /\ k <= i /\ tt[k].node \in s.public
                                     /\ tt[i].node \in InsideOf(s, tt[k].node)
  <2>1. CASE i \in 1 .. m
    BY <1>1, <1>3, <2>1
  <2>2. CASE i = m + 1 /\ n \in s.public
    BY <1>1, <1>4, <2>2
  <2>3. CASE i = m + 1 /\ n \notin s.public
    <3>1. m # 0 /\ m \in 1 .. m
      BY <1>1, <2>3
    <3>2. PICK k \in 1 .. m : tt[k].node \in s.public /\ tt[m].node \in InsideOf(s, tt[k].node)
      BY <1>3, <3>1
    <3> QED
      BY <1>1, <1>5, <2>3, <3>2
  <2> QED
    BY <1>1, <2>1, <2>2, <2>3
<1> QED
  BY <1>6, <1>7 DEF Chained

\* Frames are popped, or change without changing their nodes.
LEMMA ChainedPopped ==
    ASSUME NEW s, NEW st, NEW tt, Len(st) \in Nat, Len(tt) \in Nat,
           Len(tt) <= Len(st),
           \A i \in 1 .. Len(tt) : tt[i].node = st[i].node,
           Chained(s, st)
    PROVE  Chained(s, tt)
<1>1. \A i \in 1 .. Len(tt) : i \in 1 .. Len(st)
  OBVIOUS
<1>2. \A i \in 1 .. Len(tt) : \A k \in 1 .. Len(st) : k <= i => k \in 1 .. Len(tt)
  OBVIOUS
<1>3. ASSUME NEW i \in 1 .. Len(tt), NEW k \in 1 .. Len(tt), k <= i,
             tt[k].node \in s.public
      PROVE  \/ tt[i].node \in InsideOf(s, tt[k].node)
             \/ \E l \in 1 .. Len(tt) :
                    /\ k < l /\ l <= i
                    /\ tt[l].node \in s.public
                    /\ tt[l].node \in RefersOf(s, tt[k].node)
  BY <1>1, <1>2, <1>3 DEF Chained
<1>4. ASSUME NEW i \in 1 .. Len(tt)
      PROVE  \E k \in 1 .. Len(tt) : /\ k <= i /\ tt[k].node \in s.public
                                     /\ tt[i].node \in InsideOf(s, tt[k].node)
  BY <1>1, <1>2 DEF Chained
<1> QED
  BY <1>3, <1>4 DEF Chained

\* All that is inside of an encoding with a size has one, and what it refers to
\* is complete.
LEMMA CompleteRefers ==
    ASSUME Typed, Sized, NEW n \in DOMAIN size
    PROVE  /\ InsideOf(schema, n) \subseteq DOMAIN size
           /\ \A x \in RefersOf(schema, n) :
                  x \in schema.public /\ progress[x] = "complete"
<1>1. schema \in Schemas /\ n \in schema.nodes
  BY DEF Typed
<1>2. \A x \in DOMAIN size : \A j \in DOMAIN schema.elements[x] :
          schema.elements[x][j] \in DOMAIN size
  BY DEF Sized, Elements
<1>3. \A x \in DOMAIN size \cap schema.nodes : \A j \in DOMAIN schema.elements[x] :
          schema.elements[x][j] \in DOMAIN size
  BY <1>2
<1>4. InsideOf(schema, n) \subseteq DOMAIN size
  BY <1>1, <1>3, InsideFacts
<1>5. \A x \in DOMAIN size : schema.kind[x] = "ref" =>
          schema.target[x] \in schema.public /\ progress[schema.target[x]] = "complete"
  BY DEF Sized, Kind, Target, Public
<1> QED
  BY <1>4, <1>5 DEF RefersOf

\* What is complete stays acyclic as long as nothing completes.
LEMMA AcyclicStays ==
    ASSUME NEW s, NEW d, NEW e, Acyclic(s, d),
           \A x \in s.public : e[x] = "complete" => d[x] = "complete"
    PROVE  Acyclic(s, e)
<1> SUFFICES ASSUME NEW S \in SUBSET s.public, S # {}, \A x \in S : e[x] = "complete"
             PROVE  \E x \in S : RefersOf(s, x) \cap S = {}
  BY DEF Acyclic
<1>1. \A x \in S : d[x] = "complete"
  OBVIOUS
<1> QED
  BY <1>1 DEF Acyclic

\* An encoding completes that refers only to complete ones.
LEMMA AcyclicCompletes ==
    ASSUME NEW s, NEW d, NEW e, NEW n \in s.public, Acyclic(s, d),
           d[n] # "complete",
           \A x \in s.public : x # n /\ e[x] = "complete" => d[x] = "complete",
           \A x \in s.public : x = n \/ d[x] = "complete" =>
               \A y \in RefersOf(s, x) : d[y] = "complete"
    PROVE  Acyclic(s, e)
<1> SUFFICES ASSUME NEW S \in SUBSET s.public, S # {}, \A x \in S : e[x] = "complete"
             PROVE  \E x \in S : RefersOf(s, x) \cap S = {}
  BY DEF Acyclic
<1>1. PICK R : R = S \ {n}
  OBVIOUS
<1>2. /\ R \in SUBSET s.public
      /\ \A x \in R : d[x] = "complete"
      /\ \A x \in S : x \in R \/ x = n
  BY <1>1
<1>3. \A x \in S : n \notin RefersOf(s, x)
  BY <1>2
<1>4. CASE R = {}
  <2>1. n \in S /\ RefersOf(s, n) \cap S = {}
    BY <1>2, <1>3, <1>4
  <2> QED
    BY <2>1
<1>5. CASE R # {}
  <2>1. PICK x \in R : RefersOf(s, x) \cap R = {}
    BY <1>2, <1>5 DEF Acyclic
  <2>2. x \in S
    BY <1>1
  <2>3. RefersOf(s, x) \cap S = {}
    BY <1>2, <1>3, <2>1, <2>2
  <2> QED
    BY <2>2, <2>3
<1> QED
  BY <1>4, <1>5

\* A frame is pushed, of an encoding that was new or is inside of another.
LEMMA RulesPushed ==
    ASSUME Inv, Rules, phase = "validate", NEW n \in schema.nodes,
           stack = <<>> => n \in Public,
           stack # <<>> =>
               \/ /\ n \notin Public
                  /\ \E j \in DOMAIN Elements(Top.node) : n = Elements(Top.node)[j]
               \/ Kind(Top.node) = "ref" /\ Target(Top.node) = n /\ n \in Public,
           stack' = Append(stack, Frame(n)),
           progress' = progress \/
               (n \in Public /\ progress' = [progress EXCEPT ![n] = "in_progress"]),
           UNCHANGED <<schema, phase>>
    PROVE  Rules'
<1>1. /\ Typed /\ schema \in Schemas /\ stack \in Seq(FrameSet)
      /\ progress \in [schema.public -> {"new", "in_progress", "complete"}]
  BY DEF Inv, Typed, Public
<1>2. Frame(n) \in FrameSet /\ Frame(n).node = n
  BY DEF Frame, FrameSet
<1>3. PICK m : m = Len(stack)
  OBVIOUS
<1>4. /\ m \in Nat /\ Len(stack') = m + 1
      /\ \A i \in 1 .. m : stack'[i] = stack[i]
      /\ stack'[m + 1].node = n
  BY <1>1, <1>2, <1>3, AppendFacts
<1>5. \A i \in 1 .. m : stack[i].node \in schema.nodes
  <2> SUFFICES ASSUME NEW i \in 1 .. m
               PROVE  stack[i].node \in schema.nodes
    OBVIOUS
  <2>1. stack[i] \in FrameSet
    BY <1>1, <1>3, ElementOfSeq
  <2> QED
    BY <2>1 DEF FrameSet
<1>6. m = 0 => n \in schema.public
  <2>1. Len(stack) = 0 => stack = <<>>
    BY <1>1
  <2> QED
    BY <1>3, <2>1 DEF Public
<1>7. m # 0 =>
          \/ /\ n \notin schema.public
             /\ \E j \in DOMAIN schema.elements[stack[m].node] :
                    n = schema.elements[stack[m].node][j]
          \/ /\ schema.kind[stack[m].node] = "ref"
             /\ schema.target[stack[m].node] = n /\ n \in schema.public
  <2> SUFFICES ASSUME m # 0
               PROVE  \/ /\ n \notin schema.public
                         /\ \E j \in DOMAIN schema.elements[stack[m].node] :
                                n = schema.elements[stack[m].node][j]
                      \/ /\ schema.kind[stack[m].node] = "ref"
                         /\ schema.target[stack[m].node] = n /\ n \in schema.public
    OBVIOUS
  <2>1. stack # <<>> /\ Top = stack[m]
    BY <1>1, <1>3 DEF Top
  <2> QED
    BY <2>1 DEF Public, Elements, Kind, Target
<1>8. Chained(schema, stack')
  <2>1. PICK tt : tt = stack'
    OBVIOUS
  <2>2. Chained(schema, stack)
    BY DEF Rules
  <2>3. /\ \A i \in 1 .. m : stack[i].node \in schema.nodes /\ tt[i].node = stack[i].node
        /\ Len(stack) = m /\ Len(tt) = m + 1 /\ tt[m + 1].node = n
    BY <1>3, <1>4, <1>5, <2>1
  <2>4. Pushed(schema, m, stack, tt, n)
    BY <1>6, <1>7, <2>3 DEF Pushed
  <2>5. Chained(schema, tt)
    BY <1>1, <1>4, <2>2, <2>4, ChainedPushed
  <2> QED
    BY <2>1, <2>5
<1>9. Acyclic(schema, progress')
  <2>1. \A x \in schema.public : progress'[x] = "complete" => progress[x] = "complete"
    BY <1>1 DEF Public
  <2> QED
    BY <2>1, AcyclicStays DEF Rules
<1> QED
  BY <1>8, <1>9 DEF Rules, Validation

LEMMA RulesOfPushes ==
    ASSUME Inv, Rules, ValidateNext \/ FollowRef \/ ValidateElement
    PROVE  Rules'
<1>1. Typed /\ schema \in Schemas /\ schema.public \subseteq schema.nodes
  BY SchemaFacts DEF Inv, Typed
<1>2. CASE ValidateNext
  <2>1. PICK n \in todo :
            IF progress[n] = "new" THEN EnterPublic(n) ELSE UNCHANGED <<progress, stack>>
    BY <1>2 DEF ValidateNext
  <2>2. phase = "validate" /\ stack = <<>> /\ UNCHANGED <<schema, phase>>
    BY <1>2 DEF ValidateNext
  <2>3. n \in schema.nodes /\ n \in Public
    BY <1>1, <2>2 DEF Typed, Public
  <2>4. CASE progress[n] = "new"
    BY <2>1, <2>2, <2>3, <2>4, RulesPushed DEF EnterPublic, Marked
  <2>5. CASE progress[n] # "new"
    BY <2>1, <2>2, <2>5 DEF Rules, Validation
  <2> QED
    BY <2>4, <2>5
<1>3. CASE FollowRef
  <2>1. /\ phase = "validate" /\ stack # <<>> /\ Target(Top.node) # None
        /\ Kind(Top.node) = "ref" /\ UNCHANGED <<schema, phase>>
        /\ stack' = Append(stack, Frame(Target(Top.node)))
        /\ progress' = [progress EXCEPT ![Target(Top.node)] = "in_progress"]
    BY <1>3 DEF FollowRef, Validating, EnterPublic, Marked
  <2>2. Target(Top.node) \in Public /\ Target(Top.node) \in schema.nodes
    <3>1. Top.node \in schema.nodes
      BY <1>1, <2>1, TopFacts
    <3>2. schema.target[Top.node] \in schema.public \cup {None}
      BY <1>1, <3>1, SchemaFacts
    <3> QED
      BY <1>1, <2>1, <3>2 DEF Target, Public
  <2> QED
    BY <2>1, <2>2, RulesPushed
<1>4. CASE ValidateElement
  <2>1. /\ phase = "validate" /\ stack # <<>> /\ Top.next <= Len(Elements(Top.node))
        /\ UNCHANGED <<schema, phase, progress>>
        /\ stack' = Append(stack, Frame(Elements(Top.node)[Top.next]))
    BY <1>4 DEF ValidateElement, Validating, validator
  <2>2. /\ Elements(Top.node)[Top.next] \in schema.nodes
        /\ Elements(Top.node)[Top.next] \notin Public
        /\ Top.next \in DOMAIN Elements(Top.node)
    <3>1. Top.node \in schema.nodes /\ Top.next \in Nat /\ Top.next # 0
      BY <1>1, <2>1, TopFacts
    <3>2. /\ DOMAIN schema.elements[Top.node] = 1 .. Len(schema.elements[Top.node])
          /\ Len(schema.elements[Top.node]) \in Nat
          /\ \A j \in DOMAIN schema.elements[Top.node] :
                 schema.elements[Top.node][j] \in schema.nodes \ schema.public
      BY <1>1, <3>1, SchemaFacts
    <3>3. Top.next \in 1 .. Len(schema.elements[Top.node])
      BY <2>1, <3>1, <3>2 DEF Elements
    <3> QED
      BY <3>2, <3>3 DEF Elements, Public
  <2> QED
    BY <2>1, <2>2, RulesPushed
<1> QED
  BY <1>2, <1>3, <1>4

\* An encoding gets its size.
LEMMA RulesOfReturns ==
    ASSUME Inv, Rules, ReturnLeaf \/ ReturnComposite \/ ReturnRef
    PROVE  Rules'
<1>1. /\ phase = "validate" /\ stack # <<>> /\ Typed /\ Walk /\ Sized
      /\ schema \in Schemas /\ stack \in Seq(FrameSet) /\ size \in [DOMAIN size -> Nat]
  BY DEF ReturnLeaf, ReturnComposite, ReturnRef, Validating, Inv, Validation, Typed
<1>2. PICK n : n = Top.node
  OBVIOUS
<1>3. PICK k : k = Len(stack)
  OBVIOUS
<1>4. /\ n \in schema.nodes /\ schema.target[n] \in schema.public \cup {None}
      /\ schema.width[n] \in Nat /\ Top.offset \in Nat /\ Top = stack[k]
      /\ k \in Nat /\ k \in 1 .. k /\ k # 0
  <2>1. /\ n \in schema.nodes /\ Top.offset \in Nat /\ Top = stack[k]
        /\ k \in Nat /\ k \in 1 .. k /\ k # 0
    BY <1>1, <1>2, <1>3, TopFacts
  <2> QED
    BY <1>1, <2>1, SchemaFacts
<1>5. n \notin DOMAIN size
  BY <1>1, <1>2, <1>3, <1>4 DEF Walk
<1>6. Inv'
  BY ValidatorKeeps
<1>7. PICK bytes \in Nat : Return(bytes)
  <2>1. CASE ReturnLeaf
    BY <1>2, <1>4, <2>1 DEF ReturnLeaf
  <2>2. CASE ReturnComposite
    BY <1>2, <1>4, <2>2 DEF ReturnComposite
  <2>3. CASE ReturnRef
    <3>1. Target(n) \in Public /\ progress[Target(n)] = "complete"
      BY <1>2, <1>4, <2>3 DEF ReturnRef, Target, Public
    <3>2. Target(n) \in DOMAIN size
      BY <1>1, <3>1 DEF Sized
    <3>3. size[Target(n)] \in Nat
      BY <1>1, <3>2
    <3> QED
      BY <1>2, <2>3, <3>2, <3>3 DEF ReturnRef
  <2> QED
    BY <2>1, <2>2, <2>3
<1>8. /\ DOMAIN size' = DOMAIN size \cup {n}
      /\ stack' = ReturnTo(Front(stack), n, bytes)
      /\ progress' = IF n \in Public THEN [progress EXCEPT ![n] = "complete"] ELSE progress
      /\ UNCHANGED <<schema, phase>>
  BY <1>2, <1>5, <1>7 DEF Return
<1>9. Returned(k, n, stack[k - 1], stack', bytes)
  <2>1. Returned(k, n, stack[k - 1], ReturnTo(Front(stack), n, bytes), bytes)
    BY <1>1, <1>2, <1>3, ReturnToFacts
  <2> QED
    BY <1>8, <2>1
<1>10. Chained(schema, stack')
  <2>1. PICK tt : tt = stack'
    OBVIOUS
  <2>2. /\ Len(tt) = k - 1
        /\ \A i \in 1 .. k - 2 : tt[i] = stack[i]
        /\ k # 1 => tt[k - 1].node = stack[k - 1].node
    BY <1>9, <2>1 DEF Returned
  <2>3. Len(tt) \in Nat /\ Len(stack) \in Nat /\ Len(tt) <= Len(stack)
    BY <1>3, <1>4, <2>2
  <2>4. \A i \in 1 .. Len(tt) : k # 1 /\ (i \in 1 .. k - 2 \/ i = k - 1)
    BY <1>4, <2>2
  <2>5. \A i \in 1 .. Len(tt) : tt[i].node = stack[i].node
    BY <2>2, <2>4
  <2>6. Chained(schema, stack)
    BY <1>1 DEF Rules
  <2>7. Chained(schema, tt)
    BY <2>3, <2>5, <2>6, ChainedPopped
  <2> QED
    BY <2>1, <2>7
<1>11. Acyclic(schema, progress')
  <2>1. Acyclic(schema, progress)
    BY DEF Rules
  <2>2. progress \in [schema.public -> {"new", "in_progress", "complete"}]
    BY <1>1 DEF Typed, Public
  <2>3. CASE n \notin Public
    BY <1>8, <2>1, <2>3
  <2>4. CASE n \in Public
    <3>1. n \in schema.public /\ schema.kind[n] # "ref" /\ progress[n] # "complete"
      <4>1. n \in schema.public
        BY <2>4 DEF Public
      <4>2. progress[n] = "in_progress"
        BY <1>1, <1>2, <1>3, <1>4, <2>4 DEF Walk
      <4> QED
        BY <1>1, <4>1, <4>2, SchemaFacts
    <3>2. \A x \in schema.public : x # n /\ progress'[x] = "complete" => progress[x] = "complete"
      BY <1>8, <2>2, <2>4
    <3>3. \A x \in InsideOf(schema, n) : x = n \/ x \in DOMAIN size
      <4>1. Typed' /\ Sized' /\ n \in DOMAIN size'
        BY <1>6, <1>8 DEF Inv
      <4>2. InsideOf(schema', n) \subseteq DOMAIN size'
        <5> DEFINE D == DOMAIN size'
        <5>1. \A x \in D : \A j \in DOMAIN schema.elements[x] : schema.elements[x][j] \in D
          BY <1>8, <4>1 DEF Sized, Elements
        <5>2. \A x \in D \cap schema.nodes : \A j \in DOMAIN schema.elements[x] :
                  schema.elements[x][j] \in D
          BY <5>1
        <5>3. n \in D
          BY <4>1
        <5> HIDE DEF D
        <5>4. InsideOf(schema, n) \subseteq D
          BY <1>1, <1>4, <5>2, <5>3, InsideFacts
        <5> QED
          BY <1>8, <5>4 DEF D
      <4> QED
        BY <1>8, <4>2
    <3>4. \A x \in DOMAIN size : schema.kind[x] = "ref" => progress[schema.target[x]] = "complete"
      BY <1>1 DEF Sized, Kind, Target, Public
    <3>5. \A y \in RefersOf(schema, n) : progress[y] = "complete"
      BY <3>1, <3>3, <3>4 DEF RefersOf
    <3>6. \A x \in schema.public : progress[x] = "complete" =>
              \A y \in RefersOf(schema, x) : progress[y] = "complete"
      <4> SUFFICES ASSUME NEW x \in schema.public, progress[x] = "complete"
                   PROVE  \A y \in RefersOf(schema, x) : progress[y] = "complete"
        OBVIOUS
      <4>1. x \in DOMAIN size
        BY <1>1 DEF Sized, Public
      <4> QED
        BY <1>1, <4>1, CompleteRefers
    <3>7. \A x \in schema.public : x = n \/ progress[x] = "complete" =>
              \A y \in RefersOf(schema, x) : progress[y] = "complete"
      BY <3>5, <3>6
    <3> QED
      BY <2>1, <3>1, <3>2, <3>7, AcyclicCompletes
  <2> QED
    BY <2>3, <2>4
<1> QED
  BY <1>1, <1>8, <1>10, <1>11 DEF Rules, Validation

\* A ref to nothing is not sound.
LEMMA MissingIsUnsound ==
    ASSUME Inv, Rules, RejectMissing
    PROVE  ~SoundIn(schema)
<1>1. /\ phase = "validate" /\ stack # <<>> /\ Typed /\ schema \in Schemas
      /\ Kind(Top.node) = "ref" /\ Target(Top.node) = None
  BY DEF RejectMissing, Validating, Inv, Typed
<1>2. Len(stack) \in 1 .. Len(stack) /\ Top = stack[Len(stack)]
  BY <1>1, TopFacts
<1>3. PICK k \in 1 .. Len(stack) :
          /\ stack[k].node \in schema.public
          /\ stack[Len(stack)].node \in InsideOf(schema, stack[k].node)
  BY <1>1, <1>2 DEF Rules, Chained
<1>4. None \in RefersOf(schema, stack[k].node)
  BY <1>1, <1>2, <1>3 DEF RefersOf, Kind, Target
<1> QED
  BY <1>3, <1>4 DEF SoundIn

\* A ref to what is being validated closes a circle of public encodings, those
\* on the stack from there on.
LEMMA CycleIsUnsound ==
    ASSUME Inv, Rules, RejectCycle
    PROVE  ~SoundIn(schema)
<1>1. /\ phase = "validate" /\ stack # <<>> /\ Typed /\ Walk /\ schema \in Schemas
      /\ Kind(Top.node) = "ref" /\ Target(Top.node) # None
      /\ progress[Target(Top.node)] = "in_progress"
  BY DEF RejectCycle, Validating, Inv, Typed, Validation
<1>2. PICK m : m = Len(stack)
  OBVIOUS
<1>3. PICK t : t = Target(Top.node)
  OBVIOUS
<1>4. m \in Nat /\ m \in 1 .. m /\ Top = stack[m] /\ t \in schema.public
  <2>1. m \in Nat /\ m \in 1 .. m /\ Top = stack[m] /\ Top.node \in schema.nodes
    BY <1>1, <1>2, TopFacts
  <2>2. schema.target[Top.node] \in schema.public \cup {None}
    BY <1>1, <2>1, SchemaFacts
  <2> QED
    BY <1>1, <1>3, <2>1, <2>2 DEF Target
<1>5. PICK i \in 1 .. m : stack[i].node = t
  BY <1>1, <1>2, <1>3, <1>4 DEF Walk, Public
<1> DEFINE On == {j \in i .. m : stack[j].node \in schema.public}
           S  == {stack[j].node : j \in On}
<1>6. S \in SUBSET schema.public /\ t \in S
  <2>1. i \in i .. m
    BY <1>4
  <2> QED
    BY <1>4, <1>5, <2>1
<1>7. ASSUME NEW n \in S
      PROVE  RefersOf(schema, n) \cap S # {}
  <2>1. PICK j \in i .. m : stack[j].node = n /\ n \in schema.public
    OBVIOUS
  <2>2. j \in 1 .. m /\ j <= m
    BY <1>4, <2>1
  <2>3. \/ stack[m].node \in InsideOf(schema, n)
        \/ \E l \in 1 .. m : /\ j < l /\ l <= m
                             /\ stack[l].node \in schema.public
                             /\ stack[l].node \in RefersOf(schema, n)
    BY <1>1, <1>2, <1>4, <2>1, <2>2 DEF Rules, Chained
  <2>4. CASE stack[m].node \in InsideOf(schema, n)
    <3>1. t \in RefersOf(schema, n)
      BY <1>1, <1>3, <1>4, <2>4 DEF RefersOf, Kind, Target
    <3> QED
      BY <1>6, <3>1
  <2>5. CASE \E l \in 1 .. m : /\ j < l /\ l <= m
                               /\ stack[l].node \in schema.public
                               /\ stack[l].node \in RefersOf(schema, n)
    <3>1. PICK l \in 1 .. m : /\ j < l /\ l <= m
                              /\ stack[l].node \in schema.public
                              /\ stack[l].node \in RefersOf(schema, n)
      BY <2>5
    <3>2. l \in i .. m
      BY <1>4, <2>1, <3>1
    <3>3. stack[l].node \in S
      BY <3>1, <3>2
    <3> QED
      BY <3>1, <3>3
  <2> QED
    BY <2>3, <2>4, <2>5
<1> HIDE DEF S
<1>8. S \in (SUBSET schema.public) \ {{}}
  BY <1>6
<1> QED
  BY <1>7, <1>8 DEF SoundIn

\* When all encodings are complete, nothing was wrong with them.
LEMMA AcceptedIsSound ==
    ASSUME Inv, Rules, phase = "validate", Inv', EncodingsValid
    PROVE  SoundIn(schema)
<1>1. /\ Typed /\ Sized /\ schema \in Schemas /\ Public \subseteq DOMAIN size
      /\ schema.public \subseteq schema.nodes /\ None \notin schema.nodes
  <2>1. phase' \notin Validation /\ UNCHANGED <<schema, size>>
    BY DEF EncodingsValid, Validation, validator
  <2>2. (phase \notin Validation => Public \subseteq DOMAIN size)'
    BY DEF Inv
  <2>3. Validation' = Validation /\ Public' = Public
    BY <2>1 DEF Validation, Public
  <2> QED
    BY <2>1, <2>2, <2>3, SchemaFacts DEF Inv, Typed
<1>2. \A n \in schema.public : progress[n] = "complete"
  BY <1>1 DEF Sized, Public
<1>3. ASSUME NEW n \in schema.public
      PROVE  None \notin RefersOf(schema, n)
  <2>1. n \in DOMAIN size
    BY <1>1 DEF Public
  <2> QED
    BY <1>1, <2>1, CompleteRefers
<1>4. ASSUME NEW S \in (SUBSET schema.public) \ {{}}
      PROVE  \E n \in S : RefersOf(schema, n) \cap S = {}
  BY <1>2 DEF Rules, Acyclic
<1> QED
  BY <1>3, <1>4 DEF SoundIn

LEMMA RulesOfStep ==
    ASSUME CompilerInv, Rules, [Next]_vars
    PROVE  Rules'
<1>0. Inv /\ Inv'
  <2>1. CompilerInv'
    BY EveryStep
  <2> QED
    BY <2>1 DEF CompilerInv
<1>1. CASE ValidateNext \/ FollowRef \/ ValidateElement
  BY <1>0, <1>1, RulesOfPushes
<1>2. CASE ReturnLeaf \/ ReturnComposite \/ ReturnRef
  BY <1>0, <1>2, RulesOfReturns
<1>3. CASE RejectMissing \/ RejectCycle
  <2>1. ~SoundIn(schema)
    BY <1>0, <1>3, MissingIsUnsound, CycleIsUnsound
  <2>2. phase' = "rejected" /\ UNCHANGED <<schema, progress>>
    BY <1>3 DEF RejectMissing, RejectCycle, Stop, validator
  <2> QED
    BY <2>1, <2>2 DEF Rules, Validation
<1>4. CASE EncodingsValid
  <2>1. phase = "validate" /\ phase' = "types" /\ UNCHANGED <<schema, progress>>
    BY <1>4 DEF EncodingsValid, validator
  <2>2. SoundIn(schema)
    BY <1>0, <1>4, <2>1, AcceptedIsSound
  <2> QED
    BY <2>1, <2>2 DEF Rules, Validation
<1>5. CASE \/ CompileNext \/ CompileElement \/ CompileCall
           \/ CompiledInline \/ CompiledPublic \/ TypesCompiled \/ WriteTags
           \/ WriteMessage \/ MessagesCompiled \/ WriteTop
  <2>1. UNCHANGED <<schema, progress>>
    BY <1>5 DEF CompileNext, CompileElement, CompileCall,
       CompiledInline, CompiledPublic, TypesCompiled, WriteTags, WriteMessage,
       MessagesCompiled, WriteTop, CannotWrite, Stop, validator
  <2>2. phase \notin Validation /\ phase' \notin {"validate", "rejected"}
    BY <1>5 DEF CompileNext, CompileElement, CompileCall,
       CompiledInline, CompiledPublic, TypesCompiled, WriteTags, WriteMessage,
       MessagesCompiled, WriteTop, CannotWrite, Stop, Validation, Compiling, Compiled
  <2> QED
    BY <2>1, <2>2 DEF Rules
<1>6. CASE UNCHANGED vars
  BY <1>6 DEF Rules, vars, validator, Validation
<1> QED
  BY <1>1, <1>2, <1>3, <1>4, <1>5, <1>6 DEF Next

\* A schema is rejected exactly if a ref of an encoding leads nowhere or back
\* to where it came from, and no context is made twice or used before it is
\* made, for every schema and every order of the map of types.
THEOREM RejectionExact == Spec => []RejectsExactly
<1>1. Init => Rules
  <2> SUFFICES ASSUME Init
               PROVE  Rules
    OBVIOUS
  <2>1. phase = "validate" /\ stack = <<>> /\ progress = [n \in Public |-> "new"]
    BY DEF Init
  <2>2. 1 .. Len(stack) = {}
    BY <2>1
  <2>3. Chained(schema, stack)
    BY <2>2 DEF Chained
  <2>4. Acyclic(schema, progress)
    BY <2>1 DEF Acyclic, Public
  <2> QED
    BY <2>1, <2>3, <2>4 DEF Rules, Validation
<1>2. CompilerInv /\ Rules /\ [Next]_vars => Rules'
  BY RulesOfStep
<1>3. CompilerInv /\ Rules => RejectsExactly
  BY SoundIsSound DEF CompilerInv, Inv, Rules, RejectsExactly, Validation
<1> QED
  BY <1>1, <1>2, <1>3, Invariance, PTL DEF Spec

-----------------------------------------------------------------------------
(* The names in headers.                                                   *)

LEMMA ElementFacts ==
    ASSUME NEW s \in Schemas, NEW n \in s.nodes
    PROVE  \A q \in 1 .. Len(s.elements[n]) :
               /\ q \in DOMAIN s.elements[n]
               /\ s.elements[n][q] \in s.nodes /\ s.elements[n][q] \notin s.public
<1>1. DOMAIN s.elements[n] = 1 .. Len(s.elements[n])
  BY SchemaFacts
<1>2. \A j \in DOMAIN s.elements[n] : s.elements[n][j] \in s.nodes \ s.public
  BY SchemaFacts
<1> QED
  BY <1>1, <1>2

\* What is inside of an encoding is itself, or inside of an element.
LEMMA InsideParts ==
    ASSUME NEW s \in Schemas, NEW n \in s.nodes, NEW y \in InsideOf(s, n), y # n
    PROVE  \E q \in 1 .. Len(s.elements[n]) : y \in InsideOf(s, s.elements[n][q])
<1> DEFINE P == UNION {InsideOf(s, s.elements[n][q]) : q \in 1 .. Len(s.elements[n])}
<1>1. \A q \in DOMAIN s.elements[n] :
          q \in 1 .. Len(s.elements[n]) /\ s.elements[n][q] \in s.nodes
  BY SchemaFacts
<1>2. ASSUME NEW q \in DOMAIN s.elements[n]
      PROVE  s.elements[n][q] \in P
  BY <1>1, InsideFacts
<1>3. ASSUME NEW x \in P \cap s.nodes, NEW j \in DOMAIN s.elements[x]
      PROVE  s.elements[x][j] \in P
  <2>1. PICK q \in 1 .. Len(s.elements[n]) : x \in InsideOf(s, s.elements[n][q])
    OBVIOUS
  <2>2. s.elements[n][q] \in s.nodes
    BY ElementFacts
  <2>3. s.elements[x][j] \in InsideOf(s, s.elements[n][q])
    BY <2>1, <2>2, InsideFacts
  <2> QED
    BY <2>3
<1> HIDE DEF P
<1>4. PICK D : D = P \cup {n}
  OBVIOUS
<1>5. \A x \in D \cap s.nodes : \A j \in DOMAIN s.elements[x] : s.elements[x][j] \in D
  BY <1>2, <1>3, <1>4
<1>6. n \in D
  BY <1>4
<1>7. InsideOf(s, n) \subseteq D
  BY <1>5, <1>6, InsideFacts
<1>8. y \in P
  BY <1>4, <1>7
<1> QED
  BY <1>8 DEF P

\* A composite names what its elements do, any other encoding what it does itself.
LEMMA NamesInside ==
    ASSUME NEW s \in Schemas, NEW n \in s.nodes
    PROVE  /\ s.kind[n] # "composite" => NamedInside(s, n) = NamedBy(s, n)
           /\ s.kind[n] = "composite" =>
                  \A x \in NamedInside(s, n) : \E q \in 1 .. Len(s.elements[n]) :
                      x \in NamedInside(s, s.elements[n][q])
<1>1. n \in InsideOf(s, n)
  BY InsideFacts
<1>2. CASE s.kind[n] # "composite"
  <2>1. 1 .. Len(s.elements[n]) = {}
    <3>1. Len(s.elements[n]) = 0
      BY <1>2, SchemaFacts
    <3> QED
      BY <3>1
  <2>2. InsideOf(s, n) = {n}
    BY <1>1, <2>1, InsideParts
  <2> QED
    BY <1>2, <2>2 DEF NamedInside
<1>3. CASE s.kind[n] = "composite"
  <2>1. s.target[n] = None
    BY <1>3, SchemasAssumption DEF IsSchema
  <2>2. NamedBy(s, n) = {}
    BY <1>3, <2>1 DEF NamedBy
  <2>3. ASSUME NEW x \in NamedInside(s, n)
        PROVE  \E q \in 1 .. Len(s.elements[n]) : x \in NamedInside(s, s.elements[n][q])
    <3>1. PICK y \in InsideOf(s, n) : x \in NamedBy(s, y)
      BY DEF NamedInside
    <3>2. y # n
      BY <2>2, <3>1
    <3>3. PICK q \in 1 .. Len(s.elements[n]) : y \in InsideOf(s, s.elements[n][q])
      BY <3>2, InsideParts
    <3> QED
      BY <3>1, <3>3 DEF NamedInside
  <2> QED
    BY <1>3, <2>3
<1> QED
  BY <1>2, <1>3

\* Once the frame on top has made all calls, its names are on top as well.
LEMMA TopDone ==
    ASSUME NEW s \in Schemas, NEW st, NEW ds, NEW lv, NEW m \in Nat, m # 0,
           Len(st) = m, Noted(s, st, ds, lv),
           st[m].node \in s.nodes, Range(st[m].calls) = {}
    PROVE  \A q \in 1 .. Len(s.elements[st[m].node]) : q < st[m].next =>
               NamedInside(s, s.elements[st[m].node][q]) \subseteq ds[Len(ds)]
<1>1. m \in 1 .. m /\ ~(m + 1 \in 1 .. m)
  OBVIOUS
<1>2. lv[m] = Len(ds)
  BY DEF Noted
<1> SUFFICES ASSUME NEW q \in 1 .. Len(s.elements[st[m].node]), q < st[m].next
             PROVE  NamedInside(s, s.elements[st[m].node][q]) \subseteq ds[Len(ds)]
  OBVIOUS
<1>3. PICK e : e = s.elements[st[m].node][q]
  OBVIOUS
<1>4. HasNoted(s, st, ds[lv[m]], m, q)
  BY <1>1 DEF Noted
<1>5. \/ NamedInside(s, e) \subseteq ds[lv[m]]
      \/ s.kind[e] # "composite" /\ NamedBy(s, e) \subseteq ds[lv[m]]
  BY <1>1, <1>3, <1>4 DEF HasNoted
<1>6. e \in s.nodes
  BY <1>3, ElementFacts
<1>7. s.kind[e] # "composite" => NamedInside(s, e) = NamedBy(s, e)
  BY <1>6, NamesInside
<1> QED
  BY <1>2, <1>3, <1>5, <1>7

\* A frame with all it has noted, in es instead of ds.
LEMMA NotedGrows ==
    ASSUME NEW s, NEW st, NEW tt, NEW d, NEW e, NEW i, NEW q,
           d \subseteq e, HasNoted(s, st, d, i, q), tt[i] = st[i],
           i + 1 \in 1 .. Len(st) =>
               i + 1 \in 1 .. Len(tt) /\ tt[i + 1].node = st[i + 1].node
    PROVE  HasNoted(s, tt, e, i, q)
BY DEF HasNoted

\* The frame on top is another, and calls a function or not.
Above(s, m, st, tt, ds, es) ==
    /\ Len(st) = m
    /\ Len(tt) = m \/ Len(tt) = m + 1
    /\ \A i \in 1 .. m - 1 : tt[i] = st[i]
    /\ tt[m].node = st[m].node
    /\ \A j \in 1 .. Len(ds) : ds[j] \subseteq es[j]
    /\ Len(tt) = m => Len(es) = Len(ds)
    /\ Len(tt) = m + 1 =>
           /\ tt[m + 1].next = 1
           /\ Len(es) = IF tt[m + 1].node \in s.public THEN Len(ds) + 1 ELSE Len(ds)

LEMMA NotedAbove ==
    ASSUME NEW s, NEW st, NEW tt, NEW ds, NEW es, NEW lv, NEW m \in Nat, m # 0,
           Len(ds) \in Nat, Above(s, m, st, tt, ds, es), Noted(s, st, ds, lv),
           \A q \in 1 .. Len(s.elements[tt[m].node]) : q < tt[m].next =>
               HasNoted(s, tt, es[Len(ds)], m, q)
    PROVE  \E lw : Noted(s, tt, es, lw)
<1>1. PICK top : top = IF Len(tt) = m + 1 /\ tt[m + 1].node \in s.public
                       THEN Len(ds) + 1 ELSE Len(ds)
  OBVIOUS
<1>2. PICK lw : lw = [i \in 1 .. m + 1 |-> IF i = m + 1 THEN top ELSE lv[i]]
  OBVIOUS
<1>3. /\ \A i \in 1 .. m : i \in 1 .. m + 1 /\ i # m + 1
      /\ m + 1 \in 1 .. m + 1 /\ 1 \in 1 .. m /\ m \in 1 .. m
      /\ \A i \in 1 .. Len(tt) : i \in 1 .. m \/ (i = m + 1 /\ Len(tt) = m + 1)
      /\ \A i \in 1 .. m : i \in 1 .. m - 1 \/ i = m
      /\ \A i \in 1 .. m - 1 : i \in 1 .. m /\ i + 1 \in 1 .. m /\ i + 1 \in 1 .. Len(tt)
  BY DEF Above
<1>4. /\ \A i \in 1 .. m : lw[i] = lv[i]
      /\ lw[m + 1] = top
  BY <1>2, <1>3
<1>5. /\ lv[1] = 2 /\ lv[m] = Len(ds)
      /\ \A i \in 1 .. m : lv[i] \in 1 .. Len(ds)
  BY DEF Noted, Above
<1>6. /\ Len(tt) = m + 1 => top = Len(es)
      /\ Len(tt) = m => Len(es) = Len(ds)
      /\ Len(ds) <= top
      /\ Len(ds) <= Len(es) /\ Len(es) \in Nat /\ top \in Nat
  BY <1>1 DEF Above
<1>7. Len(tt) # 0 => lw[1] = 2 /\ lw[Len(tt)] = Len(es)
  BY <1>3, <1>4, <1>5, <1>6 DEF Above
<1>8. \A i \in 1 .. m : lv[i] \in 1 .. Len(es) /\ lv[i] <= top
  BY <1>5, <1>6
<1>9. ASSUME NEW i \in 1 .. Len(tt)
      PROVE  lw[i] \in 1 .. Len(es)
  <2>1. CASE i \in 1 .. m
    BY <1>4, <1>8, <2>1
  <2>2. CASE i = m + 1 /\ Len(tt) = m + 1
    <3>1. Len(ds) \in 1 .. Len(ds)
      BY <1>3, <1>5
    <3>2. top \in 1 .. Len(es)
      BY <1>6, <2>2, <3>1
    <3> QED
      BY <1>4, <2>2, <3>2
  <2> QED
    BY <1>3, <2>1, <2>2
<1>10. ASSUME NEW i \in 1 .. Len(tt), NEW j \in 1 .. Len(tt), i <= j
       PROVE  lw[i] <= lw[j]
  <2>1. CASE i \in 1 .. m /\ j \in 1 .. m
    BY <1>4, <1>10, <2>1 DEF Noted, Above
  <2>2. CASE i \in 1 .. m /\ j = m + 1
    BY <1>4, <1>8, <2>2
  <2>3. CASE i = m + 1
    <3>1. j = m + 1
      BY <1>3, <1>10, <2>3
    <3> QED
      BY <1>4, <1>6, <2>3, <3>1
  <2> QED
    BY <1>3, <2>1, <2>2, <2>3
<1>11. ASSUME NEW i \in 1 .. Len(tt), i + 1 \in 1 .. Len(tt)
       PROVE  lw[i + 1] = IF tt[i + 1].node \in s.public THEN lw[i] + 1 ELSE lw[i]
  <2>1. CASE i + 1 \in 1 .. m
    <3>1. i \in 1 .. m
      BY <2>1
    <3>2. tt[i + 1].node = st[i + 1].node
      <4>1. CASE i + 1 \in 1 .. m - 1
        BY <4>1 DEF Above
      <4>2. CASE i + 1 = m
        BY <4>2 DEF Above
      <4> QED
        BY <1>3, <2>1, <4>1, <4>2
    <3>3. lv[i + 1] = IF st[i + 1].node \in s.public THEN lv[i] + 1 ELSE lv[i]
      BY <2>1, <3>1 DEF Noted, Above
    <3> QED
      BY <1>4, <2>1, <3>1, <3>2, <3>3
  <2>2. CASE i + 1 = m + 1 /\ Len(tt) = m + 1
    <3>1. i = m /\ i \in 1 .. m
      BY <1>3, <2>2
    <3> QED
      BY <1>1, <1>4, <1>5, <2>2, <3>1
  <2> QED
    BY <1>3, <1>11, <2>1, <2>2
<1>12. ASSUME NEW i \in 1 .. Len(tt), NEW q \in 1 .. Len(s.elements[tt[i].node]),
              q < tt[i].next
       PROVE  HasNoted(s, tt, es[lw[i]], i, q)
  <2>1. CASE i \in 1 .. m - 1
    <3>1. i \in 1 .. m /\ tt[i] = st[i] /\ i + 1 \in 1 .. m
      BY <1>3, <2>1 DEF Above
    <3>2. HasNoted(s, st, ds[lv[i]], i, q)
      BY <1>12, <3>1 DEF Noted, Above
    <3>3. ds[lv[i]] \subseteq es[lv[i]]
      BY <1>5, <3>1 DEF Above
    <3>4. tt[i + 1].node = st[i + 1].node
      <4>1. CASE i + 1 \in 1 .. m - 1
        BY <4>1 DEF Above
      <4>2. CASE i + 1 = m
        BY <4>2 DEF Above
      <4> QED
        BY <1>3, <3>1, <4>1, <4>2
    <3>5. i + 1 \in 1 .. Len(tt)
      BY <1>3, <2>1
    <3>6. HasNoted(s, tt, es[lv[i]], i, q)
      BY <3>1, <3>2, <3>3, <3>4, <3>5, NotedGrows
    <3> QED
      BY <1>4, <3>1, <3>6
  <2>2. CASE i = m
    BY <1>3, <1>4, <1>5, <1>12, <2>2
  <2>3. CASE i = m + 1 /\ Len(tt) = m + 1
    <3>1. tt[i].next = 1
      BY <2>3 DEF Above
    <3>2. q \in Nat /\ q >= 1
      OBVIOUS
    <3> QED
      BY <1>12, <3>1, <3>2
  <2> QED
    BY <1>3, <2>1, <2>2, <2>3
<1> QED
  BY <1>7, <1>9, <1>10, <1>11, <1>12 DEF Noted

\* The frame on top returns, and the one below has what it needs of it.
LEMMA NotedBelow ==
    ASSUME NEW s, NEW st, NEW tt, NEW ds, NEW es, NEW lv, NEW m \in Nat, m # 0,
           Len(st) = m, Len(tt) = m - 1, \A i \in 1 .. m - 1 : tt[i] = st[i],
           m # 1 => Len(es) = lv[m - 1] /\ \A j \in 1 .. lv[m - 1] : es[j] = ds[j],
           Len(ds) \in Nat, Noted(s, st, ds, lv),
           m # 1 => \A q \in 1 .. Len(s.elements[st[m - 1].node]) :
                        q < st[m - 1].next => HasNoted(s, tt, ds[lv[m - 1]], m - 1, q)
    PROVE  Noted(s, tt, es, lv)
<1>1. /\ \A i \in 1 .. Len(tt) :
             i \in 1 .. m /\ m - 1 \in 1 .. m /\ m # 1 /\ i <= m - 1
      /\ \A i \in 1 .. Len(tt) : i + 1 \in 1 .. m
      /\ \A i \in 1 .. Len(tt) : i = m - 1 \/ i + 1 \in 1 .. Len(tt)
      /\ Len(tt) # 0 => m # 1 /\ m - 1 \in 1 .. m
  OBVIOUS
<1>2. /\ lv[1] = 2 /\ lv[m] = Len(ds)
      /\ \A i \in 1 .. m : lv[i] \in 1 .. Len(ds)
      /\ \A i \in 1 .. m, j \in 1 .. m : i <= j => lv[i] <= lv[j]
  BY DEF Noted
<1>3. \A i \in 1 .. Len(tt) : lv[i] \in 1 .. lv[m - 1]
  <2> SUFFICES ASSUME NEW i \in 1 .. Len(tt)
               PROVE  lv[i] \in 1 .. lv[m - 1]
    OBVIOUS
  <2>1. i \in 1 .. m /\ m - 1 \in 1 .. m /\ i <= m - 1
    BY <1>1
  <2>2. lv[i] \in 1 .. Len(ds) /\ lv[m - 1] \in 1 .. Len(ds)
    BY <1>2, <2>1
  <2>3. lv[i] <= lv[m - 1]
    BY <1>2, <2>1
  <2> QED
    BY <2>2, <2>3
<1>4. Len(tt) # 0 => lv[1] = 2 /\ lv[Len(tt)] = Len(es)
  BY <1>1, <1>2
<1>5. ASSUME NEW i \in 1 .. Len(tt)
      PROVE  lv[i] \in 1 .. Len(es)
  BY <1>1, <1>3
<1>6. ASSUME NEW i \in 1 .. Len(tt), i + 1 \in 1 .. Len(tt)
      PROVE  lv[i + 1] = IF tt[i + 1].node \in s.public THEN lv[i] + 1 ELSE lv[i]
  <2>1. tt[i + 1] = st[i + 1]
    BY <1>6
  <2> QED
    BY <1>1, <2>1 DEF Noted
<1>7. ASSUME NEW i \in 1 .. Len(tt), NEW q \in 1 .. Len(s.elements[tt[i].node]),
             q < tt[i].next
      PROVE  HasNoted(s, tt, es[lv[i]], i, q)
  <2>1. tt[i] = st[i] /\ es[lv[i]] = ds[lv[i]]
    BY <1>1, <1>3
  <2>2. CASE i = m - 1
    BY <1>1, <1>7, <2>1, <2>2
  <2>3. CASE i + 1 \in 1 .. Len(tt)
    <3>1. HasNoted(s, st, ds[lv[i]], i, q)
      BY <1>1, <1>7, <2>1 DEF Noted
    <3>2. tt[i + 1].node = st[i + 1].node
      BY <2>3
    <3> QED
      BY <2>1, <2>3, <3>1, <3>2, NotedGrows
  <2> QED
    BY <1>1, <2>2, <2>3
<1>8. \A i \in 1 .. Len(tt), j \in 1 .. Len(tt) : i <= j => lv[i] <= lv[j]
  BY <1>1, <1>2
<1> QED
  BY <1>4, <1>5, <1>6, <1>7, <1>8 DEF Noted

\* What an element names is what it calls.
LEMMA CallsNames ==
    ASSUME Typed, Sized, NEW e \in DOMAIN size, Kind(e) # "composite"
    PROVE  NamedBy(schema, e) \subseteq Range(Calls(e))
<1>1. schema \in Schemas /\ e \in schema.nodes
  BY DEF Typed
<1>2. IsSchema(schema)
  BY <1>1, SchemasAssumption
<1>3. CASE Kind(e) = "ref"
  <2>1. Calls(e) = <<Target(e)>> \o ValueRefOf(Target(e))
    BY <1>3 DEF Calls
  <2>2. CASE Kind(Target(e)) = "constant" /\ Target(Target(e)) # None
    <3>1. ValueRefOf(Target(e)) = <<Target(Target(e))>>
      BY <2>2 DEF ValueRefOf
    <3>2. PICK a, b : a = <<Target(e)>> /\ b = <<Target(Target(e))>>
      OBVIOUS
    <3>3. PICK S : S = {Target(e), Target(Target(e))}
      OBVIOUS
    <3>4. /\ a \in Seq(S) /\ b \in Seq(S) /\ Len(a) = 1 /\ Len(b) = 1
          /\ a[1] = Target(e) /\ b[1] = Target(Target(e))
      BY <3>2, <3>3
    <3>5. /\ Len(a \o b) = Len(a) + Len(b) /\ a \o b \in Seq(S)
          /\ \A i \in 1 .. Len(a) + Len(b) :
                 (a \o b)[i] = IF i <= Len(a) THEN a[i] ELSE b[i - Len(a)]
      BY <3>4, ConcatProperties
    <3>6. Calls(e) = a \o b
      BY <2>1, <3>1, <3>2
    <3>7. /\ Len(Calls(e)) = 2 /\ Calls(e) \in Seq(S)
          /\ \A i \in 1 .. 2 : Calls(e)[i] = IF i <= 1 THEN a[i] ELSE b[i - 1]
      BY <3>4, <3>5, <3>6
    <3>8. Calls(e)[1] = Target(e) /\ Calls(e)[2] = Target(Target(e)) /\ DOMAIN Calls(e) = 1 .. 2
      BY <3>4, <3>7
    <3>9. Target(e) \in Range(Calls(e)) /\ Target(Target(e)) \in Range(Calls(e))
      BY <3>8 DEF Range
    <3> QED
      BY <3>9, <1>3, <2>2 DEF NamedBy, Kind, Target
  <2>3. CASE ~(Kind(Target(e)) = "constant" /\ Target(Target(e)) # None)
    <3>1. ValueRefOf(Target(e)) = <<>>
      BY <2>3 DEF ValueRefOf
    <3>2. Calls(e) = <<Target(e)>>
      BY <2>1, <3>1
    <3>3. Calls(e)[1] = Target(e) /\ 1 \in DOMAIN Calls(e)
      BY <3>2
    <3>4. Target(e) \in Range(Calls(e))
      BY <3>3 DEF Range
    <3> QED
      BY <3>4, <1>3, <2>3 DEF NamedBy, Kind, Target
  <2> QED
    BY <2>2, <2>3
<1>4. CASE Kind(e) = "constant" /\ Target(e) # None
  <2>1. Calls(e) = <<Target(e)>>
    BY <1>4 DEF Calls, ValueRefOf
  <2>2. Calls(e)[1] = Target(e) /\ 1 \in DOMAIN Calls(e)
    BY <2>1
  <2>3. Target(e) \in Range(Calls(e))
    BY <2>2 DEF Range
  <2> QED
    BY <2>3, <1>4 DEF NamedBy, Kind, Target
<1>5. CASE Kind(e) # "ref" /\ ~(Kind(e) = "constant" /\ Target(e) # None)
  <2>1. Target(e) = None
    BY <1>1, <1>2, <1>5 DEF IsSchema, Kind, Target
  <2> QED
    BY <2>1, <1>5 DEF NamedBy, Kind, Target
<1> QED
  BY <1>3, <1>4, <1>5

NotedNow == phase = "types" => \E lv : Noted(schema, stack, deps, lv)

\* Turning to an element, whose calls are made next, or which is compiled next.
LEMMA NotedByElement ==
    ASSUME CompilerInv, NotedNow, CompileElement
    PROVE  NotedNow'
<1>1. PICK m : m = Len(stack)
  OBVIOUS
<1>2. PICK e : e = TopElement
  OBVIOUS
<1>3. PICK p : p = Passed(Calls(e))
  OBVIOUS
<1>4. /\ Compiling /\ Top.next <= Len(Elements(Top.node)) /\ Top.calls = <<>>
      /\ UNCHANGED <<schema, phase, deps>>
      /\ stack' = IF Kind(e) = "composite" THEN Append(p, Frame(e)) ELSE p
  BY <1>2, <1>3 DEF CompileElement, HasElement, Passed, compiler
<1>5. /\ Typed /\ Sized /\ schema \in Schemas /\ phase = "types" /\ stack # <<>>
      /\ deps \in Seq(SUBSET Public)
  BY <1>4, CompilingFacts
<1>6. /\ m \in Nat /\ m # 0 /\ m \in 1 .. m /\ Top = stack[m] /\ Top.node \in schema.nodes
      /\ Top.next \in Nat /\ Top.next # 0
  BY <1>1, <1>5, TopFacts
<1>7. /\ Top.next \in 1 .. Len(schema.elements[Top.node])
      /\ e = schema.elements[Top.node][Top.next]
  <2>1. Len(schema.elements[Top.node]) \in Nat
    BY <1>5, <1>6, SchemaFacts
  <2> QED
    BY <1>2, <1>4, <1>6, <2>1 DEF TopElement, Elements
<1>8. e \in DOMAIN size /\ e \in schema.nodes /\ e \notin schema.public
  <2>1. e \in schema.nodes /\ e \notin schema.public /\ Top.next \in DOMAIN Elements(Top.node)
    BY <1>5, <1>6, <1>7, ElementFacts DEF Elements
  <2>2. Top.node \in DOMAIN size
    BY <1>4, CompilingFacts
  <2> QED
    BY <1>5, <1>7, <2>1, <2>2 DEF Sized, Elements
<1>9. PICK c : c = Calls(e)
  OBVIOUS
<1>10. /\ p \in Seq(FrameSet) /\ Len(p) = m
       /\ \A i \in 1 .. m - 1 : p[i] = stack[i]
       /\ p[m].node = Top.node /\ p[m].next = Top.next + 1 /\ p[m].calls = c
  <2>1. c \in Seq(Public)
    BY <1>5, <1>8, <1>9, CallsFacts
  <2>2. OnTop(p, [node |-> Top.node, next |-> Top.next + 1,
                  offset |-> Top.offset, calls |-> c])
    BY <1>3, <1>5, <1>9, <2>1, PassedFacts
  <2> QED
    BY <1>1, <2>2 DEF OnTop
<1>11. PICK lv : Noted(schema, stack, deps, lv)
  BY <1>5 DEF NotedNow
<1>12. PICK tt : tt = stack'
  OBVIOUS
<1>13. /\ \A i \in 1 .. m : tt[i] = p[i]
       /\ Kind(e) = "composite" => /\ Len(tt) = m + 1 /\ tt[m + 1].node = e
                                   /\ tt[m + 1].next = 1
       /\ Kind(e) # "composite" => Len(tt) = m
  <2>1. Frame(e) \in FrameSet /\ Frame(e).node = e /\ Frame(e).next = 1
    BY <1>8 DEF Frame, FrameSet
  <2> QED
    BY <1>4, <1>10, <1>12, <2>1, AppendFacts
<1>14. Above(schema, m, stack, tt, deps, deps)
  <2>1. \A i \in 1 .. m - 1 : i \in 1 .. m
    BY <1>6
  <2> QED
    BY <1>1, <1>6, <1>8, <1>10, <1>13, <2>1 DEF Above
<1>15. ASSUME NEW q \in 1 .. Len(schema.elements[tt[m].node]), q < tt[m].next
       PROVE  HasNoted(schema, tt, deps[Len(deps)], m, q)
  <2>1. tt[m].node = stack[m].node /\ tt[m].next = stack[m].next + 1 /\ tt[m].calls = c
    BY <1>6, <1>10, <1>13
  <2>2. CASE q < stack[m].next
    <3>1. Range(stack[m].calls) = {}
      BY <1>4, <1>6 DEF Range
    <3>2. NamedInside(schema, schema.elements[stack[m].node][q]) \subseteq deps[Len(deps)]
      BY <1>1, <1>5, <1>6, <1>11, <2>1, <2>2, <3>1, TopDone
    <3> QED
      BY <2>1, <3>2 DEF HasNoted
  <2>3. CASE q = stack[m].next
    <3>1. e = schema.elements[tt[m].node][q] /\ q + 1 = tt[m].next
      BY <1>6, <1>7, <2>1, <2>3
    <3>2. CASE Kind(e) = "composite"
      <4>1. m + 1 \in 1 .. Len(tt) /\ tt[m + 1].node = e
        BY <1>6, <1>13, <3>2
      <4> QED
        BY <3>1, <3>2, <4>1 DEF HasNoted, Kind
    <3>3. CASE Kind(e) # "composite"
      <4>1. NamedBy(schema, e) \subseteq Range(c)
        BY <1>5, <1>8, <1>9, <3>3, CallsNames
      <4> QED
        BY <2>1, <3>1, <3>3, <4>1 DEF HasNoted, Kind
    <3> QED
      BY <3>2, <3>3
  <2> QED
    BY <1>6, <1>15, <2>1, <2>2, <2>3
<1>16. \E lw : Noted(schema, tt, deps, lw)
  <2>1. Len(deps) \in Nat
    BY <1>5
  <2> QED
    BY <1>6, <1>11, <1>14, <1>15, <2>1, NotedAbove
<1> QED
  BY <1>4, <1>12, <1>16 DEF NotedNow

\* Calling a function: what it is for has been noted already.
LEMMA NotedByCall ==
    ASSUME CompilerInv, NotedNow, CompileCall
    PROVE  NotedNow'
<1>1. PICK m : m = Len(stack)
  OBVIOUS
<1>2. PICK n : n = Head(Top.calls)
  OBVIOUS
<1>3. PICK p : p = Calling(Tail(Top.calls))
  OBVIOUS
<1>4. /\ Typed /\ Sized /\ schema \in Schemas /\ phase = "types" /\ stack # <<>>
      /\ deps \in Seq(SUBSET Public) /\ deps # <<>>
  BY CompilingFacts DEF CompileCall
<1>5. /\ m \in Nat /\ m # 0 /\ m \in 1 .. m /\ Top = stack[m] /\ Top.node \in schema.nodes
      /\ Top.calls \in Seq(Public)
  BY <1>1, <1>4, TopFacts
<1>6. UNCHANGED <<schema, phase>> /\ Top.calls # <<>> /\ CompilePublic(n, p)
  <2>1. [stack EXCEPT ![Len(stack)].calls = Tail(@)] = p
    <3>1. [stack EXCEPT ![Len(stack)].calls = Tail(@)]
              = [stack EXCEPT ![Len(stack)].calls = Tail(Top.calls)]
      BY DEF Top
    <3> QED
      BY <1>3, <3>1 DEF Calling
  <2> QED
    BY <1>2, <2>1 DEF CompileCall
<1>7. PICK c : c = Tail(Top.calls)
  OBVIOUS
<1>8. /\ n \in Public /\ c \in Seq(Public)
      /\ Range(Top.calls) \subseteq {n} \cup Range(c)
  <2>1. n \in Public /\ c \in Seq(Public)
    BY <1>2, <1>5, <1>6, <1>7, HeadTailProperties
  <2>2. Len(Top.calls) \in Nat /\ Len(Top.calls) # 0 /\ DOMAIN Top.calls = 1 .. Len(Top.calls)
    BY <1>5, <1>6
  <2>3. Top.calls[1] = n
    BY <1>2, <1>5, <1>6
  <2>4. Len(c) = Len(Top.calls) - 1 /\ \A i \in 1 .. Len(c) : c[i] = Top.calls[i + 1]
    BY <1>5, <1>6, <1>7, HeadTailProperties
  <2>5. ASSUME NEW i \in 1 .. Len(Top.calls)
        PROVE  Top.calls[i] \in {n} \cup Range(c)
    <3>1. CASE i = 1
      BY <2>3, <3>1
    <3>2. CASE i # 1
      <4>1. i - 1 \in 1 .. Len(c) /\ (i - 1) + 1 = i
        BY <2>2, <2>4, <3>2
      <4>2. c[i - 1] = Top.calls[i] /\ i - 1 \in DOMAIN c
        BY <2>1, <2>4, <4>1
      <4> QED
        BY <4>2 DEF Range
    <3> QED
      BY <3>1, <3>2
  <2> QED
    BY <2>1, <2>2, <2>5 DEF Range
<1>9. /\ p \in Seq(FrameSet) /\ Len(p) = m
      /\ \A i \in 1 .. m - 1 : p[i] = stack[i]
      /\ p[m].node = Top.node /\ p[m].next = Top.next /\ p[m].calls = c
  <2>1. OnTop(p, [node |-> Top.node, next |-> Top.next,
                  offset |-> Top.offset, calls |-> c])
    BY <1>3, <1>4, <1>7, <1>8, CallingFacts
  <2> QED
    BY <1>1, <2>1 DEF OnTop
<1>10. PICK a : a = AddDependency(n, deps)
  OBVIOUS
<1>11. /\ a \in Seq(SUBSET Public) /\ Len(a) = Len(deps)
       /\ \A i \in 1 .. Len(deps) - 1 : a[i] = deps[i]
       /\ a[Len(deps)] = deps[Len(deps)] \cup {n}
  BY <1>4, <1>8, <1>10, AddedFacts
<1>12. PICK b : b = Len(deps)
  OBVIOUS
<1>13. b \in Nat /\ b # 0 /\ b \in 1 .. b /\ \A j \in 1 .. b : j \in 1 .. b - 1 \/ j = b
  <2>1. b \in Nat /\ b # 0
    BY <1>4, <1>12
  <2> QED
    BY <2>1
<1>14. \A j \in 1 .. b : deps[j] \subseteq a[j]
  BY <1>11, <1>12, <1>13
<1>15. PICK lv : Noted(schema, stack, deps, lv)
  BY <1>4 DEF NotedNow
<1>16. PICK tt, es : tt = stack' /\ es = deps'
  OBVIOUS
<1>17. /\ \A i \in 1 .. m : tt[i] = p[i]
       /\ \A j \in 1 .. b : es[j] = a[j]
       /\ n \in compiled => Len(tt) = m /\ Len(es) = b
       /\ n \notin compiled =>
              /\ Len(tt) = m + 1 /\ tt[m + 1].node = n /\ tt[m + 1].next = 1
              /\ Len(es) = b + 1
  <2>1. CASE n \in compiled
    BY <1>6, <1>9, <1>10, <1>11, <1>12, <1>16, <2>1 DEF CompilePublic
  <2>2. CASE n \notin compiled
    <3>1. tt = Append(p, Frame(n)) /\ es = Append(a, {})
      BY <1>6, <1>10, <1>16, <2>2 DEF CompilePublic
    <3>2. n \in schema.nodes
      BY <1>4, <1>8, SchemaFacts DEF Public
    <3>3. Frame(n) \in FrameSet /\ Frame(n).node = n /\ Frame(n).next = 1
      BY <3>2 DEF Frame, FrameSet
    <3>4. {} \in SUBSET Public
      OBVIOUS
    <3>5. Len(es) = Len(a) + 1 /\ \A j \in 1 .. Len(a) : es[j] = a[j]
      BY <1>11, <3>1, <3>4, AppendFacts
    <3>6. /\ Len(tt) = Len(p) + 1 /\ tt[Len(p) + 1] = Frame(n)
          /\ \A i \in 1 .. Len(p) : tt[i] = p[i]
      BY <1>9, <3>1, <3>3, AppendFacts
    <3> QED
      BY <1>9, <1>11, <1>12, <2>2, <3>3, <3>5, <3>6
  <2> QED
    BY <2>1, <2>2
<1>18. Above(schema, m, stack, tt, deps, es)
  <2>1. \A i \in 1 .. m - 1 : i \in 1 .. m
    BY <1>5
  <2>2. m # m + 1
    BY <1>5
  <2> QED
    BY <1>1, <1>5, <1>8, <1>9, <1>12, <1>14, <1>17, <2>1, <2>2 DEF Above, Public
<1>19. ASSUME NEW q \in 1 .. Len(schema.elements[tt[m].node]), q < tt[m].next
       PROVE  HasNoted(schema, tt, es[Len(deps)], m, q)
  <2>1. tt[m].node = stack[m].node /\ tt[m].next = stack[m].next /\ tt[m].calls = c
    BY <1>5, <1>9, <1>17
  <2>2. lv[m] = Len(deps)
    BY <1>1, <1>5, <1>15 DEF Noted
  <2>3. HasNoted(schema, stack, deps[b], m, q)
    BY <1>1, <1>5, <1>12, <1>15, <1>19, <2>1, <2>2 DEF Noted
  <2>4. es[b] = deps[b] \cup {n}
    BY <1>11, <1>12, <1>13, <1>17
  <2>5. Range(stack[m].calls) \subseteq {n} \cup Range(c)
    BY <1>5, <1>8
  <2>6. ~(m + 1 \in 1 .. Len(stack))
    BY <1>1, <1>5
  <2> QED
    BY <1>12, <2>1, <2>3, <2>4, <2>5, <2>6 DEF HasNoted
<1>20. \E lw : Noted(schema, tt, es, lw)
  BY <1>5, <1>12, <1>13, <1>15, <1>18, <1>19, NotedAbove
<1> QED
  BY <1>6, <1>16, <1>20 DEF NotedNow

\* A composite inside of another returns: all its names are noted.
LEMMA NotedByInline ==
    ASSUME CompilerInv, NotedNow, CompiledInline
    PROVE  NotedNow'
<1>1. PICK m : m = Len(stack)
  OBVIOUS
<1>2. /\ Compiling /\ ~HasElement /\ Top.calls = <<>> /\ Top.node \notin Public
      /\ UNCHANGED <<schema, phase, deps>> /\ stack' = Front(stack)
  BY DEF CompiledInline, Compiled, compiler
<1>3. /\ Inv /\ Typed /\ Sized /\ schema \in Schemas /\ phase = "types" /\ stack # <<>>
      /\ deps \in Seq(SUBSET Public) /\ deps # <<>>
  BY <1>2, CompilingFacts
<1>4. /\ m \in Nat /\ m # 0 /\ m \in 1 .. m /\ Top = stack[m] /\ Top.node \in schema.nodes
      /\ Top.next \in Nat
  BY <1>1, <1>3, TopFacts
<1>5. PICK lv : Noted(schema, stack, deps, lv)
  BY <1>3 DEF NotedNow
<1>6. PICK tt : tt = stack'
  OBVIOUS
<1>7. Len(tt) = m - 1 /\ \A i \in 1 .. m - 1 : tt[i] = stack[i]
  BY <1>1, <1>2, <1>3, <1>6, FrontOfStack
<1>8. \A q \in 1 .. Len(schema.elements[Top.node]) :
          NamedInside(schema, schema.elements[Top.node][q]) \subseteq deps[Len(deps)]
  <2>1. Range(stack[m].calls) = {}
    BY <1>2, <1>4 DEF Range
  <2>2. Len(schema.elements[Top.node]) \in Nat
    BY <1>3, <1>4, SchemaFacts
  <2>3. \A q \in 1 .. Len(schema.elements[Top.node]) : q < Top.next
    BY <1>2, <1>4, <2>2 DEF HasElement, Elements
  <2> QED
    BY <1>1, <1>3, <1>4, <1>5, <2>1, <2>3, TopDone
<1>9. NamedInside(schema, Top.node) \subseteq deps[Len(deps)] \/ schema.kind[Top.node] # "composite"
  BY <1>3, <1>4, <1>8, NamesInside
<1>10. m # 1 => lv[m - 1] = Len(deps)
  <2> SUFFICES ASSUME m # 1
               PROVE  lv[m - 1] = Len(deps)
    OBVIOUS
  <2>1. m - 1 \in 1 .. m /\ (m - 1) + 1 = m
    BY <1>4
  <2>2. lv[m] = Len(deps)
    BY <1>1, <1>4, <1>5 DEF Noted
  <2>3. lv[m] = lv[m - 1]
    BY <1>1, <1>2, <1>4, <1>5, <2>1 DEF Noted, Public
  <2> QED
    BY <2>2, <2>3
<1>11. ASSUME m # 1, NEW q \in 1 .. Len(schema.elements[stack[m - 1].node]),
              q < stack[m - 1].next
       PROVE  HasNoted(schema, tt, deps[lv[m - 1]], m - 1, q)
  <2>1. m - 1 \in 1 .. m /\ (m - 1) + 1 = m /\ m - 1 \in 1 .. m - 1
    BY <1>4, <1>11
  <2>2. HasNoted(schema, stack, deps[lv[m - 1]], m - 1, q)
    BY <1>1, <1>5, <1>11, <2>1 DEF Noted
  <2>3. tt[m - 1] = stack[m - 1]
    BY <1>7, <2>1
  <2> QED
    BY <1>4, <1>9, <1>10, <1>11, <2>1, <2>2, <2>3 DEF HasNoted
<1>12. Noted(schema, tt, deps, lv)
  <2>1. Len(deps) \in Nat
    BY <1>3
  <2> QED
    BY <1>1, <1>4, <1>5, <1>7, <1>10, <1>11, <2>1, NotedBelow
<1> QED
  BY <1>2, <1>6, <1>12 DEF NotedNow

\* A header is written that is like the others.
LEMMA HeadedWrites ==
    ASSUME Headed, NEW h, NEW includes, Write(h, includes), UNCHANGED schema,
           \/ \E n \in Public :
                  /\ h = Header(n)
                  /\ \A q \in DOMAIN Elements(n) :
                         \A x \in NamedInside(schema, Elements(n)[q]) :
                             Header(x) \in includes
           \/ \E m \in Messages : h = <<"messages", m>> /\ includes = MessageIncludes(m)
           \/ h \in {SchemaHeader, TopHeader}
    PROVE  Headed'
<1>1. /\ DOMAIN files' = DOMAIN files \cup {h}
      /\ files'[h] = includes
      /\ \A g \in DOMAIN files : g # h => files'[g] = files[g]
  BY WriteFacts
<1>2. IsFiniteSet(DOMAIN files')
  BY <1>1, FS_AddElement DEF Headed
<1>3. \A n : Elements(n)' = Elements(n)
  BY DEF Elements
<1>4. /\ Public' = Public /\ Messages' = Messages
      /\ SchemaHeader' = SchemaHeader /\ TopHeader' = TopHeader
      /\ \A n : Header(n)' = Header(n)
      /\ \A m : MessageIncludes(m)' = MessageIncludes(m)
  BY DEF Public, Messages, SchemaHeader, TopHeader, Header, MessageIncludes,
     Fields, Headers
<1>5. ASSUME NEW g \in DOMAIN files'
      PROVE  \/ \E n \in Public :
                    /\ g = Header(n)
                    /\ \A q \in DOMAIN Elements(n) :
                           \A x \in NamedInside(schema, Elements(n)[q]) :
                               Header(x) \in files'[g]
             \/ \E m \in Messages :
                    g = <<"messages", m>> /\ files'[g] = MessageIncludes(m)
             \/ g \in {SchemaHeader, TopHeader}
  <2>1. CASE g = h
    BY <1>1, <2>1
  <2>2. CASE g # h
    <3>1. g \in DOMAIN files /\ files'[g] = files[g]
      BY <1>1, <2>2
    <3> QED
      BY <3>1 DEF Headed
  <2> QED
    BY <2>1, <2>2
<1> QED
  BY <1>2, <1>3, <1>4, <1>5 DEF Headed

LEMMA HeadedStays ==
    ASSUME Headed, UNCHANGED <<schema, files>>
    PROVE  Headed'
BY DEF Headed, Public, Messages, Elements, Header, SchemaHeader, TopHeader,
   MessageIncludes, Fields, Headers

\* The header of an encoding includes those of all names inside of it.
LEMMA NotedByPublic ==
    ASSUME CompilerInv, NotedNow, Headed, CompiledPublic, ~CannotWrite
    PROVE  NotedNow' /\ Headed'
<1>1. PICK m : m = Len(stack)
  OBVIOUS
<1>2. PICK n : n = Top.node
  OBVIOUS
<1>3. /\ Compiling /\ ~HasElement /\ Top.calls = <<>> /\ n \in Public
      /\ Write(Header(n), {Header(x) : x \in deps[Len(deps)]})
      /\ deps' = IF m = 1 THEN <<>> ELSE Front(deps)
      /\ stack' = Front(stack)
      /\ UNCHANGED <<schema, phase>>
  BY <1>1, <1>2 DEF CompiledPublic, Compiled
<1>4. /\ Inv /\ Typed /\ Sized /\ schema \in Schemas /\ phase = "types" /\ stack # <<>>
      /\ deps \in Seq(SUBSET Public) /\ deps # <<>>
  BY <1>3, CompilingFacts
<1>5. /\ m \in Nat /\ m # 0 /\ m \in 1 .. m /\ Top = stack[m] /\ n \in schema.nodes
      /\ Top.next \in Nat
  BY <1>1, <1>2, <1>4, TopFacts
<1>6. PICK lv : Noted(schema, stack, deps, lv)
  BY <1>4 DEF NotedNow
<1>7. PICK tt, es : tt = stack' /\ es = deps'
  OBVIOUS
<1>8. Len(tt) = m - 1 /\ \A i \in 1 .. m - 1 : tt[i] = stack[i]
  BY <1>1, <1>3, <1>4, <1>7, FrontOfStack
<1>9. \A q \in 1 .. Len(schema.elements[n]) :
          NamedInside(schema, schema.elements[n][q]) \subseteq deps[Len(deps)]
  <2>1. Range(stack[m].calls) = {}
    BY <1>3, <1>5 DEF Range
  <2>2. Len(schema.elements[n]) \in Nat
    BY <1>4, <1>5, SchemaFacts
  <2>3. \A q \in 1 .. Len(schema.elements[n]) : q < Top.next
    BY <1>2, <1>3, <1>5, <2>2 DEF HasElement, Elements
  <2> QED
    BY <1>1, <1>2, <1>4, <1>5, <1>6, <2>1, <2>3, TopDone
<1>10. Headed'
  <2>1. DOMAIN Elements(n) = 1 .. Len(schema.elements[n])
    BY <1>4, <1>5, SchemaFacts DEF Elements
  <2>2. \A q \in DOMAIN Elements(n) :
            \A x \in NamedInside(schema, Elements(n)[q]) :
                Header(x) \in {Header(y) : y \in deps[Len(deps)]}
    BY <1>9, <2>1 DEF Elements
  <2> QED
    BY <1>3, <2>2, HeadedWrites
<1>11. PICK b : b = Len(deps)
  OBVIOUS
<1>12. ASSUME m # 1
       PROVE  /\ Len(es) = lv[m - 1]
              /\ \A j \in 1 .. lv[m - 1] : es[j] = deps[j]
  <2>1. m - 1 \in 1 .. m /\ (m - 1) + 1 = m
    BY <1>5, <1>12
  <2>2. lv[m] = b
    BY <1>1, <1>5, <1>6, <1>11 DEF Noted
  <2>3. lv[m] = lv[m - 1] + 1
    BY <1>1, <1>2, <1>3, <1>5, <1>6, <2>1 DEF Noted, Public
  <2>4. lv[m - 1] \in 1 .. b
    BY <1>1, <1>6, <1>11, <2>1 DEF Noted
  <2>5. lv[m - 1] = b - 1
    <3>1. b \in Nat
      BY <1>4, <1>11
    <3> QED
      BY <2>2, <2>3, <2>4, <3>1
  <2>6. es = Front(deps)
    BY <1>3, <1>7, <1>12
  <2> QED
    BY <1>4, <1>11, <2>5, <2>6, FrontFacts
<1>13. ASSUME m # 1, NEW q \in 1 .. Len(schema.elements[stack[m - 1].node]),
              q < stack[m - 1].next
       PROVE  HasNoted(schema, tt, deps[lv[m - 1]], m - 1, q)
  <2>1. m - 1 \in 1 .. m /\ (m - 1) + 1 = m /\ m - 1 \in 1 .. m - 1
    BY <1>5, <1>13
  <2>2. HasNoted(schema, stack, deps[lv[m - 1]], m - 1, q)
    BY <1>1, <1>6, <1>13, <2>1 DEF Noted
  <2>3. tt[m - 1] = stack[m - 1]
    BY <1>8, <2>1
  \* n is no element.
  <2>4. stack[m - 1].node \in schema.nodes
    <3>1. stack[m - 1] \in FrameSet
      BY <1>1, <1>4, <2>1, ElementOfSeq DEF Typed
    <3> QED
      BY <3>1 DEF FrameSet
  <2>5. schema.elements[stack[m - 1].node][q] # n
    BY <1>3, <1>4, <1>13, <2>4, ElementFacts DEF Public
  <2> QED
    BY <1>2, <1>5, <2>1, <2>2, <2>3, <2>5 DEF HasNoted
<1>14. Noted(schema, tt, es, lv)
  <2>1. Len(deps) \in Nat
    BY <1>4
  <2> QED
    BY <1>1, <1>5, <1>6, <1>8, <1>12, <1>13, <2>1, NotedBelow
<1> QED
  BY <1>3, <1>7, <1>10, <1>14 DEF NotedNow

\* Nothing is on the stack, or a public encoding no element of which was seen.
LEMMA NotedAtStart ==
    ASSUME CompilerInv, NotedNow, CompileNext
    PROVE  NotedNow'
<1>1. PICK n \in todo :
          IF n \in compiled THEN UNCHANGED <<stack, deps>>
          ELSE stack' = <<Frame(n)>> /\ deps' = <<{n}, {}>>
  BY DEF CompileNext
<1>2. UNCHANGED <<schema, phase>>
  BY DEF CompileNext
<1>3. CASE n \in compiled
  BY <1>1, <1>2, <1>3 DEF NotedNow
<1>4. CASE n \notin compiled
  <2>1. PICK tt, es : tt = stack' /\ es = deps'
    OBVIOUS
  <2>2. Len(tt) = 1 /\ tt[1].next = 1 /\ Len(es) = 2
    BY <1>1, <1>4, <2>1 DEF Frame
  <2>3. PICK lv : lv = [i \in 1 .. 1 |-> 2]
    OBVIOUS
  <2>4. /\ \A i \in 1 .. Len(tt) : i = 1 /\ lv[i] = 2 /\ ~(i + 1 \in 1 .. Len(tt))
        /\ lv[1] = 2 /\ 1 \in 1 .. Len(tt) /\ 2 \in 1 .. Len(es)
    BY <2>2, <2>3
  <2>5. \A i \in 1 .. Len(tt) : \A q \in 1 .. Len(schema.elements[tt[i].node]) :
            ~(q < tt[i].next)
    <3> SUFFICES ASSUME NEW i \in 1 .. Len(tt),
                        NEW q \in 1 .. Len(schema.elements[tt[i].node])
                 PROVE  ~(q < tt[i].next)
      OBVIOUS
    <3>1. tt[i].next = 1
      BY <2>2, <2>4
    <3>2. q \in Nat /\ q >= 1
      OBVIOUS
    <3> QED
      BY <3>1, <3>2
  <2>6. Noted(schema, tt, es, lv)
    BY <2>2, <2>4, <2>5 DEF Noted
  <2> QED
    BY <1>2, <2>1, <2>6 DEF NotedNow
<1> QED
  BY <1>3, <1>4

LEMMA HeadedOfStep ==
    ASSUME CompilerInv, NotedNow, Headed, [Next]_vars
    PROVE  NotedNow' /\ Headed'
<1>1. CASE CompileElement \/ CompileCall \/ CompiledInline \/ CompileNext
  <2>1. UNCHANGED <<schema, files>>
    BY <1>1 DEF CompileElement, CompileCall, CompiledInline, CompileNext, compiler
  <2> QED
    BY <1>1, <2>1, HeadedStays, NotedByElement, NotedByCall, NotedByInline, NotedAtStart
<1>2. CASE CompiledPublic /\ ~CannotWrite
  BY <1>2, NotedByPublic
<1>3. CASE CannotWrite
  <2>1. phase' = "failed" /\ UNCHANGED <<schema, files>>
    BY <1>3 DEF CannotWrite, Stop, compiler
  <2> QED
    BY <2>1, HeadedStays DEF NotedNow
<1>4. CASE \/ ValidateNext \/ FollowRef \/ RejectMissing \/ RejectCycle
           \/ ValidateElement \/ ReturnLeaf \/ ReturnComposite \/ ReturnRef
  <2>1. UNCHANGED <<schema, files>> /\ phase' # "types"
    BY <1>4 DEF ValidateNext, FollowRef, RejectMissing, RejectCycle,
       ValidateElement, ReturnLeaf, ReturnComposite, ReturnRef, EnterPublic,
       Validating, Return, Stop, compiler
  <2> QED
    BY <2>1, HeadedStays DEF NotedNow
<1>5. CASE EncodingsValid
  <2>1. UNCHANGED <<schema, files>> /\ stack' = <<>>
    BY <1>5 DEF EncodingsValid, compiler
  <2>2. PICK tt, es, lv : tt = stack' /\ es = deps' /\ lv = <<>>
    OBVIOUS
  <2>3. Len(tt) = 0 /\ 1 .. Len(tt) = {}
    BY <2>1, <2>2
  <2>4. Noted(schema, tt, es, lv)
    BY <2>3 DEF Noted
  <2> QED
    BY <2>1, <2>2, <2>4, HeadedStays DEF NotedNow
<1>6. CASE TypesCompiled \/ MessagesCompiled
  <2>1. UNCHANGED <<schema, files>> /\ phase' # "types"
    BY <1>6 DEF TypesCompiled, MessagesCompiled, compiler
  <2> QED
    BY <2>1, HeadedStays DEF NotedNow
<1>7. CASE (WriteTags \/ WriteMessage \/ WriteTop) /\ ~CannotWrite
  <2>1. UNCHANGED schema /\ phase' # "types"
    BY <1>7 DEF WriteTags, WriteMessage, WriteTop
  <2>2. \/ Write(SchemaHeader, {})
        \/ \E m \in todo : Write(<<"messages", m>>, MessageIncludes(m))
        \/ Write(TopHeader, DOMAIN files)
    BY <1>7 DEF WriteTags, WriteMessage, WriteTop
  <2>3. phase = "messages" => todo \subseteq Messages
    BY DEF CompilerInv, Inv, Typed
  <2>4. CASE Write(SchemaHeader, {}) \/ Write(TopHeader, DOMAIN files)
    BY <2>1, <2>4, HeadedWrites DEF NotedNow
  <2>5. CASE WriteMessage
    <3>1. PICK m \in todo : Write(<<"messages", m>>, MessageIncludes(m))
      BY <1>7, <2>5 DEF WriteMessage
    <3>2. m \in Messages
      BY <2>3, <2>5 DEF WriteMessage
    <3> QED
      BY <2>1, <3>1, <3>2, HeadedWrites DEF NotedNow
  <2>6. WriteTags \/ WriteTop => Write(SchemaHeader, {}) \/ Write(TopHeader, DOMAIN files)
    BY <1>7 DEF WriteTags, WriteTop
  <2> QED
    BY <1>7, <2>4, <2>5, <2>6
<1>8. CASE UNCHANGED vars
  BY <1>8, HeadedStays DEF NotedNow, vars, compiler
<1> QED
  BY <1>1, <1>2, <1>3, <1>4, <1>5, <1>6, <1>7, <1>8 DEF Next

\* f[k] is what one gets by k includes from header h, when headers include
\* what fs says.
IsIncludes(f, fs, h, b) ==
    f = [k \in 0 .. b |->
            IF k = 0 THEN {h} ELSE f[k - 1] \cup UNION {fs[g] : g \in f[k - 1] \cap DOMAIN fs}]

LEMMA IncludesExist ==
    ASSUME NEW fs, NEW h, NEW b \in Nat
    PROVE  \E f : IsIncludes(f, fs, h, b)
<1> DEFINE More(S) == S \cup UNION {fs[g] : g \in S \cap DOMAIN fs}
           T == {m \in Nat : \E f : IsIncludes(f, fs, h, m)}
<1>1. 0 \in T
  <2>1. IsIncludes([k \in 0 .. 0 |-> {h}], fs, h, 0)
    BY DEF IsIncludes
  <2> QED
    BY <2>1
<1>2. ASSUME NEW m \in Nat, m \in T
      PROVE  m + 1 \in T
  <2>1. PICK f : IsIncludes(f, fs, h, m)
    BY <1>2
  <2>2. f = [k \in 0 .. m |-> IF k = 0 THEN {h} ELSE More(f[k - 1])]
    BY <2>1 DEF IsIncludes
  <2> HIDE DEF More
  <2> DEFINE g == [k \in 0 .. m + 1 |-> IF k = m + 1 THEN More(f[m]) ELSE f[k]]
  <2>3. ASSUME NEW k \in 0 .. m + 1
        PROVE  g[k] = IF k = 0 THEN {h} ELSE More(g[k - 1])
    <3>1. CASE k = m + 1
      <4>1. k - 1 \in 0 .. m + 1 /\ k - 1 # m + 1 /\ k # 0 /\ k - 1 = m
        BY <3>1
      <4> QED
        BY <3>1, <4>1
    <3>2. CASE k # m + 1
      <4>1. k \in 0 .. m /\ (k # 0 => k - 1 \in 0 .. m + 1 /\ k - 1 # m + 1)
        BY <3>2
      <4>2. f[k] = IF k = 0 THEN {h} ELSE More(f[k - 1])
        BY <2>2, <4>1
      <4> QED
        BY <3>2, <4>1, <4>2
    <3> QED
      BY <3>1, <3>2
  <2>4. g = [k \in 0 .. m + 1 |-> IF k = 0 THEN {h} ELSE More(g[k - 1])]
    <3>1. g = [k \in 0 .. m + 1 |-> g[k]]
      OBVIOUS
    <3> HIDE DEF g
    <3> QED
      BY <2>3, <3>1
  <2> HIDE DEF g
  <2>5. IsIncludes(g, fs, h, m + 1)
    BY <2>4 DEF IsIncludes, More
  <2> QED
    BY <2>5
<1> HIDE DEF T
<1>3. Nat \subseteq T
  BY <1>1, <1>2, NaturalInduction
<1> QED
  BY <1>3 DEF T

\* What a header includes, one gets by including it.
LEMMA IncludedHas ==
    ASSUME IsFiniteSet(DOMAIN files), NEW h \in DOMAIN files
    PROVE  files[h] \subseteq Included(h)
<1>1. PICK b : b = Cardinality(DOMAIN files)
  OBVIOUS
<1>2. b \in Nat /\ b # 0
  BY <1>1, FS_CardinalityType, FS_EmptySet
<1> DEFINE F(f) == [k \in 0 .. b |->
                       IF k = 0 THEN {h}
                       ELSE f[k - 1] \cup UNION {files[g] : g \in f[k - 1] \cap DOMAIN files}]
           c == CHOOSE f : f = F(f)
<1>3. \E f : f = F(f)
  <2>1. PICK f : IsIncludes(f, files, h, b)
    BY <1>2, IncludesExist
  <2>2. f = F(f)
    BY <2>1 DEF IsIncludes
  <2> HIDE DEF F
  <2> QED
    BY <2>2
<1>4. c = F(c)
  BY <1>3
<1>5. Included(h) = c[b]
  BY <1>1 DEF Included
<1> HIDE DEF c
<1>6. c[0] = {h} /\ \A k \in 0 .. b - 1 :
          c[k + 1] = c[k] \cup UNION {files[g] : g \in c[k] \cap DOMAIN files}
  <2>1. c[0] = {h}
    BY <1>2, <1>4
  <2>2. ASSUME NEW k \in 0 .. b - 1
        PROVE  c[k + 1] = c[k] \cup UNION {files[g] : g \in c[k] \cap DOMAIN files}
    <3>1. k + 1 \in 0 .. b /\ k + 1 # 0 /\ (k + 1) - 1 = k
      BY <1>2
    <3> QED
      BY <1>4, <3>1
  <2> QED
    BY <2>1, <2>2
<1> HIDE DEF F
<1>7. \A k \in 0 .. b : k = 0 \/ files[h] \subseteq c[k]
  <2> DEFINE T == {k \in 0 .. b : h \in c[k] /\ (k = 0 \/ files[h] \subseteq c[k])}
  <2>1. 0 \in T
    BY <1>2, <1>6
  <2>2. ASSUME NEW k \in 0 .. b - 1, k \in T
        PROVE  k + 1 \in T
    <3>1. k + 1 \in 0 .. b
      BY <1>2
    <3>2. h \in c[k] \cap DOMAIN files
      BY <2>2
    <3>3. h \in c[k + 1] /\ files[h] \subseteq c[k + 1]
      BY <1>6, <2>2, <3>2
    <3> QED
      BY <3>1, <3>3
  <2> HIDE DEF T
  <2>3. 0 .. b \subseteq T
    BY <1>2, <2>1, <2>2, IntervalInduction
  <2> QED
    BY <2>3 DEF T
<1>8. b \in 0 .. b
  BY <1>2
<1> QED
  BY <1>2, <1>5, <1>7, <1>8

-----------------------------------------------------------------------------
(* What one gets by including a header.                                    *)

\* NamesOfField in schema s.
NamedByField(s, f) ==
    ({f.type, f.valueRef} \cup
     (IF f.type # None /\ s.kind[f.type] = "constant"
      THEN {s.target[f.type]} ELSE {})) \ {None}

\* Enumerators are the values of fields only where a field has their enum for
\* its type.  Without it messages' headers miss the enum's.
FieldsNameTypes ==
    \A s \in Schemas : \A m \in DOMAIN s.messages :
        \A f \in Range(s.messages[m].fields) :
            NamedByField(s, f) \subseteq
                {g.type : g \in Range(s.messages[m].fields)} \cup s.messages[m].headers

HeadedInv == CompilerInv /\ NotedNow /\ Headed

\* Each header includes one for every name its code has, or one that does.
THEOREM HeadedInvariance == Spec => []HeadedInv
<1>1. Init => NotedNow /\ Headed
  <2> SUFFICES ASSUME Init
               PROVE  NotedNow /\ Headed
    OBVIOUS
  <2>1. phase # "types" /\ DOMAIN files = {}
    BY DEF Init
  <2> QED
    BY <2>1, FS_EmptySet DEF NotedNow, Headed
<1>2. CompilerInv /\ NotedNow /\ Headed /\ [Next]_vars => NotedNow' /\ Headed'
  BY HeadedOfStep
<1> QED
  BY <1>1, <1>2, Invariance, PTL DEF Spec, HeadedInv

\* HeadersAreSelfContained for the headers of encodings.
TypeHeadersAreSelfContained ==
    \A h \in DOMAIN files : h[1] = "types" =>
        {Header(n) : n \in NamesOfType(h[2])} \subseteq Included(h)

LEMMA TypeHeaders == HeadedInv => TypeHeadersAreSelfContained
<1> SUFFICES ASSUME HeadedInv, NEW h \in DOMAIN files, h[1] = "types",
                    NEW x \in NamesOfType(h[2])
             PROVE  Header(x) \in Included(h)
  BY DEF TypeHeadersAreSelfContained
<1>1. schema \in Schemas
  BY DEF HeadedInv, CompilerInv, Inv, Typed
<1>2. \A m : <<"messages", m>>[1] # "types"
  OBVIOUS
<1>3. SchemaHeader[1] # "types" /\ TopHeader[1] # "types"
  BY DEF SchemaHeader, TopHeader
<1>4. PICK n \in Public :
          /\ h = Header(n)
          /\ \A q \in DOMAIN Elements(n) :
                 \A y \in NamedInside(schema, Elements(n)[q]) : Header(y) \in files[h]
  BY <1>2, <1>3 DEF HeadedInv, Headed
<1>5. h[2] = n
  BY <1>4 DEF Header
<1>6. n \in schema.nodes
  BY <1>1, SchemaFacts DEF Public
<1>7. PICK e \in InsideOf(schema, n) : e # n /\ x \in NamedBy(schema, e)
  <2>1. Inside(n) = InsideOf(schema, n)
    BY DEF Inside, InsideOf, Elements
  <2>2. PICK e \in Inside(n) \ {n} : x \in NamesOfElement(e)
    BY <1>5 DEF NamesOfType
  <2>3. x \in NamedBy(schema, e)
    BY <2>2 DEF NamesOfElement, NamedBy, Kind, Target
  <2> QED
    BY <2>1, <2>2, <2>3
<1>8. PICK q \in 1 .. Len(schema.elements[n]) :
          e \in InsideOf(schema, schema.elements[n][q])
  BY <1>1, <1>6, <1>7, InsideParts
<1>9. q \in DOMAIN Elements(n)
  BY <1>1, <1>6, ElementFacts DEF Elements
<1>10. x \in NamedInside(schema, Elements(n)[q])
  BY <1>7, <1>8 DEF NamedInside, Elements
<1>11. Header(x) \in files[h]
  BY <1>4, <1>9, <1>10
<1> QED
  BY <1>11, IncludedHas DEF HeadedInv, Headed

LEMMA MessageHeadersSuffice ==
    ASSUME FieldsNameTypes, HeadedInv, NEW h \in DOMAIN files, h[1] = "messages",
           NEW x \in NamesOfMessage(h[2])
    PROVE  Header(x) \in Included(h)
<1>1. schema \in Schemas
  BY DEF HeadedInv, CompilerInv, Inv, Typed
<1>2. \A n : Header(n)[1] # "messages"
  BY DEF Header
<1>3. SchemaHeader[1] # "messages" /\ TopHeader[1] # "messages"
  BY DEF SchemaHeader, TopHeader
<1>4. PICK m \in Messages : h = <<"messages", m>> /\ files[h] = MessageIncludes(m)
  BY <1>2, <1>3 DEF HeadedInv, Headed
<1>5. h[2] = m
  BY <1>4
<1>6. x \in Headers(m) \/ \E f \in Fields(m) : x \in NamesOfField(f)
  BY <1>5 DEF NamesOfMessage
<1>7. (x # None /\ x \in {f.type : f \in Fields(m)}) \/ x \in Headers(m)
  <2>1. CASE \E f \in Fields(m) : x \in NamesOfField(f)
    <3>1. PICK f \in Fields(m) : x \in NamesOfField(f)
      BY <2>1
    <3>2. x \in NamedByField(schema, f)
      BY <3>1 DEF NamesOfField, NamedByField, Kind, Target
    <3>3. x # None
      BY <3>2 DEF NamedByField
    <3>4. f \in Range(schema.messages[m].fields) /\ m \in DOMAIN schema.messages
      BY DEF Fields, Messages
    <3>5. x \in {g.type : g \in Range(schema.messages[m].fields)} \cup schema.messages[m].headers
      BY <1>1, <3>2, <3>4 DEF FieldsNameTypes
    <3> QED
      BY <3>3, <3>5 DEF Fields, Headers
  <2> QED
    BY <1>6, <2>1
<1>8. Header(x) \in MessageIncludes(m)
  BY <1>7 DEF MessageIncludes
<1>9. Header(x) \in files[h]
  BY <1>4, <1>8
<1> QED
  BY <1>9, IncludedHas DEF HeadedInv, Headed

\* Including the header of an encoding is enough for all encodings named in
\* it, whatever the schema.
THEOREM TypesSelfContained == Spec => []TypeHeadersAreSelfContained
BY HeadedInvariance, TypeHeaders, PTL

\* Including the header of a message is enough as well, in schemas where the
\* values of fields are enumerators of fields' types only.
THEOREM SelfContained ==
    ASSUME FieldsNameTypes
    PROVE  Spec => []HeadersAreSelfContained
<1>1. HeadedInv => HeadersAreSelfContained
  <2> SUFFICES ASSUME HeadedInv, NEW h \in DOMAIN files
               PROVE  /\ h[1] = "types" =>
                             {Header(n) : n \in NamesOfType(h[2])} \subseteq Included(h)
                      /\ h[1] = "messages" =>
                             {Header(n) : n \in NamesOfMessage(h[2])} \subseteq Included(h)
    BY DEF HeadersAreSelfContained
  <2>1. h[1] = "types" => {Header(n) : n \in NamesOfType(h[2])} \subseteq Included(h)
    BY TypeHeaders DEF TypeHeadersAreSelfContained
  <2>2. ASSUME h[1] = "messages", NEW x \in NamesOfMessage(h[2])
        PROVE  Header(x) \in Included(h)
    BY <2>2, MessageHeadersSuffice
  <2> QED
    BY <2>1, <2>2
<1> QED
  BY <1>1, HeadedInvariance, PTL
=============================================================================
