----------------------- MODULE SizeBytesCheckedProofs -----------------------
(***************************************************************************)
(* size_bytes_checked is exact, for every message on the wire and every    *)
(* buffer size, and visits what it promises to visit.                      *)
(***************************************************************************)
EXTENDS SizeBytesChecked, FiniteSetTheorems, SequenceTheorems,
        WellFoundedInduction, TLAPS

-----------------------------------------------------------------------------
(* Induction.  The provers cannot instantiate a predicate, but they can a  *)
(* set: to show P for all numbers, show it of the set of those for which   *)
(* it holds.                                                               *)

LessThan == {p \in Nat \X Nat : p[1] < p[2]}

LEMMA LessThanIsWellFounded == IsWellFoundedOn(LessThan, Nat)
<1>1. IsWellFoundedOn(OpToRel(<, Nat), Nat)
  BY NatLessThanWellFounded
<1>2. OpToRel(<, Nat) = LessThan
  BY DEF OpToRel, LessThan
<1> QED
  BY <1>1, <1>2

\* A set of natural numbers has a least element.
LEMMA LeastNatural ==
    ASSUME NEW T \in SUBSET Nat, T # {}
    PROVE  \E x \in T : \A y \in T : x <= y
<1>1. PICK x \in T : \A y \in T : <<y, x>> \notin LessThan
  BY LessThanIsWellFounded, WFMin, Zenon
<1>2. ASSUME NEW y \in T
      PROVE  x <= y
  <2>1. <<y, x>> \notin LessThan /\ x \in Nat /\ y \in Nat
    BY <1>1
  <2>2. y < x => <<y, x>> \in LessThan
    BY <2>1 DEF LessThan
  <2> QED
    BY <2>1, <2>2
<1> QED
  BY <1>2

\* A set that has 0 and with n also n + 1 has all of them.
LEMMA NaturalInduction ==
    ASSUME NEW T, 0 \in T, \A n \in Nat : n \in T => n + 1 \in T
    PROVE  Nat \subseteq T
<1> SUFFICES ASSUME Nat \ T # {}
             PROVE  FALSE
  OBVIOUS
<1>1. PICK x \in Nat \ T : \A y \in Nat \ T : x <= y
  BY LeastNatural
<1>2. x # 0 /\ x - 1 \in Nat
  BY <1>1
<1>3. x - 1 \in T
  BY <1>1, <1>2
<1>4. (x - 1) + 1 \in T
  BY <1>2, <1>3
<1> QED
  BY <1>1, <1>4

\* The same from a up to b.
LEMMA IntervalInduction ==
    ASSUME NEW a \in Int, NEW b \in Int, NEW T,
           a \in T, \A i \in a .. b - 1 : i \in T => i + 1 \in T
    PROVE  a .. b \subseteq T
<1> DEFINE U == {n \in Nat : a + n <= b => a + n \in T}
<1>1. 0 \in U
  OBVIOUS
<1>2. ASSUME NEW n \in Nat, n \in U
      PROVE  n + 1 \in U
  <2>1. CASE a + (n + 1) <= b
    <3>1. a + n \in T /\ a + n \in a .. b - 1
      BY <1>2, <2>1
    <3>2. (a + n) + 1 \in T
      BY <3>1
    <3> QED
      BY <3>2
  <2>2. CASE ~(a + (n + 1) <= b)
    BY <2>2
  <2> QED
    BY <2>1, <2>2
<1> HIDE DEF U
<1>3. Nat \subseteq U
  BY <1>1, <1>2, NaturalInduction
<1>4. ASSUME NEW i \in a .. b
      PROVE  i \in T
  <2>1. i - a \in U
    BY <1>3
  <2>2. a + (i - a) = i /\ i <= b
    OBVIOUS
  <2> QED
    BY <2>1, <2>2 DEF U
<1> QED
  BY <1>4

-----------------------------------------------------------------------------
(* The layout of one message.                                              *)

\* Sizes and addresses of a node are natural numbers, and it lies in the
\* buffer with its header and its block.
LEMMA SizesOfNode ==
    ASSUME NEW m, IsTree(m), HasSizes(m), NEW n \in m.nodes
    PROVE  /\ m.addr[n] \in Nat /\ m.hdr[n] \in Nat /\ m.block[n] \in Nat
           /\ m.size[n] \in Nat /\ m.end \in Nat
           /\ m.kind[n] \in Kinds
           /\ KidCount(m, n) \in Nat
           /\ m.kids[n] = <<>> <=> KidCount(m, n) = 0
           /\ DOMAIN m.kids[n] = 1 .. KidCount(m, n)
           /\ BlockEnd(m, n) <= NodeEnd(m, n)
           /\ NodeEnd(m, n) <= m.end
           /\ m.kind[n] = "group" => m.block[n] = 0
           /\ m.kind[n] = "entry" => m.hdr[n] = 0
<1>1. m.kids[n] \in Seq(m.nodes)
  BY DEF IsTree
<1>2. /\ KidCount(m, n) \in Nat
      /\ m.kids[n] = <<>> <=> KidCount(m, n) = 0
      /\ DOMAIN m.kids[n] = 1 .. KidCount(m, n)
  BY <1>1 DEF KidCount
<1>3. m.kind[n] \in Kinds
  BY DEF IsTree
<1>4. /\ m.addr[n] \in Nat /\ m.hdr[n] \in Nat /\ m.block[n] \in Nat
      /\ m.size[n] \in Nat /\ m.end \in Nat
  BY DEF HasSizes
<1>5. /\ BlockEnd(m, n) <= NodeEnd(m, n)
      /\ NodeEnd(m, n) <= m.end
      /\ m.kind[n] = "group" => m.block[n] = 0
      /\ m.kind[n] = "entry" => m.hdr[n] = 0
  BY DEF HasSizes
<1> QED
  BY <1>2, <1>3, <1>4, <1>5

\* The number of fields.
LEMMA FieldsOfNode ==
    ASSUME NEW m, FieldsFollow(m), NEW n \in m.nodes
    PROVE  /\ FieldCount(m, n) \in Nat
           /\ m.fields[n] = <<>> <=> FieldCount(m, n) = 0
           /\ DOMAIN m.fields[n] = 1 .. FieldCount(m, n)
<1>1. m.fields[n] \in Seq([rel : Nat, abs : Nat, size : Nat])
  BY DEF FieldsFollow
<1> QED
  BY <1>1 DEF FieldCount

\* A child of a node knows its place, and begins where the accessors say.
LEMMA KidOfNode ==
    ASSUME NEW m, IsTree(m), HasSizes(m), NEW n \in m.nodes,
           NEW i \in DOMAIN m.kids[n]
    PROVE  LET k == m.kids[n][i]
           IN  /\ k \in m.nodes /\ k # m.root
               /\ m.parent[k] = n /\ m.index[k] = i
               /\ m.addr[k] = KidStart(m, n, i)
               /\ IF m.kind[n] = "group" THEN m.kind[k] = "entry"
                                         ELSE m.kind[k] \in {"group", "data"}
<1>1. m.kids[n] \in Seq(m.nodes)
  BY DEF IsTree
<1>2. m.kids[n][i] \in m.nodes
  BY <1>1
<1> QED
  BY <1>2 DEF IsTree, HasSizes

\* The way back from a child to its parent.
LEMMA ParentOfNode ==
    ASSUME NEW m, IsTree(m), HasSizes(m), NEW k \in m.nodes,
           m.kind[k] # "message"
    PROVE  /\ m.parent[k] \in m.nodes
           /\ m.index[k] \in DOMAIN m.kids[m.parent[k]]
           /\ m.kids[m.parent[k]][m.index[k]] = k
           /\ m.kind[k] = "entry" => m.kind[m.parent[k]] = "group"
           /\ m.kind[k] = "group" => m.kind[m.parent[k]] \in LevelKinds
<1>1. /\ m.parent[k] \in m.nodes
      /\ m.index[k] \in DOMAIN m.kids[m.parent[k]]
      /\ m.kids[m.parent[k]][m.index[k]] = k
  BY DEF IsTree
<1>2. IF m.kind[m.parent[k]] = "group" THEN m.kind[k] = "entry"
                                       ELSE m.kind[k] \in {"group", "data"}
  BY <1>1, KidOfNode
<1>3. m.kind[m.parent[k]] \in LevelKinds \cup {"group"}
  <2>1. m.kids[m.parent[k]] # <<>>
    BY <1>1
  <2>2. m.kind[m.parent[k]] # "data"
    BY <1>1, <2>1 DEF IsTree
  <2> QED
    BY <1>1, <2>2, SizesOfNode DEF Kinds
<1> QED
  BY <1>1, <1>2, <1>3 DEF LevelKinds

\* After the last child a cursor is at the end of the node.
LEMMA AfterLastChild ==
    ASSUME NEW m, IsTree(m), HasSizes(m), NEW n \in m.nodes
    PROVE  KidStart(m, n, KidCount(m, n) + 1) = NodeEnd(m, n)
<1>1. NodeEnd(m, n) = NodeEndsAt(m, n)
  BY DEF HasSizes
<1>2. CASE m.kids[n] = <<>>
  BY <1>1, <1>2, SizesOfNode DEF KidStart, NodeEndsAt
<1>3. CASE m.kids[n] # <<>>
  <2>1. KidCount(m, n) \in Nat /\ KidCount(m, n) # 0
    BY <1>3, SizesOfNode
  <2>2. KidCount(m, n) + 1 # 1 /\ (KidCount(m, n) + 1) - 1 = KidCount(m, n)
    BY <2>1
  <2> QED
    BY <1>1, <1>3, <2>2 DEF KidStart, NodeEndsAt
<1> QED
  BY <1>2, <1>3

\* Children lie in their parent: each ends where the next one begins, and the
\* last one ends with it.
LEMMA KidsInside ==
    ASSUME NEW m, IsTree(m), HasSizes(m), NEW n \in m.nodes
    PROVE  \A i \in DOMAIN m.kids[n] :
               /\ NodeEnd(m, m.kids[n][i]) <= NodeEnd(m, n)
               /\ NodeEnd(m, m.kids[n][i]) = KidStart(m, n, i + 1)
<1> DEFINE c     == KidCount(m, n)
           T     == {j \in Nat : j < c => NodeEnd(m, m.kids[n][c - j]) <= NodeEnd(m, n)}
<1>1. /\ c \in Nat /\ DOMAIN m.kids[n] = 1 .. c
      /\ m.addr[n] \in Nat /\ m.size[n] \in Nat
  BY SizesOfNode
<1>2. ASSUME NEW i \in 1 .. c
      PROVE  /\ NodeEnd(m, m.kids[n][i]) = KidStart(m, n, i + 1)
             /\ m.addr[m.kids[n][i]] = KidStart(m, n, i)
             /\ m.addr[m.kids[n][i]] <= NodeEnd(m, m.kids[n][i])
             /\ m.addr[m.kids[n][i]] \in Nat
             /\ NodeEnd(m, m.kids[n][i]) \in Nat
  <2> DEFINE k == m.kids[n][i]
  <2>1. k \in m.nodes /\ m.addr[k] = KidStart(m, n, i)
    BY <1>1, KidOfNode
  <2>2. m.addr[k] \in Nat /\ m.size[k] \in Nat
    BY <2>1, SizesOfNode
  <2>3. i + 1 # 1 /\ (i + 1) - 1 = i
    BY <1>1
  <2> QED
    BY <2>1, <2>2, <2>3 DEF KidStart, NodeEnd
<1>3. 0 \in T
  <2> SUFFICES ASSUME 0 < c
               PROVE  NodeEnd(m, m.kids[n][c]) <= NodeEnd(m, n)
    BY <1>1
  <2>1. NodeEnd(m, m.kids[n][c]) = KidStart(m, n, c + 1)
    BY <1>1, <1>2
  <2>2. NodeEnd(m, m.kids[n][c]) = NodeEnd(m, n)
    BY <2>1, AfterLastChild
  <2> QED
    BY <1>1, <2>2 DEF NodeEnd
<1>4. ASSUME NEW j \in Nat, j \in T
      PROVE  j + 1 \in T
  <2> SUFFICES ASSUME j + 1 < c
               PROVE  NodeEnd(m, m.kids[n][c - (j + 1)]) <= NodeEnd(m, n)
    OBVIOUS
  <2>1. c - j \in 1 .. c /\ c - (j + 1) \in 1 .. c /\ (c - (j + 1)) + 1 = c - j
    BY <1>1
  <2>2. NodeEnd(m, m.kids[n][c - (j + 1)]) = m.addr[m.kids[n][c - j]]
    BY <1>2, <2>1
  <2>3. NodeEnd(m, m.kids[n][c - j]) <= NodeEnd(m, n)
    BY <1>1, <1>4
  <2>4. NodeEnd(m, n) \in Nat
    BY <1>1 DEF NodeEnd
  <2> HIDE DEF c
  <2> QED
    BY <1>2, <2>1, <2>2, <2>3, <2>4
<1> HIDE DEF T
<1>5. Nat \subseteq T
  BY <1>3, <1>4, NaturalInduction
<1>6. ASSUME NEW i \in 1 .. c
      PROVE  NodeEnd(m, m.kids[n][i]) <= NodeEnd(m, n)
  <2>1. c - i \in T /\ c - i < c /\ c - (c - i) = i
    BY <1>1, <1>5
  <2> QED
    BY <2>1 DEF T
<1> QED
  BY <1>1, <1>2, <1>6

\* Children begin behind their parent's header and block.
LEMMA KidsBehindBlock ==
    ASSUME NEW m, IsTree(m), HasSizes(m), NEW n \in m.nodes
    PROVE  \A i \in DOMAIN m.kids[n] : BlockEnd(m, n) <= m.addr[m.kids[n][i]]
<1> DEFINE c == KidCount(m, n)
           T == {i \in Int : BlockEnd(m, n) <= KidStart(m, n, i)}
<1>1. c \in Nat /\ DOMAIN m.kids[n] = 1 .. c /\ BlockEnd(m, n) \in Int
  BY SizesOfNode DEF BlockEnd, Level
<1>2. ASSUME NEW i \in 1 .. c
      PROVE  /\ m.addr[m.kids[n][i]] = KidStart(m, n, i)
             /\ KidStart(m, n, i) \in Int
             /\ KidStart(m, n, i) <= KidStart(m, n, i + 1)
             /\ KidStart(m, n, i + 1) \in Int
  <2> DEFINE k == m.kids[n][i]
  <2>1. k \in m.nodes /\ m.addr[k] = KidStart(m, n, i)
    BY <1>1, KidOfNode
  <2>2. m.addr[k] \in Nat /\ m.size[k] \in Nat
    BY <2>1, SizesOfNode
  <2>3. NodeEnd(m, k) = KidStart(m, n, i + 1)
    BY <1>1, KidsInside
  <2> QED
    BY <2>1, <2>2, <2>3 DEF NodeEnd
<1>3. 1 \in T
  BY <1>1 DEF KidStart
<1>4. ASSUME NEW i \in 1 .. c - 1, i \in T
      PROVE  i + 1 \in T
  <2>1. i \in 1 .. c
    BY <1>1
  <2> QED
    BY <1>1, <1>2, <1>4, <2>1
<1> HIDE DEF T
<1>5. 1 .. c \subseteq T
  <2> HIDE DEF c
  <2> QED
    BY <1>1, <1>3, <1>4, IntervalInduction
<1>6. ASSUME NEW i \in 1 .. c
      PROVE  BlockEnd(m, n) <= m.addr[m.kids[n][i]]
  BY <1>2, <1>5 DEF T
<1> QED
  BY <1>1, <1>6

\* What the compiler passes to the accessor of a field: the field ends rel and
\* its own size behind the one in front of it.
LEMMA FieldsOneAfterAnother ==
    ASSUME NEW m, IsTree(m), HasSizes(m), FieldsFollow(m), NEW l \in Levels(m)
    PROVE  /\ FieldEnd(m, l, 0) = 0
           /\ \A i \in 1 .. FieldCount(m, l) :
                  /\ m.fields[l][i].rel \in Nat /\ m.fields[l][i].abs \in Nat
                  /\ m.fields[l][i].size \in Nat
                  /\ FieldEnd(m, l, i) \in Int /\ FieldEnd(m, l, i - 1) \in Int
                  /\ FieldEnd(m, l, i) = FieldEnd(m, l, i - 1)
                         + m.fields[l][i].rel + m.fields[l][i].size
<1> DEFINE c == FieldCount(m, l)
           R == [rel : Nat, abs : Nat, size : Nat]
<1>1. l \in m.nodes
  BY DEF Levels
<1>2. c \in Nat /\ DOMAIN m.fields[l] = 1 .. c /\ m.hdr[l] \in Nat
  BY <1>1, FieldsOfNode, SizesOfNode
<1>3. ASSUME NEW i \in 1 .. c
      PROVE  /\ m.fields[l][i].rel \in Nat /\ m.fields[l][i].abs \in Nat
             /\ m.fields[l][i].size \in Nat
             /\ FieldEnd(m, l, i) = m.fields[l][i].abs - m.hdr[l] + m.fields[l][i].size
             /\ m.fields[l][i].abs =
                    m.hdr[l] + FieldEnd(m, l, i - 1) + m.fields[l][i].rel
  <2>1. m.fields[l] \in Seq(R)
    BY <1>1 DEF FieldsFollow
  <2>2. m.fields[l][i] \in R
    <3> HIDE DEF R
    <3> QED BY <1>2, <2>1, ElementOfSeq
  <2>3. FieldEnd(m, l, i) = m.fields[l][i].abs - m.hdr[l] + m.fields[l][i].size
    BY <1>2 DEF FieldEnd
  <2> QED
    BY <1>2, <2>2, <2>3 DEF FieldsFollow
<1>4. ASSUME NEW i \in 1 .. c
      PROVE  FieldEnd(m, l, i) \in Int
  BY <1>2, <1>3
<1>5. FieldEnd(m, l, 0) = 0
  BY DEF FieldEnd
<1>6. ASSUME NEW i \in 1 .. c
      PROVE  FieldEnd(m, l, i - 1) \in Int
  <2>1. CASE i = 1
    BY <1>5, <2>1
  <2>2. CASE i # 1
    BY <1>2, <1>4, <2>2
  <2> QED
    BY <2>1, <2>2
<1>7. ASSUME NEW i \in 1 .. c
      PROVE  FieldEnd(m, l, i) = FieldEnd(m, l, i - 1)
                 + m.fields[l][i].rel + m.fields[l][i].size
  BY <1>2, <1>3, <1>6
<1> QED
  BY <1>3, <1>4, <1>5, <1>6, <1>7

\* No field ends behind the last one.
LEMMA LastFieldEndsLast ==
    ASSUME NEW m, IsTree(m), HasSizes(m), FieldsFollow(m), NEW l \in Levels(m)
    PROVE  \A i \in 0 .. FieldCount(m, l) :
               FieldEnd(m, l, i) <= FieldEnd(m, l, FieldCount(m, l))
<1> DEFINE c == FieldCount(m, l)
<1>1. c \in Nat
  BY FieldsOfNode DEF Levels
<1>2. \A i \in 1 .. c : /\ FieldEnd(m, l, i) \in Int /\ FieldEnd(m, l, i - 1) \in Int
                        /\ FieldEnd(m, l, i - 1) <= FieldEnd(m, l, i)
  <2> SUFFICES ASSUME NEW i \in 1 .. c
               PROVE  /\ FieldEnd(m, l, i) \in Int /\ FieldEnd(m, l, i - 1) \in Int
                      /\ FieldEnd(m, l, i - 1) <= FieldEnd(m, l, i)
    OBVIOUS
  <2> QED
    BY FieldsOneAfterAnother
<1> DEFINE T == {j \in Int : FieldEnd(m, l, c - j) <= FieldEnd(m, l, c)}
<1>3. 0 \in T
  <2>1. FieldEnd(m, l, c) \in Int
    BY <1>1, <1>2, FieldsOneAfterAnother
  <2>2. c - 0 = c
    BY <1>1
  <2> HIDE DEF c
  <2> QED
    BY <2>1, <2>2
<1>4. ASSUME NEW j \in 0 .. c - 1, j \in T
      PROVE  j + 1 \in T
  <2>1. c - j \in 1 .. c /\ (c - j) - 1 = c - (j + 1)
    BY <1>1
  <2>2. /\ FieldEnd(m, l, c - (j + 1)) <= FieldEnd(m, l, c - j)
        /\ FieldEnd(m, l, c - (j + 1)) \in Int /\ FieldEnd(m, l, c - j) \in Int
    BY <1>2, <2>1
  <2>3. FieldEnd(m, l, c) \in Int
    <3>1. c \in 1 .. c
      BY <1>1
    <3> QED BY <1>2, <3>1
  <2>4. FieldEnd(m, l, c - j) <= FieldEnd(m, l, c)
    BY <1>4
  <2> HIDE DEF c
  <2> QED
    BY <2>2, <2>3, <2>4
<1> HIDE DEF T
<1>5. 0 .. c \subseteq T
  BY <1>1, <1>3, <1>4, IntervalInduction
<1>6. ASSUME NEW i \in 0 .. c
      PROVE  FieldEnd(m, l, i) <= FieldEnd(m, l, c)
  <2>1. c - i \in T /\ c - (c - i) = i
    BY <1>1, <1>5
  <2> QED
    BY <2>1 DEF T
<1> QED
  BY <1>6

-----------------------------------------------------------------------------
(* The inductive invariant.                                                *)

\* The block length by which the entries around or in node n are measured.
OwnBlock(n) ==
    CASE msg.kind[n] = "group" -> EntryBlock(n)
      [] msg.kind[n] = "entry" -> EntryBlock(msg.parent[n])
      [] OTHER                 -> 0

\* What was set when the visit of group g began.
OuterBlock(g) == IF g = view THEN 0 ELSE OwnBlock(msg.parent[g])

\* A set of nodes that have been entered, closed under the way back to the
\* view; groups among them have saved the block length around them.
IsEntered(P) ==
    /\ P \subseteq msg.nodes
    /\ view \in P /\ at \in P
    /\ \A n \in P :
           /\ msg.kind[n] # "data"
           /\ NodeEnd(msg, n) <= NodeEnd(msg, view)
           /\ n # view => /\ n # msg.root /\ msg.parent[n] \in P
                          /\ Level(msg, view) <= msg.addr[n]
           /\ msg.kind[n] = "group" => saved[n] = OuterBlock(n)

WithinView == \E P \in SUBSET msg.nodes : IsEntered(P)

\* Nothing has been done yet.
AtStart ==
    phase = "start" =>
        /\ at = view /\ next = 1
        /\ size = limit /\ valid
        /\ groupBlockLength = 0
        /\ saved = [n \in msg.nodes |-> 0]

\* The block length set is the one of the group around the place of the visit.
BlockOfPlace ==
    phase \in {"visit", "stop"} => groupBlockLength = OwnBlock(at)

\* What has been counted is what lies in front of the next child, and fits.
Counting ==
    phase = "visit" =>
        /\ valid
        /\ next \in 1 .. FieldCount(msg, at) + KidCount(msg, at) + 1
        /\ msg.kind[at] = "group" => next \in 1 .. KidCount(msg, at) + 1

\* The visit has stopped because the view is longer than the buffer.
StoppedForSize == phase = "stop" => ~valid /\ limit < msg.size[view]

IInv ==
    /\ TypeOK
    /\ WithinView /\ AtStart /\ BlockOfPlace /\ Counting /\ StoppedForSize
    /\ CursorStaysWithCount
    /\ ResultIsExact
    /\ EntriesMeasuredByOwnGroup
    /\ CompleteViewsAnswered
-----------------------------------------------------------------------------
(* Where the visit is.                                                     *)

\* The message and the arguments.
LEMMA Arguments ==
    ASSUME TypeOK
    PROVE  /\ IsTree(msg) /\ HasSizes(msg) /\ FieldsFollow(msg)
           /\ CursorPassesBlocks(msg)
           /\ view \in msg.nodes /\ msg.kind[view] \in {"message", "group"}
           /\ msg.addr[view] \in Nat /\ msg.hdr[view] \in Nat
           /\ msg.block[view] \in Nat /\ msg.size[view] \in Nat
           /\ msg.addr[view] + msg.hdr[view] + msg.block[view]
                  <= msg.addr[view] + msg.size[view]
           /\ limit \in Nat
           /\ msg.kind[view] = "message" => view = msg.root
           /\ msg.kind[view] = "group" => msg.hdr[view] > 0
<1>1. IsWireMessage(msg) /\ limit \in Nat
  BY MessagesAssumption, LimitsAssumption DEF TypeOK
<1>2. view \in msg.nodes /\ msg.kind[view] \in {"message", "group"}
  BY DEF TypeOK, Views
<1>3. IsTree(msg) /\ HasSizes(msg) /\ FieldsFollow(msg) /\ CursorPassesBlocks(msg)
  BY <1>1 DEF IsWireMessage
<1>4. /\ msg.kind[view] = "message" => view = msg.root
      /\ msg.kind[view] = "group" => msg.hdr[view] > 0
  BY <1>1, <1>2 DEF IsWireMessage, IsTree
<1> QED
  BY <1>1, <1>2, <1>3, <1>4, SizesOfNode DEF BlockEnd, NodeEnd, Level

\* The node whose members are visited.
LEMMA Place ==
    ASSUME TypeOK
    PROVE  /\ at \in msg.nodes /\ msg.kind[at] \in LevelKinds \cup {"group"}
           /\ FieldCount(msg, at) \in Nat /\ KidCount(msg, at) \in Nat
           /\ DOMAIN msg.fields[at] = 1 .. FieldCount(msg, at)
           /\ DOMAIN msg.kids[at] = 1 .. KidCount(msg, at)
           /\ msg.addr[at] \in Nat /\ msg.hdr[at] \in Nat
           /\ msg.block[at] \in Nat /\ msg.size[at] \in Nat
<1>1. at \in msg.nodes /\ msg.kind[at] # "data"
  BY DEF TypeOK
<1>2. IsTree(msg) /\ HasSizes(msg) /\ FieldsFollow(msg)
  BY Arguments
<1> QED
  BY <1>1, <1>2, SizesOfNode, FieldsOfNode DEF Kinds

\* It lies in the view.
LEMMA PlaceInView ==
    ASSUME TypeOK, WithinView
    PROVE  /\ NodeEnd(msg, at) <= NodeEnd(msg, view)
           /\ at # view => at # msg.root
           /\ msg.kind[at] = "group" => saved[at] = OuterBlock(at)
<1>1. PICK P \in SUBSET msg.nodes : IsEntered(P)
  BY DEF WithinView
<1> QED
  BY <1>1 DEF IsEntered

\* The visit stays where it is or goes back to the parent.
LEMMA StaysWithin ==
    ASSUME WithinView, args' = args, saved' = saved,
           at' = at \/ (at # view /\ at' = msg.parent[at])
    PROVE  WithinView'
<1>1. PICK P \in SUBSET msg.nodes : IsEntered(P)
  BY DEF WithinView
<1>2. msg' = msg /\ view' = view
  BY DEF args
<1>3. at' \in P
  BY <1>1 DEF IsEntered
<1>4. IsEntered(P)'
  BY <1>1, <1>2, <1>3 DEF IsEntered, OuterBlock, OwnBlock, EntryBlock, NodeEnd, Level
<1> QED
  BY <1>1, <1>2, <1>4 DEF WithinView

\* A child of the node being visited is not the view.
LEMMA ChildIsNotView ==
    ASSUME TypeOK, WithinView, NEW i \in DOMAIN msg.kids[at]
    PROVE  msg.kids[at][i] # view
<1>1. PICK P \in SUBSET msg.nodes : IsEntered(P)
  BY DEF WithinView
<1>2. /\ IsTree(msg) /\ HasSizes(msg)
      /\ at \in msg.nodes /\ view \in msg.nodes
      /\ msg.addr[view] \in Nat /\ msg.hdr[view] \in Nat
      /\ msg.addr[at] \in Nat /\ msg.hdr[at] \in Nat /\ msg.block[at] \in Nat
  BY Arguments, Place
<1> PICK k : k = msg.kids[at][i]
  OBVIOUS
<1>3. k \in msg.nodes /\ k # msg.root /\ BlockEnd(msg, at) <= msg.addr[k]
  BY <1>2, KidOfNode, KidsBehindBlock
<1>4. msg.addr[k] \in Nat
  BY <1>2, <1>3, SizesOfNode
<1>5. at # view => Level(msg, view) <= msg.addr[at]
  BY <1>1 DEF IsEntered
<1> QED
  BY <1>2, <1>3, <1>4, <1>5, Arguments DEF BlockEnd, Level

\* The visit goes on to a child.
LEMMA EntersChild ==
    ASSUME TypeOK, WithinView, args' = args, NEW i \in DOMAIN msg.kids[at],
           at' = msg.kids[at][i], msg.kind[at'] # "data",
           IF msg.kind[at'] = "group"
           THEN saved' = [saved EXCEPT ![at'] = OwnBlock(at)]
           ELSE saved' = saved
    PROVE  WithinView'
<1>1. PICK P \in SUBSET msg.nodes : IsEntered(P)
  BY DEF WithinView
<1>2. msg' = msg /\ view' = view
  BY DEF args
<1>3. at \in P
  BY <1>1 DEF IsEntered
<1> PICK Q : Q = P \cup {at'}
  OBVIOUS
<1>4. /\ IsTree(msg) /\ HasSizes(msg)
      /\ at \in msg.nodes /\ view \in msg.nodes
      /\ msg.addr[view] \in Nat /\ msg.hdr[view] \in Nat /\ msg.size[view] \in Nat
      /\ msg.addr[at] \in Nat /\ msg.hdr[at] \in Nat /\ msg.block[at] \in Nat
      /\ msg.size[at] \in Nat
  BY Arguments, Place
<1>5. /\ at' \in msg.nodes /\ at' # msg.root /\ msg.parent[at'] = at
      /\ NodeEnd(msg, at') <= NodeEnd(msg, at)
      /\ BlockEnd(msg, at) <= msg.addr[at']
  BY <1>4, KidOfNode, KidsInside, KidsBehindBlock
<1>6. msg.addr[at'] \in Nat /\ msg.size[at'] \in Nat
  BY <1>4, <1>5, SizesOfNode
<1>7. NodeEnd(msg, at') <= NodeEnd(msg, view)
  <2>1. NodeEnd(msg, at) <= NodeEnd(msg, view)
    BY <1>1, <1>3 DEF IsEntered
  <2>2. /\ NodeEnd(msg, at') \in Int /\ NodeEnd(msg, at) \in Int
        /\ NodeEnd(msg, view) \in Int
    BY <1>4, <1>6 DEF NodeEnd
  <2> QED
    BY <1>5, <2>1, <2>2
<1>8. Level(msg, view) <= msg.addr[at']
  <2>1. at # view => Level(msg, view) <= msg.addr[at]
    BY <1>1, <1>3 DEF IsEntered
  <2> QED
    BY <1>4, <1>5, <1>6, <2>1 DEF BlockEnd, Level
<1>9. at' # view
  BY ChildIsNotView
<1>10. saved \in [msg.nodes -> Nat]
  BY DEF TypeOK
<1>11. ASSUME NEW n \in Q
       PROVE  /\ msg.kind[n] # "data"
              /\ NodeEnd(msg, n) <= NodeEnd(msg, view)
              /\ n # view => /\ n # msg.root /\ msg.parent[n] \in Q
                             /\ Level(msg, view) <= msg.addr[n]
  <2>1. CASE n = at'
    BY <1>3, <1>5, <1>7, <1>8, <2>1
  <2>2. CASE n \in P
    BY <1>1, <2>2 DEF IsEntered
  <2> QED
    BY <2>1, <2>2
<1>12. ASSUME NEW n \in Q, msg.kind[n] = "group"
       PROVE  saved'[n] = OuterBlock(n)
  <2>1. CASE n = at'
    <3>1. OuterBlock(n) = OwnBlock(at)
      BY <1>5, <1>9, <2>1 DEF OuterBlock
    <3>2. saved'[n] = OwnBlock(at)
      BY <1>5, <1>10, <1>12, <2>1
    <3> QED
      BY <3>1, <3>2
  <2>2. CASE n # at'
    <3>1. n \in P /\ saved'[n] = saved[n]
      BY <1>1, <1>10, <2>2
    <3> QED
      BY <1>1, <1>12, <3>1 DEF IsEntered
  <2> QED
    BY <2>1, <2>2
<1>13. Q \subseteq msg.nodes /\ view \in Q /\ at' \in Q
  BY <1>1, <1>5 DEF IsEntered
<1>14. IsEntered(Q)'
  <2>1. \A n \in Q : (OuterBlock(n))' = OuterBlock(n)
    BY <1>2 DEF OuterBlock, OwnBlock, EntryBlock
  <2> QED
    BY <1>2, <1>11, <1>12, <1>13, <2>1 DEF IsEntered, NodeEnd, Level
<1> QED
  BY <1>2, <1>13, <1>14 DEF WithinView
-----------------------------------------------------------------------------
(* Steps by what they lead to.                                             *)

\* A step after which the visit goes on.
LEMMA VisitGoesOn ==
    ASSUME IInv, args' = args, phase' = "visit", valid' = TRUE,
           at' \in msg.nodes, msg.kind[at'] # "data",
           next' \in 1 .. FieldCount(msg, at') + KidCount(msg, at') + 1,
           msg.kind[at'] = "group" => next' \in 1 .. KidCount(msg, at') + 1,
           size' \in 0 .. limit, ptr' \in Nat, groupBlockLength' \in Nat,
           saved' \in [msg.nodes -> Nat],
           groupBlockLength' = OwnBlock(at'),
           WithinView', CursorStaysWithCount'
    PROVE  IInv'
<1>1. msg' = msg /\ view' = view /\ limit' = limit /\ checked' = checked
  BY DEF args
<1>2. TypeOK'
  BY <1>1 DEF IInv, TypeOK
<1>3. AtStart' /\ StoppedForSize' /\ ResultIsExact' /\ CompleteViewsAnswered'
  BY DEF AtStart, StoppedForSize, ResultIsExact, CompleteViewsAnswered
<1>4. BlockOfPlace' /\ EntriesMeasuredByOwnGroup'
  BY <1>1 DEF BlockOfPlace, EntriesMeasuredByOwnGroup, OwnBlock, EntryBlock
<1>5. Counting'
  BY <1>1 DEF Counting
<1> QED
  BY <1>2, <1>3, <1>4, <1>5 DEF IInv

\* A step that stops the visit, or one of its way back.
LEMMA VisitStops ==
    ASSUME IInv, args' = args, phase' = "stop", valid' = FALSE,
           limit < msg.size[view],
           at' \in msg.nodes, msg.kind[at'] # "data",
           size' \in 0 .. limit, ptr' \in Nat, groupBlockLength' \in Nat,
           saved' \in [msg.nodes -> Nat],
           groupBlockLength' = OwnBlock(at'),
           WithinView'
    PROVE  IInv'
<1>1. msg' = msg /\ view' = view /\ limit' = limit /\ checked' = checked
  BY DEF args
<1>2. TypeOK'
  BY <1>1 DEF IInv, TypeOK
<1>3. /\ AtStart' /\ Counting' /\ ResultIsExact' /\ CompleteViewsAnswered'
      /\ EntriesMeasuredByOwnGroup' /\ CursorStaysWithCount'
  BY DEF AtStart, Counting, ResultIsExact, CompleteViewsAnswered,
         EntriesMeasuredByOwnGroup, CursorStaysWithCount
<1>4. StoppedForSize'
  BY <1>1 DEF StoppedForSize
<1>5. BlockOfPlace'
  BY <1>1 DEF BlockOfPlace, OwnBlock, EntryBlock
<1> QED
  BY <1>2, <1>3, <1>4, <1>5 DEF IInv

\* A step to the end.
LEMMA VisitEnds ==
    ASSUME IInv, args' = args, phase' = "done",
           at' = at, saved' = saved, ptr' \in Nat, size' \in 0 .. limit,
           groupBlockLength' = 0,
           \/ valid' = TRUE  /\ limit - size' = msg.size[view]
           \/ valid' = FALSE /\ limit < msg.size[view]
    PROVE  IInv'
<1>1. msg' = msg /\ view' = view /\ limit' = limit /\ checked' = checked
  BY DEF args
<1>2. TypeOK'
  BY <1>1 DEF IInv, TypeOK
<1>3. /\ AtStart' /\ Counting' /\ CompleteViewsAnswered' /\ BlockOfPlace'
      /\ StoppedForSize' /\ CursorStaysWithCount'
  BY DEF AtStart, Counting, CompleteViewsAnswered, BlockOfPlace,
         StoppedForSize, CursorStaysWithCount
<1>4. EntriesMeasuredByOwnGroup'
  BY DEF EntriesMeasuredByOwnGroup
<1>5. ResultIsExact'
  <2>1. limit \in Nat /\ msg.size[view] \in Nat
    BY Arguments DEF IInv
  <2> QED
    BY <1>1, <2>1 DEF ResultIsExact
<1>6. WithinView'
  BY StaysWithin DEF IInv
<1> QED
  BY <1>2, <1>3, <1>4, <1>5, <1>6 DEF IInv

\* A failed check.
LEMMA CheckFails ==
    ASSUME IInv, phase \in {"start", "visit"}, FailCheck,
           \/ limit < msg.size[view]
           \/ \E l \in Levels(msg) :
                  ~(FieldEnd(msg, l, FieldCount(msg, l)) <= msg.block[l])
    PROVE  IInv'
<1>1. /\ msg' = msg /\ view' = view /\ limit' = limit /\ checked' = checked
      /\ phase' = "assert" /\ at' = at /\ next' = next /\ ptr' = ptr
      /\ size' = size /\ valid' = valid /\ groupBlockLength' = groupBlockLength
      /\ saved' = saved /\ args' = args
  BY DEF FailCheck, args, visitor
<1>2. TypeOK'
  BY <1>1 DEF IInv, TypeOK
<1>3. /\ AtStart' /\ Counting' /\ ResultIsExact' /\ BlockOfPlace'
      /\ StoppedForSize' /\ CursorStaysWithCount' /\ EntriesMeasuredByOwnGroup'
  BY <1>1 DEF AtStart, Counting, ResultIsExact, BlockOfPlace,
              StoppedForSize, CursorStaysWithCount, EntriesMeasuredByOwnGroup
<1>4. CompleteViewsAnswered'
  <2>1. CASE limit < msg.size[view]
    <3>1. ~(limit >= msg.size[view])
      BY <2>1, Arguments DEF IInv
    <3> QED
      BY <1>1, <3>1 DEF CompleteViewsAnswered
  <2>2. CASE \E l \in Levels(msg) :
                 ~(FieldEnd(msg, l, FieldCount(msg, l)) <= msg.block[l])
    BY <1>1, <2>2 DEF CompleteViewsAnswered
  <2> QED
    BY <2>1, <2>2
<1>5. WithinView'
  BY <1>1, StaysWithin DEF IInv
<1> QED
  BY <1>2, <1>3, <1>4, <1>5 DEF IInv

\* Block lengths are natural numbers.
LEMMA OwnBlockIsNat ==
    ASSUME TypeOK, NEW n \in msg.nodes
    PROVE  OwnBlock(n) \in Nat
<1>1. IsTree(msg) /\ HasSizes(msg)
  BY Arguments
<1>2. ASSUME NEW g \in msg.nodes
      PROVE  EntryBlock(g) \in Nat
  <2>1. CASE msg.kids[g] = <<>>
    BY <2>1 DEF EntryBlock
  <2>2. CASE msg.kids[g] # <<>>
    <3>1. 1 \in DOMAIN msg.kids[g]
      BY <1>1, <2>2, SizesOfNode
    <3>2. msg.kids[g][1] \in msg.nodes
      BY <1>1, <3>1, KidOfNode
    <3> QED
      BY <1>1, <2>2, <3>2, SizesOfNode DEF EntryBlock
  <2> QED
    BY <2>1, <2>2
<1>3. CASE msg.kind[n] = "group"
  BY <1>2, <1>3 DEF OwnBlock
<1>4. CASE msg.kind[n] = "entry"
  <2>1. msg.parent[n] \in msg.nodes
    BY <1>1, <1>4, ParentOfNode
  <2> QED
    BY <1>2, <1>4, <2>1 DEF OwnBlock
<1>5. CASE msg.kind[n] \notin {"group", "entry"}
  BY <1>5 DEF OwnBlock
<1> QED
  BY <1>3, <1>4, <1>5
-----------------------------------------------------------------------------
(* The actions.                                                            *)

\* In front of a level's first member its block has been counted, and the
\* cursor is where the accessor of that member expects it.
LEMMA LevelBegins ==
    ASSUME TypeOK, msg' = msg, at' \in Levels(msg), next' = 1,
           ptr' = Level(msg, at') + IF msg.kind[at'] = "entry" /\ IsEmptyLevel(msg, at')
                                    THEN msg.block[at'] ELSE 0
    PROVE  Counted' = BlockEnd(msg, at') /\ CursorInLevel'
<1> PICK l \in Levels(msg) : l = at'
  OBVIOUS
<1>1. IsTree(msg) /\ HasSizes(msg) /\ FieldsFollow(msg) /\ CursorPassesBlocks(msg)
  BY Arguments
<1>2. l \in msg.nodes /\ msg.kind[l] \in LevelKinds /\ msg.kind[l] # "group"
  BY DEF Levels, LevelKinds
<1>3. /\ FieldCount(msg, l) \in Nat /\ KidCount(msg, l) \in Nat
      /\ msg.addr[l] \in Nat /\ msg.hdr[l] \in Nat /\ msg.block[l] \in Nat
      /\ msg.fields[l] = <<>> <=> FieldCount(msg, l) = 0
      /\ msg.kids[l] = <<>> <=> KidCount(msg, l) = 0
  BY <1>1, <1>2, FieldsOfNode, SizesOfNode
<1>4. Counted' = BlockEnd(msg, l)
  <2>1. CASE 1 <= FieldCount(msg, l)
    BY <1>2, <2>1 DEF Counted
  <2>2. CASE FieldCount(msg, l) = 0
    BY <1>2, <2>2 DEF Counted, KidStart
  <2> QED
    BY <1>3, <2>1, <2>2
<1>5. CASE 1 <= FieldCount(msg, l)
  <2>1. ~IsEmptyLevel(msg, l)
    BY <1>3, <1>5 DEF IsEmptyLevel
  <2>2. ptr' = Level(msg, l) + FieldEnd(msg, l, 0)
    BY <1>3, <2>1 DEF FieldEnd, Level
  <2> QED
    BY <1>3, <1>4, <1>5, <2>2 DEF CursorInLevel
<1>6. CASE FieldCount(msg, l) = 0 /\ KidCount(msg, l) > 0
  BY <1>3, <1>4, <1>6 DEF CursorInLevel
<1>7. CASE FieldCount(msg, l) = 0 /\ KidCount(msg, l) = 0
  <2>1. ptr' = BlockEnd(msg, l)
    <3>1. CASE msg.kind[l] = "entry" /\ msg.consts[l] = 0
      BY <1>3, <1>7, <3>1 DEF IsEmptyLevel, BlockEnd, Level
    <3>2. CASE ~(msg.kind[l] = "entry" /\ msg.consts[l] = 0)
      <4>1. msg.block[l] = 0
        BY <1>1, <1>3, <1>7, <3>2 DEF CursorPassesBlocks
      <4> QED
        BY <1>3, <4>1 DEF BlockEnd, Level
    <3> QED
      BY <3>1, <3>2
  <2> QED
    BY <1>4, <1>7, <2>1 DEF CursorInLevel
<1> QED
  BY <1>3, <1>4, <1>5, <1>6, <1>7

LEMMA TooShortForHeaderStep ==
    ASSUME IInv, TooShortForHeader
    PROVE  IInv'
<1>1. phase = "start" /\ limit < msg.hdr[view]
  BY DEF TooShortForHeader
<1>2. TypeOK /\ groupBlockLength = 0
  BY <1>1 DEF IInv, AtStart
<1>3. limit < msg.size[view]
  BY <1>1, <1>2, Arguments DEF TypeOK
<1>4. CASE FailCheck
  BY <1>1, <1>3, <1>4, CheckFails
<1>5. CASE ~FailCheck
  <2>1. /\ args' = args /\ phase' = "done" /\ at' = at /\ saved' = saved
        /\ ptr' = ptr /\ size' = size /\ groupBlockLength' = groupBlockLength
        /\ valid' = FALSE
    BY <1>5 DEF TooShortForHeader
  <2>2. ptr' \in Nat /\ size' \in 0 .. limit
    BY <1>2, <2>1 DEF TypeOK
  <2> QED
    BY <1>2, <1>3, <2>1, <2>2, VisitEnds
<1> QED
  BY <1>4, <1>5

LEMMA OnMessageStep ==
    ASSUME IInv, OnMessage
    PROVE  IInv'
<1> DEFINE rest == size - msg.hdr[view]
<1>1. /\ args' = args /\ at' = at /\ next' = next /\ saved' = saved
      /\ groupBlockLength' = groupBlockLength
      /\ phase = "start" /\ msg.kind[view] = "message" /\ limit >= msg.hdr[view]
      /\ ptr' = Level(msg, view) /\ msg' = msg /\ view' = view /\ limit' = limit
  BY DEF OnMessage, args
<1>2. /\ TypeOK /\ groupBlockLength = 0 /\ at = view /\ next = 1
      /\ size = limit /\ valid = TRUE
  BY <1>1 DEF IInv, AtStart, TypeOK
<1>3. /\ msg.addr[view] \in Nat /\ msg.hdr[view] \in Nat /\ msg.block[view] \in Nat
      /\ msg.hdr[view] + msg.block[view] <= msg.size[view]
      /\ msg.size[view] \in Nat /\ limit \in Nat /\ view \in msg.nodes
  BY <1>2, Arguments
<1>4. ptr' \in Nat /\ rest \in 0 .. limit
  BY <1>1, <1>2, <1>3 DEF Level
<1>5. CASE rest >= msg.block[view] /\ size' = rest - msg.block[view]
           /\ phase' = "visit" /\ valid' = valid
  <2>1. size' \in 0 .. limit /\ limit - size' = msg.hdr[view] + msg.block[view]
    BY <1>2, <1>3, <1>4, <1>5
  <2>2. OwnBlock(at') = 0
    BY <1>1, <1>2 DEF OwnBlock
  <2>3. view \in Levels(msg)
    BY <1>1, <1>3 DEF Levels, LevelKinds
  <2>4. ptr' = Level(msg, view) + 0
    BY <1>1, <1>3 DEF Level
  <2>5. Counted' = BlockEnd(msg, view) /\ CursorInLevel'
    BY <1>1, <1>2, <2>3, <2>4, LevelBegins
  <2>6. CursorStaysWithCount'
    <3>1. limit - size' = BlockEnd(msg, view) - msg.addr[view]
      BY <1>3, <2>1 DEF BlockEnd, Level
    <3> QED
      BY <1>1, <1>2, <2>5, <3>1 DEF CursorStaysWithCount
  <2>7. WithinView'
    BY <1>1, StaysWithin DEF IInv
  <2>8. next' \in 1 .. FieldCount(msg, at') + KidCount(msg, at') + 1
    BY <1>1, <1>2, Place
  <2>9. saved' \in [msg.nodes -> Nat]
    BY <1>1, <1>2 DEF TypeOK
  <2> QED
    BY <1>1, <1>2, <1>3, <1>4, <1>5, <2>1, <2>2, <2>6, <2>7, <2>8, <2>9, VisitGoesOn
<1>6. CASE rest < msg.block[view] /\ size' = rest /\ valid' = FALSE /\ phase' = "done"
  <2>1. limit < msg.size[view]
    BY <1>2, <1>3, <1>6
  <2> QED
    BY <1>1, <1>2, <1>4, <1>6, <2>1, VisitEnds
<1> QED
  BY <1>5, <1>6 DEF OnMessage

LEMMA OnViewedGroupStep ==
    ASSUME IInv, OnViewedGroup
    PROVE  IInv'
<1>1. /\ args' = args /\ at' = at /\ next' = next /\ valid' = valid
      /\ phase = "start" /\ msg.kind[view] = "group" /\ limit >= msg.hdr[view]
      /\ ptr' = Level(msg, view) /\ msg' = msg /\ view' = view /\ limit' = limit
      /\ size' = size - msg.hdr[view] /\ phase' = "visit"
      /\ saved' = [saved EXCEPT ![view] = groupBlockLength]
      /\ groupBlockLength' = EntryBlock(view)
  BY DEF OnViewedGroup, BeginGroup, args
<1>2. /\ TypeOK /\ groupBlockLength = 0 /\ at = view /\ next = 1
      /\ size = limit /\ valid = TRUE /\ saved = [n \in msg.nodes |-> 0]
  BY <1>1 DEF IInv, AtStart, TypeOK
<1>3. /\ IsTree(msg) /\ HasSizes(msg) /\ view \in msg.nodes
      /\ msg.addr[view] \in Nat /\ msg.hdr[view] \in Nat /\ limit \in Nat
      /\ KidCount(msg, view) \in Nat /\ FieldCount(msg, view) \in Nat
  BY <1>2, Arguments, Place
<1>4. ptr' \in Nat /\ size' \in 0 .. limit
  BY <1>1, <1>2, <1>3 DEF Level
<1>5. saved' = saved /\ saved' \in [msg.nodes -> Nat]
  BY <1>1, <1>2
<1>6. OwnBlock(view) = EntryBlock(view) /\ groupBlockLength' \in Nat
  BY <1>1, <1>2, <1>3, OwnBlockIsNat DEF OwnBlock
<1>7. CursorStaysWithCount'
  <2>1. Counted' = BlockEnd(msg, view)
    BY <1>1, <1>2 DEF Counted, KidStart
  <2>2. msg.block[view] = 0
    BY <1>1, <1>3, SizesOfNode
  <2>3. ptr' = BlockEnd(msg, view) /\ limit - size' = BlockEnd(msg, view) - msg.addr[view]
    BY <1>1, <1>2, <1>3, <2>2 DEF BlockEnd, Level
  <2> QED
    BY <1>1, <1>2, <2>1, <2>3 DEF CursorStaysWithCount
<1>8. WithinView'
  BY <1>1, <1>5, StaysWithin DEF IInv
<1>9. /\ next' \in 1 .. FieldCount(msg, at') + KidCount(msg, at') + 1
      /\ next' \in 1 .. KidCount(msg, at') + 1
  BY <1>1, <1>2, <1>3
<1> QED
  BY <1>1, <1>2, <1>3, <1>4, <1>5, <1>6, <1>7, <1>8, <1>9, VisitGoesOn

\* While members are visited.
LEMMA Visiting ==
    ASSUME IInv, phase = "visit"
    PROVE  /\ TypeOK /\ valid = TRUE
           /\ IsTree(msg) /\ HasSizes(msg) /\ FieldsFollow(msg)
           /\ limit \in Nat /\ size \in 0 .. limit /\ ptr \in Nat
           /\ msg.addr[view] \in Nat /\ msg.size[view] \in Nat
           /\ view \in msg.nodes
           /\ groupBlockLength = OwnBlock(at) /\ groupBlockLength \in Nat
           /\ saved \in [msg.nodes -> Nat]
           /\ next \in 1 .. FieldCount(msg, at) + KidCount(msg, at) + 1
           /\ msg.kind[at] = "group" => next \in 1 .. KidCount(msg, at) + 1
           /\ limit - size = Counted - msg.addr[view]
           /\ IF msg.kind[at] = "group" THEN ptr = Counted ELSE CursorInLevel
<1>1. /\ TypeOK /\ valid /\ BlockOfPlace /\ CursorStaysWithCount
      /\ next \in 1 .. FieldCount(msg, at) + KidCount(msg, at) + 1
      /\ msg.kind[at] = "group" => next \in 1 .. KidCount(msg, at) + 1
  BY DEF IInv, Counting
<1>2. valid = TRUE
  BY <1>1 DEF TypeOK
<1> QED
  BY <1>1, <1>2, Arguments DEF TypeOK, BlockOfPlace, CursorStaysWithCount

\* The child of a level that comes next: all in front of it has been counted,
\* and its accessor finds it where it is.
LEMMA NextChild ==
    ASSUME IInv, NEW kind, AtKid(kind)
    PROVE  /\ phase = "visit" /\ msg.kind[at] \in LevelKinds
           /\ next - FieldCount(msg, at) \in DOMAIN msg.kids[at]
           /\ NextKid \in msg.nodes /\ msg.kind[NextKid] = kind
           /\ KidAddress = msg.addr[NextKid] /\ Counted = msg.addr[NextKid]
           /\ msg.addr[NextKid] \in Nat /\ msg.hdr[NextKid] \in Nat
           /\ msg.block[NextKid] \in Nat /\ msg.size[NextKid] \in Nat
           /\ msg.hdr[NextKid] <= msg.size[NextKid]
           /\ msg.addr[NextKid] + msg.size[NextKid]
                  <= msg.addr[view] + msg.size[view]
           /\ limit - size = msg.addr[NextKid] - msg.addr[view]
<1> DEFINE i == next - FieldCount(msg, at)
           k == msg.kids[at][i]
<1>1. /\ phase = "visit" /\ msg.kind[at] \in LevelKinds /\ msg.kind[at] # "group"
      /\ next > FieldCount(msg, at)
      /\ next <= FieldCount(msg, at) + KidCount(msg, at)
      /\ msg.kind[NextKid] = kind /\ NextKid = k
  BY DEF AtKid, InLevel, NextKid, LevelKinds
<1>2. TypeOK /\ IsTree(msg) /\ HasSizes(msg) /\ next \in Int
      /\ limit - size = Counted - msg.addr[view] /\ CursorInLevel
      /\ msg.addr[view] \in Nat /\ msg.size[view] \in Nat
  BY <1>1, Visiting
<1>3. /\ at \in msg.nodes /\ FieldCount(msg, at) \in Nat
      /\ KidCount(msg, at) \in Nat /\ DOMAIN msg.kids[at] = 1 .. KidCount(msg, at)
      /\ msg.addr[at] \in Nat /\ msg.size[at] \in Nat
  BY <1>2, Place
<1>4. i \in DOMAIN msg.kids[at]
  BY <1>1, <1>2, <1>3
<1>5. /\ k \in msg.nodes /\ msg.addr[k] = KidStart(msg, at, i)
      /\ NodeEnd(msg, k) <= NodeEnd(msg, at)
  BY <1>2, <1>3, <1>4, KidOfNode, KidsInside
<1>6. /\ msg.addr[k] \in Nat /\ msg.hdr[k] \in Nat
      /\ msg.block[k] \in Nat /\ msg.size[k] \in Nat
      /\ msg.hdr[k] <= msg.size[k]
  <2>1. /\ msg.addr[k] \in Nat /\ msg.hdr[k] \in Nat
        /\ msg.block[k] \in Nat /\ msg.size[k] \in Nat
        /\ BlockEnd(msg, k) <= NodeEnd(msg, k)
    BY <1>2, <1>5, SizesOfNode
  <2> QED
    BY <2>1 DEF BlockEnd, NodeEnd, Level
<1>7. msg.addr[k] + msg.size[k] <= msg.addr[view] + msg.size[view]
  <2>1. NodeEnd(msg, at) <= NodeEnd(msg, view)
    BY <1>2, PlaceInView DEF IInv
  <2>2. NodeEnd(msg, k) <= NodeEnd(msg, view)
    <3>1. NodeEnd(msg, k) <= NodeEnd(msg, at)
      BY <1>5
    <3>2. NodeEnd(msg, k) \in Nat
      BY <1>6 DEF NodeEnd
    <3>3. NodeEnd(msg, at) \in Nat
      BY <1>3 DEF NodeEnd
    <3>4. NodeEnd(msg, view) \in Nat
      BY <1>2 DEF NodeEnd
    <3> QED
      BY <2>1, <3>1, <3>2, <3>3, <3>4
  <2> QED
    BY <2>2 DEF NodeEnd
<1>8. Counted = KidStart(msg, at, i)
  BY <1>1, <1>2, <1>3 DEF Counted
<1>9. KidAddress = KidStart(msg, at, i)
  <2>1. CASE next = FieldCount(msg, at) + 1
    BY <1>2, <1>3, <2>1 DEF KidAddress, KidStart
  <2>2. CASE next # FieldCount(msg, at) + 1
    <3>1. next # 1 /\ ~(next <= FieldCount(msg, at))
      BY <1>1, <1>2, <1>3, <2>2
    <3>2. ptr = Counted
      BY <1>2, <3>1 DEF CursorInLevel
    <3> QED
      BY <1>8, <2>2, <3>2 DEF KidAddress
  <2> QED
    BY <2>1, <2>2
<1> QED
  BY <1>1, <1>2, <1>4, <1>5, <1>6, <1>7, <1>8, <1>9

LEMMA VisitFieldStep ==
    ASSUME IInv, VisitField
    PROVE  IInv'
<1> DEFINE f == msg.fields[at][next]
<1>1. phase = "visit" /\ msg.kind[at] \in LevelKinds /\ msg.kind[at] # "group"
      /\ next \in DOMAIN msg.fields[at]
  BY DEF VisitField, InLevel, LevelKinds
<1>2. /\ TypeOK /\ valid = TRUE /\ IsTree(msg) /\ HasSizes(msg) /\ FieldsFollow(msg)
      /\ limit \in Nat /\ size \in 0 .. limit /\ ptr \in Nat
      /\ msg.addr[view] \in Nat /\ msg.size[view] \in Nat
      /\ groupBlockLength = OwnBlock(at) /\ groupBlockLength \in Nat
      /\ saved \in [msg.nodes -> Nat]
      /\ limit - size = Counted - msg.addr[view] /\ CursorInLevel
  BY <1>1, Visiting
<1>3. /\ at \in msg.nodes /\ FieldCount(msg, at) \in Nat /\ KidCount(msg, at) \in Nat
      /\ next \in 1 .. FieldCount(msg, at)
      /\ msg.addr[at] \in Nat /\ msg.hdr[at] \in Nat
      /\ msg.block[at] \in Nat /\ msg.size[at] \in Nat
  BY <1>1, <1>2, Place
<1>4. at \in Levels(msg)
  BY <1>1, <1>3 DEF Levels
<1>5. /\ f.rel \in Nat /\ f.size \in Nat
      /\ FieldEnd(msg, at, next) \in Int /\ FieldEnd(msg, at, next - 1) \in Int
      /\ FieldEnd(msg, at, next) = FieldEnd(msg, at, next - 1) + f.rel + f.size
  BY <1>2, <1>3, <1>4, FieldsOneAfterAnother
<1>6. ptr = Level(msg, at) + FieldEnd(msg, at, next - 1)
  BY <1>2, <1>3 DEF CursorInLevel
<1>7. Counted = BlockEnd(msg, at)
  BY <1>1, <1>3 DEF Counted
<1> HIDE DEF f
<1>8. ptr + f.rel + f.size = Level(msg, at) + FieldEnd(msg, at, next)
  BY <1>3, <1>5, <1>6 DEF Level
<1>9. CASE ~CanRead(ptr + f.rel + f.size) /\ FailCheck
  <2>1. ptr + f.rel + f.size > msg.addr[view] + limit
    BY <1>2, <1>5, <1>9 DEF CanRead, LimitEnd
  <2>2. CASE FieldEnd(msg, at, next) <= msg.block[at]
    <3>1. BlockEnd(msg, at) <= NodeEnd(msg, at) /\ NodeEnd(msg, at) <= NodeEnd(msg, view)
      BY <1>2, <1>3, SizesOfNode, PlaceInView DEF IInv
    <3>2. limit < msg.size[view]
      BY <1>2, <1>3, <1>5, <1>8, <2>1, <2>2, <3>1 DEF BlockEnd, NodeEnd, Level
    <3> QED
      BY <1>1, <1>9, <3>2, CheckFails
  <2>3. CASE FieldEnd(msg, at, next) > msg.block[at]
    <3>1. /\ FieldEnd(msg, at, next) <= FieldEnd(msg, at, FieldCount(msg, at))
          /\ FieldEnd(msg, at, FieldCount(msg, at)) \in Int
      <4>1. FieldCount(msg, at) \in 1 .. FieldCount(msg, at)
        BY <1>3
      <4> QED
        BY <1>2, <1>3, <1>4, <4>1, LastFieldEndsLast, FieldsOneAfterAnother
    <3>2. ~(FieldEnd(msg, at, FieldCount(msg, at)) <= msg.block[at])
      BY <1>3, <1>5, <2>3, <3>1
    <3> QED
      BY <1>1, <1>4, <1>9, <3>2, CheckFails
  <2> QED
    BY <1>3, <1>5, <2>2, <2>3
<1>10. CASE /\ ptr' = IF next = FieldCount(msg, at) THEN BlockEnd(msg, at)
                      ELSE ptr + f.rel + f.size
            /\ next' = next + 1
            /\ UNCHANGED <<args, phase, at, visitor>>
  <2>1. /\ args' = args /\ phase' = "visit" /\ at' = at /\ size' = size
        /\ valid' = TRUE /\ groupBlockLength' = groupBlockLength /\ saved' = saved
        /\ msg' = msg /\ view' = view /\ limit' = limit /\ next' = next + 1
    BY <1>1, <1>2, <1>10 DEF args, visitor
  <2>2. Counted' = BlockEnd(msg, at)
    <3>1. CASE next + 1 <= FieldCount(msg, at)
      BY <1>1, <2>1, <3>1 DEF Counted
    <3>2. CASE next + 1 = FieldCount(msg, at) + 1
      <4>1. ~(next + 1 <= FieldCount(msg, at)) /\ (next + 1) - FieldCount(msg, at) = 1
        BY <1>3, <3>2
      <4> QED
        BY <1>1, <2>1, <4>1 DEF Counted, KidStart
    <3> QED
      BY <1>3, <3>1, <3>2
  <2>3. CursorInLevel'
    <3>1. CASE next = FieldCount(msg, at)
      <4>1. ~(next' <= FieldCount(msg', at')) /\ ptr' = Counted'
        BY <1>3, <1>10, <2>1, <2>2, <3>1
      <4> QED
        BY <4>1 DEF CursorInLevel
    <3>2. CASE next # FieldCount(msg, at)
      <4>1. next' - 1 = next /\ ptr' = Level(msg, at) + FieldEnd(msg, at, next)
            /\ next' <= FieldCount(msg, at)
        BY <1>3, <1>8, <1>10, <2>1, <3>2
      <4> QED
        BY <2>1, <4>1 DEF CursorInLevel
    <3> QED
      BY <3>1, <3>2
  <2>4. CursorStaysWithCount'
    BY <1>1, <1>2, <1>7, <2>1, <2>2, <2>3 DEF CursorStaysWithCount
  <2>5. ptr' \in Nat
    <3>1. BlockEnd(msg, at) \in Nat
      BY <1>3 DEF BlockEnd, Level
    <3>2. ptr + f.rel + f.size \in Nat
      BY <1>2, <1>5
    <3> QED
      BY <1>10, <3>1, <3>2
  <2>6. next' \in 1 .. FieldCount(msg, at') + KidCount(msg, at') + 1
    BY <1>3, <2>1
  <2>7. WithinView'
    BY <2>1, StaysWithin DEF IInv
  <2>8. msg.kind[at'] # "data" /\ msg.kind[at'] # "group"
    BY <1>1, <2>1 DEF LevelKinds
  <2> QED
    BY <1>2, <1>3, <2>1, <2>4, <2>5, <2>6, <2>7, <2>8, VisitGoesOn
<1> QED
  BY <1>9, <1>10 DEF VisitField, f

\* validate_and_subtract either counts n bytes or stops the visit.
LEMMA SubtractCounts ==
    ASSUME NEW n, Subtract(n), size >= n
    PROVE  size' = size - n /\ valid' = TRUE
<1>1. Fits(n) = TRUE
  BY DEF Fits
<1> QED
  BY <1>1, Zenon DEF Subtract

LEMMA SubtractStops ==
    ASSUME NEW n, Subtract(n), ~(size >= n)
    PROVE  size' = size /\ valid' = FALSE
<1>1. Fits(n) = FALSE
  BY DEF Fits
<1> QED
  BY <1>1, Zenon DEF Subtract

\* The header of a group is in the view: on_group.
LEMMA OnGroupCounts ==
    ASSUME IInv, AtKid("group"), UNCHANGED args,
           ptr' = KidAddress + msg.hdr[NextKid], Subtract(msg.hdr[NextKid]),
           \/ /\ Fits(msg.hdr[NextKid]) /\ BeginGroup(NextKid)
              /\ at' = NextKid /\ next' = 1 /\ UNCHANGED phase
           \/ /\ ~Fits(msg.hdr[NextKid]) /\ phase' = "stop"
              /\ UNCHANGED <<at, next, groupBlockLength, saved>>
    PROVE  IInv'
<1> DEFINE g == NextKid
           i == next - FieldCount(msg, at)
<1>1. /\ AtKid("group") /\ args' = args /\ msg' = msg /\ view' = view /\ limit' = limit
      /\ ptr' = KidAddress + msg.hdr[g]
      /\ Subtract(msg.hdr[g])
  BY DEF args
<1>2. /\ phase = "visit" /\ msg.kind[at] \in LevelKinds
      /\ i \in DOMAIN msg.kids[at] /\ g = msg.kids[at][i]
      /\ g \in msg.nodes /\ msg.kind[g] = "group"
      /\ KidAddress = msg.addr[g]
      /\ msg.addr[g] \in Nat /\ msg.hdr[g] \in Nat /\ msg.size[g] \in Nat
      /\ msg.hdr[g] <= msg.size[g]
      /\ msg.addr[g] + msg.size[g] <= msg.addr[view] + msg.size[view]
      /\ limit - size = msg.addr[g] - msg.addr[view]
  BY <1>1, NextChild DEF NextKid
<1>3. /\ TypeOK /\ IsTree(msg) /\ HasSizes(msg) /\ FieldsFollow(msg)
      /\ limit \in Nat /\ size \in 0 .. limit
      /\ msg.addr[view] \in Nat /\ msg.size[view] \in Nat
      /\ groupBlockLength = OwnBlock(at) /\ groupBlockLength \in Nat
      /\ saved \in [msg.nodes -> Nat] /\ at \in msg.nodes
      /\ msg.kind[at] # "data"
  BY <1>2, Visiting, Place DEF LevelKinds
<1>4. ptr' = msg.addr[g] + msg.hdr[g] /\ ptr' \in Nat
  <2>1. ptr' = KidAddress + msg.hdr[g]
    BY <1>1
  <2>2. KidAddress = msg.addr[g]
    BY <1>2
  <2>3. msg.addr[g] \in Nat /\ msg.hdr[g] \in Nat
    BY <1>2
  <2> HIDE DEF g
  <2>4. ptr' = msg.addr[g] + msg.hdr[g]
    BY <2>1, <2>2
  <2> QED
    BY <2>3, <2>4
<1> HIDE DEF g, i
<1>5. CASE /\ Fits(msg.hdr[g]) /\ BeginGroup(g)
           /\ at' = g /\ next' = 1 /\ phase' = phase
  <2>1. /\ valid' = TRUE /\ size' = size - msg.hdr[g] /\ size' \in 0 .. limit
        /\ phase' = "visit" /\ saved' = [saved EXCEPT ![g] = OwnBlock(at)]
        /\ groupBlockLength' = EntryBlock(g)
    <3>1. size >= msg.hdr[g]
      BY <1>5 DEF Fits
    <3>2. valid' = TRUE /\ size' = size - msg.hdr[g]
      BY <1>1, <3>1, SubtractCounts
    <3>3. size' \in 0 .. limit
      BY <1>2, <1>3, <3>1, <3>2
    <3> QED
      BY <1>2, <1>3, <1>5, <3>2, <3>3 DEF BeginGroup
  <2>2. OwnBlock(g) = EntryBlock(g) /\ OwnBlock(g) \in Nat
    BY <1>2, <1>3, OwnBlockIsNat DEF OwnBlock
  <2>3. saved' \in [msg.nodes -> Nat]
    BY <1>3, <2>1
  <2>4. CursorStaysWithCount'
    <3>1. Counted' = BlockEnd(msg, g)
      BY <1>1, <1>2, <1>5 DEF Counted, KidStart
    <3>2. msg.block[g] = 0
      BY <1>2, <1>3, SizesOfNode
    <3>3. ptr' = BlockEnd(msg, g) /\ limit - size' = BlockEnd(msg, g) - msg.addr[view]
      <4>1. BlockEnd(msg, g) = msg.addr[g] + msg.hdr[g]
        BY <1>2, <3>2 DEF BlockEnd, Level
      <4>2. limit - size' = (msg.addr[g] + msg.hdr[g]) - msg.addr[view]
        BY <1>2, <1>3, <2>1
      <4> QED
        BY <1>4, <4>1, <4>2
    <3> QED
      BY <1>1, <1>2, <1>5, <3>1, <3>3 DEF CursorStaysWithCount
  <2>5. WithinView'
    <3>1. msg.kind[at'] = "group" /\ at' = msg.kids[at][i]
      BY <1>2, <1>5
    <3>2. saved' = [saved EXCEPT ![at'] = OwnBlock(at)]
      BY <1>5, <2>1
    <3> QED
      BY <1>1, <1>2, <1>3, <3>1, <3>2, EntersChild DEF IInv
  <2>6. FieldCount(msg, g) \in Nat /\ KidCount(msg, g) \in Nat
    BY <1>2, <1>3, FieldsOfNode, SizesOfNode
  <2>7. /\ next' \in 1 .. FieldCount(msg, at') + KidCount(msg, at') + 1
        /\ next' \in 1 .. KidCount(msg, at') + 1
    BY <1>5, <2>6
  <2>8. groupBlockLength' = OwnBlock(at') /\ groupBlockLength' \in Nat
        /\ at' \in msg.nodes /\ msg.kind[at'] # "data"
    BY <1>2, <1>5, <2>1, <2>2
  <2> QED
    BY <1>1, <1>4, <2>1, <2>3, <2>4, <2>5, <2>7, <2>8, VisitGoesOn
<1>6. CASE /\ ~Fits(msg.hdr[g]) /\ phase' = "stop"
           /\ UNCHANGED <<at, next, groupBlockLength, saved>>
  <2>1. valid' = FALSE /\ size' = size /\ limit < msg.size[view]
    <3>1. ~(size >= msg.hdr[g])
      BY <1>6 DEF Fits
    <3>2. limit < msg.size[view]
      BY <1>2, <1>3, <3>1
    <3> QED
      BY <1>1, <3>1, <3>2, SubtractStops
  <2>2. WithinView'
    BY <1>1, <1>6, StaysWithin DEF IInv
  <2> QED
    BY <1>1, <1>3, <1>4, <1>6, <2>1, <2>2, VisitStops
<1> QED
  BY <1>5, <1>6 DEF g

LEMMA OnGroupStep ==
    ASSUME IInv, OnGroup
    PROVE  IInv'
<1> DEFINE g == NextKid
<1>1. AtKid("group")
  BY DEF OnGroup
<1>2. /\ KidAddress = msg.addr[g]
      /\ msg.addr[g] \in Nat /\ msg.hdr[g] \in Nat /\ msg.size[g] \in Nat
      /\ msg.hdr[g] <= msg.size[g]
      /\ msg.addr[g] + msg.size[g] <= msg.addr[view] + msg.size[view]
  BY <1>1, NextChild DEF NextKid
<1>3. limit \in Nat /\ msg.addr[view] \in Nat /\ msg.size[view] \in Nat
  BY <1>1, Visiting DEF AtKid, InLevel
<1>4. CASE ~CanRead(KidAddress + msg.hdr[g]) /\ FailCheck
  <2> HIDE DEF g
  <2>1. msg.addr[g] + msg.hdr[g] > msg.addr[view] + limit
    BY <1>2, <1>3, <1>4 DEF CanRead, LimitEnd
  <2>2. limit < msg.size[view]
    BY <1>2, <1>3, <2>1
  <2>3. phase = "visit"
    BY <1>1 DEF AtKid, InLevel
  <2> QED
    BY <1>4, <2>2, <2>3, CheckFails
<1>5. CASE ~(~CanRead(KidAddress + msg.hdr[g]) /\ FailCheck)
  BY <1>5, OnGroupCounts DEF OnGroup
<1> QED
  BY <1>4, <1>5

LEMMA OnDataStep ==
    ASSUME IInv, OnData
    PROVE  IInv'
<1> DEFINE d == NextKid
           i == next - FieldCount(msg, at)
<1>1. AtKid("data")
  BY DEF OnData
<1>2. /\ phase = "visit" /\ msg.kind[at] \in LevelKinds
      /\ i \in DOMAIN msg.kids[at] /\ d = msg.kids[at][i]
      /\ d \in msg.nodes /\ KidAddress = msg.addr[d]
      /\ msg.addr[d] \in Nat /\ msg.hdr[d] \in Nat /\ msg.size[d] \in Nat
      /\ msg.hdr[d] <= msg.size[d]
      /\ msg.addr[d] + msg.size[d] <= msg.addr[view] + msg.size[view]
      /\ limit - size = msg.addr[d] - msg.addr[view]
  BY <1>1, NextChild DEF NextKid
<1>3. /\ TypeOK /\ IsTree(msg) /\ HasSizes(msg)
      /\ limit \in Nat /\ size \in 0 .. limit
      /\ msg.addr[view] \in Nat /\ msg.size[view] \in Nat
      /\ groupBlockLength = OwnBlock(at) /\ groupBlockLength \in Nat
      /\ saved \in [msg.nodes -> Nat]
  BY <1>2, Visiting
<1>4. /\ at \in msg.nodes /\ msg.kind[at] # "group" /\ msg.kind[at] # "data"
      /\ FieldCount(msg, at) \in Nat /\ KidCount(msg, at) \in Nat
      /\ DOMAIN msg.kids[at] = 1 .. KidCount(msg, at)
  BY <1>2, <1>3, Place DEF LevelKinds
<1>5. next = FieldCount(msg, at) + i /\ i \in 1 .. KidCount(msg, at) /\ next \in Nat
  <2>1. next \in Int
    BY <1>2, Visiting
  <2> QED
    BY <1>2, <1>4, <2>1
<1> HIDE DEF d, i
<1>6. CASE ~CanRead(KidAddress + msg.hdr[d]) /\ FailCheck
  <2>1. msg.addr[d] + msg.hdr[d] > msg.addr[view] + limit
    BY <1>2, <1>3, <1>6 DEF CanRead, LimitEnd
  <2>2. limit < msg.size[view]
    BY <1>2, <1>3, <2>1
  <2> QED
    BY <1>2, <1>6, <2>2, CheckFails
<1>7. CASE /\ ptr' = KidAddress + msg.size[d]
           /\ Subtract(DataBytes(d))
           /\ next' = next + 1
           /\ phase' = IF Fits(DataBytes(d)) THEN "visit" ELSE "stop"
           /\ UNCHANGED <<args, at, groupBlockLength, saved>>
  <2>1. /\ args' = args /\ msg' = msg /\ view' = view /\ limit' = limit /\ at' = at
        /\ groupBlockLength' = groupBlockLength /\ saved' = saved /\ next' = next + 1
        /\ ptr' = msg.addr[d] + msg.size[d]
    BY <1>2, <1>7 DEF args
  <2>2. ptr' \in Nat
    BY <1>2, <2>1
  <2>3. WithinView'
    BY <2>1, StaysWithin DEF IInv
  <2>4. CASE size >= msg.size[d]
    <3>1. valid' = TRUE /\ size' = size - msg.size[d] /\ phase' = "visit"
      BY <1>2, <1>7, <2>4, SubtractCounts DEF DataBytes, Fits
    <3>2. size' \in 0 .. limit
      BY <1>2, <1>3, <2>4, <3>1
    <3>3. ~(next' <= FieldCount(msg, at)) /\ next' - FieldCount(msg, at) = i + 1
          /\ next' \in 1 .. FieldCount(msg, at) + KidCount(msg, at) + 1
      BY <1>4, <1>5, <2>1
    <3>4. Counted' = NodeEnd(msg, d)
      <4>1. Counted' = KidStart(msg, at, i + 1)
        BY <1>4, <2>1, <3>3 DEF Counted
      <4>2. NodeEnd(msg, d) = KidStart(msg, at, i + 1)
        BY <1>2, <1>3, <1>4, KidsInside
      <4> QED
        BY <4>1, <4>2
    <3>5. limit - size' = NodeEnd(msg, d) - msg.addr[view] /\ ptr' = NodeEnd(msg, d)
      BY <1>2, <1>3, <2>1, <3>1 DEF NodeEnd
    <3>6. CursorStaysWithCount'
      <4>1. CursorInLevel'
        BY <2>1, <3>3, <3>4, <3>5 DEF CursorInLevel
      <4> QED
        BY <1>4, <2>1, <3>4, <3>5, <4>1 DEF CursorStaysWithCount
    <3> QED
      BY <1>3, <1>4, <2>1, <2>2, <2>3, <3>1, <3>2, <3>3, <3>6, VisitGoesOn
  <2>5. CASE ~(size >= msg.size[d])
    <3>1. valid' = FALSE /\ size' = size /\ phase' = "stop"
      BY <1>7, <2>5, SubtractStops DEF DataBytes, Fits
    <3>2. limit < msg.size[view]
      BY <1>2, <1>3, <2>5
    <3> QED
      BY <1>3, <1>4, <2>1, <2>2, <2>3, <3>1, <3>2, VisitStops
  <2> QED
    BY <2>4, <2>5
<1> QED
  BY <1>6, <1>7 DEF OnData, d

\* The child of a group that comes next.
LEMMA OnEntryStep ==
    ASSUME IInv, OnEntry
    PROVE  IInv'
<1> DEFINE e == msg.kids[at][next]
<1>1. /\ phase = "visit" /\ msg.kind[at] = "group" /\ next \in DOMAIN msg.kids[at]
  BY DEF OnEntry
<1>2. /\ TypeOK /\ IsTree(msg) /\ HasSizes(msg) /\ valid = TRUE
      /\ limit \in Nat /\ size \in 0 .. limit
      /\ msg.addr[view] \in Nat /\ msg.size[view] \in Nat
      /\ groupBlockLength = OwnBlock(at) /\ groupBlockLength \in Nat
      /\ saved \in [msg.nodes -> Nat] /\ ptr = Counted /\ ptr \in Nat
      /\ limit - size = Counted - msg.addr[view]
  BY <1>1, Visiting
<1>3. /\ at \in msg.nodes /\ DOMAIN msg.kids[at] = 1 .. KidCount(msg, at)
      /\ msg.addr[at] \in Nat /\ msg.size[at] \in Nat
      /\ FieldCount(msg, at) \in Nat /\ KidCount(msg, at) \in Nat
  BY <1>2, Place
<1>4. /\ e \in msg.nodes /\ msg.kind[e] = "entry" /\ msg.parent[e] = at
      /\ msg.addr[e] = KidStart(msg, at, next)
      /\ NodeEnd(msg, e) <= NodeEnd(msg, at)
  BY <1>1, <1>2, <1>3, KidOfNode, KidsInside
<1> HIDE DEF e
<1>5. /\ msg.addr[e] \in Nat /\ msg.hdr[e] = 0 /\ msg.block[e] \in Nat
      /\ msg.size[e] \in Nat /\ BlockEnd(msg, e) <= NodeEnd(msg, e)
  BY <1>2, <1>4, SizesOfNode
<1>6. Counted = msg.addr[e]
  BY <1>1, <1>4 DEF Counted
<1>7. groupBlockLength = msg.block[e]
  <2>1. OwnBlock(at) = EntryBlock(at)
    BY <1>1 DEF OwnBlock
  <2>2. msg.kids[at] # <<>> /\ 1 \in DOMAIN msg.kids[at]
    BY <1>1, <1>3
  <2>3. EntryBlock(at) = msg.block[msg.kids[at][1]]
    BY <2>2 DEF EntryBlock
  <2>4. IsWireMessage(msg)
    BY <1>2, MessagesAssumption DEF TypeOK
  <2>5. msg.block[msg.kids[at][1]] = msg.block[e]
    BY <1>1, <1>3, <2>2, <2>4 DEF IsWireMessage, e
  <2> QED
    BY <1>2, <2>1, <2>3, <2>5
<1>8. msg.addr[e] + msg.block[e] <= msg.addr[view] + msg.size[view]
  <2>1. NodeEnd(msg, at) <= NodeEnd(msg, view)
    BY <1>2, PlaceInView DEF IInv
  <2>2. msg.addr[e] + msg.block[e] <= msg.addr[e] + msg.size[e]
    BY <1>5 DEF BlockEnd, NodeEnd, Level
  <2>3. msg.addr[e] + msg.size[e] <= msg.addr[at] + msg.size[at]
    BY <1>4 DEF NodeEnd
  <2>4. msg.addr[at] + msg.size[at] <= msg.addr[view] + msg.size[view]
    BY <2>1 DEF NodeEnd
  <2>5. /\ msg.addr[e] \in Nat /\ msg.block[e] \in Nat /\ msg.size[e] \in Nat
        /\ msg.addr[at] \in Nat /\ msg.size[at] \in Nat
        /\ msg.addr[view] \in Nat /\ msg.size[view] \in Nat
    BY <1>2, <1>3, <1>5
  <2> QED
    BY <2>2, <2>3, <2>4, <2>5
<1>9. EntrySkip(e) \in Nat /\ EntrySkip(e) <= msg.block[e]
  BY <1>5 DEF EntrySkip
<1>10. CASE ~CanRead(ptr + EntrySkip(e)) /\ FailCheck
  <2>1. ptr + EntrySkip(e) > msg.addr[view] + limit
    BY <1>2, <1>9, <1>10 DEF CanRead, LimitEnd
  <2>2. limit < msg.size[view]
    BY <1>2, <1>5, <1>6, <1>8, <1>9, <2>1
  <2> QED
    BY <1>1, <1>10, <2>2, CheckFails
<1>11. CASE /\ ptr' = ptr + EntrySkip(e)
            /\ Subtract(groupBlockLength)
            /\ \/ /\ Fits(groupBlockLength)
                  /\ at' = e /\ next' = 1 /\ UNCHANGED phase
               \/ /\ ~Fits(groupBlockLength)
                  /\ phase' = "stop" /\ UNCHANGED <<at, next>>
            /\ UNCHANGED <<args, groupBlockLength, saved>>
  <2>1. /\ args' = args /\ msg' = msg /\ view' = view /\ limit' = limit
        /\ groupBlockLength' = groupBlockLength /\ saved' = saved
        /\ ptr' = msg.addr[e] + EntrySkip(e)
    BY <1>2, <1>6, <1>11 DEF args
  <2>2. ptr' \in Nat
    BY <1>5, <1>9, <2>1
  <2>3. CASE /\ Fits(groupBlockLength) /\ at' = e /\ next' = 1 /\ phase' = phase
    <3>1. valid' = TRUE /\ size' = size - msg.block[e] /\ phase' = "visit"
          /\ size >= msg.block[e]
      BY <1>1, <1>7, <1>11, <2>3, SubtractCounts DEF Fits
    <3>2. size' \in 0 .. limit
      BY <1>2, <1>5, <3>1
    <3>3. at' \in Levels(msg) /\ msg.kind[at'] = "entry" /\ at' \in msg.nodes
      BY <1>4, <2>3 DEF Levels, LevelKinds
    <3>4. Counted' = BlockEnd(msg, e) /\ CursorInLevel'
      <4>1. EntrySkip(e) = IF msg.kind[e] = "entry" /\ IsEmptyLevel(msg, e)
                           THEN msg.block[e] ELSE 0
        BY <1>4 DEF EntrySkip
      <4>2. Level(msg, e) = msg.addr[e]
        BY <1>5 DEF Level
      <4>3. ptr' = Level(msg, at') + IF msg.kind[at'] = "entry" /\ IsEmptyLevel(msg, at')
                                     THEN msg.block[at'] ELSE 0
        BY <2>1, <2>3, <4>1, <4>2
      <4> QED
        BY <1>2, <2>1, <2>3, <3>3, <4>3, LevelBegins
    <3>5. limit - size' = BlockEnd(msg, e) - msg.addr[view]
      BY <1>2, <1>5, <1>6, <3>1 DEF BlockEnd, Level
    <3>6. CursorStaysWithCount'
      BY <2>1, <3>3, <3>4, <3>5 DEF CursorStaysWithCount
    <3>7. WithinView'
      <4>1. at' = msg.kids[at][next]
        BY <2>3 DEF e
      <4>2. WithinView
        BY DEF IInv
      <4> QED
        BY <1>1, <1>2, <2>1, <3>3, <4>1, <4>2, EntersChild
    <3>8. groupBlockLength' = OwnBlock(at')
      BY <1>1, <1>2, <1>4, <2>1, <2>3 DEF OwnBlock
    <3>9. next' \in 1 .. FieldCount(msg, at') + KidCount(msg, at') + 1
      <4>1. FieldCount(msg, at') \in Nat /\ KidCount(msg, at') \in Nat
        BY <1>2, <3>3, Arguments, FieldsOfNode, SizesOfNode
      <4> QED
        BY <2>3, <4>1
    <3> QED
      BY <1>2, <2>1, <2>2, <3>1, <3>2, <3>3, <3>6, <3>7, <3>8, <3>9, VisitGoesOn
  <2>4. CASE ~Fits(groupBlockLength) /\ phase' = "stop" /\ UNCHANGED <<at, next>>
    <3>1. valid' = FALSE /\ size' = size /\ size < msg.block[e] /\ at' = at
      <4>1. ~(size >= groupBlockLength)
        BY <2>4 DEF Fits
      <4>2. size < msg.block[e]
        BY <1>2, <1>5, <1>7, <4>1
      <4> QED
        BY <1>11, <2>4, <4>1, <4>2, SubtractStops
    <3>2. limit < msg.size[view]
      BY <1>2, <1>5, <1>6, <1>8, <3>1
    <3>3. WithinView'
      BY <2>1, <3>1, StaysWithin DEF IInv
    <3> QED
      BY <1>1, <1>2, <1>3, <2>1, <2>2, <2>4, <3>1, <3>2, <3>3, VisitStops
  <2> QED
    BY <1>11, <2>3, <2>4
<1> QED
  BY <1>10, <1>11 DEF OnEntry, e

-----------------------------------------------------------------------------
(* The end of a level, of a group and of the visit.                        *)

LEMMA EntryVisitedStep ==
    ASSUME IInv, EntryVisited
    PROVE  IInv'
<1> DEFINE g == msg.parent[at]
           j == msg.index[at]
<1>1. /\ phase = "visit" /\ msg.kind[at] = "entry" /\ phase' = phase
      /\ next = FieldCount(msg, at) + KidCount(msg, at) + 1
      /\ at' = g /\ next' = j + 1 /\ args' = args /\ ptr' = ptr
      /\ size' = size /\ valid' = valid /\ groupBlockLength' = groupBlockLength
      /\ saved' = saved /\ msg' = msg /\ view' = view /\ limit' = limit
  BY DEF EntryVisited, InLevel, NextEntry, args, visitor
<1>2. /\ TypeOK /\ valid = TRUE /\ IsTree(msg) /\ HasSizes(msg)
      /\ limit \in Nat /\ size \in 0 .. limit /\ ptr \in Nat
      /\ groupBlockLength = OwnBlock(at) /\ groupBlockLength \in Nat
      /\ saved \in [msg.nodes -> Nat]
      /\ limit - size = Counted - msg.addr[view] /\ CursorInLevel
  BY <1>1, Visiting
<1>3. /\ at \in msg.nodes /\ FieldCount(msg, at) \in Nat /\ KidCount(msg, at) \in Nat
  BY <1>2, Place
<1>4. /\ g \in msg.nodes /\ msg.kind[g] = "group"
      /\ j \in DOMAIN msg.kids[g] /\ msg.kids[g][j] = at
  BY <1>1, <1>2, <1>3, ParentOfNode
<1>5. /\ DOMAIN msg.kids[g] = 1 .. KidCount(msg, g) /\ KidCount(msg, g) \in Nat
      /\ FieldCount(msg, g) \in Nat
  BY <1>2, <1>4, Arguments, SizesOfNode, FieldsOfNode
<1>6. NodeEnd(msg, at) = KidStart(msg, g, j + 1)
  BY <1>2, <1>4, KidsInside
<1> HIDE DEF g, j
<1>7. Counted = NodeEnd(msg, at)
  <2>1. /\ ~(next <= FieldCount(msg, at))
        /\ next - FieldCount(msg, at) = KidCount(msg, at) + 1
    BY <1>1, <1>3
  <2>2. Counted = KidStart(msg, at, KidCount(msg, at) + 1)
    BY <1>1, <2>1 DEF Counted
  <2> QED
    BY <1>2, <1>3, <2>2, AfterLastChild
<1>8. ptr = Counted
  <2>1. ~(next <= FieldCount(msg, at)) /\ ~(next = 1 /\ KidCount(msg, at) > 0)
    BY <1>1, <1>3
  <2> QED
    BY <1>2, <2>1 DEF CursorInLevel
<1>9. Counted' = Counted
  BY <1>1, <1>4, <1>6, <1>7 DEF Counted
<1>10. CursorStaysWithCount'
  BY <1>1, <1>2, <1>4, <1>8, <1>9 DEF CursorStaysWithCount
<1>11. at # view /\ msg.kind[at] # "group"
  BY <1>1, <1>2, Arguments
<1>12. WithinView'
  BY <1>1, <1>11, StaysWithin DEF IInv, g
<1>13. groupBlockLength' = OwnBlock(at')
  BY <1>1, <1>2, <1>4 DEF OwnBlock, g
<1>14. next' \in 1 .. KidCount(msg, at') + 1
  BY <1>1, <1>4, <1>5
<1>15. next' \in 1 .. FieldCount(msg, at') + KidCount(msg, at') + 1
  BY <1>1, <1>4, <1>5
<1>16. phase' = "visit" /\ valid' = TRUE /\ msg.kind[at'] # "data" /\ at' \in msg.nodes
  BY <1>1, <1>2, <1>4
<1> QED
  BY <1>1, <1>2, <1>10, <1>12, <1>13, <1>14, <1>15, <1>16, VisitGoesOn

LEMMA GroupVisitedStep ==
    ASSUME IInv, GroupVisited
    PROVE  IInv'
<1> DEFINE p == msg.parent[at]
           j == msg.index[at]
<1>1. /\ phase = "visit" /\ msg.kind[at] = "group" /\ next = KidCount(msg, at) + 1
      /\ groupBlockLength' = saved[at] /\ args' = args /\ ptr' = ptr
      /\ size' = size /\ valid' = valid
      /\ saved' = saved /\ msg' = msg /\ view' = view /\ limit' = limit
  BY DEF GroupVisited, args
<1>2. /\ TypeOK /\ valid = TRUE /\ IsTree(msg) /\ HasSizes(msg)
      /\ limit \in Nat /\ size \in 0 .. limit /\ ptr \in Nat
      /\ saved \in [msg.nodes -> Nat] /\ msg.addr[view] \in Nat /\ msg.size[view] \in Nat
      /\ limit - size = Counted - msg.addr[view] /\ ptr = Counted
  BY <1>1, Visiting
<1>3. at \in msg.nodes /\ saved[at] = OuterBlock(at) /\ groupBlockLength' \in Nat
  <2>1. at \in msg.nodes /\ saved[at] = OuterBlock(at)
    BY <1>1, <1>2, Place, PlaceInView DEF IInv
  <2> QED
    BY <1>1, <1>2, <2>1
<1>4. Counted = NodeEnd(msg, at)
  BY <1>1, <1>2, <1>3, AfterLastChild DEF Counted
<1>5. CASE at = view /\ phase' = "done" /\ UNCHANGED <<at, next>>
  <2>1. groupBlockLength' = 0
    BY <1>1, <1>3, <1>5 DEF OuterBlock
  <2>2. limit - size' = msg.size[view]
    BY <1>1, <1>2, <1>4, <1>5 DEF NodeEnd
  <2> QED
    BY <1>1, <1>2, <1>5, <2>1, <2>2, VisitEnds
<1>6. CASE /\ at # view /\ at' = p
           /\ next' = FieldCount(msg, p) + j + 1
           /\ phase' = phase
  <2>1. /\ p \in msg.nodes /\ msg.kind[p] \in LevelKinds
        /\ j \in DOMAIN msg.kids[p] /\ msg.kids[p][j] = at
    BY <1>1, <1>2, <1>3, ParentOfNode
  <2>2. /\ DOMAIN msg.kids[p] = 1 .. KidCount(msg, p) /\ KidCount(msg, p) \in Nat
        /\ FieldCount(msg, p) \in Nat
    BY <1>2, <2>1, Arguments, SizesOfNode, FieldsOfNode
  <2>3. NodeEnd(msg, at) = KidStart(msg, p, j + 1)
    BY <1>2, <2>1, KidsInside
  <2> HIDE DEF p, j
  <2>4. /\ ~(next' <= FieldCount(msg, p)) /\ next' - FieldCount(msg, p) = j + 1
        /\ next' \in 1 .. FieldCount(msg, at') + KidCount(msg, at') + 1
    BY <1>6, <2>1, <2>2
  <2>5. msg.kind[p] # "group" /\ msg.kind[p] # "data"
    BY <2>1 DEF LevelKinds
  <2>6. Counted' = Counted
    BY <1>1, <1>4, <1>6, <2>3, <2>4, <2>5 DEF Counted
  <2>7. CursorStaysWithCount'
    <3>1. CursorInLevel'
      BY <1>1, <1>2, <1>6, <2>4, <2>6 DEF CursorInLevel
    <3> QED
      BY <1>1, <1>2, <1>6, <2>5, <2>6, <3>1 DEF CursorStaysWithCount
  <2>8. WithinView'
    BY <1>1, <1>6, StaysWithin DEF IInv, p
  <2>9. groupBlockLength' = OwnBlock(at')
    BY <1>1, <1>3, <1>6 DEF OuterBlock, p
  <2> QED
    BY <1>1, <1>2, <1>3, <1>6, <2>1, <2>4, <2>5, <2>7, <2>8, <2>9, VisitGoesOn
<1> QED
  BY <1>5, <1>6 DEF GroupVisited

LEMMA MessageVisitedStep ==
    ASSUME IInv, MessageVisited
    PROVE  IInv'
<1>1. /\ phase = "visit" /\ msg.kind[at] = "message" /\ phase' = "done"
      /\ next = FieldCount(msg, at) + KidCount(msg, at) + 1
      /\ args' = args /\ at' = at /\ ptr' = ptr
      /\ size' = size /\ valid' = valid /\ groupBlockLength' = groupBlockLength
      /\ saved' = saved
  BY DEF MessageVisited, InLevel, args, visitor
<1>2. /\ TypeOK /\ valid = TRUE /\ IsTree(msg) /\ HasSizes(msg)
      /\ limit \in Nat /\ size \in 0 .. limit /\ ptr \in Nat
      /\ groupBlockLength = OwnBlock(at) /\ msg.addr[view] \in Nat /\ msg.size[view] \in Nat
      /\ limit - size = Counted - msg.addr[view]
  BY <1>1, Visiting
<1>3. /\ at \in msg.nodes /\ FieldCount(msg, at) \in Nat /\ KidCount(msg, at) \in Nat
  BY <1>2, Place
<1>4. at = view
  <2>1. at = msg.root
    BY <1>1, <1>2, <1>3 DEF IsTree
  <2> QED
    BY <1>2, <2>1, PlaceInView DEF IInv
<1>5. Counted = NodeEnd(msg, at)
  <2>1. /\ ~(next <= FieldCount(msg, at))
        /\ next - FieldCount(msg, at) = KidCount(msg, at) + 1
    BY <1>1, <1>3
  <2>2. Counted = KidStart(msg, at, KidCount(msg, at) + 1)
    BY <1>1, <2>1 DEF Counted
  <2> QED
    BY <1>2, <1>3, <2>2, AfterLastChild
<1>6. limit - size' = msg.size[view]
  BY <1>1, <1>2, <1>4, <1>5 DEF NodeEnd
<1>7. groupBlockLength' = 0
  BY <1>1, <1>2 DEF OwnBlock
<1> QED
  BY <1>1, <1>2, <1>6, <1>7, VisitEnds

LEMMA UnwindStep ==
    ASSUME IInv, Unwind
    PROVE  IInv'
<1>1. /\ phase = "stop" /\ args' = args /\ next' = next /\ ptr' = ptr
      /\ size' = size /\ valid' = valid /\ saved' = saved
      /\ msg' = msg /\ view' = view /\ limit' = limit
  BY DEF Unwind, args
<1>2. /\ TypeOK /\ WithinView /\ ~valid /\ limit < msg.size[view]
      /\ groupBlockLength = OwnBlock(at)
  BY <1>1 DEF IInv, StoppedForSize, BlockOfPlace
<1>3. /\ ptr' \in Nat /\ size' \in 0 .. limit /\ saved' \in [msg.nodes -> Nat]
      /\ valid' = FALSE
  <2>1. valid = FALSE
    BY <1>2 DEF TypeOK
  <2> QED
    BY <1>1, <1>2, <2>1 DEF TypeOK
<1>4. /\ IsTree(msg) /\ HasSizes(msg) /\ at \in msg.nodes
      /\ msg.kind[at] \in LevelKinds \cup {"group"}
      /\ msg.kind[at] = "group" => saved[at] = OuterBlock(at)
      /\ at # view => at # msg.root
  BY <1>2, Arguments, Place, PlaceInView
<1>5. CASE at = view /\ phase' = "done" /\ at' = at
  <2>1. groupBlockLength' = 0
    <3>1. CASE msg.kind[at] = "group"
      BY <1>4, <1>5, <3>1 DEF Unwind, OuterBlock
    <3>2. CASE msg.kind[at] # "group"
      <4>1. msg.kind[at] = "message"
        BY <1>2, <1>5, <3>2, Arguments
      <4> QED
        BY <1>2, <3>2, <4>1 DEF Unwind, OwnBlock
    <3> QED
      BY <3>1, <3>2
  <2> QED
    BY <1>1, <1>2, <1>3, <1>5, <2>1, VisitEnds
<1>6. CASE at # view /\ at' = msg.parent[at] /\ phase' = phase
  <2>1. msg.kind[at] # "message"
    BY <1>4, <1>6 DEF IsTree
  <2>2. /\ msg.parent[at] \in msg.nodes
        /\ msg.kind[at] = "entry" => msg.kind[msg.parent[at]] = "group"
        /\ msg.kind[at] = "group" => msg.kind[msg.parent[at]] \in LevelKinds
    BY <1>4, <2>1, ParentOfNode
  <2>3. groupBlockLength' = OwnBlock(at')
    <3>1. CASE msg.kind[at] = "group"
      BY <1>4, <1>6, <3>1 DEF Unwind, OuterBlock
    <3>2. CASE msg.kind[at] = "entry"
      <4>1. OwnBlock(at) = EntryBlock(msg.parent[at])
        BY <3>2 DEF OwnBlock
      <4>2. OwnBlock(at') = EntryBlock(msg.parent[at])
        BY <1>6, <2>2, <3>2 DEF OwnBlock
      <4> QED
        BY <1>2, <3>2, <4>1, <4>2 DEF Unwind
    <3> QED
      BY <1>4, <2>1, <3>1, <3>2 DEF LevelKinds
  <2>4. at' \in msg.nodes /\ msg.kind[at'] # "data" /\ groupBlockLength' \in Nat
    <3>1. msg.kind[at'] # "data"
      BY <1>4, <1>6, <2>1, <2>2 DEF LevelKinds
    <3> QED
      BY <1>2, <1>6, <2>2, <2>3, <3>1, OwnBlockIsNat
  <2>5. WithinView'
    BY <1>1, <1>2, <1>6, StaysWithin
  <2> QED
    BY <1>1, <1>2, <1>3, <1>6, <2>3, <2>4, <2>5, VisitStops
<1> QED
  BY <1>5, <1>6 DEF Unwind

-----------------------------------------------------------------------------
(* The theorems.                                                           *)

LEMMA Initially ==
    ASSUME Init
    PROVE  IInv
<1>1. IsWireMessage(msg) /\ limit \in Nat
  BY MessagesAssumption, LimitsAssumption DEF Init
<1>2. view \in msg.nodes /\ msg.kind[view] \in {"message", "group"} /\ at = view
      /\ next = 1 /\ phase = "start" /\ saved = [n \in msg.nodes |-> 0]
  BY DEF Init, Views
<1>3. FieldCount(msg, at) \in Nat /\ KidCount(msg, at) \in Nat
  BY <1>1, <1>2, SizesOfNode, FieldsOfNode DEF IsWireMessage
<1>4. TypeOK
  <2>1. next \in 1 .. FieldCount(msg, at) + KidCount(msg, at) + 1
    BY <1>2, <1>3
  <2>2. size \in 0 .. limit /\ valid \in BOOLEAN /\ ptr \in Nat /\ groupBlockLength \in Nat
    BY <1>1 DEF Init
  <2>3. saved \in [msg.nodes -> Nat]
    BY <1>2
  <2> QED
    BY <1>2, <2>1, <2>2, <2>3 DEF TypeOK, Init
<1>5. WithinView
  <2>1. NodeEnd(msg, view) <= NodeEnd(msg, view)
    <3>1. msg.addr[view] \in Nat /\ msg.size[view] \in Nat
      BY <1>4, Arguments
    <3> QED
      BY <3>1 DEF NodeEnd
  <2>2. msg.kind[view] = "group" => saved[view] = OuterBlock(view)
    BY <1>2 DEF OuterBlock
  <2>3. IsEntered({view})
    BY <1>2, <2>1, <2>2 DEF IsEntered
  <2> QED
    BY <1>2, <2>3 DEF WithinView
<1>6. /\ AtStart /\ BlockOfPlace /\ Counting /\ StoppedForSize
      /\ CursorStaysWithCount /\ ResultIsExact /\ EntriesMeasuredByOwnGroup
      /\ CompleteViewsAnswered
  BY <1>2 DEF Init, AtStart, BlockOfPlace, Counting, StoppedForSize,
              CursorStaysWithCount, ResultIsExact, EntriesMeasuredByOwnGroup,
              CompleteViewsAnswered
<1> QED
  BY <1>4, <1>5, <1>6 DEF IInv

\* A step that changes nothing.
LEMMA Stutters ==
    ASSUME IInv, UNCHANGED vars
    PROVE  IInv'
<1>1. /\ args' = args /\ msg' = msg /\ view' = view /\ limit' = limit
      /\ checked' = checked /\ phase' = phase /\ at' = at /\ next' = next
      /\ ptr' = ptr /\ size' = size /\ valid' = valid
      /\ groupBlockLength' = groupBlockLength /\ saved' = saved
  BY DEF vars, args, visitor
<1>2. WithinView'
  BY <1>1, StaysWithin DEF IInv
<1>3. TypeOK' /\ AtStart' /\ Counting' /\ StoppedForSize'
  BY <1>1 DEF IInv, TypeOK, AtStart, Counting, StoppedForSize
<1>4. BlockOfPlace' /\ EntriesMeasuredByOwnGroup'
  BY <1>1 DEF IInv, BlockOfPlace, EntriesMeasuredByOwnGroup, OwnBlock, EntryBlock
<1>5. CursorStaysWithCount' /\ ResultIsExact' /\ CompleteViewsAnswered'
  BY <1>1 DEF IInv, CursorStaysWithCount, ResultIsExact, CompleteViewsAnswered,
              Counted, CursorInLevel
<1> QED
  BY <1>2, <1>3, <1>4, <1>5 DEF IInv

\* The invariant, from which the properties below follow.
THEOREM Invariance == Spec => []IInv
<1>1. ASSUME IInv, [Next]_vars
      PROVE  IInv'
  <2>1. CASE TooShortForHeader
    BY <1>1, <2>1, TooShortForHeaderStep
  <2>2. CASE OnMessage
    BY <1>1, <2>2, OnMessageStep
  <2>3. CASE OnViewedGroup
    BY <1>1, <2>3, OnViewedGroupStep
  <2>4. CASE VisitField
    BY <1>1, <2>4, VisitFieldStep
  <2>5. CASE OnGroup
    BY <1>1, <2>5, OnGroupStep
  <2>6. CASE OnData
    BY <1>1, <2>6, OnDataStep
  <2>7. CASE OnEntry
    BY <1>1, <2>7, OnEntryStep
  <2>8. CASE EntryVisited
    BY <1>1, <2>8, EntryVisitedStep
  <2>9. CASE GroupVisited
    BY <1>1, <2>9, GroupVisitedStep
  <2>10. CASE MessageVisited
    BY <1>1, <2>10, MessageVisitedStep
  <2>11. CASE Unwind
    BY <1>1, <2>11, UnwindStep
  <2>12. CASE UNCHANGED vars
    BY <1>1, <2>12, Stutters
  <2> QED
    BY <1>1, <2>1, <2>2, <2>3, <2>4, <2>5, <2>6, <2>7, <2>8, <2>9, <2>10, <2>11,
       <2>12 DEF Next
<1> QED
  BY Initially, <1>1, PTL DEF Spec

\* The visitor's members, the cursor and the place of the visit have their
\* types: an unsigned size never goes below 0.
THEOREM TypeCorrect == Spec => []TypeOK
<1>1. IInv => TypeOK
  BY DEF IInv
<1> QED
  BY <1>1, Invariance, PTL

\* size_bytes_checked says that a view fits exactly if it does, and then
\* returns its size, for every message and every size of the buffer.
THEOREM ResultCorrect == Spec => []ResultIsExact
<1>1. IInv => ResultIsExact
  BY DEF IInv
<1> QED
  BY <1>1, Invariance, PTL

\* At every point of the visit each byte in front of the next child has been
\* subtracted once, and the cursor is where the accessor of that child expects
\* it.
THEOREM CursorFollowsCount == Spec => []CursorStaysWithCount
<1>1. IInv => CursorStaysWithCount
  BY DEF IInv
<1> QED
  BY <1>1, Invariance, PTL

\* Saving and restoring the block length keeps entries measured by their own
\* group, at every depth of nesting.
THEOREM BlockLengthRestored == Spec => []EntriesMeasuredByOwnGroup
<1>1. IInv => EntriesMeasuredByOwnGroup
  BY DEF IInv
<1> QED
  BY <1>1, Invariance, PTL

\* A view that lies in the buffer as a whole, with fields that lie in their
\* blocks, is answered also by a build with size checks: no accessor that the
\* visit calls looks behind the view.
THEOREM CompleteAnswered == Spec => []CompleteViewsAnswered
<1>1. IInv => CompleteViewsAnswered
  BY DEF IInv
<1> QED
  BY <1>1, Invariance, PTL

-----------------------------------------------------------------------------
(* The visit as such.  What is left of it is defined by recursion: down    *)
(* the tree in Below, up the tree in Behind.                               *)

\* F[f] is what a definition says of a function that is to be f: elements of
\* V, and those of n depend on what f has for elements of a lower rank only.
IsDefinition(F, S, V, rank, K) ==
    /\ V # {} /\ K \in Nat
    /\ F \in [[S -> V] -> [S -> V]]
    /\ rank \in [S -> 0 .. K]
    /\ \A f, g \in [S -> V] : \A n \in S :
           (\A k \in S : rank[k] < rank[n] => f[k] = g[k]) => F[f][n] = F[g][n]

IsDefined(F, S, V) == \E f \in [S -> V] : f = F[f]

\* Such a definition defines a function.
LEMMA DefinitionDefines ==
    ASSUME NEW F, NEW S, NEW V, NEW rank, NEW K, IsDefinition(F, S, V, rank, K)
    PROVE  IsDefined(F, S, V)
<1>0. /\ V # {} /\ K \in Nat
      /\ F \in [[S -> V] -> [S -> V]]
      /\ rank \in [S -> 0 .. K]
      /\ \A f, g \in [S -> V] : \A n \in S :
             (\A k \in S : rank[k] < rank[n] => f[k] = g[k]) => F[f][n] = F[g][n]
  BY DEF IsDefinition
<1> PICK v \in V : TRUE
  BY <1>0
<1> DEFINE Solves(f, j) == \A n \in S : rank[n] < j => F[f][n] = f[n]
           T == {j \in Nat : \E f \in [S -> V] : Solves(f, j)}
<1>1. 0 \in T
  <2>1. [n \in S |-> v] \in [S -> V]
    OBVIOUS
  <2>2. Solves([n \in S |-> v], 0)
    BY <1>0
  <2> QED
    BY <2>1, <2>2
<1>2. ASSUME NEW j \in Nat, j \in T
      PROVE  j + 1 \in T
  <2>1. PICK f \in [S -> V] : Solves(f, j)
    BY <1>2
  <2>2. F[f] \in [S -> V]
    BY <1>0
  <2>3. ASSUME NEW n \in S, rank[n] < j + 1
        PROVE  F[F[f]][n] = F[f][n]
    <3>1. ASSUME NEW k \in S, rank[k] < rank[n]
          PROVE  f[k] = F[f][k]
      <4>1. rank[k] \in Int /\ rank[n] \in Int
        BY <1>0
      <4>2. rank[k] < j
        BY <2>3, <3>1, <4>1
      <4> QED
        BY <2>1, <4>2
    <3> QED
      BY <1>0, <2>2, <3>1
  <2>4. Solves(F[f], j + 1)
    BY <2>3
  <2> HIDE DEF Solves
  <2> QED
    BY <2>2, <2>4
<1> HIDE DEF T
<1>3. K + 1 \in T
  BY <1>0, <1>1, <1>2, NaturalInduction
<1>4. PICK f \in [S -> V] : Solves(f, K + 1)
  BY <1>3 DEF T
<1>5. \A n \in S : F[f][n] = f[n]
  <2>1. \A n \in S : rank[n] < K + 1
    BY <1>0
  <2> QED
    BY <1>4, <2>1
<1>6. F[f] \in [S -> V]
  BY <1>0
<1>7. F[f] = f
  BY <1>5, <1>6
<1> QED
  BY <1>7 DEF IsDefined

\* How FlattenSeq computes its result.
FlatFunction(t, n) ==
    CHOOSE f : f = [i \in 1 .. n |-> IF i = 1 THEN t[i] ELSE f[i - 1] \o t[i]]

\* t[1] to t[n] are sequences.
AreLists(t, n, X) == \A i \in 1 .. n : t[i] \in Seq(X)

\* f[i] is t[1] to t[i] in a row.
IsFlat(f, t, n, X) ==
    /\ \A i \in 1 .. n : f[i] \in Seq(X)
    /\ n > 0 => f[1] = t[1]
    /\ \A i \in 1 .. n - 1 : f[i + 1] = f[i] \o t[i + 1]

Unfolds(f, t, n) ==
    f = [i \in 1 .. n |-> IF i = 1 THEN t[i] ELSE f[i - 1] \o t[i]]

LEMMA FlatFunctionUnfolds ==
    ASSUME NEW X, NEW n \in Nat, NEW t, AreLists(t, n, X)
    PROVE  Unfolds(FlatFunction(t, n), t, n)
<1>0. n \in Nat /\ \A i \in 1 .. n : t[i] \in Seq(X)
  BY DEF AreLists
<1> DEFINE S == 1 .. n
           V == Seq(X)
           F == [f \in [S -> V] |->
                    [i \in S |-> IF i = 1 THEN t[i] ELSE f[i - 1] \o t[i]]]
           rank == [i \in S |-> i]
<1>1. \A i \in S : i # 1 => i - 1 \in S
  BY <1>0
<1>2. F \in [[S -> V] -> [S -> V]]
  <2> SUFFICES ASSUME NEW f \in [S -> V], NEW i \in S
               PROVE  (IF i = 1 THEN t[i] ELSE f[i - 1] \o t[i]) \in V
    OBVIOUS
  <2>1. CASE i = 1
    BY <1>0, <1>1, <2>1
  <2>2. CASE i # 1
    <3>1. f[i - 1] \in V /\ t[i] \in V
      BY <1>0, <1>1, <2>2
    <3>2. f[i - 1] \o t[i] \in V
      BY <3>1, ConcatProperties
    <3> QED
      BY <2>2, <3>2
  <2> QED
    BY <2>1, <2>2
<1>3. rank \in [S -> 0 .. n] /\ <<>> \in V
  BY <1>0
<1>4. \A f, g \in [S -> V] : \A x \in S :
          (\A k \in S : rank[k] < rank[x] => f[k] = g[k]) => F[f][x] = F[g][x]
  <2> SUFFICES ASSUME NEW f \in [S -> V], NEW g \in [S -> V], NEW x \in S,
                      \A k \in S : rank[k] < rank[x] => f[k] = g[k]
               PROVE  F[f][x] = F[g][x]
    OBVIOUS
  <2>1. x # 1 => f[x - 1] = g[x - 1]
    BY <1>0, <1>1
  <2> QED
    BY <2>1
<1>5. PICK f \in [S -> V] : f = F[f]
  <2> HIDE DEF V, F, rank, S
  <2>1. IsDefinition(F, S, V, rank, n)
    BY <1>0, <1>2, <1>3, <1>4 DEF IsDefinition
  <2>2. IsDefined(F, S, V)
    BY <2>1, DefinitionDefines
  <2> QED
    BY <2>2 DEF IsDefined
<1>6. f = [i \in S |-> IF i = 1 THEN t[i] ELSE f[i - 1] \o t[i]]
  BY <1>5
<1> QED
  BY <1>6 DEF FlatFunction, Unfolds

LEMMA FlatFunctionExists ==
    ASSUME NEW X, NEW n \in Nat, NEW t, AreLists(t, n, X)
    PROVE  IsFlat(FlatFunction(t, n), t, n, X)
<1> DEFINE c == FlatFunction(t, n)
           T == {i \in Int : i \in 1 .. n => c[i] \in Seq(X)}
<1>0. n \in Nat /\ \A i \in 1 .. n : t[i] \in Seq(X)
  BY DEF AreLists
<1>8. Unfolds(c, t, n)
  BY FlatFunctionUnfolds
<1> HIDE DEF c
<1>1. c = [i \in 1 .. n |-> IF i = 1 THEN t[i] ELSE c[i - 1] \o t[i]]
  BY <1>8 DEF Unfolds
<1>2. n > 0 => c[1] = t[1]
  BY <1>0, <1>1
<1>3. ASSUME NEW i \in 1 .. n - 1
      PROVE  c[i + 1] = c[i] \o t[i + 1]
  <2>1. i + 1 \in 1 .. n /\ i + 1 # 1 /\ (i + 1) - 1 = i
    BY <1>0
  <2> QED
    BY <1>1, <2>1
<1>4. 1 \in T
  BY <1>0, <1>2
<1>5. ASSUME NEW i \in 1 .. n - 1, i \in T
       PROVE  i + 1 \in T
  <2>1. i \in 1 .. n /\ i + 1 \in 1 .. n
    BY <1>0
  <2>2. c[i] \in Seq(X) /\ t[i + 1] \in Seq(X)
    BY <1>0, <1>5, <2>1
  <2>3. c[i + 1] \in Seq(X)
    BY <1>3, <2>2, ConcatProperties
  <2> QED
    BY <2>1, <2>3
<1>6. 1 .. n \subseteq T
  <2> HIDE DEF T
  <2> QED
    BY ONLY n \in Nat, <1>4, <1>5, IntervalInduction
<1>7. \A i \in 1 .. n : c[i] \in Seq(X)
  BY <1>6
<1> QED
  BY <1>2, <1>3, <1>7 DEF c, IsFlat

Associative(X) ==
    \A a, b, c \in Seq(X) : (a \o b) \o c = a \o (b \o c)

LEMMA Concatenations ==
    ASSUME NEW X
    PROVE  Associative(X)
  BY DEF Associative

\* The provers look into \o where they see it.
IsConcat(r, a, b) == r = a \o b

\* Concatenating t[1] to t[n] from the left, behind a and from nothing.
LEMMA BothFlatten ==
    ASSUME NEW X, NEW a \in Seq(X), NEW n \in Nat, n >= 1, NEW t, NEW f, NEW g,
           AreLists(t, n, X), IsFlat(g, t, n, X),
           f[1] = a, \A i \in 1 .. n : f[i + 1] = f[i] \o t[i]
    PROVE  IsConcat(f[n + 1], a, g[n])
<1>0. /\ \A i \in 1 .. n : t[i] \in Seq(X)
      /\ \A i \in 1 .. n : g[i] \in Seq(X)
      /\ n > 0 => g[1] = t[1]
      /\ \A i \in 1 .. n - 1 : g[i + 1] = g[i] \o t[i + 1]
  BY DEF AreLists, IsFlat
<1> DEFINE T == {i \in Int : f[i + 1] = a \o g[i]}
<1>1. Associative(X)
  BY Concatenations
<1>2. 1 \in T
  <2>1. 1 \in 1 .. n
    BY <1>0
  <2>2. f[1 + 1] = f[1] \o t[1]
    BY <2>1
  <2>3. f[1 + 1] = a \o g[1]
    <3>1. n > 0
      OBVIOUS
    <3> QED
      BY <1>0, <2>2, <3>1, Zenon
  <2> QED
    BY ONLY <2>3 DEF T
<1>3. ASSUME NEW i \in 1 .. n - 1, i \in T
      PROVE  i + 1 \in T
  <2>1. i \in 1 .. n /\ i + 1 \in 1 .. n
    BY <1>0
  <2>2. f[(i + 1) + 1] = f[i + 1] \o t[i + 1] /\ f[i + 1] = a \o g[i]
    BY <1>3, <2>1
  <2>3. g[i + 1] = g[i] \o t[i + 1]
    BY <1>0
  <2>4. t[i + 1] \in Seq(X) /\ g[i] \in Seq(X)
    BY <1>0, <2>1
  <2>5. (a \o g[i]) \o t[i + 1] = a \o (g[i] \o t[i + 1])
    BY <1>1, <2>4, Zenon DEF Associative
  <2>6. f[(i + 1) + 1] = a \o g[i + 1]
    BY <2>2, <2>3, <2>5, Zenon
  <2> QED
    BY ONLY <2>1, <2>6 DEF T
<1>4. 1 .. n \subseteq T
  <2> HIDE DEF T
  <2> QED
    BY ONLY n \in Nat, <1>2, <1>3, IntervalInduction
<1>5. n \in 1 .. n
  BY <1>0
<1> QED
  BY <1>4, <1>5 DEF IsConcat

LEMMA FlatBehindFirst ==
    ASSUME NEW X, NEW n \in Nat, n >= 1, NEW s, NEW t,
           AreLists(t, n, X), AreLists(s, n + 1, X),
           \A i \in 1 .. n : t[i] = s[i + 1]
    PROVE  IsConcat(FlatFunction(s, n + 1)[n + 1], s[1], FlatFunction(t, n)[n])
<1> DEFINE f == FlatFunction(s, n + 1)
           g == FlatFunction(t, n)
<1>1. IsFlat(f, s, n + 1, X) /\ IsFlat(g, t, n, X)
  BY FlatFunctionExists
<1> HIDE DEF f, g
<1>2. s[1] \in Seq(X) /\ f[1] = s[1]
  BY <1>1 DEF IsFlat, AreLists
<1>3. \A i \in 1 .. n : f[i + 1] = f[i] \o t[i]
  <2>1. \A i \in 1 .. (n + 1) - 1 : f[i + 1] = f[i] \o s[i + 1]
    BY <1>1 DEF IsFlat
  <2>2. (n + 1) - 1 = n
    OBVIOUS
  <2> QED
    BY <2>1, <2>2, Zenon
<1>4. IsConcat(f[n + 1], s[1], g[n])
  BY <1>1, <1>2, <1>3, BothFlatten
<1> QED
  BY <1>4, Zenon DEF f, g

\* Flattening a sequence of sequences puts the first in front of the others.
LEMMA Flattened ==
    ASSUME NEW X, NEW s \in Seq(Seq(X))
    PROVE  /\ FlattenSeq(s) \in Seq(X)
           /\ s = <<>> => FlattenSeq(s) = <<>>
           /\ s # <<>> => FlattenSeq(s) = s[1] \o FlattenSeq(Tail(s))
<1>0. \A u \in Seq(Seq(X)) : Len(u) = 0 <=> u = <<>>
  BY EmptySeq
<1>1. ASSUME NEW t \in Seq(Seq(X))
      PROVE  /\ t = <<>> => FlattenSeq(t) = <<>>
             /\ t # <<>> => FlattenSeq(t) = FlatFunction(t, Len(t))[Len(t)]
             /\ FlattenSeq(t) \in Seq(X)
  <2>1. CASE t = <<>>
    BY <2>1 DEF FlattenSeq
  <2>2. CASE t # <<>>
    <3>1. Len(t) \in 1 .. Len(t) /\ Len(t) # 0 /\ Len(t) \in Nat
          /\ \A i \in 1 .. Len(t) : t[i] \in Seq(X)
      BY <2>2
    <3>2. FlattenSeq(t) = FlatFunction(t, Len(t))[Len(t)]
      BY <3>1 DEF FlattenSeq, FlatFunction
    <3>3. IsFlat(FlatFunction(t, Len(t)), t, Len(t), X)
      BY <3>1, FlatFunctionExists DEF AreLists
    <3> QED
      BY <2>2, <3>1, <3>2, <3>3 DEF IsFlat
  <2> QED
    BY <2>1, <2>2
<1>2. ASSUME s # <<>>
      PROVE  FlattenSeq(s) = s[1] \o FlattenSeq(Tail(s))
  <2> DEFINE t == Tail(s)
  <2>1. t \in Seq(Seq(X))
    BY <1>2, HeadTailProperties
  <2> PICK n \in Nat : n = Len(t)
    BY <2>1
  <2>2. n = 0 <=> t = <<>>
    BY ONLY <1>0, <2>1, n = Len(t), Zenon
  <2>3. /\ Len(s) = n + 1
        /\ \A i \in 1 .. n : t[i] = s[i + 1]
        /\ s[1] \in Seq(X)
    BY <1>2, HeadTailProperties
  <2> HIDE DEF t
  <2>4. AreLists(t, n, X) /\ AreLists(s, n + 1, X)
    BY <2>1, <2>3 DEF AreLists
  <2>5. FlattenSeq(s) = FlatFunction(s, n + 1)[n + 1]
    BY <1>1, <1>2, <2>3
  <2>6. CASE n = 0
    <3>1. FlattenSeq(t) = <<>>
      BY <1>1, <2>1, <2>2, <2>6
    <3>2. s[1] \o <<>> = s[1]
      BY <2>3, ConcatEmptySeq
    <3>3. IsFlat(FlatFunction(s, n + 1), s, n + 1, X)
      BY <2>4, FlatFunctionExists
    <3>4. FlatFunction(s, n + 1)[n + 1] = s[1]
      BY <2>6, <3>3 DEF IsFlat
    <3> QED
      BY <2>5, <3>1, <3>2, <3>4, Zenon DEF t
  <2>7. CASE n # 0
    <3>1. FlattenSeq(t) = FlatFunction(t, n)[n]
      BY <1>1, <2>1, <2>2, <2>7
    <3>2. n >= 1
      BY <2>7
    <3>3. IsConcat(FlatFunction(s, n + 1)[n + 1], s[1], FlatFunction(t, n)[n])
      BY <2>3, <2>4, <3>2, FlatBehindFirst
    <3> QED
      BY <2>5, <3>1, <3>3, Zenon DEF t, IsConcat
  <2> QED
    BY <2>6, <2>7
<1> QED
  BY <1>1, <1>2

\* What is visited: nodes, and fields as pairs.
Lists(m) == Seq(m.nodes \cup (m.nodes \X Nat))

Joined(a, b) == a \o b

\* A child with what is below it.
WithBelow(below, k) == <<k>> \o below[k]

\* The children from the i-th on.
LaterKids(m, below, n, i) ==
    [k \in 1 .. KidCount(m, n) - i + 1 |-> WithBelow(below, m.kids[n][i + k - 1])]

\* Every node has a list.
AreBelow(m, below) == \A n \in m.nodes : below[n] \in Lists(m)

\* Lists in a row are a list, and an empty one makes no difference.
LEMMA ListsJoin ==
    ASSUME NEW m, NEW a \in Lists(m), NEW b \in Lists(m)
    PROVE  /\ Joined(a, b) \in Lists(m)
           /\ Joined(<<>>, b) = b
           /\ Joined(a, <<>>) = a
           /\ <<>> \in Lists(m)
           /\ \A x \in m.nodes \cup (m.nodes \X Nat) : <<x>> \in Lists(m)
<1>1. Joined(a, b) \in Lists(m)
  BY ConcatProperties DEF Lists, Joined
<1>2. Joined(<<>>, b) = b /\ Joined(a, <<>>) = a
  BY ConcatEmptySeq DEF Lists, Joined
<1> QED
  BY <1>1, <1>2 DEF Lists

\* It does not matter which are joined first.
LEMMA ListsAssociate ==
    ASSUME NEW m, NEW a \in Lists(m), NEW b \in Lists(m), NEW c \in Lists(m)
    PROVE  Joined(Joined(a, b), c) = Joined(a, Joined(b, c))
<1>1. Associative(m.nodes \cup (m.nodes \X Nat))
  BY Concatenations
<1> QED
  BY <1>1, Zenon DEF Associative, Joined, Lists

\* The head of a list.
LEMMA FirstOfList ==
    ASSUME NEW m, NEW x \in m.nodes \cup (m.nodes \X Nat), NEW r \in Lists(m)
    PROVE  Joined(<<x>>, r) # <<>> /\ Tail(Joined(<<x>>, r)) = r
  BY DEF Joined, Lists

\* A child with what is below it, as a list.
LEMMA WithBelowIsList ==
    ASSUME NEW m, NEW below, AreBelow(m, below), NEW k \in m.nodes
    PROVE  /\ WithBelow(below, k) \in Lists(m)
           /\ WithBelow(below, k) = Joined(<<k>>, below[k])
<1>1. WithBelow(below, k) = Joined(<<k>>, below[k])
  BY DEF WithBelow, Joined
<1>2. <<k>> \in Lists(m) /\ below[k] \in Lists(m)
  BY DEF Lists, AreBelow
<1> QED
  BY <1>1, <1>2, ListsJoin

LEMMA FunctionIsSequence ==
    ASSUME NEW X, NEW n \in Nat, NEW f \in [1 .. n -> X]
    PROVE  f \in Seq(X) /\ Len(f) = n
  OBVIOUS

\* The children from the i-th on are the i-th and those behind it.
LEMMA KidsOneByOne ==
    ASSUME NEW m, IsTree(m), NEW below, AreBelow(m, below), NEW n \in m.nodes,
           NEW i \in 1 .. KidCount(m, n) + 1
    PROVE  /\ LaterKids(m, below, n, i) \in Seq(Lists(m))
           /\ i = KidCount(m, n) + 1 => LaterKids(m, below, n, i) = <<>>
           /\ i <= KidCount(m, n) =>
                  /\ LaterKids(m, below, n, i) # <<>>
                  /\ LaterKids(m, below, n, i)[1] = WithBelow(below, m.kids[n][i])
                  /\ Tail(LaterKids(m, below, n, i)) = LaterKids(m, below, n, i + 1)
<1>1. m.kids[n] \in Seq(m.nodes)
  BY DEF IsTree
<1> PICK c \in Nat : c = KidCount(m, n)
  BY <1>1 DEF KidCount
<1> PICK L : L = Lists(m)
  OBVIOUS
<1> DEFINE kid(j) == WithBelow(below, m.kids[n][j])
<1>2. \A j \in 1 .. c : kid(j) \in L
  <2> TAKE j \in 1 .. c
  <2>1. m.kids[n][j] \in m.nodes
    BY <1>1 DEF KidCount
  <2> QED
    BY <2>1, WithBelowIsList
<1> HIDE DEF kid
<1>3. i \in 1 .. c + 1
  OBVIOUS
<1>4. /\ LaterKids(m, below, n, i) = [k \in 1 .. c - i + 1 |-> kid(i + k - 1)]
      /\ LaterKids(m, below, n, i + 1) = [k \in 1 .. c - (i + 1) + 1 |-> kid((i + 1) + k - 1)]
  BY DEF LaterKids, kid
<1>5. [k \in 1 .. c - i + 1 |-> kid(i + k - 1)] \in Seq(L)
  <2> PICK d \in Nat : d = c - i + 1
    BY <1>3
  <2>1. \A k \in 1 .. d : i + k - 1 \in 1 .. c
    BY <1>3
  <2>2. [k \in 1 .. d |-> kid(i + k - 1)] \in [1 .. d -> L]
    BY <1>2, <2>1
  <2>3. [k \in 1 .. d |-> kid(i + k - 1)] \in Seq(L)
    BY <2>2, FunctionIsSequence
  <2> QED
    BY <2>3
<1>6. i = c + 1 => [k \in 1 .. c - i + 1 |-> kid(i + k - 1)] = <<>>
  BY <1>3
<1>7. ASSUME i <= c
      PROVE  /\ [k \in 1 .. c - i + 1 |-> kid(i + k - 1)] # <<>>
             /\ [k \in 1 .. c - i + 1 |-> kid(i + k - 1)][1] = kid(i)
             /\ Tail([k \in 1 .. c - i + 1 |-> kid(i + k - 1)])
                    = [k \in 1 .. c - (i + 1) + 1 |-> kid((i + 1) + k - 1)]
  <2> DEFINE s == [k \in 1 .. c - i + 1 |-> kid(i + k - 1)]
             t == [k \in 1 .. c - (i + 1) + 1 |-> kid((i + 1) + k - 1)]
  <2>1. s \in Seq(L) /\ Len(s) = c - i + 1 /\ s # <<>>
    BY <1>3, <1>5, <1>7
  <2>2. s[1] = kid(i)
    BY <1>3, <1>7
  <2>3. /\ Tail(s) \in Seq(L) /\ Len(Tail(s)) = c - i
        /\ \A k \in 1 .. c - i : Tail(s)[k] = s[k + 1]
    <3> HIDE DEF s
    <3>1. Len(s) - 1 = c - i
      BY <1>3, <2>1
    <3> QED
      BY <2>1, <3>1, HeadTailProperties
  <2>4. t \in Seq(L) /\ Len(t) = c - i
    <3> PICK d \in Nat : d = c - i
      BY <1>3, <1>7
    <3>1. \A k \in 1 .. d : (i + 1) + k - 1 \in 1 .. c
      BY <1>3
    <3>2. c - (i + 1) + 1 = d
      BY <1>3
    <3>3. t = [k \in 1 .. d |-> kid((i + 1) + k - 1)]
      BY <3>2
    <3>4. [k \in 1 .. d |-> kid((i + 1) + k - 1)] \in [1 .. d -> L]
      BY <1>2, <3>1
    <3>5. t \in [1 .. d -> L]
      BY <3>3, <3>4, Zenon
    <3> HIDE DEF t
    <3> QED
      BY <3>5, FunctionIsSequence
  <2>5. ASSUME NEW k \in 1 .. c - i
        PROVE  s[k + 1] = t[k]
    <3>1. /\ k + 1 \in 1 .. c - i + 1 /\ i + (k + 1) - 1 = (i + 1) + k - 1
          /\ k \in 1 .. c - (i + 1) + 1
      BY <1>3
    <3> QED
      BY <3>1
  <2>6. Tail(s) = t
    <3> HIDE DEF s, t
    <3>1. \A k \in 1 .. Len(Tail(s)) : Tail(s)[k] = t[k]
      BY <2>3, <2>5
    <3> QED
      BY <2>3, <2>4, <3>1, SeqEqual
  <2> QED
    BY <2>1, <2>2, <2>6
<1> QED
  BY <1>4, <1>5, <1>6, <1>7 DEF kid

\* So is all that is visited for them.
LEMMA KidsFromUnfolds ==
    ASSUME NEW m, IsTree(m), NEW below, AreBelow(m, below), NEW n \in m.nodes,
           NEW i \in 1 .. KidCount(m, n) + 1
    PROVE  /\ KidsFrom(m, below, n, i) = FlattenSeq(LaterKids(m, below, n, i))
           /\ KidsFrom(m, below, n, i) \in Lists(m)
           /\ i = KidCount(m, n) + 1 => KidsFrom(m, below, n, i) = <<>>
           /\ i <= KidCount(m, n) =>
                  KidsFrom(m, below, n, i) =
                      Joined(WithBelow(below, m.kids[n][i]),
                             KidsFrom(m, below, n, i + 1))
<1>1. m.kids[n] \in Seq(m.nodes)
  BY DEF IsTree
<1>2. ASSUME NEW j \in 1 .. KidCount(m, n) + 1
      PROVE  KidsFrom(m, below, n, j) = FlattenSeq(LaterKids(m, below, n, j))
  <2> DEFINE kids == SubSeq(m.kids[n], j, KidCount(m, n))
  <2>1. /\ DOMAIN kids = 1 .. KidCount(m, n) - j + 1
        /\ \A k \in 1 .. KidCount(m, n) - j + 1 : kids[k] = m.kids[n][j + k - 1]
    BY <1>1 DEF KidCount
  <2>2. [k \in DOMAIN kids |-> WithBelow(below, kids[k])] = LaterKids(m, below, n, j)
    <3> HIDE DEF kids
    <3> QED
      BY <2>1 DEF LaterKids
  <2> QED
    BY <2>2, Zenon DEF KidsFrom, WithBelow
<1>3. LaterKids(m, below, n, i) \in Seq(Lists(m))
  BY KidsOneByOne
<1>4. FlattenSeq(LaterKids(m, below, n, i)) \in Lists(m)
  BY <1>3, Flattened DEF Lists
<1>5. ASSUME i = KidCount(m, n) + 1
      PROVE  KidsFrom(m, below, n, i) = <<>>
  BY <1>2, <1>3, <1>5, KidsOneByOne, Flattened DEF Lists
<1>6. ASSUME i <= KidCount(m, n)
      PROVE  KidsFrom(m, below, n, i) =
                 Joined(WithBelow(below, m.kids[n][i]), KidsFrom(m, below, n, i + 1))
  <2>1. i + 1 \in 1 .. KidCount(m, n) + 1
    BY <1>1, <1>6 DEF KidCount
  <2>2. /\ LaterKids(m, below, n, i) # <<>>
        /\ LaterKids(m, below, n, i)[1] = WithBelow(below, m.kids[n][i])
        /\ Tail(LaterKids(m, below, n, i)) = LaterKids(m, below, n, i + 1)
    BY <1>6, KidsOneByOne
  <2>3. FlattenSeq(LaterKids(m, below, n, i)) =
            Joined(LaterKids(m, below, n, i)[1],
                   FlattenSeq(Tail(LaterKids(m, below, n, i))))
    BY <1>3, <2>2, Flattened, Zenon DEF Joined, Lists
  <2> QED
    BY <1>2, <2>1, <2>2, <2>3, Zenon
<1> QED
  BY <1>2, <1>4, <1>5, <1>6

\* A sequence is its head and what is behind it.
LEMMA HeadAndRest ==
    ASSUME NEW X, NEW x \in X, NEW s \in Seq(X), NEW t \in Seq(X),
           Len(s) = Len(t) + 1, s[1] = x, \A k \in 1 .. Len(t) : s[k + 1] = t[k]
    PROVE  s = Joined(<<x>>, t)
<1>1. <<x>> \o t \in Seq(X) /\ Len(<<x>> \o t) = Len(s)
  OBVIOUS
<1>2. ASSUME NEW k \in 1 .. Len(s)
      PROVE  s[k] = (<<x>> \o t)[k]
  <2>1. CASE k = 1
    BY <2>1
  <2>2. CASE k # 1
    <3>1. k - 1 \in 1 .. Len(t) /\ (k - 1) + 1 = k
      BY <2>2
    <3>2. s[k] = t[k - 1]
      BY <3>1
    <3>3. (<<x>> \o t)[k] = t[k - 1]
      BY <2>2, <3>1
    <3> QED
      BY <3>2, <3>3, Zenon
  <2> QED
    BY <2>1, <2>2
<1> PICK r \in Seq(X) : r = <<x>> \o t
  BY <1>1
<1>3. s = r
  BY ONLY <1>1, <1>2, r = <<x>> \o t, SeqEqual
<1> QED
  BY <1>3, Zenon DEF Joined

\* The fields from the i-th on are the i-th and those behind it.
LEMMA FieldsOneByOne ==
    ASSUME NEW m, FieldsFollow(m), NEW n \in m.nodes, NEW i \in Nat \ {0}
    PROVE  /\ FieldsFrom(m, n, i) \in Lists(m)
           /\ i > FieldCount(m, n) => FieldsFrom(m, n, i) = <<>>
           /\ i <= FieldCount(m, n) =>
                  FieldsFrom(m, n, i) = Joined(<<<<n, i>>>>, FieldsFrom(m, n, i + 1))
<1> PICK c \in Nat : c = FieldCount(m, n)
  BY FieldsOfNode
<1> PICK X : X = m.nodes \cup (m.nodes \X Nat)
  OBVIOUS
<1> DEFINE list(j) == [k \in 1 .. c - j + 1 |-> <<n, j + k - 1>>]
<1>0. /\ FieldsFrom(m, n, i) = list(i) /\ FieldsFrom(m, n, i + 1) = list(i + 1)
      /\ i \in Nat /\ i >= 1
  BY DEF FieldsFrom
<1>1. i > c => list(i) = <<>>
  BY <1>0
<1>2. ASSUME NEW j \in Nat, j >= 1, NEW d \in Nat, c - j + 1 = d
      PROVE  list(j) \in Seq(X) /\ Len(list(j)) = d
  <2>1. \A k \in 1 .. d : j + k - 1 \in Nat
    BY <1>2
  <2>2. \A k \in 1 .. d : <<n, j + k - 1>> \in X
    BY <2>1
  <2>3. [k \in 1 .. d |-> <<n, j + k - 1>>] \in Seq(X)
    BY <2>2
  <2>4. Len([k \in 1 .. d |-> <<n, j + k - 1>>]) = d
    BY <2>3
  <2>5. list(j) = [k \in 1 .. d |-> <<n, j + k - 1>>]
    BY ONLY c - j + 1 = d, Zenon
  <2> QED
    BY <2>3, <2>4, <2>5, Zenon
<1>3. list(i) \in Seq(X)
  <2>1. CASE i > c
    BY <1>1, <2>1
  <2>2. CASE i <= c
    <3>1. c - i + 1 \in Nat
      BY <1>0, <2>2
    <3> HIDE DEF list
    <3> QED
      BY <1>0, <1>2, <3>1
  <2> QED
    BY <1>0, <2>1, <2>2
<1>4. ASSUME i <= c
      PROVE  list(i) = Joined(<<<<n, i>>>>, list(i + 1))
  <2>1. /\ list(i) \in Seq(X) /\ Len(list(i)) = c - i + 1
        /\ list(i + 1) \in Seq(X) /\ Len(list(i + 1)) = c - i
    <3>1. /\ c - i + 1 \in Nat /\ c - i \in Nat /\ c - (i + 1) + 1 = c - i
          /\ i + 1 \in Nat /\ i + 1 >= 1
      BY <1>0, <1>4
    <3> HIDE DEF list
    <3> QED
      BY <1>0, <1>2, <3>1
  <2>2. <<<<n, i>>>> \in Seq(X) /\ Len(<<<<n, i>>>>) = 1
    BY <1>0
  <2> PICK s \in Seq(X) : s = list(i)
    BY <2>1, Zenon
  <2> PICK t \in Seq(X) : t = list(i + 1)
    BY <2>1, Zenon
  <2>3. s[1] = <<n, i>>
    BY <1>0, <1>4
  <2>4. \A k \in 1 .. c - i : s[k + 1] = t[k]
    <3> TAKE k \in 1 .. c - i
    <3>1. /\ k + 1 \in 1 .. c - i + 1 /\ i + (k + 1) - 1 = (i + 1) + k - 1
          /\ k \in 1 .. c - (i + 1) + 1
      BY <1>0
    <3> QED
      BY <3>1
  <2>5. Len(s) = c - i + 1 /\ Len(t) = c - i
    BY <2>1, Zenon
  <2> HIDE DEF list
  <2>6. s = Joined(<<<<n, i>>>>, t)
    <3>1. /\ Len(s) = Len(t) + 1 /\ \A k \in 1 .. Len(t) : s[k + 1] = t[k]
          /\ <<n, i>> \in X
      BY <1>0, <2>4, <2>5
    <3> PICK x \in X : x = <<n, i>>
      BY <3>1
    <3>2. s[1] = x
      BY <2>3
    <3>3. s = Joined(<<x>>, t)
      BY ONLY <3>1, <3>2, s \in Seq(X), t \in Seq(X), HeadAndRest
    <3> QED
      BY <3>3
  <2> QED
    BY <2>6, Zenon
<1> HIDE DEF list
<1> QED
  BY <1>0, <1>1, <1>3, <1>4 DEF Lists

\* What is left of a level or group, member by member.
LEMMA MembersOneByOne ==
    ASSUME NEW m, IsTree(m), FieldsFollow(m), NEW below, AreBelow(m, below),
           NEW n \in m.nodes, NEW i \in 1 .. FieldCount(m, n) + KidCount(m, n) + 1
    PROVE  /\ MembersFrom(m, below, n, i) \in Lists(m)
           /\ i = FieldCount(m, n) + KidCount(m, n) + 1
                  => MembersFrom(m, below, n, i) = <<>>
           /\ i <= FieldCount(m, n) =>
                  MembersFrom(m, below, n, i) =
                      Joined(<<<<n, i>>>>, MembersFrom(m, below, n, i + 1))
           /\ i > FieldCount(m, n) /\ i <= FieldCount(m, n) + KidCount(m, n) =>
                  MembersFrom(m, below, n, i) =
                      Joined(WithBelow(below, m.kids[n][i - FieldCount(m, n)]),
                             MembersFrom(m, below, n, i + 1))
<1> PICK c \in Nat : c = FieldCount(m, n)
  BY FieldsOfNode
<1> PICK d \in Nat : d = KidCount(m, n)
  BY DEF IsTree, KidCount
<1>0. i \in 1 .. c + d + 1
  OBVIOUS
<1> DEFINE fs(j) == FieldsFrom(m, n, j)
           ks(j) == KidsFrom(m, below, n, j)
           ms(j) == MembersFrom(m, below, n, j)
           k(j)  == Larger(1, j - c)
           x(j)  == <<<<n, j>>>>
           y(j)  == WithBelow(below, m.kids[n][j])
           L     == Lists(m)
<1>1. \A j \in Nat : ms(j) = Joined(fs(j), ks(k(j)))
  BY Zenon DEF MembersFrom, Joined
<1>2. ASSUME NEW j \in Nat, j >= 1
      PROVE  /\ fs(j) \in L
             /\ j > c => fs(j) = <<>>
             /\ j <= c => fs(j) = Joined(x(j), fs(j + 1))
  <2>1. j \in Nat \ {0}
    BY <1>2
  <2> QED
    BY <2>1, FieldsOneByOne
<1>3. \A j \in 1 .. d + 1 :
          /\ ks(j) \in L
          /\ j = d + 1 => ks(j) = <<>>
          /\ j <= d => ks(j) = Joined(y(j), ks(j + 1))
  BY KidsFromUnfolds
<1>4. ASSUME NEW j \in 1 .. c + d + 1
      PROVE  k(j) \in 1 .. d + 1
  BY DEF Larger
<1>5. /\ \A u \in L : Joined(<<>>, u) = u
      /\ \A u, v \in L : Joined(u, v) \in L
      /\ \A u, v, w \in L : Joined(Joined(u, v), w) = Joined(u, Joined(v, w))
      /\ <<>> \in L
      /\ \A j \in Nat : x(j) \in L
  <2>1. \A u, v, w \in L : Joined(Joined(u, v), w) = Joined(u, Joined(v, w))
    BY ListsAssociate
  <2>2. <<>> \in L /\ \A j \in Nat : x(j) \in L
    BY DEF Lists
  <2> QED
    BY <2>1, <2>2, ListsJoin
<1>10. i \in Nat /\ i >= 1 /\ i + 1 \in Nat /\ i + 1 >= 1
  BY <1>0
<1> HIDE DEF fs, ks, ms, k, x, y, L
<1>11. fs(i) \in L /\ fs(i + 1) \in L /\ x(i) \in L
  BY <1>2, <1>5, <1>10
<1>12. ms(i) = Joined(fs(i), ks(k(i))) /\ ms(i + 1) = Joined(fs(i + 1), ks(k(i + 1)))
  BY <1>1, <1>10
<1>13. k(i) \in 1 .. d + 1 /\ ks(k(i)) \in L
  BY <1>0, <1>3, <1>4
<1>6. ms(i) \in L
  BY <1>5, <1>11, <1>12, <1>13
<1>7. ASSUME i = c + d + 1
      PROVE  ms(i) = <<>>
  <2>1. i > c
    BY <1>7
  <2>2. fs(i) = <<>>
    BY <1>2, <1>10, <2>1
  <2>3. k(i) = d + 1
    BY <1>7 DEF k, Larger
  <2>4. ks(d + 1) = <<>>
    BY <1>3
  <2> QED
    BY <1>5, <1>12, <2>2, <2>3, <2>4
<1>8. ASSUME i <= c
      PROVE  ms(i) = Joined(x(i), ms(i + 1))
  <2>1. fs(i) = Joined(x(i), fs(i + 1))
    BY <1>2, <1>8, <1>10
  <2>2. k(i) = k(i + 1)
    BY <1>0, <1>8 DEF k, Larger
  <2>3. Joined(Joined(x(i), fs(i + 1)), ks(k(i))) = Joined(x(i), Joined(fs(i + 1), ks(k(i))))
    BY <1>5, <1>11, <1>13
  <2> QED
    BY <1>12, <2>1, <2>2, <2>3, Zenon
<1>9. ASSUME i > c, i <= c + d
      PROVE  ms(i) = Joined(y(i - c), ms(i + 1))
  <2>1. i + 1 > c
    BY <1>0, <1>9
  <2>2. fs(i) = <<>> /\ fs(i + 1) = <<>>
    BY <1>2, <1>9, <1>10, <2>1
  <2>3. k(i) = i - c /\ k(i + 1) = (i - c) + 1 /\ i - c \in 1 .. d + 1 /\ i - c <= d
        /\ (i - c) + 1 \in 1 .. d + 1
    BY <1>0, <1>9 DEF k, Larger
  <2>4. ks(i - c) = Joined(y(i - c), ks((i - c) + 1))
    BY <1>3, <2>3
  <2>5. ks(i - c) \in L /\ ks((i - c) + 1) \in L
    BY <1>3, <2>3
  <2> QED
    BY <1>5, <1>12, <2>2, <2>3, <2>4, <2>5
<1> QED
  BY <1>6, <1>7, <1>8, <1>9 DEF ms, x, y, L

\* It depends on what is below the children only.
LEMMA MembersDependOnKids ==
    ASSUME NEW m, IsTree(m), NEW n \in m.nodes, NEW f, NEW g, NEW i \in Nat,
           \A j \in DOMAIN m.kids[n] : f[m.kids[n][j]] = g[m.kids[n][j]]
    PROVE  MembersFrom(m, f, n, i) = MembersFrom(m, g, n, i)
<1> DEFINE o == Larger(1, i - FieldCount(m, n))
           kids == SubSeq(m.kids[n], o, KidCount(m, n))
<1>1. m.kids[n] \in Seq(m.nodes)
  BY DEF IsTree
<1>2. FieldCount(m, n) \in Int => o \in Nat \ {0}
  BY DEF Larger
<1>3. FieldCount(m, n) \in Nat
  BY DEF FieldCount
<1>4. \A k \in DOMAIN kids : \E j \in DOMAIN m.kids[n] : kids[k] = m.kids[n][j]
  <2> PICK s \in Seq(m.nodes) : s = m.kids[n]
    BY <1>1
  <2> PICK p \in Nat \ {0} : p = o
    BY <1>2, <1>3
  <2>1. kids = SubSeq(s, p, Len(s))
    BY Zenon DEF KidCount
  <2>2. \A k \in DOMAIN SubSeq(s, p, Len(s)) :
            /\ p + k - 1 \in DOMAIN s
            /\ SubSeq(s, p, Len(s))[k] = s[p + k - 1]
    OBVIOUS
  <2> HIDE DEF kids
  <2> QED
    BY <2>1, <2>2
<1>5. [k \in DOMAIN kids |-> WithBelow(f, kids[k])]
          = [k \in DOMAIN kids |-> WithBelow(g, kids[k])]
  <2> HIDE DEF kids
  <2>1. \A k \in DOMAIN kids : f[kids[k]] = g[kids[k]]
    BY <1>4
  <2>2. \A k \in DOMAIN kids : WithBelow(f, kids[k]) = WithBelow(g, kids[k])
    BY <2>1, Zenon DEF WithBelow
  <2> QED
    BY <2>2
<1>6. KidsFrom(m, f, n, o) = KidsFrom(m, g, n, o)
  BY <1>5, Zenon DEF KidsFrom, WithBelow
<1> QED
  BY <1>6, Zenon DEF MembersFrom

\* How far nodes are below the message.
IsDepth(m, d, K) ==
    /\ K \in Nat /\ d \in [m.nodes -> 0 .. K]
    /\ \A n \in m.nodes \ {m.root} : d[n] = d[m.parent[n]] + 1

\* The depths of IsRooted.
LEMMA NodesHaveDepths ==
    ASSUME NEW m, IsTree(m), IsRooted(m)
    PROVE  \E d, K : IsDepth(m, d, K)
<1> DEFINE K == Cardinality(m.nodes)
           d == [n \in m.nodes |-> Depths(m)[n]]
<1>1. /\ IsFiniteSet(m.nodes)
      /\ \A n \in m.nodes : Depths(m)[n] \in 0 .. K
      /\ \A n \in m.nodes \ {m.root} : Depths(m)[n] = Depths(m)[m.parent[n]] + 1
  BY DEF IsRooted
<1>2. K \in Nat
  BY <1>1, FS_CardinalityType
<1>3. \A n \in m.nodes \ {m.root} : m.parent[n] \in m.nodes
  BY DEF IsTree
<1> HIDE DEF K
<1>4. d \in [m.nodes -> 0 .. K]
  BY <1>1
<1>5. \A n \in m.nodes \ {m.root} : d[n] = d[m.parent[n]] + 1
  BY <1>1, <1>3
<1>6. IsDepth(m, d, K)
  BY <1>2, <1>4, <1>5 DEF IsDepth
<1> QED
  BY <1>6

\* Below is defined: what is below a node depends on deeper nodes only.
LEMMA BelowDefined ==
    ASSUME NEW m, IsTree(m), FieldsFollow(m), IsRooted(m)
    PROVE  /\ AreBelow(m, Below(m))
           /\ \A n \in m.nodes : Below(m)[n] = MembersFrom(m, Below(m), n, 1)
<1> PICK d, K : IsDepth(m, d, K)
  BY NodesHaveDepths
<1> DEFINE S == m.nodes
           V == Lists(m)
           F == [f \in [S -> V] |-> [n \in S |-> MembersFrom(m, f, n, 1)]]
           rank == [n \in S |-> K - d[n]]
<1>1. K \in Nat /\ d \in [S -> 0 .. K] /\ <<>> \in V
  BY DEF IsDepth, Lists
<1>2. F \in [[S -> V] -> [S -> V]]
  <2> SUFFICES ASSUME NEW f \in [S -> V], NEW n \in S
               PROVE  MembersFrom(m, f, n, 1) \in V
    BY Zenon
  <2>1. AreBelow(m, f)
    BY DEF AreBelow
  <2>2. FieldCount(m, n) \in Nat /\ KidCount(m, n) \in Nat
    BY FieldsOfNode DEF IsTree, KidCount
  <2>3. 1 \in 1 .. FieldCount(m, n) + KidCount(m, n) + 1
    BY <2>2
  <2> QED
    BY <2>1, <2>3, MembersOneByOne
<1>3. rank \in [S -> 0 .. K]
  BY <1>1
<1>10. ASSUME NEW n \in S, NEW j \in DOMAIN m.kids[n]
       PROVE  m.kids[n][j] \in S /\ rank[m.kids[n][j]] < rank[n]
  <2> PICK k : k = m.kids[n][j]
    OBVIOUS
  <2>1. k \in S /\ k # m.root /\ m.parent[k] = n
    <3>1. m.kids[n] \in Seq(m.nodes)
      BY DEF IsTree
    <3>2. m.kids[n][j] \in m.nodes
      BY <3>1
    <3> QED
      BY <3>2 DEF IsTree
  <2>2. d[k] = d[n] + 1
    BY <2>1 DEF IsDepth
  <2> QED
    BY <1>1, <2>1, <2>2
<1>4. ASSUME NEW f \in [S -> V], NEW g \in [S -> V], NEW n \in S,
             \A k \in S : rank[k] < rank[n] => f[k] = g[k]
      PROVE  F[f][n] = F[g][n]
  <2>1. ASSUME NEW j \in DOMAIN m.kids[n]
        PROVE  f[m.kids[n][j]] = g[m.kids[n][j]]
    BY <1>4, <1>10
  <2>2. MembersFrom(m, f, n, 1) = MembersFrom(m, g, n, 1)
    BY <2>1, MembersDependOnKids
  <2> QED
    BY <2>2
<1>5. PICK f \in [S -> V] : f = F[f]
  <2> HIDE DEF V, F, rank, S
  <2>1. IsDefinition(F, S, V, rank, K)
    BY <1>1, <1>2, <1>3, <1>4 DEF IsDefinition
  <2>2. IsDefined(F, S, V)
    BY <2>1, DefinitionDefines
  <2> QED
    BY <2>2 DEF IsDefined
<1>6. f = [n \in m.nodes |-> MembersFrom(m, f, n, 1)]
  BY <1>5
<1>7. Below(m) = [n \in m.nodes |-> MembersFrom(m, Below(m), n, 1)]
  BY <1>6, Zenon DEF Below
<1> PICK below : below = Below(m)
  OBVIOUS
<1>8. below = [n \in m.nodes |-> MembersFrom(m, below, n, 1)]
  BY <1>7, Zenon
<1> DEFINE T == {j \in Nat : \A n \in S : rank[n] < j => below[n] = f[n]}
<1>9. 0 \in T
  BY <1>3
<1>11. ASSUME NEW j \in Nat, j \in T
       PROVE  j + 1 \in T
  <2>1. ASSUME NEW n \in S, rank[n] < j + 1
        PROVE  below[n] = f[n]
    <3>1. ASSUME NEW i \in DOMAIN m.kids[n]
          PROVE  below[m.kids[n][i]] = f[m.kids[n][i]]
      <4> PICK k \in S : k = m.kids[n][i] /\ rank[k] < rank[n]
        BY <1>10
      <4>1. rank[k] \in Int /\ rank[n] \in Int
        BY <1>3
      <4> HIDE DEF rank
      <4>2. rank[k] < j
        BY <2>1, <4>1
      <4> QED
        BY <1>11, <4>2
    <3>2. MembersFrom(m, below, n, 1) = MembersFrom(m, f, n, 1)
      BY <3>1, MembersDependOnKids
    <3>3. below[n] = MembersFrom(m, below, n, 1)
      BY <1>8
    <3>4. f[n] = MembersFrom(m, f, n, 1)
      BY <1>6
    <3> QED
      BY <3>2, <3>3, <3>4
  <2> QED
    BY <2>1
<1> HIDE DEF T, rank
<1>12. K + 1 \in T
  BY <1>1, <1>9, <1>11, NaturalInduction
<1>13. ASSUME NEW n \in S
       PROVE  below[n] = f[n]
  <2>1. rank[n] < K + 1
    BY <1>1, <1>3
  <2> QED
    BY <1>12, <2>1 DEF T
<1>14. \A n \in S : below[n] \in V /\ below[n] = MembersFrom(m, below, n, 1)
  BY <1>8, <1>13
<1> QED
  BY <1>14 DEF AreBelow

\* Behind is defined: what is behind a node depends on the nodes above it,
\* up to the view.
LEMMA BehindDefined ==
    ASSUME NEW m, IsTree(m), FieldsFollow(m), IsRooted(m), NEW v
    PROVE  /\ \A n \in m.nodes : Behind(m, v)[n] \in Lists(m)
           /\ \A n \in m.nodes \ {v, m.root} :
                  Behind(m, v)[n] =
                      Joined(MembersFrom(m, Below(m), m.parent[n],
                                         FieldCount(m, m.parent[n]) + m.index[n] + 1),
                             Behind(m, v)[m.parent[n]])
           /\ \A n \in m.nodes : n \in {v, m.root} => Behind(m, v)[n] = <<>>
<1> PICK d, K : IsDepth(m, d, K)
  BY NodesHaveDepths
<1> DEFINE S == m.nodes
           V == Lists(m)
           ahead(n) == MembersFrom(m, Below(m), m.parent[n],
                                   FieldCount(m, m.parent[n]) + m.index[n] + 1)
           R == S \ {v, m.root}
           F == [f \in [S -> V] |->
                    [n \in S |-> IF n \in {v, m.root} THEN <<>>
                                 ELSE Joined(ahead(n), f[m.parent[n]])]]
<1>1. K \in Nat /\ d \in [S -> 0 .. K] /\ <<>> \in V
  BY DEF IsDepth, Lists
<1>2. ASSUME NEW n \in R
      PROVE  m.parent[n] \in S /\ d[m.parent[n]] < d[n] /\ ahead(n) \in V
  <2> PICK p : p = m.parent[n]
    OBVIOUS
  <2>1. p \in S /\ m.index[n] \in DOMAIN m.kids[p]
    BY DEF IsTree
  <2>2. d[n] = d[p] + 1
    BY DEF IsDepth
  <2>3. FieldCount(m, p) \in Nat /\ KidCount(m, p) \in Nat
        /\ DOMAIN m.kids[p] = 1 .. KidCount(m, p)
    BY <2>1, FieldsOfNode DEF IsTree, KidCount
  <2>4. FieldCount(m, p) + m.index[n] + 1 \in 1 .. FieldCount(m, p) + KidCount(m, p) + 1
    BY <2>1, <2>3
  <2>5. AreBelow(m, Below(m))
    BY BelowDefined
  <2>6. MembersFrom(m, Below(m), p, FieldCount(m, p) + m.index[n] + 1) \in V
    BY <2>1, <2>4, <2>5, MembersOneByOne
  <2>7. d[p] < d[n]
    BY <1>1, <2>1, <2>2
  <2> QED
    BY <2>1, <2>6, <2>7
<1> HIDE DEF ahead
<1>3. ASSUME NEW f \in [S -> V], NEW n \in S, n \notin {v, m.root}
      PROVE  Joined(ahead(n), f[m.parent[n]]) \in V
  <2>1. ahead(n) \in V /\ f[m.parent[n]] \in V
    BY <1>2, <1>3
  <2> QED
    BY <2>1, ListsJoin
<1>4. F \in [[S -> V] -> [S -> V]]
  <2> SUFFICES ASSUME NEW f \in [S -> V], NEW n \in S
               PROVE  (IF n \in {v, m.root} THEN <<>>
                       ELSE Joined(ahead(n), f[m.parent[n]])) \in V
    BY Zenon
  <2> QED
    BY <1>1, <1>3
<1>5. ASSUME NEW f \in [S -> V], NEW g \in [S -> V], NEW n \in S,
             \A k \in S : d[k] < d[n] => f[k] = g[k]
      PROVE  F[f][n] = F[g][n]
  <2>1. n \notin {v, m.root} => f[m.parent[n]] = g[m.parent[n]]
    BY <1>2, <1>5
  <2> QED
    BY <2>1
<1>6. PICK f \in [S -> V] : f = F[f]
  <2> HIDE DEF V, F, S
  <2>1. IsDefinition(F, S, V, d, K)
    BY <1>1, <1>4, <1>5 DEF IsDefinition
  <2>2. IsDefined(F, S, V)
    BY <2>1, DefinitionDefines
  <2> QED
    BY <2>2 DEF IsDefined
<1>7. f = [n \in m.nodes |-> IF n \in {v, m.root} THEN <<>>
                             ELSE Joined(ahead(n), f[m.parent[n]])]
  BY <1>6
<1> PICK behind : behind = Behind(m, v)
  OBVIOUS
<1>8. behind = [n \in m.nodes |-> IF n \in {v, m.root} THEN <<>>
                                  ELSE Joined(ahead(n), behind[m.parent[n]])]
  BY <1>7, Zenon DEF Behind, ahead, Joined
<1> DEFINE T == {j \in Nat : \A n \in S : d[n] < j => behind[n] = f[n]}
<1>9. 0 \in T
  BY <1>1
<1>11. ASSUME NEW j \in Nat, j \in T
       PROVE  j + 1 \in T
  <2>1. ASSUME NEW n \in S, d[n] < j + 1
        PROVE  behind[n] = f[n]
    <3>1. CASE n \in {v, m.root}
      BY <1>7, <1>8, <3>1
    <3>2. CASE n \notin {v, m.root}
      <4> PICK p \in S : p = m.parent[n] /\ d[p] < d[n]
        BY <1>2, <3>2
      <4>1. d[p] < j
        BY <1>1, <2>1
      <4>2. behind[p] = f[p]
        BY <1>11, <4>1
      <4>3. behind[n] = Joined(ahead(n), behind[p]) /\ f[n] = Joined(ahead(n), f[p])
        BY <1>7, <1>8, <3>2
      <4> QED
        BY <4>2, <4>3
    <3> QED
      BY <3>1, <3>2
  <2> QED
    BY <2>1
<1> HIDE DEF T
<1>12. K + 1 \in T
  BY <1>1, <1>9, <1>11, NaturalInduction
<1>13. ASSUME NEW n \in S
       PROVE  behind[n] = f[n]
  <2>1. d[n] < K + 1
    BY <1>1
  <2> QED
    BY <1>12, <2>1 DEF T
<1>14. \A n \in S : behind[n] \in V
  BY <1>13
<1>15. \A n \in R : behind[n] = Joined(ahead(n), behind[m.parent[n]])
  BY <1>8
<1>16. \A n \in m.nodes : n \in {v, m.root} => behind[n] = <<>>
  BY <1>8
<1> QED
  BY <1>14, <1>15, <1>16 DEF ahead

\* Of a node without members nothing is left.
LEMMA NothingBelow ==
    ASSUME NEW m, IsTree(m), FieldsFollow(m), NEW below, AreBelow(m, below),
           NEW n \in m.nodes, FieldCount(m, n) = 0, KidCount(m, n) = 0
    PROVE  MembersFrom(m, below, n, 1) = <<>>
<1> PICK i \in 1 .. FieldCount(m, n) + KidCount(m, n) + 1 :
             i = FieldCount(m, n) + KidCount(m, n) + 1
  OBVIOUS
<1>1. MembersFrom(m, below, n, i) = <<>>
  BY MembersOneByOne
<1>2. i = 1
  OBVIOUS
<1> QED
  BY <1>1, <1>2

\* What is left of the visit at a place.
LEMMA VisitsOneByOne ==
    ASSUME IsWireMessage(msg), NEW n \in msg.nodes,
           NEW i \in 1 .. FieldCount(msg, n) + KidCount(msg, n) + 1
    PROVE  /\ i <= FieldCount(msg, n) =>
                  /\ VisitsFrom(n, i) # <<>>
                  /\ Tail(VisitsFrom(n, i)) = VisitsFrom(n, i + 1)
           /\ i > FieldCount(msg, n) /\ i <= FieldCount(msg, n) + KidCount(msg, n) =>
                  LET kid == msg.kids[n][i - FieldCount(msg, n)]
                  IN  /\ VisitsFrom(n, i) # <<>>
                      /\ msg.kind[kid] = "data" =>
                             Tail(VisitsFrom(n, i)) = VisitsFrom(n, i + 1)
                      /\ kid # view =>
                             Tail(VisitsFrom(n, i)) = VisitsFrom(kid, 1)
           /\ i = FieldCount(msg, n) + KidCount(msg, n) + 1 /\ n \notin {view, msg.root} =>
                  VisitsFrom(n, i) =
                      VisitsFrom(msg.parent[n],
                                 FieldCount(msg, msg.parent[n]) + msg.index[n] + 1)
<1>1. IsTree(msg) /\ HasSizes(msg) /\ FieldsFollow(msg) /\ IsRooted(msg)
      /\ \A k \in msg.nodes \ Levels(msg) : msg.fields[k] = <<>>
  BY DEF IsWireMessage
<1> DEFINE below == Below(msg)
           behind(k) == Behind(msg, view)[k]
           ms(k, j) == MembersFrom(msg, Below(msg), k, j)
           vs(k, j) == VisitsFrom(k, j)
           L == Lists(msg)
<1>2. AreBelow(msg, below) /\ \A k \in msg.nodes : below[k] = ms(k, 1)
  BY <1>1, BelowDefined
<1>3. \A k \in msg.nodes : behind(k) \in L
  BY <1>1, BehindDefined
<1>4. \A k \in msg.nodes : k \notin {view, msg.root} =>
          behind(k) = Joined(ms(msg.parent[k],
                                FieldCount(msg, msg.parent[k]) + msg.index[k] + 1),
                             behind(msg.parent[k]))
  BY <1>1, BehindDefined
<1>5. \A k, j : vs(k, j) = Joined(ms(k, j), behind(k))
  BY Zenon DEF VisitsFrom, Joined
<1> PICK c \in Nat : c = FieldCount(msg, n)
  BY <1>1, FieldsOfNode
<1> PICK d \in Nat : d = KidCount(msg, n)
  BY <1>1, SizesOfNode
<1>0. i \in 1 .. c + d + 1 /\ i \in Nat
  OBVIOUS
<1> DEFINE kid == msg.kids[n][i - c]
<1>6. /\ ms(n, i) \in L
      /\ i = c + d + 1 => ms(n, i) = <<>>
      /\ i <= c => ms(n, i) = Joined(<<<<n, i>>>>, ms(n, i + 1))
      /\ i > c /\ i <= c + d => ms(n, i) = Joined(WithBelow(below, kid), ms(n, i + 1))
  BY <1>1, <1>2, MembersOneByOne
<1>7. i <= c + d => ms(n, i + 1) \in L
  <2> SUFFICES ASSUME i <= c + d PROVE ms(n, i + 1) \in L
    OBVIOUS
  <2>1. i + 1 \in 1 .. FieldCount(msg, n) + KidCount(msg, n) + 1
    BY <1>0
  <2> QED
    BY <1>1, <1>2, <2>1, MembersOneByOne
<1>8. ASSUME NEW a \in L, NEW b \in L, NEW e \in L
      PROVE  /\ Joined(Joined(a, b), e) = Joined(a, Joined(b, e))
             /\ Joined(a, b) \in L /\ Joined(<<>>, b) = b
  BY ListsJoin, ListsAssociate
<1>9. ASSUME NEW x \in msg.nodes \cup (msg.nodes \X Nat), NEW r \in L
      PROVE  Joined(<<x>>, r) # <<>> /\ Tail(Joined(<<x>>, r)) = r /\ <<x>> \in L
  <2>1. <<x>> \in L
    BY DEF Lists
  <2> QED
    BY <2>1, FirstOfList
<1>10. ASSUME i > c, i <= c + d
       PROVE  /\ kid \in msg.nodes /\ kid # msg.root
              /\ msg.parent[kid] = n /\ msg.index[kid] = i - c
              /\ WithBelow(below, kid) = Joined(<<kid>>, ms(kid, 1))
              /\ ms(kid, 1) \in L
              /\ msg.kind[kid] = "data" => ms(kid, 1) = <<>>
  <2>1. i - c \in DOMAIN msg.kids[n]
    BY <1>1, <1>0, <1>10, SizesOfNode
  <2> PICK k : k = kid
    OBVIOUS
  <2>2. k \in msg.nodes /\ k # msg.root /\ msg.parent[k] = n /\ msg.index[k] = i - c
    BY <1>1, <2>1, KidOfNode
  <2>3. WithBelow(below, k) = Joined(<<k>>, ms(k, 1))
    BY <1>2, <2>2, WithBelowIsList
  <2>4. 1 \in 1 .. FieldCount(msg, k) + KidCount(msg, k) + 1
    BY <1>1, <2>2, FieldsOfNode, SizesOfNode
  <2>5. ms(k, 1) \in L
    BY <1>1, <1>2, <2>2, <2>4, MembersOneByOne
  <2>6. ASSUME msg.kind[k] = "data"
        PROVE  ms(k, 1) = <<>>
    <3>1. msg.kids[k] = <<>> /\ msg.fields[k] = <<>>
      BY <1>1, <2>2, <2>6 DEF IsTree, Levels, LevelKinds
    <3>2. FieldCount(msg, k) = 0 /\ KidCount(msg, k) = 0
      BY <1>1, <2>2, <3>1, FieldsOfNode, SizesOfNode
    <3> QED
      BY <1>1, <1>2, <2>2, <3>2, NothingBelow
  <2> QED
    BY <2>2, <2>3, <2>5, <2>6
<1> HIDE DEF below, behind, ms, vs, L, kid
<1>11. ASSUME i <= c
       PROVE  vs(n, i) # <<>> /\ Tail(vs(n, i)) = vs(n, i + 1)
  <2> PICK x \in msg.nodes \cup (msg.nodes \X Nat) : x = <<n, i>>
    BY <1>0
  <2>1. ms(n, i) = Joined(<<x>>, ms(n, i + 1)) /\ ms(n, i + 1) \in L
    BY <1>0, <1>6, <1>7, <1>11
  <2>3. behind(n) \in L /\ <<x>> \in L
    BY <1>3, <1>9, <2>1
  <2>4. Joined(Joined(<<x>>, ms(n, i + 1)), behind(n))
            = Joined(<<x>>, Joined(ms(n, i + 1), behind(n)))
        /\ Joined(ms(n, i + 1), behind(n)) \in L
    BY <1>8, <2>1, <2>3
  <2>2. vs(n, i) = Joined(<<x>>, vs(n, i + 1)) /\ vs(n, i + 1) \in L
    BY <1>5, <2>1, <2>4, Zenon
  <2> QED
    BY <1>9, <2>2
<1>12. ASSUME i > c, i <= c + d
       PROVE  /\ vs(n, i) # <<>>
              /\ msg.kind[kid] = "data" => Tail(vs(n, i)) = vs(n, i + 1)
              /\ kid # view => Tail(vs(n, i)) = vs(kid, 1)
  <2> DEFINE rest == Joined(ms(n, i + 1), behind(n))
  <2>1. ms(n, i + 1) \in L /\ behind(n) \in L /\ rest \in L
    BY <1>3, <1>7, <1>8, <1>12
  <2>2. kid \in msg.nodes /\ <<kid>> \in L /\ ms(kid, 1) \in L
    BY <1>9, <1>10, <1>12, <2>1
  <2>3. ms(n, i) = Joined(Joined(<<kid>>, ms(kid, 1)), ms(n, i + 1))
    BY <1>6, <1>10, <1>12
  <2>4. vs(n, i) = Joined(<<kid>>, Joined(ms(kid, 1), rest))
    <3>1. Joined(<<kid>>, ms(kid, 1)) \in L
      BY <1>8, <2>2
    <3>2. vs(n, i) = Joined(Joined(<<kid>>, ms(kid, 1)), rest)
      BY <1>5, <1>8, <2>1, <2>3, <3>1
    <3> HIDE DEF rest
    <3> QED
      BY <1>8, <2>1, <2>2, <3>2
  <2>5. Joined(ms(kid, 1), rest) \in L
    BY <1>8, <2>1, <2>2
  <2>6. vs(n, i) # <<>> /\ Tail(vs(n, i)) = Joined(ms(kid, 1), rest)
    BY <1>9, <2>2, <2>4, <2>5
  <2>7. ASSUME msg.kind[kid] = "data"
        PROVE  Tail(vs(n, i)) = vs(n, i + 1)
    BY <1>5, <1>8, <1>10, <1>12, <2>1, <2>6, <2>7
  <2>8. ASSUME kid # view
        PROVE  Tail(vs(n, i)) = vs(kid, 1)
    <3>1. msg.parent[kid] = n /\ FieldCount(msg, n) + msg.index[kid] + 1 = i + 1
          /\ kid \notin {view, msg.root}
      BY <1>0, <1>10, <1>12, <2>8
    <3>2. behind(kid) = rest
      BY <1>4, <2>2, <3>1
    <3> QED
      BY <1>5, <2>6, <3>2
  <2> QED
    BY <2>6, <2>7, <2>8
<1>13. ASSUME i = c + d + 1, n \notin {view, msg.root}
       PROVE  vs(n, i) = vs(msg.parent[n], FieldCount(msg, msg.parent[n]) + msg.index[n] + 1)
  <2>1. vs(n, i) = behind(n)
    BY <1>3, <1>5, <1>6, <1>8, <1>13
  <2> QED
    BY <1>4, <1>5, <1>13, <2>1
<1> QED
  BY <1>11, <1>12, <1>13 DEF vs, kid

-----------------------------------------------------------------------------
(* The steps of the visit, by what they do to the list of members.         *)

\* The next member is visited, and the visit goes on.
LEMMA MemberVisited ==
    ASSUME phase = "visit", phase' = "visit", VisitsFrom(at, next) # <<>>,
           VisitsFrom(at, next)' = Tail(VisitsFrom(at, next))
    PROVE  [Visit!Next]_(Visit!vars)
  BY DEF Visit!Next, Visit!VisitNext

\* No member is visited.
LEMMA NothingVisited ==
    ASSUME phase \in {"start", "visit"}, phase' \in {"start", "visit"},
           VisitsFrom(at, next)' = VisitsFrom(at, next)
    PROVE  [Visit!Next]_(Visit!vars)
  BY DEF Visit!vars

\* The visit ends, or has ended.
LEMMA VisitIsOver ==
    ASSUME phase \in {"start", "visit", "stop", "done", "assert"},
           phase' \in {"stop", "done", "assert"}
    PROVE  [Visit!Next]_(Visit!vars)
<1>1. CASE phase \in {"start", "visit"}
  BY <1>1 DEF Visit!Next, Visit!Stop
<1>2. CASE phase \notin {"start", "visit"}
  BY <1>2 DEF Visit!vars
<1> QED
  BY <1>1, <1>2

\* What is left depends on the arguments and the place of the visit.
LEMMA VisitsElsewhere ==
    ASSUME args' = args, NEW n, NEW i, at' = n, next' = i
    PROVE  VisitsFrom(at, next)' = VisitsFrom(n, i)
<1>1. msg' = msg /\ view' = view
  BY DEF args
<1> QED
  BY <1>1, Zenon DEF VisitsFrom

\* Where the visit is.
LEMMA PlaceOfVisit ==
    ASSUME IInv, phase = "visit"
    PROVE  /\ IsWireMessage(msg) /\ TypeOK /\ WithinView
           /\ IsTree(msg) /\ HasSizes(msg) /\ FieldsFollow(msg)
           /\ at \in msg.nodes
           /\ FieldCount(msg, at) \in Nat /\ KidCount(msg, at) \in Nat
           /\ DOMAIN msg.fields[at] = 1 .. FieldCount(msg, at)
           /\ DOMAIN msg.kids[at] = 1 .. KidCount(msg, at)
           /\ next \in 1 .. FieldCount(msg, at) + KidCount(msg, at) + 1
           /\ \A g \in msg.nodes : msg.kind[g] = "group" => FieldCount(msg, g) = 0
           /\ at # view => at # msg.root
<1>1. IsWireMessage(msg) /\ TypeOK /\ WithinView
  BY MessagesAssumption DEF IInv, TypeOK
<1>2. /\ IsTree(msg) /\ FieldsFollow(msg)
      /\ \A n \in msg.nodes \ Levels(msg) : msg.fields[n] = <<>>
  BY <1>1 DEF IsWireMessage
<1>3. ASSUME NEW g \in msg.nodes, msg.kind[g] = "group"
      PROVE  FieldCount(msg, g) = 0
  <2>1. msg.fields[g] = <<>>
    BY <1>2, <1>3 DEF Levels, LevelKinds
  <2> QED
    BY <1>2, <2>1, FieldsOfNode
<1> QED
  BY <1>1, <1>3, Place, PlaceInView, Visiting

\* on_field visits the field the abstract specification visits.
LEMMA VisitFieldVisits ==
    ASSUME IInv, VisitField
    PROVE  [Visit!Next]_(Visit!vars)
<1>0. phase = "visit" /\ next \in DOMAIN msg.fields[at]
  BY DEF VisitField, InLevel
<1>1. CASE FailCheck
  BY <1>0, <1>1, VisitIsOver DEF FailCheck
<1>2. CASE ~FailCheck
  <2>1. phase' = phase /\ next' = next + 1 /\ at' = at /\ args' = args
    BY <1>2 DEF VisitField
  <2>2. /\ IsWireMessage(msg) /\ at \in msg.nodes /\ next <= FieldCount(msg, at)
        /\ next \in 1 .. FieldCount(msg, at) + KidCount(msg, at) + 1
    BY <1>0, PlaceOfVisit
  <2>3. VisitsFrom(at, next) # <<>> /\ Tail(VisitsFrom(at, next)) = VisitsFrom(at, next + 1)
    BY <2>2, VisitsOneByOne
  <2>4. VisitsFrom(at, next)' = VisitsFrom(at, next + 1)
    BY <2>1, VisitsElsewhere
  <2> QED
    BY <1>0, <2>1, <2>3, <2>4, MemberVisited
<1> QED
  BY <1>1, <1>2

\* The child of the visited node that is visited next.
LEMMA ChildVisited ==
    ASSUME IInv, phase = "visit", next > FieldCount(msg, at),
           next <= FieldCount(msg, at) + KidCount(msg, at)
    PROVE  /\ VisitsFrom(at, next) # <<>>
           /\ Tail(VisitsFrom(at, next)) = VisitsFrom(NextKid, 1)
           /\ msg.kind[NextKid] = "data" =>
                  Tail(VisitsFrom(at, next)) = VisitsFrom(at, next + 1)
<1>1. /\ IsWireMessage(msg) /\ at \in msg.nodes /\ TypeOK /\ WithinView
      /\ next \in 1 .. FieldCount(msg, at) + KidCount(msg, at) + 1
      /\ FieldCount(msg, at) \in Nat /\ KidCount(msg, at) \in Nat
      /\ DOMAIN msg.kids[at] = 1 .. KidCount(msg, at)
  BY PlaceOfVisit
<1>2. next - FieldCount(msg, at) \in DOMAIN msg.kids[at]
  BY <1>1
<1>3. NextKid # view
  BY <1>1, <1>2, ChildIsNotView DEF NextKid
<1> QED
  BY <1>1, <1>3, VisitsOneByOne DEF NextKid

\* on_group visits the group.
LEMMA OnGroupVisits ==
    ASSUME IInv, OnGroup
    PROVE  [Visit!Next]_(Visit!vars)
<1>0. /\ phase = "visit" /\ next > FieldCount(msg, at) /\ args' = args
      /\ next <= FieldCount(msg, at) + KidCount(msg, at)
  BY DEF OnGroup, FailCheck, AtKid, InLevel
<1>1. CASE phase' \in {"assert", "stop"}
  BY <1>0, <1>1, VisitIsOver
<1>2. CASE phase' \notin {"assert", "stop"}
  <2>1. at' = NextKid /\ next' = 1 /\ phase' = phase
    BY <1>2 DEF OnGroup, FailCheck
  <2>2. VisitsFrom(at, next)' = VisitsFrom(NextKid, 1)
    BY <1>0, <2>1, VisitsElsewhere
  <2> QED
    BY <1>0, <2>1, <2>2, ChildVisited, MemberVisited
<1> QED
  BY <1>1, <1>2

\* on_data visits the data member, which has nothing below it.
LEMMA OnDataVisits ==
    ASSUME IInv, OnData
    PROVE  [Visit!Next]_(Visit!vars)
<1>0. /\ phase = "visit" /\ next > FieldCount(msg, at)
      /\ next <= FieldCount(msg, at) + KidCount(msg, at)
      /\ msg.kind[NextKid] = "data"
  BY DEF OnData, AtKid, InLevel
<1>1. CASE phase' \in {"assert", "stop"}
  BY <1>0, <1>1, VisitIsOver
<1>2. CASE phase' \notin {"assert", "stop"}
  <2>1. at' = at /\ next' = next + 1 /\ phase' = "visit" /\ args' = args
    BY <1>2 DEF OnData, FailCheck
  <2>2. VisitsFrom(at, next)' = VisitsFrom(at, next + 1)
    BY <2>1, VisitsElsewhere
  <2> QED
    BY <1>0, <2>1, <2>2, ChildVisited, MemberVisited
<1> QED
  BY <1>1, <1>2

\* on_entry visits the entry.
LEMMA OnEntryVisits ==
    ASSUME IInv, OnEntry
    PROVE  [Visit!Next]_(Visit!vars)
<1>0. phase = "visit" /\ msg.kind[at] = "group" /\ next \in DOMAIN msg.kids[at]
  BY DEF OnEntry
<1>1. CASE phase' \in {"assert", "stop"}
  BY <1>0, <1>1, VisitIsOver
<1>2. CASE phase' \notin {"assert", "stop"}
  <2>1. at' = msg.kids[at][next] /\ next' = 1 /\ phase' = phase /\ args' = args
    BY <1>2 DEF OnEntry, FailCheck
  <2>2. /\ FieldCount(msg, at) = 0 /\ KidCount(msg, at) \in Nat
        /\ next \in 1 .. KidCount(msg, at)
    BY <1>0, PlaceOfVisit
  <2>3. NextKid = msg.kids[at][next]
    BY <2>2 DEF NextKid
  <2>4. VisitsFrom(at, next)' = VisitsFrom(NextKid, 1)
    BY <2>1, <2>3, VisitsElsewhere
  <2>5. next > FieldCount(msg, at) /\ next <= FieldCount(msg, at) + KidCount(msg, at)
    BY <2>2
  <2> QED
    BY <1>0, <2>1, <2>4, <2>5, ChildVisited, MemberVisited
<1> QED
  BY <1>1, <1>2

\* Behind the last member of an entry is what is behind the entry.
LEMMA EntryVisitedVisits ==
    ASSUME IInv, EntryVisited
    PROVE  [Visit!Next]_(Visit!vars)
<1>0. /\ phase = "visit" /\ msg.kind[at] = "entry" /\ phase' = phase /\ args' = args
      /\ next = FieldCount(msg, at) + KidCount(msg, at) + 1
      /\ at' = msg.parent[at] /\ next' = msg.index[at] + 1
  BY DEF EntryVisited, InLevel, NextEntry
<1>1. /\ IsWireMessage(msg) /\ at \in msg.nodes /\ TypeOK
      /\ next \in 1 .. FieldCount(msg, at) + KidCount(msg, at) + 1
      /\ IsTree(msg) /\ HasSizes(msg)
      /\ \A g \in msg.nodes : msg.kind[g] = "group" => FieldCount(msg, g) = 0
  BY <1>0, PlaceOfVisit
<1>2. at \notin {view, msg.root}
  BY <1>0, <1>1, Arguments DEF IsTree
<1>3. /\ msg.parent[at] \in msg.nodes /\ msg.kind[msg.parent[at]] = "group"
      /\ msg.index[at] \in Nat
  <2>1. msg.kind[at] # "message" /\ msg.index[at] \in Nat
    BY <1>0, <1>1 DEF IsTree
  <2> QED
    BY <1>0, <1>1, <2>1, ParentOfNode
<1>4. FieldCount(msg, msg.parent[at]) + msg.index[at] + 1 = next'
  BY <1>0, <1>1, <1>3
<1>5. VisitsFrom(at, next) = VisitsFrom(msg.parent[at], next')
  BY <1>0, <1>1, <1>2, <1>4, VisitsOneByOne
<1>6. VisitsFrom(at, next)' = VisitsFrom(msg.parent[at], next')
  BY <1>0, VisitsElsewhere
<1> QED
  BY <1>0, <1>5, <1>6, NothingVisited

\* Behind the last entry of a group is what is behind the group.
LEMMA GroupVisitedVisits ==
    ASSUME IInv, GroupVisited
    PROVE  [Visit!Next]_(Visit!vars)
<1>0. /\ phase = "visit" /\ msg.kind[at] = "group" /\ args' = args
      /\ next = KidCount(msg, at) + 1
  BY DEF GroupVisited
<1>1. CASE at = view
  <2>1. phase' = "done"
    BY <1>1 DEF GroupVisited
  <2> QED
    BY <1>0, <2>1, VisitIsOver
<1>2. CASE at # view
  <2>1. /\ at' = msg.parent[at] /\ phase' = phase
        /\ next' = FieldCount(msg, msg.parent[at]) + msg.index[at] + 1
    BY <1>2 DEF GroupVisited
  <2>2. /\ IsWireMessage(msg) /\ at \in msg.nodes
        /\ next \in 1 .. FieldCount(msg, at) + KidCount(msg, at) + 1
        /\ FieldCount(msg, at) = 0 /\ KidCount(msg, at) \in Nat
        /\ at # msg.root
    BY <1>0, <1>2, PlaceOfVisit
  <2>3. next = FieldCount(msg, at) + KidCount(msg, at) + 1
    BY <1>0, <2>2
  <2>4. VisitsFrom(at, next) = VisitsFrom(msg.parent[at], next')
    BY <1>2, <2>1, <2>2, <2>3, VisitsOneByOne
  <2>5. VisitsFrom(at, next)' = VisitsFrom(msg.parent[at], next')
    BY <1>0, <2>1, VisitsElsewhere
  <2> QED
    BY <1>0, <2>1, <2>4, <2>5, NothingVisited
<1> QED
  BY <1>1, <1>2

\* Every step is one of the abstract visit, or none.
LEMMA VisitSteps ==
    ASSUME IInv, [Next]_vars
    PROVE  [Visit!Next]_(Visit!vars)
<1>0. phase \in {"start", "visit", "stop", "done", "assert"}
  BY DEF IInv, TypeOK
<1>1. CASE TooShortForHeader
  BY <1>0, <1>1, VisitIsOver DEF TooShortForHeader, FailCheck
<1>2. CASE OnMessage
  <2>1. phase = "start" /\ phase' \in {"visit", "done"}
        /\ at' = at /\ next' = next /\ args' = args
    BY <1>2 DEF OnMessage
  <2> QED
    BY <1>0, <2>1, VisitsElsewhere, NothingVisited, VisitIsOver
<1>3. CASE OnViewedGroup
  <2>1. phase = "start" /\ phase' = "visit" /\ at' = at /\ next' = next /\ args' = args
    BY <1>3 DEF OnViewedGroup
  <2> QED
    BY <2>1, VisitsElsewhere, NothingVisited
<1>4. CASE MessageVisited
  BY <1>0, <1>4, VisitIsOver DEF MessageVisited
<1>5. CASE Unwind
  <2>1. phase' \in {"stop", "done"}
    BY <1>5 DEF Unwind
  <2> QED
    BY <1>0, <2>1, VisitIsOver
<1>6. CASE UNCHANGED vars
  <2>1. phase' = phase /\ at' = at /\ next' = next /\ args' = args
    BY <1>6 DEF vars
  <2>2. VisitsFrom(at, next)' = VisitsFrom(at, next)
    BY <2>1, VisitsElsewhere
  <2> QED
    BY <2>1, <2>2 DEF Visit!vars
<1> QED
  BY <1>1, <1>2, <1>3, <1>4, <1>5, <1>6, VisitFieldVisits, OnGroupVisits, OnDataVisits,
     OnEntryVisits, EntryVisitedVisits, GroupVisitedVisits DEF Next

\* Without its fairness, the refinement of the visit: the visitor is called for
\* the members of the view in schema order, each once, until it stops or no
\* member is left.
THEOREM MembersVisited == Spec => Visit!Init /\ [][Visit!Next]_(Visit!vars)
<1>1. Init => Visit!Init
  BY DEF Init, Visit!Init
<1>2. IInv /\ [Next]_vars => [Visit!Next]_(Visit!vars)
  BY VisitSteps
<1> QED
  BY <1>1, <1>2, Invariance, PTL DEF Spec
=============================================================================
