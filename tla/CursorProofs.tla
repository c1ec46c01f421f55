---------------------------- MODULE CursorProofs ----------------------------
(***************************************************************************)
(* The cursor's rules, for every message whose layout the generated code   *)
(* computes and whose blocks a cursor can pass.                            *)
(***************************************************************************)
EXTENDS Cursor, SequenceTheorems, TLAPS

BlocksArePassed == \A m \in Messages : CursorPassesBlocks(m)

-----------------------------------------------------------------------------
(* The layout of one message.                                              *)

\* Sizes and addresses of a node are natural numbers, and it lies in the
\* buffer with its header and its block.
LEMMA NodeFacts ==
    ASSUME NEW m, IsMessage(m), NEW n \in m.nodes
    PROVE  /\ m.addr[n] \in Nat /\ m.hdr[n] \in Nat /\ m.block[n] \in Nat
           /\ m.size[n] \in Nat /\ m.end \in Nat
           /\ m.kind[n] \in Kinds
           /\ KidCount(m, n) \in Nat /\ FieldCount(m, n) \in Nat
           /\ m.kids[n] = <<>> <=> KidCount(m, n) = 0
           /\ m.fields[n] = <<>> <=> FieldCount(m, n) = 0
           /\ DOMAIN m.kids[n] = 1 .. KidCount(m, n)
           /\ DOMAIN m.fields[n] = 1 .. FieldCount(m, n)
           /\ BlockEnd(m, n) <= NodeEnd(m, n)
           /\ NodeEnd(m, n) <= m.end
           /\ m.kind[n] = "group" => m.block[n] = 0
           /\ m.kind[n] = "entry" => m.hdr[n] = 0
<1>0. IsTree(m) /\ HasSizes(m) /\ FieldsFollow(m)
  BY DEF IsMessage, HasFieldOffsets
<1>1. m.kids[n] \in Seq(m.nodes) /\ m.kind[n] \in Kinds
  BY <1>0 DEF IsTree
<1>2. /\ KidCount(m, n) \in Nat
      /\ m.kids[n] = <<>> <=> KidCount(m, n) = 0
      /\ DOMAIN m.kids[n] = 1 .. KidCount(m, n)
  BY <1>1 DEF KidCount
<1>3. m.fields[n] \in Seq([rel : Nat, abs : Nat, size : Nat])
  BY <1>0 DEF FieldsFollow
<1>4. /\ FieldCount(m, n) \in Nat
      /\ m.fields[n] = <<>> <=> FieldCount(m, n) = 0
      /\ DOMAIN m.fields[n] = 1 .. FieldCount(m, n)
  BY <1>3 DEF FieldCount
<1>5. /\ m.addr[n] \in Nat /\ m.hdr[n] \in Nat /\ m.block[n] \in Nat
      /\ m.size[n] \in Nat /\ m.end \in Nat
  BY <1>0 DEF HasSizes
<1>6. /\ BlockEnd(m, n) <= NodeEnd(m, n)
      /\ NodeEnd(m, n) <= m.end
      /\ m.kind[n] = "group" => m.block[n] = 0
      /\ m.kind[n] = "entry" => m.hdr[n] = 0
  BY <1>0 DEF HasSizes
<1> QED
  BY <1>1, <1>2, <1>4, <1>5, <1>6

\* A child of a node knows its place, and begins where the accessors say.
LEMMA KidFacts ==
    ASSUME NEW m, IsMessage(m), NEW n \in m.nodes, NEW i \in DOMAIN m.kids[n]
    PROVE  LET k == m.kids[n][i]
           IN  /\ k \in m.nodes
               /\ m.addr[k] = KidStart(m, n, i)
               /\ IF m.kind[n] = "group" THEN m.kind[k] = "entry"
                                         ELSE m.kind[k] \in {"group", "data"}
<1>0. IsTree(m) /\ HasSizes(m)
  BY DEF IsMessage
<1>1. m.kids[n] \in Seq(m.nodes)
  BY <1>0 DEF IsTree
<1>2. m.kids[n][i] \in m.nodes
  BY <1>0, <1>1
<1> QED
  BY <1>0, <1>2 DEF IsTree, HasSizes

\* The way back from a child to its parent.
LEMMA ParentFacts ==
    ASSUME NEW m, IsMessage(m), NEW k \in m.nodes, m.kind[k] # "message"
    PROVE  /\ m.parent[k] \in m.nodes
           /\ m.index[k] \in DOMAIN m.kids[m.parent[k]]
           /\ m.kids[m.parent[k]][m.index[k]] = k
           /\ m.kind[k] = "entry" => m.kind[m.parent[k]] = "group"
           /\ m.kind[k] = "group" => m.kind[m.parent[k]] \in LevelKinds
<1>0. IsTree(m) /\ HasSizes(m)
  BY DEF IsMessage
<1>1. /\ m.parent[k] \in m.nodes
      /\ m.index[k] \in DOMAIN m.kids[m.parent[k]]
      /\ m.kids[m.parent[k]][m.index[k]] = k
  BY <1>0 DEF IsTree
<1>2. IF m.kind[m.parent[k]] = "group" THEN m.kind[k] = "entry"
                                       ELSE m.kind[k] \in {"group", "data"}
  BY <1>0, <1>1, KidFacts
<1>3. m.kind[m.parent[k]] \in LevelKinds \cup {"group"}
  <2>1. m.kids[m.parent[k]] # <<>>
    BY <1>0, <1>1
  <2>2. m.kind[m.parent[k]] # "data"
    BY <1>0, <1>1, <2>1 DEF IsTree
  <2> QED
    BY <1>0, <1>1, <2>2, NodeFacts DEF Kinds
<1> QED
  BY <1>0, <1>1, <1>2, <1>3 DEF LevelKinds

\* After the last child a cursor is at the end of the node.
LEMMA AfterLastKid ==
    ASSUME NEW m, IsMessage(m), NEW n \in m.nodes
    PROVE  KidStart(m, n, KidCount(m, n) + 1) = NodeEnd(m, n)
<1>0. IsTree(m) /\ HasSizes(m)
  BY DEF IsMessage
<1>1. NodeEnd(m, n) = NodeEndsAt(m, n)
  BY <1>0 DEF HasSizes
<1>2. CASE m.kids[n] = <<>>
  BY <1>0, <1>1, <1>2, NodeFacts DEF KidStart, NodeEndsAt
<1>3. CASE m.kids[n] # <<>>
  <2>1. KidCount(m, n) \in Nat /\ KidCount(m, n) # 0
    BY <1>0, <1>3, NodeFacts
  <2>2. KidCount(m, n) + 1 # 1 /\ (KidCount(m, n) + 1) - 1 = KidCount(m, n)
    BY <1>0, <2>1
  <2> QED
    BY <1>0, <1>1, <1>3, <2>2 DEF KidStart, NodeEndsAt
<1> QED
  BY <1>0, <1>2, <1>3

\* What the compiler passes to an accessor are natural numbers.
LEMMA OffsetsAreNat ==
    ASSUME NEW m, IsMessage(m), NEW l \in m.nodes, NEW i \in DOMAIN m.fields[l]
    PROVE  /\ i \in 1 .. FieldCount(m, l)
           /\ m.fields[l][i].rel \in Nat
           /\ m.fields[l][i].abs \in Nat
           /\ m.fields[l][i].size \in Nat
<1> DEFINE R == [rel : Nat, abs : Nat, size : Nat]
<1>1. m.fields[l] \in Seq(R)
  BY DEF IsMessage, HasFieldOffsets, FieldsFollow
<1>2. i \in 1 .. FieldCount(m, l) /\ m.fields[l][i] \in R
  <2> HIDE DEF R
  <2> QED BY <1>1, ElementOfSeq DEF FieldCount
<1> QED
  BY <1>2

\* A field lies in the block, and begins rel bytes after the one before it.
LEMMA FieldFacts ==
    ASSUME NEW m, IsMessage(m), NEW l \in Levels(m), NEW i \in DOMAIN m.fields[l]
    PROVE  LET f == m.fields[l][i]
           IN  /\ f.rel \in Nat /\ f.abs \in Nat /\ f.size \in Nat
               /\ m.addr[l] + f.abs - f.rel = Level(m, l) + FieldEnd(m, l, i - 1)
               /\ m.addr[l] + f.abs + f.size = Level(m, l) + FieldEnd(m, l, i)
               /\ m.addr[l] + f.abs + f.size <= m.end
               /\ FieldEnd(m, l, i) \in Int /\ FieldEnd(m, l, i - 1) \in Int
<1> DEFINE f == m.fields[l][i]
<1>1. l \in m.nodes
  BY DEF Levels
<1>3. i \in 1 .. FieldCount(m, l) /\ FieldCount(m, l) \in Nat
      /\ f.rel \in Nat /\ f.abs \in Nat /\ f.size \in Nat
  BY <1>1, OffsetsAreNat, NodeFacts
<1>4. f.abs = m.hdr[l] + FieldEnd(m, l, i - 1) + f.rel /\ FieldEnd(m, l, i) <= m.block[l]
  BY DEF IsMessage, HasFieldOffsets, FieldsFollow
<1>5. FieldEnd(m, l, i) = f.abs - m.hdr[l] + f.size
  BY <1>3 DEF FieldEnd
<1>6. FieldEnd(m, l, i - 1) \in Int
  <2>1. CASE i = 1
    BY <2>1 DEF FieldEnd
  <2>2. CASE i # 1
    <3>1. i - 1 \in DOMAIN m.fields[l] /\ i - 1 # 0
      BY <1>1, <1>3, <2>2, NodeFacts
    <3>2. m.fields[l][i - 1].abs \in Nat /\ m.fields[l][i - 1].size \in Nat
      BY <1>1, <3>1, OffsetsAreNat
    <3>3. m.hdr[l] \in Nat
      BY <1>1, NodeFacts
    <3> QED
      BY <3>1, <3>2, <3>3 DEF FieldEnd
  <2> QED
    BY <2>1, <2>2
<1>7. m.addr[l] \in Nat /\ m.hdr[l] \in Nat /\ m.block[l] \in Nat /\ m.end \in Nat
      /\ BlockEnd(m, l) <= NodeEnd(m, l) /\ NodeEnd(m, l) <= m.end /\ m.size[l] \in Nat
  BY <1>1, NodeFacts
<1>9. BlockEnd(m, l) <= m.end
  BY <1>7 DEF BlockEnd, Level, NodeEnd
<1>10. m.addr[l] + f.abs + f.size <= BlockEnd(m, l)
  BY <1>4, <1>5, <1>3, <1>7 DEF BlockEnd, Level
<1>11. m.addr[l] + f.abs + f.size <= m.end
  BY <1>9, <1>10, <1>3, <1>7 DEF BlockEnd, Level
<1>12. FieldEnd(m, l, i) \in Int
  BY <1>5, <1>3, <1>7
<1> HIDE DEF f
<1> QED
  BY <1>4, <1>5, <1>6, <1>3, <1>7, <1>11, <1>12 DEF Level, f

-----------------------------------------------------------------------------
(* The client in any order.                                                *)

IInv == TypeOK /\ CursorFollowsClient

\* init_cursor leaves the cursor before the first member of the view.
LEMMA InitCursorStands ==
    ASSUME BlocksArePassed, NEW m \in Messages, NEW n \in m.nodes,
           m.kind[n] # "data",
           m.kind[n] = "entry" => ~IsEmptyLevel(m, n)
    PROVE  StandsBefore(m, n, 1, Level(m, n)) /\ Level(m, n) \in Nat
<1>1. IsMessage(m)
  BY MessagesAssumption
<1>2. /\ m.addr[n] \in Nat /\ m.hdr[n] \in Nat /\ m.block[n] \in Nat
      /\ FieldCount(m, n) \in Nat /\ (m.fields[n] = <<>> <=> FieldCount(m, n) = 0)
      /\ m.kind[n] \in Kinds /\ (m.kind[n] = "group" => m.block[n] = 0)
  BY <1>1, NodeFacts
<1>3. Level(m, n) \in Nat
  BY <1>2 DEF Level
<1>4. CASE m.kind[n] = "group"
  BY <1>2, <1>3, <1>4 DEF StandsBefore, KidStart, BlockEnd
<1>5. CASE m.kind[n] \in LevelKinds /\ m.fields[n] # <<>>
  <2>1. 1 <= FieldCount(m, n)
    BY <1>2, <1>5
  <2> QED
    BY <1>3, <1>5, <2>1 DEF StandsBefore, FieldEnd
<1>6. CASE m.kind[n] \in LevelKinds /\ m.fields[n] = <<>> /\ m.kids[n] # <<>>
  BY <1>3, <1>6 DEF StandsBefore
<1>7. CASE m.kind[n] \in LevelKinds /\ m.fields[n] = <<>> /\ m.kids[n] = <<>>
  <2>1. n \in Levels(m)
    BY <1>7 DEF Levels
  <2>2. CursorPassesBlocks(m)
    BY DEF BlocksArePassed
  <2>3. m.block[n] = 0
    BY <1>7, <2>1, <2>2 DEF CursorPassesBlocks, IsEmptyLevel
  <2>4. Level(m, n) = KidStart(m, n, 1)
    BY <1>2, <1>3, <2>3 DEF KidStart, BlockEnd
  <2>5. 1 > FieldCount(m, n) /\ 1 - FieldCount(m, n) = 1
    BY <1>2, <1>7
  <2> QED
    BY <1>3, <1>7, <2>4, <2>5 DEF StandsBefore
<1> QED
  BY <1>2, <1>4, <1>5, <1>6, <1>7 DEF Kinds

\* Behind the last field the cursor stands before the first group or data.
LEMMA BlockEndStands ==
    ASSUME NEW m, IsMessage(m), NEW l \in Levels(m)
    PROVE  StandsBefore(m, l, FieldCount(m, l) + 1, BlockEnd(m, l))
<1>1. FieldCount(m, l) \in Nat /\ m.kind[l] \in LevelKinds
  BY NodeFacts DEF Levels
<1>2. FieldCount(m, l) + 1 > FieldCount(m, l)
      /\ (FieldCount(m, l) + 1) - FieldCount(m, l) = 1
  BY <1>1
<1> QED
  BY <1>1, <1>2 DEF StandsBefore, KidStart

\* An accepted call of a field's accessor.
LEMMA FieldCallStands ==
    ASSUME IInv, NEW l \in Levels(msg), NEW i \in DOMAIN msg.fields[l],
           NEW op \in Ops, FieldRead(l, i, op) = FieldAddr(l, i)
    PROVE  LET k == IF op \in MovingOps THEN i + 1 ELSE i
           IN  /\ StandsBefore(msg, l, k, FieldLeaves(l, i, op))
               /\ FieldLeaves(l, i, op) \in Int
               /\ k \in 1 .. Last(l)
<1> DEFINE f == msg.fields[l][i]
<1>1. IsMessage(msg)
  BY MessagesAssumption DEF IInv, TypeOK
<1>2. l \in msg.nodes /\ msg.kind[l] \in LevelKinds
  BY DEF Levels
<1>3. /\ FieldCount(msg, l) \in Nat /\ KidCount(msg, l) \in Nat
      /\ i \in 1 .. FieldCount(msg, l)
      /\ msg.addr[l] \in Nat /\ msg.hdr[l] \in Nat /\ msg.block[l] \in Nat
  BY <1>1, <1>2, NodeFacts, OffsetsAreNat
<1>4. Last(l) = FieldCount(msg, l) + KidCount(msg, l) + 1
  BY <1>2 DEF Last, LevelKinds
<1>5. /\ f.rel \in Nat /\ f.abs \in Nat /\ f.size \in Nat
      /\ msg.addr[l] + f.abs - f.rel = Level(msg, l) + FieldEnd(msg, l, i - 1)
      /\ msg.addr[l] + f.abs + f.size = Level(msg, l) + FieldEnd(msg, l, i)
  BY <1>1, FieldFacts
<1>6. FieldRead(l, i, op) = msg.addr[l] + f.abs
  BY DEF FieldAddr
<1> HIDE DEF f
<1>7. CASE op \notin MovingOps
  <2>1. FieldLeaves(l, i, op) = msg.addr[l] + f.abs - f.rel
    BY <1>3, <1>5, <1>6, <1>7 DEF FieldLeaves, f
  <2>2. StandsBefore(msg, l, i, FieldLeaves(l, i, op))
    BY <1>2, <1>3, <1>5, <2>1 DEF StandsBefore
  <2>3. i \in 1 .. Last(l)
    BY <1>3, <1>4
  <2>4. FieldLeaves(l, i, op) \in Int
    BY <1>3, <1>5, <2>1
  <2> QED
    BY <1>7, <2>2, <2>3, <2>4
<1>8. CASE op \in MovingOps /\ i = FieldCount(msg, l)
  <2>1. FieldLeaves(l, i, op) = BlockEnd(msg, l)
    BY <1>8 DEF FieldLeaves
  <2>2. StandsBefore(msg, l, i + 1, BlockEnd(msg, l))
    BY <1>1, <1>8, BlockEndStands
  <2>3. i + 1 \in 1 .. Last(l) /\ BlockEnd(msg, l) \in Int
    BY <1>3, <1>4 DEF BlockEnd, Level
  <2> QED
    BY <1>8, <2>1, <2>2, <2>3
<1>9. CASE op \in MovingOps /\ i # FieldCount(msg, l)
  <2>1. FieldLeaves(l, i, op) = msg.addr[l] + f.abs + f.size
    BY <1>6, <1>9 DEF FieldLeaves, f
  <2>2. i + 1 <= FieldCount(msg, l) /\ (i + 1) - 1 = i /\ i + 1 \in 1 .. Last(l)
    BY <1>3, <1>4, <1>9
  <2>3. StandsBefore(msg, l, i + 1, FieldLeaves(l, i, op))
    BY <1>2, <1>5, <2>1, <2>2 DEF StandsBefore
  <2>4. FieldLeaves(l, i, op) \in Int
    BY <1>3, <1>5, <2>1
  <2> QED
    BY <1>9, <2>2, <2>3, <2>4
<1> QED
  BY <1>7, <1>8, <1>9

\* An accepted call of the accessor of a group or data member: it reads where
\* the member begins.
LEMMA KidReadsKid ==
    ASSUME IInv, NEW l \in Levels(msg), NEW j \in DOMAIN msg.kids[l], NEW op,
           j # 1 => KidRead(l, j, op) = msg.addr[msg.kids[l][j]]
    PROVE  /\ KidRead(l, j, op) = msg.addr[msg.kids[l][j]]
           /\ KidRead(l, j, op) = KidStart(msg, l, j)
<1>1. IsMessage(msg) /\ l \in msg.nodes
  BY MessagesAssumption DEF IInv, TypeOK, Levels
<1>2. msg.addr[msg.kids[l][j]] = KidStart(msg, l, j)
  BY <1>1, KidFacts
<1> QED
  BY <1>2 DEF KidRead, KidStart

\* Where an accepted call of such an accessor leaves the client.
LEMMA KidCallStands ==
    ASSUME IInv, NEW l \in Levels(msg), NEW j \in DOMAIN msg.kids[l],
           NEW op \in Ops,
           j # 1 => KidRead(l, j, op) = msg.addr[msg.kids[l][j]]
    PROVE  LET k      == msg.kids[l][j]
               before == FieldCount(msg, l) + j
               leaves == KidLeaves(l, j, op)
           IN  /\ leaves \in Int
               /\ k \in msg.nodes
               /\ before \in 1 .. Last(l) /\ before + 1 \in 1 .. Last(l)
               /\ op \notin MovingOps => StandsBefore(msg, l, before, leaves)
               /\ op \in MovingOps /\ (op = "skip" \/ msg.kind[k] = "data")
                      => StandsBefore(msg, l, before + 1, leaves)
               /\ op \in MovingOps \ {"skip"} /\ msg.kind[k] = "group"
                      => StandsBefore(msg, k, 1, leaves)
<1> DEFINE k == msg.kids[l][j]
           before == FieldCount(msg, l) + j
           leaves == KidLeaves(l, j, op)
<1>1. IsMessage(msg) /\ l \in msg.nodes /\ msg.kind[l] \in LevelKinds
  BY MessagesAssumption DEF IInv, TypeOK, Levels
<1>2. /\ FieldCount(msg, l) \in Nat /\ KidCount(msg, l) \in Nat
      /\ j \in 1 .. KidCount(msg, l)
  BY <1>1, NodeFacts
<1>3. Last(l) = FieldCount(msg, l) + KidCount(msg, l) + 1
  BY <1>1 DEF Last, LevelKinds
<1>4. before \in 1 .. Last(l) /\ before + 1 \in 1 .. Last(l)
  BY <1>2, <1>3
<1>5. /\ before > FieldCount(msg, l) /\ before - FieldCount(msg, l) = j
      /\ before + 1 > FieldCount(msg, l) /\ (before + 1) - FieldCount(msg, l) = j + 1
      /\ j + 1 # 1 /\ (j + 1) - 1 = j
  BY <1>2
<1>6. k \in msg.nodes
  BY <1>1, KidFacts
<1>7. /\ msg.addr[k] \in Nat /\ msg.size[k] \in Nat /\ msg.hdr[k] \in Nat
      /\ msg.kind[k] = "group" => msg.block[k] = 0
  BY <1>1, <1>6, NodeFacts
<1>8. KidRead(l, j, op) = msg.addr[k] /\ KidRead(l, j, op) = KidStart(msg, l, j)
  BY KidReadsKid
<1> HIDE DEF k, before
<1>9. CASE op \notin MovingOps
  <2>1. leaves = KidStart(msg, l, j) /\ leaves \in Int
    BY <1>7, <1>8, <1>9 DEF KidLeaves
  <2>2. StandsBefore(msg, l, before, leaves)
    BY <1>1, <1>5, <2>1 DEF StandsBefore
  <2> QED
    BY <1>4, <1>6, <1>9, <2>1, <2>2 DEF k, before
<1>10. CASE op \in MovingOps /\ (op = "skip" \/ msg.kind[k] = "data")
  <2>1. leaves = NodeEnd(msg, k) /\ leaves \in Int
    BY <1>7, <1>8, <1>10 DEF KidLeaves, NodeEnd, k
  <2>2. KidStart(msg, l, j + 1) = NodeEnd(msg, k)
    BY <1>5 DEF KidStart, k
  <2>3. StandsBefore(msg, l, before + 1, leaves)
    BY <1>1, <1>5, <2>1, <2>2 DEF StandsBefore
  <2>4. ~(op \in MovingOps \ {"skip"} /\ msg.kind[k] = "group")
    BY <1>10
  <2> QED
    BY <1>4, <1>6, <1>10, <2>1, <2>3, <2>4 DEF k, before
<1>11. CASE op \in MovingOps /\ ~(op = "skip" \/ msg.kind[k] = "data")
  <2>1. leaves = msg.addr[k] + msg.hdr[k] /\ leaves \in Int
    BY <1>7, <1>8, <1>11 DEF KidLeaves, k
  <2>2. msg.kind[k] = "group" => leaves = KidStart(msg, k, 1)
    BY <1>7, <2>1 DEF KidStart, BlockEnd, Level
  <2>3. msg.kind[k] = "group" => StandsBefore(msg, k, 1, leaves)
    BY <2>2 DEF StandsBefore
  <2> QED
    BY <1>4, <1>6, <1>11, <2>1, <2>3 DEF k, before
<1> QED
  BY <1>9, <1>10, <1>11

\* Dereferencing the iterator at the right entry.
LEMMA EntryStands ==
    ASSUME BlocksArePassed, IInv, NEW g \in msg.nodes, msg.kind[g] = "group",
           NEW i \in DOMAIN msg.kids[g], ptr = msg.addr[msg.kids[g][i]]
    PROVE  LET e == msg.kids[g][i]
           IN  /\ e \in msg.nodes /\ msg.kind[e] = "entry"
               /\ EntryLeaves(e) \in Int
               /\ EntryChecks(e)
               /\ StandsBefore(msg, e, 1, EntryLeaves(e))
<1> DEFINE e == msg.kids[g][i]
<1>1. IsMessage(msg) /\ msg \in Messages
  BY MessagesAssumption DEF IInv, TypeOK
<1>2. e \in msg.nodes /\ msg.kind[e] = "entry"
  BY <1>1, KidFacts
<1>3. /\ msg.addr[e] \in Nat /\ msg.hdr[e] = 0 /\ msg.block[e] \in Nat
      /\ msg.size[e] \in Nat /\ msg.end \in Nat
      /\ BlockEnd(msg, e) <= NodeEnd(msg, e) /\ NodeEnd(msg, e) <= msg.end
  BY <1>1, <1>2, NodeFacts
<1>4. ptr = msg.addr[e]
  OBVIOUS
<1> HIDE DEF e
<1>5. CASE IsEmptyLevel(msg, e)
  <2>1. EntryLeaves(e) = BlockEnd(msg, e) /\ EntryLeaves(e) \in Int
    BY <1>3, <1>4, <1>5 DEF EntryLeaves, BlockEnd, Level
  <2>2. FieldCount(msg, e) = 0
    BY <1>5 DEF IsEmptyLevel, FieldCount
  <2>3. BlockEnd(msg, e) = KidStart(msg, e, 1 - FieldCount(msg, e)) /\ 1 > FieldCount(msg, e)
    BY <2>2 DEF KidStart
  <2>4. StandsBefore(msg, e, 1, EntryLeaves(e))
    BY <1>2, <2>1, <2>3 DEF StandsBefore, LevelKinds
  <2>5. EntryChecks(e)
    BY <1>3, <1>4 DEF EntryChecks, BlockEnd, NodeEnd, Level
  <2> QED
    BY <1>2, <2>1, <2>4, <2>5 DEF e
<1>6. CASE ~IsEmptyLevel(msg, e)
  <2>1. EntryLeaves(e) = Level(msg, e) /\ EntryLeaves(e) \in Int
    BY <1>3, <1>4, <1>6 DEF EntryLeaves, Level
  <2>2. StandsBefore(msg, e, 1, Level(msg, e))
    BY <1>1, <1>2, <1>6, InitCursorStands
  <2> QED
    BY <1>2, <1>6, <2>1, <2>2 DEF e, EntryChecks
<1> QED
  BY <1>5, <1>6

\* At the end of its last member an entry's cursor stands before the next
\* entry, and at the end of its last entry a group's before the next member.
LEMMA LeavingStands ==
    ASSUME IInv, ~Astray, msg.kind[at] \in {"entry", "group"}, next = Last(at)
    PROVE  LET n == msg.parent[at]
               k == IF msg.kind[at] = "entry" THEN msg.index[at] + 1
                    ELSE FieldCount(msg, n) + msg.index[at] + 1
           IN  /\ n \in msg.nodes /\ msg.kind[n] # "data"
               /\ k \in 1 .. Last(n)
               /\ StandsBefore(msg, n, k, ptr)
<1> DEFINE n == msg.parent[at]
           i == msg.index[at]
<1>1. IsMessage(msg) /\ at \in msg.nodes
  BY MessagesAssumption DEF IInv, TypeOK
<1>2. /\ n \in msg.nodes /\ i \in DOMAIN msg.kids[n] /\ msg.kids[n][i] = at
      /\ msg.kind[at] = "entry" => msg.kind[n] = "group"
      /\ msg.kind[at] = "group" => msg.kind[n] \in LevelKinds
  BY <1>1, ParentFacts
<1>3. /\ i \in 1 .. KidCount(msg, n) /\ KidCount(msg, n) \in Nat
      /\ FieldCount(msg, n) \in Nat
      /\ FieldCount(msg, at) \in Nat /\ KidCount(msg, at) \in Nat
      /\ msg.kids[at] = <<>> <=> KidCount(msg, at) = 0
  BY <1>1, <1>2, NodeFacts
<1> HIDE DEF n, i
<1>4. ptr = KidStart(msg, at, KidCount(msg, at) + 1)
  <2>1. StandsBefore(msg, at, next, ptr)
    BY DEF IInv, CursorFollowsClient
  <2>2. CASE msg.kind[at] = "group"
    BY <2>1, <2>2 DEF StandsBefore, LevelKinds, Last
  <2>3. CASE msg.kind[at] = "entry"
    <3>1. next = FieldCount(msg, at) + KidCount(msg, at) + 1
      BY <2>3 DEF Last
    <3>2. /\ ~(next <= FieldCount(msg, at))
          /\ next - FieldCount(msg, at) = KidCount(msg, at) + 1
          /\ next = 1 => msg.kids[at] = <<>>
      BY <1>3, <3>1
    <3> QED
      BY <2>1, <2>3, <3>2 DEF StandsBefore
  <2> QED
    BY <2>2, <2>3
<1>5. ptr = KidStart(msg, n, i + 1)
  <2>1. ptr = NodeEnd(msg, at)
    BY <1>1, <1>4, AfterLastKid
  <2>2. i + 1 # 1 /\ (i + 1) - 1 = i
    BY <1>3
  <2> QED
    BY <1>2, <2>1, <2>2 DEF KidStart
<1>6. CASE msg.kind[at] = "entry"
  <2>1. StandsBefore(msg, n, i + 1, ptr)
    BY <1>2, <1>5, <1>6 DEF StandsBefore
  <2>2. i + 1 \in 1 .. Last(n) /\ msg.kind[n] # "data"
    BY <1>2, <1>3, <1>6 DEF Last
  <2> QED
    BY <1>2, <1>6, <2>1, <2>2 DEF n, i
<1>7. CASE msg.kind[at] = "group"
  <2>1. /\ FieldCount(msg, n) + i + 1 > FieldCount(msg, n)
        /\ (FieldCount(msg, n) + i + 1) - FieldCount(msg, n) = i + 1
    BY <1>3
  <2>2. StandsBefore(msg, n, FieldCount(msg, n) + i + 1, ptr)
    BY <1>2, <1>5, <1>7, <2>1 DEF StandsBefore
  <2>3. FieldCount(msg, n) + i + 1 \in 1 .. Last(n) /\ msg.kind[n] # "data"
    BY <1>2, <1>3, <1>7 DEF Last, LevelKinds
  <2> QED
    BY <1>2, <1>7, <2>2, <2>3 DEF n, i
<1> QED
  BY <1>6, <1>7

\* Moving to a place where the cursor stands keeps the invariant; so does
\* stepping out to one, and stopping.
LEMMA GoKeepsIInv ==
    ASSUME IInv, NEW p \in Int, NEW n \in msg.nodes, msg.kind[n] # "data",
           NEW k \in 1 .. Last(n), StandsBefore(msg, n, k, p),
           Go(p, n, k)
    PROVE  IInv'
BY DEF IInv, TypeOK, CursorFollowsClient, Go, Astray, Last, KidCount, FieldCount

LEMMA StepOutKeepsIInv ==
    ASSUME IInv, NEW n \in msg.nodes, msg.kind[n] # "data",
           NEW k \in 1 .. Last(n), StandsBefore(msg, n, k, ptr),
           StepOut(n, k)
    PROVE  IInv'
BY DEF IInv, TypeOK, CursorFollowsClient, StepOut, Astray, Last, KidCount, FieldCount

LEMMA StopKeepsIInv ==
    ASSUME IInv, Stop
    PROVE  IInv'
BY DEF IInv, Astray, TypeOK, CursorFollowsClient, Stop, Last, KidCount, FieldCount

\* Each call of the client keeps the cursor where the client is.
LEMMA ClientStep ==
    ASSUME BlocksArePassed, IInv, Next
    PROVE  IInv'
<1>1. ASSUME NEW l \in Levels(msg), NEW op \in Ops,
             NEW i \in DOMAIN msg.fields[l], CallField(l, i, op)
      PROVE  IInv'
  <2>1. CASE FieldChecks(l, i, op)
    <3>1. FieldRead(l, i, op) = FieldAddr(l, i)
      BY <2>1 DEF FieldChecks
    <3>2. Go(FieldLeaves(l, i, op), l, IF op \in MovingOps THEN i + 1 ELSE i)
      BY <1>1, <2>1 DEF CallField
    <3>3. l \in msg.nodes /\ msg.kind[l] # "data"
      BY DEF Levels, LevelKinds
    <3> QED
      BY <3>1, <3>2, <3>3, FieldCallStands, GoKeepsIInv
  <2>2. CASE ~FieldChecks(l, i, op)
    BY <1>1, <2>2, StopKeepsIInv DEF CallField
  <2> QED
    BY <2>1, <2>2
<1>2. ASSUME NEW l \in Levels(msg), NEW op \in Ops,
             NEW j \in DOMAIN msg.kids[l], CallKid(l, j, op)
      PROVE  IInv'
  <2> DEFINE k == msg.kids[l][j]
             before == FieldCount(msg, l) + j
             leaves == KidLeaves(l, j, op)
  <2>1. CASE KidChecks(l, j, op)
    <3>1. /\ leaves \in Int
          /\ k \in msg.nodes
          /\ before \in 1 .. Last(l) /\ before + 1 \in 1 .. Last(l)
          /\ op \notin MovingOps => StandsBefore(msg, l, before, leaves)
          /\ op \in MovingOps /\ (op = "skip" \/ msg.kind[k] = "data")
                 => StandsBefore(msg, l, before + 1, leaves)
          /\ op \in MovingOps \ {"skip"} /\ msg.kind[k] = "group"
                 => StandsBefore(msg, k, 1, leaves)
      BY <2>1, KidCallStands DEF KidChecks
    <3>2. l \in msg.nodes /\ msg.kind[l] # "data"
      BY DEF Levels, LevelKinds
    <3>3. CASE op \notin MovingOps /\ Go(leaves, l, before)
      BY <3>1, <3>2, <3>3, GoKeepsIInv
    <3>4. CASE /\ op \in MovingOps /\ (op = "skip" \/ msg.kind[k] = "data")
               /\ Go(leaves, l, before + 1)
      BY <3>1, <3>2, <3>4, GoKeepsIInv
    <3>5. CASE /\ op \in MovingOps \ {"skip"} /\ msg.kind[k] = "group"
               /\ Go(leaves, k, 1)
      <4>1. 1 \in 1 .. Last(k)
        BY <3>1, <3>5, NodeFacts, MessagesAssumption DEF IInv, TypeOK, Last
      <4> QED
        BY <3>1, <3>5, <4>1, GoKeepsIInv
    <3> QED
      BY <1>2, <2>1, <3>3, <3>4, <3>5 DEF CallKid
  <2>2. CASE ~KidChecks(l, j, op)
    BY <1>2, <2>2, StopKeepsIInv DEF CallKid
  <2> QED
    BY <2>1, <2>2
<1>3. ASSUME NEW g \in msg.nodes, msg.kind[g] = "group",
             NEW i \in DOMAIN msg.kids[g], EnterEntry(g, i)
      PROVE  IInv'
  <2> DEFINE e == msg.kids[g][i]
  <2>1. CASE ptr = msg.addr[e] /\ Go(EntryLeaves(e), e, 1)
    <3>1. /\ e \in msg.nodes /\ msg.kind[e] = "entry"
          /\ EntryLeaves(e) \in Int
          /\ StandsBefore(msg, e, 1, EntryLeaves(e))
      BY <1>3, <2>1, EntryStands
    <3>2. 1 \in 1 .. Last(e)
      BY <3>1, NodeFacts, MessagesAssumption DEF IInv, TypeOK, Last
    <3> QED
      BY <2>1, <3>1, <3>2, GoKeepsIInv
  <2>2. CASE /\ ptr' = EntryLeaves(e) /\ at' = e /\ next' = 1
             /\ stray' = "leads" /\ UNCHANGED <<msg, status>>
    <3>1. IsMessage(msg) /\ g \in msg.nodes
      BY <1>3, MessagesAssumption DEF IInv, TypeOK
    <3>2. e \in msg.nodes /\ msg.kind[e] = "entry"
      BY <1>3, <3>1, KidFacts
    <3>3. msg.block[e] \in Nat /\ FieldCount(msg, e) \in Nat /\ KidCount(msg, e) \in Nat
      BY <3>1, <3>2, NodeFacts
    <3>4. EntryLeaves(e) \in Int
      BY <3>3 DEF EntryLeaves, IInv, TypeOK
    <3>5. 1 \in 1 .. Last(e)
      BY <3>2, <3>3 DEF Last
    <3> HIDE DEF e
    <3>6. TypeOK'
      BY <2>2, <3>2, <3>4, <3>5 DEF IInv, TypeOK, Last, KidCount, FieldCount
    <3>7. Astray'
      BY <2>2 DEF Astray
    <3> QED
      BY <3>6, <3>7 DEF IInv, CursorFollowsClient
  <2>3. CASE Stop
    BY <2>3, StopKeepsIInv
  <2> QED
    BY <1>3, <2>1, <2>2, <2>3 DEF EnterEntry
<1>4. CASE NextEntry
  BY <1>4, LeavingStands, StepOutKeepsIInv DEF NextEntry, IInv, TypeOK
<1>5. CASE LeaveGroup
  BY <1>5, LeavingStands, StepOutKeepsIInv DEF LeaveGroup, IInv, TypeOK
<1>7. CASE CallStray
  <2>1. CASE Stop
    BY <2>1, StopKeepsIInv
  <2>2. ASSUME NEW p \in 0 .. msg.end + Beyond, ptr' = p, stray' = "leads",
               UNCHANGED <<msg, at, next, status>>
        PROVE  IInv'
    <3>1. Astray' /\ p \in Int
      BY <2>2 DEF Astray
    <3>2. TypeOK'
      BY <2>2, <3>1 DEF IInv, TypeOK, Last, KidCount, FieldCount
    <3> QED
      BY <3>1, <3>2 DEF IInv, CursorFollowsClient
  <2> QED
    BY <1>7, <2>1, <2>2 DEF CallStray
<1>6. ASSUME NEW n \in msg.nodes, InitCursor(n)
      PROVE  IInv'
  <2>1. /\ msg.kind[n] # "data" /\ Go(Level(msg, n), n, 1)
        /\ msg.kind[n] = "entry" => ~IsEmptyLevel(msg, n)
    BY <1>6 DEF InitCursor
  <2>2. msg \in Messages
    BY DEF IInv, TypeOK
  <2>3. StandsBefore(msg, n, 1, Level(msg, n)) /\ Level(msg, n) \in Nat
    BY <2>1, <2>2, InitCursorStands
  <2>4. 1 \in 1 .. Last(n)
    BY <2>2, NodeFacts, MessagesAssumption DEF Last
  <2> QED
    BY <2>1, <2>3, <2>4, GoKeepsIInv
<1> QED
  BY <1>1, <1>2, <1>3, <1>4, <1>5, <1>6, <1>7 DEF Next

\* The cursor starts before the first member of the message.
LEMMA InitEstablishes ==
    ASSUME BlocksArePassed, Init
    PROVE  IInv
<1>1. IsMessage(msg) /\ msg \in Messages
  BY MessagesAssumption DEF Init
<1>2. at \in msg.nodes /\ msg.kind[at] = "message"
  BY <1>1 DEF Init, IsMessage, IsTree
<1>3. StandsBefore(msg, at, 1, Level(msg, at)) /\ Level(msg, at) \in Nat
  BY <1>1, <1>2, InitCursorStands
<1>4. 1 \in 1 .. Last(at)
  BY <1>1, <1>2, NodeFacts DEF Last
<1> QED
  BY <1>1, <1>2, <1>3, <1>4 DEF Init, IInv, TypeOK, CursorFollowsClient

LEMMA StutterKeepsIInv ==
    ASSUME IInv, UNCHANGED vars
    PROVE  IInv'
BY DEF IInv, TypeOK, CursorFollowsClient, vars, Astray, Last, KidCount, FieldCount

\* Whatever the client calls, the invariant holds.
LEMMA Invariant ==
    ASSUME BlocksArePassed
    PROVE  Spec => []IInv
<1>1. Init => IInv
  BY InitEstablishes
<1>2. IInv /\ [Next]_vars => IInv'
  BY ClientStep, StutterKeepsIInv
<1> QED
  BY <1>1, <1>2, PTL DEF Spec

\* The type invariant of a client that calls accessors in any order.
THEOREM TypeCorrect ==
    ASSUME BlocksArePassed
    PROVE  Spec => []TypeOK
<1>1. IInv => TypeOK
  BY DEF IInv
<1> QED
  BY <1>1, Invariant, PTL

\* Whatever the client calls, however often it re-initialises the cursor and
\* wherever strays have taken it: a call on a view of the message that a
\* checked build lets through leaves the cursor exactly where the documented
\* rules put it.  "Wrong cursor value" catches every such call out of order;
\* a dereference out of place, which no assertion catches, is excepted until
\* the next call on a view of the message.
THEOREM CursorFollows ==
    ASSUME BlocksArePassed
    PROVE  Spec => []CursorFollowsClient
<1>1. IInv => CursorFollowsClient
  BY DEF IInv
<1> QED
  BY <1>1, Invariant, PTL

\* size_bytes(m, c) after the last member is size_bytes(m).
THEOREM CursorMeasuresMessage ==
    ASSUME BlocksArePassed
    PROVE  Spec => []SizeFromCursor
<1>1. ASSUME IInv, at = msg.root, next = Last(at), ~Astray
      PROVE  ptr - msg.addr[msg.root] = msg.size[msg.root]
  <2>1. IsMessage(msg) /\ at \in msg.nodes
    BY <1>1, MessagesAssumption DEF IInv, TypeOK
  <2>2. msg.kind[at] = "message"
    BY <1>1, <2>1 DEF IsMessage, IsTree
  <2>3. /\ FieldCount(msg, at) \in Nat /\ KidCount(msg, at) \in Nat
        /\ msg.kids[at] = <<>> <=> KidCount(msg, at) = 0
        /\ msg.addr[at] \in Nat /\ msg.size[at] \in Nat
    BY <2>1, NodeFacts
  <2>4. /\ ~(next <= FieldCount(msg, at))
        /\ next - FieldCount(msg, at) = KidCount(msg, at) + 1
        /\ next = 1 => msg.kids[at] = <<>>
    BY <1>1, <2>2, <2>3 DEF Last
  <2>5. ptr = KidStart(msg, at, KidCount(msg, at) + 1)
    BY <1>1, <2>2, <2>4 DEF IInv, CursorFollowsClient, StandsBefore
  <2>6. ptr = msg.addr[at] + msg.size[at]
    BY <2>1, <2>5, AfterLastKid DEF NodeEnd
  <2> QED
    BY <1>1, <2>3, <2>6
<1>2. IInv => SizeFromCursor
  BY <1>1 DEF SizeFromCursor
<1> QED
  BY <1>2, Invariant, PTL

-----------------------------------------------------------------------------
(* The calls that the documented order allows.                             *)

\* A member that comes next passes the checks of every kind of access.
LEMMA InOrderFieldAccepted ==
    ASSUME IInv, NEW l \in Levels(msg), NEW i \in DOMAIN msg.fields[l],
           NEW op \in Ops, InOrderField(l, i, op)
    PROVE  FieldChecks(l, i, op)
<1> DEFINE f == msg.fields[l][i]
<1>1. IsMessage(msg) /\ l \in msg.nodes /\ msg.kind[l] \in LevelKinds
  BY MessagesAssumption DEF IInv, TypeOK, Levels
<1>2. /\ f.rel \in Nat /\ f.abs \in Nat /\ f.size \in Nat
      /\ msg.addr[l] + f.abs - f.rel = Level(msg, l) + FieldEnd(msg, l, i - 1)
      /\ msg.addr[l] + f.abs + f.size <= msg.end
      /\ msg.addr[l] \in Nat /\ ptr \in Int
  BY <1>1, FieldFacts, NodeFacts DEF IInv, TypeOK
<1>3. FieldRead(l, i, op) = msg.addr[l] + f.abs
  <2>1. CASE op \in InitOps
    BY <2>1 DEF FieldRead, InitOps, FromCursorOps
  <2>2. CASE op \notin InitOps
    <3>1. at = l /\ next = i /\ ~Astray
      BY <2>2 DEF InOrderField, ComesNext
    <3>2. i \in 1 .. FieldCount(msg, l) /\ FieldCount(msg, l) \in Nat
      BY <1>1, OffsetsAreNat, NodeFacts
    <3>3. i <= FieldCount(msg, l) /\ ~(i > FieldCount(msg, l)) /\ msg.fields[l] # <<>>
          /\ msg.kind[l] # "group"
      BY <1>1, <3>2, NodeFacts DEF LevelKinds
    <3>4. ptr = Level(msg, l) + FieldEnd(msg, l, i - 1)
      BY <3>1, <3>3 DEF IInv, CursorFollowsClient, StandsBefore
    <3>5. ptr + f.rel = msg.addr[l] + f.abs
      BY <1>2, <3>4
    <3> QED
      BY <2>2, <3>5 DEF FieldRead, InitOps, FromCursorOps, Ops
  <2> QED
    BY <2>1, <2>2
<1> QED
  BY <1>2, <1>3 DEF FieldChecks, FieldAddr

LEMMA InOrderKidAccepted ==
    ASSUME IInv, NEW l \in Levels(msg), NEW j \in DOMAIN msg.kids[l],
           NEW op \in Ops, InOrderKid(l, j, op)
    PROVE  KidChecks(l, j, op)
<1> DEFINE k == msg.kids[l][j]
<1>1. IsMessage(msg) /\ l \in msg.nodes /\ msg.kind[l] \in LevelKinds
  BY MessagesAssumption DEF IInv, TypeOK, Levels
<1>2. k \in msg.nodes /\ msg.addr[k] = KidStart(msg, l, j)
  BY <1>1, KidFacts
<1>3. j # 1 => KidRead(l, j, op) = msg.addr[k]
  <2>1. CASE op \in InitOps
    BY <2>1 DEF KidRead, InitOps, FromCursorOps
  <2>2. CASE op \notin InitOps /\ j # 1
    <3>1. at = l /\ next = FieldCount(msg, l) + j /\ ~Astray
      BY <2>2 DEF InOrderKid, ComesNext
    <3>2. j \in 1 .. KidCount(msg, l) /\ FieldCount(msg, l) \in Nat
          /\ KidCount(msg, l) \in Nat
      BY <1>1, NodeFacts
    <3>3. /\ ~(next <= FieldCount(msg, l)) /\ next # 1
          /\ next - FieldCount(msg, l) = j /\ msg.kind[l] # "group"
      BY <1>1, <2>2, <3>1, <3>2 DEF LevelKinds
    <3>4. ptr = KidStart(msg, l, j)
      BY <3>1, <3>3 DEF IInv, CursorFollowsClient, StandsBefore
    <3> QED
      BY <1>2, <2>2, <3>4 DEF KidRead, InitOps, FromCursorOps, Ops
  <2> QED
    BY <2>1, <2>2
<1>4. KidRead(l, j, op) = msg.addr[k]
  BY <1>3, KidReadsKid
<1>5. /\ msg.addr[k] \in Nat /\ msg.hdr[k] \in Nat /\ msg.block[k] \in Nat
      /\ msg.size[k] \in Nat /\ msg.end \in Nat
      /\ BlockEnd(msg, k) <= NodeEnd(msg, k) /\ NodeEnd(msg, k) <= msg.end
  BY <1>1, <1>2, NodeFacts
<1>6. msg.addr[k] + msg.hdr[k] <= msg.end
  BY <1>5 DEF BlockEnd, NodeEnd, Level
<1> QED
  BY <1>3, <1>4, <1>6 DEF KidChecks

\* None of them stops the program or makes a stray.
LEMMA InOrderStep ==
    ASSUME BlocksArePassed, IInv, InOrder
    PROVE  status' = "ok" /\ ~Astray'
<1>0. ASSUME NEW p, NEW n, NEW k, Go(p, n, k)
      PROVE  ~Astray' /\ status' = status
  BY <1>0 DEF Go, Astray
<1>1. ASSUME NEW l \in Levels(msg), NEW op \in Ops, NEW i \in DOMAIN msg.fields[l],
             InOrderField(l, i, op), CallField(l, i, op)
      PROVE  status' = "ok" /\ ~Astray'
  BY <1>0, <1>1, InOrderFieldAccepted DEF CallField
<1>2. ASSUME NEW l \in Levels(msg), NEW op \in Ops, NEW j \in DOMAIN msg.kids[l],
             InOrderKid(l, j, op), CallKid(l, j, op)
      PROVE  status' = "ok" /\ ~Astray'
  BY <1>0, <1>2, InOrderKidAccepted DEF CallKid
<1>3. CASE msg.kind[at] = "group" /\ ~Astray /\ EnterEntry(at, next)
  <2>1. at \in msg.nodes /\ next \in DOMAIN msg.kids[at] /\ IsMessage(msg)
    BY <1>3, MessagesAssumption DEF IInv, TypeOK, EnterEntry
  <2>2. ptr = KidStart(msg, at, next)
    BY <1>3 DEF IInv, CursorFollowsClient, StandsBefore, LevelKinds
  <2>3. ptr = msg.addr[msg.kids[at][next]]
    BY <2>1, <2>2, KidFacts
  <2>4. EntryChecks(msg.kids[at][next])
    BY <1>3, <2>1, <2>3, EntryStands
  <2> QED
    BY <1>0, <1>3, <2>3, <2>4 DEF EnterEntry
<1>4. CASE NextEntry \/ LeaveGroup
  BY <1>4 DEF NextEntry, LeaveGroup, StepOut, Astray
<1>5. CASE \E n \in msg.nodes : InitCursor(n)
  BY <1>0, <1>5 DEF InitCursor
<1> QED
  BY <1>1, <1>2, <1>3, <1>4, <1>5 DEF InOrder

\* Calls that follow the documented order never fail "Wrong cursor value" nor
\* a size check, for every message and every mixture of plain, init,
\* dont_move, init_dont_move and skip, whatever was called before.
THEOREM InOrderCallsAccepted ==
    ASSUME BlocksArePassed
    PROVE  Spec => InOrderNeverAsserts
<1>1. IInv => [status' = "assert" => ~InOrder]_vars
  BY InOrderStep
<1> QED
  BY <1>1, Invariant, PTL DEF InOrderNeverAsserts

\* Every entry a cursor_range yields in order is the entry random access finds.
THEOREM EntriesAgree ==
    ASSUME BlocksArePassed
    PROVE  Spec => CursorAndNormalEntriesAgree
<1>1. IInv => [Astray' => ~InOrder]_vars
  BY InOrderStep
<1> QED
  BY <1>1, Invariant, PTL DEF CursorAndNormalEntriesAgree
=============================================================================
