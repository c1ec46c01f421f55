--------------------------- MODULE MessageLayout ---------------------------
(***************************************************************************)
(* Where the parts of an SBE message lie in a buffer, as the random-access *)
(* accessors generated by sbeppc compute it.                               *)
(*                                                                         *)
(* A message instance is a tree of nodes: the message, the groups of a     *)
(* level, the entries of a group, the data members of a level.  A record m *)
(* describes one instance:                                                 *)
(*   m.nodes, m.root     the nodes and the message itself                  *)
(*   m.kind              "message", "group", "entry" or "data"             *)
(*   m.kids              of a level: its groups, then its data members;    *)
(*                       of a group: its entries; of data: <<>>            *)
(*   m.parent, m.index   kids[parent[n]][index[n]] = n                     *)
(*   m.hdr               bytes of header: message header, group dimension, *)
(*                       length prefix of data; an entry has none          *)
(*   m.block             of a level: blockLength as read from the wire; of *)
(*                       data: the payload's length; of a group: 0         *)
(*   m.fields            of a level: the offsets passed to the cursor      *)
(*                       accessors of its non-constant fields, each a      *)
(*                       record [rel, abs, size]                           *)
(*   m.consts            of a level: how many constant fields it has       *)
(*   m.addr, m.size      what addressof() and size_bytes() return          *)
(*   m.end               end of the buffer, as an offset from its start    *)
(* Addresses are offsets from the start of the buffer.                     *)
(***************************************************************************)
EXTENDS Integers, Sequences

LevelKinds == {"message", "entry"}
Kinds      == LevelKinds \cup {"group", "data"}

\* Views that have cursor-based accessors: messages and group entries.
Levels(m) == {n \in m.nodes : m.kind[n] \in LevelKinds}

FieldCount(m, l) == Len(m.fields[l])
KidCount(m, n)   == Len(m.kids[n])

\* A level none of whose members, constant ones included, is in the schema.
IsEmptyLevel(m, l) ==
    /\ m.fields[l] = <<>>
    /\ m.kids[l] = <<>>
    /\ m.consts[l] = 0

-----------------------------------------------------------------------------
(* Addresses.                                                              *)

\* The end of the header, where the block of a level begins.
Level(m, n) == m.addr[n] + m.hdr[n]

\* The end of a level's block, of a data member or of a group's dimension.
BlockEnd(m, n) == Level(m, n) + m.block[n]

\* One past the last byte of a node.
NodeEnd(m, n) == m.addr[n] + m.size[n]

\* Where the i-th child begins: the first right after the block, the others
\* after the one before them.
KidStart(m, n, i) ==
    IF i = 1 THEN BlockEnd(m, n) ELSE NodeEnd(m, m.kids[n][i - 1])

\* Size of a node: up to the end of its last child if it has one.
NodeEndsAt(m, n) ==
    IF m.kids[n] = <<>> THEN BlockEnd(m, n)
    ELSE NodeEnd(m, m.kids[n][KidCount(m, n)])

\* End of the i-th field of a level, from the level's block start; 0 is the
\* start of the block.
FieldEnd(m, l, i) ==
    IF i = 0 THEN 0
    ELSE m.fields[l][i].abs - m.hdr[l] + m.fields[l][i].size

-----------------------------------------------------------------------------
(* What makes a record a message instance: the buffer holds a complete     *)
(* message, and every offset is the one the generated code has.            *)

IsTree(m) ==
    /\ m.root \in m.nodes
    /\ m.kind \in [m.nodes -> Kinds]
    /\ m.kids \in [m.nodes -> Seq(m.nodes)]
    /\ m.parent \in [m.nodes -> m.nodes]
    /\ m.index \in [m.nodes -> Nat]
    /\ \A n \in m.nodes : n = m.root <=> m.kind[n] = "message"
    /\ \A n \in m.nodes \ {m.root} :
           /\ m.index[n] \in DOMAIN m.kids[m.parent[n]]
           /\ m.kids[m.parent[n]][m.index[n]] = n
    /\ \A n \in m.nodes : \A i \in DOMAIN m.kids[n] :
           LET k == m.kids[n][i]
           IN  /\ k # m.root /\ m.parent[k] = n /\ m.index[k] = i
               /\ IF m.kind[n] = "group" THEN m.kind[k] = "entry"
                                         ELSE m.kind[k] \in {"group", "data"}
    /\ \A n \in m.nodes : m.kind[n] = "data" => m.kids[n] = <<>>

HasSizes(m) ==
    /\ m.hdr \in [m.nodes -> Nat]
    /\ m.block \in [m.nodes -> Nat]
    /\ m.addr \in [m.nodes -> Nat]
    /\ m.size \in [m.nodes -> Nat]
    /\ m.consts \in [m.nodes -> Nat]
    /\ m.end \in Nat
    /\ \A n \in m.nodes :
           /\ m.kind[n] = "entry" => m.hdr[n] = 0
           /\ m.kind[n] = "group" => m.block[n] = 0
           /\ NodeEnd(m, n) = NodeEndsAt(m, n)
           /\ BlockEnd(m, n) <= NodeEnd(m, n)
           /\ NodeEnd(m, n) <= m.end
           /\ \A i \in DOMAIN m.kids[n] :
                  m.addr[m.kids[n][i]] = KidStart(m, n, i)

\* A field begins rel bytes after the one in front of it.
FieldsFollow(m) ==
    /\ m.fields \in [m.nodes -> Seq([rel : Nat, abs : Nat, size : Nat])]
    /\ \A l \in Levels(m) : \A i \in DOMAIN m.fields[l] :
           m.fields[l][i].abs =
               m.hdr[l] + FieldEnd(m, l, i - 1) + m.fields[l][i].rel

HasFieldOffsets(m) ==
    /\ FieldsFollow(m)
    /\ \A l \in Levels(m) : \A i \in DOMAIN m.fields[l] :
           FieldEnd(m, l, i) <= m.block[l]

IsMessage(m) == IsTree(m) /\ HasSizes(m) /\ HasFieldOffsets(m)

\* Every level has a step that takes a cursor over its block: a non-constant
\* field, a group, a data member, or the entry constructor made for entries
\* with no member at all.  A block of no bytes needs none.
CursorPassesBlocks(m) ==
    \A l \in Levels(m) :
        \/ m.fields[l] # <<>>
        \/ m.kids[l] # <<>>
        \/ m.kind[l] = "entry" /\ m.consts[l] = 0
        \/ m.block[l] = 0
=============================================================================
