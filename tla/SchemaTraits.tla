---------------------------- MODULE SchemaTraits ----------------------------
(***************************************************************************)
(* traits_generator: what a schema says of its sizes.  The functions       *)
(* size_bytes of message_traits and group_traits take the number of        *)
(* entries of each group at any depth, in all of the message, and the      *)
(* total size of all data.  That of a message is the sum of those of its   *)
(* groups, each called with a part of the arguments.                       *)
(***************************************************************************)
EXTENDS SchemaTags

\* The sum of f over a sequence.
Sum(f(_), s) == FoldLeft(LAMBDA sum, k : sum + f(k), 0, s)

-----------------------------------------------------------------------------
(* Sizes on the wire; custom offsets and block lengths are in FieldLayout. *)

IsConstant(n) ==
    \/ n.kind = "type" /\ n.presence = "constant"
    \/ n.kind = "ref" /\ Get(n.type).kind = "type" /\ Get(n.type).presence = "constant"

\* context.size of the nodes of encodings.
EncodingSize ==
    LET size[node \in TypeNodes] ==
            LET tree == Types[node[1]]
                n == tree[node[2]]
            IN  CASE n.kind = "type" -> Size(n.type) * n.length
                  [] n.kind \in {"enum", "set"} -> Size(Underlying(n))
                  [] n.kind = "ref" -> size[<<Find(Types, n.type), 1>>]
                  [] n.kind = "composite" ->
                         Sum(LAMBDA k : IF IsConstant(tree[k]) THEN 0
                                        ELSE size[<<node[1], k>>],
                             Children(tree, node[2]))
                  [] OTHER -> 0
    IN  size

SizeOf(type) ==
    IF type \in Primitive THEN Size(type) ELSE EncodingSize[<<Find(Types, type), 1>>]

Members(m, i, kind) ==
    SelectSeq(Children(Messages[m], i), LAMBDA k : Messages[m][k].kind = kind)

\* actual_block_length.
BlockLength(m, i) ==
    Sum(LAMBDA k : IF ActualPresence(Messages[m][k]) = "constant" THEN 0
                   ELSE SizeOf(Messages[m][k].type),
        Members(m, i, "field"))

\* data_traits::size_bytes(0), the size of the length in front.
LengthSize(m, d) ==
    Size(HeaderElement(Types[Find(Types, Messages[m][d].type)], <<"length">>).type)

DimensionSize(m, g) == SizeOf(Messages[m][g].type)

-----------------------------------------------------------------------------
(* The parameters.                                                         *)

\* The groups below node i, in document order, and i itself if it is one.
Groups(m, i) ==
    LET tree == Messages[m]
        Below[k \in DOMAIN tree] == k = i \/ (k > i /\ tree[k].up > 0 /\ Below[tree[k].up])
    IN  SelectSeq([k \in DOMAIN tree |-> k],
                  LAMBDA k : tree[k].kind = "group" /\ Below[k])

\* The names from below node i down to k, and those with "_" between them.
Path(m, i, k) ==
    LET Down[j \in DOMAIN Messages[m]] ==
            IF j = i THEN <<>> ELSE Append(Down[Messages[m][j].up], Messages[m][j].name)
    IN  Down[k]

Joined(m, i, k) == FlattenSeq(Path(m, i, k))

NumInGroup == <<"num", "in", "group">>

\* make_unique_param_name.
UniqueParam(name, existing, depth) ==
    IF name \in ToSet(existing) THEN Append(name, Numbers[depth + 1]) ELSE name

\* make_group_size_bytes_impl and get_group_size_bytes_params: the parameters
\* for the groups of node i.  A level of the message is one less deep.
Params(m, i) ==
    FoldLeft(LAMBDA names, k :
                 Append(names,
                        UniqueParam(Joined(m, i, k) \o NumInGroup, names,
                                    Len(Path(m, i, k)) - IF i = 1 THEN 1 ELSE 0)),
             <<>>, Groups(m, i))

HasData(m, i) ==
    \/ Members(m, i, "data") # <<>>
    \/ \E g \in ToSet(Groups(m, i)) : Members(m, g, "data") # <<>>

-----------------------------------------------------------------------------
(* The functions.                                                          *)

\* Mutant: headers inside of the entries are those of one entry only.
BugEntryTerm(m, g, count) ==
    count * BlockLength(m, g) +
        Sum(LAMBDA k : DimensionSize(m, k), Members(m, g, "group")) +
        Sum(LAMBDA k : LengthSize(m, k), Members(m, g, "data"))

\* get_group_payload_size: all the entries of a group.
EntryTerm(m, g, count) ==
    count * (BlockLength(m, g) +
             Sum(LAMBDA k : DimensionSize(m, k), Members(m, g, "group")) +
             Sum(LAMBDA k : LengthSize(m, k), Members(m, g, "data")))

\* group_traits::size_bytes.
GroupSizeBytes(m, g, counts, total) ==
    LET groups == Groups(m, g)
    IN  DimensionSize(m, g) +
        Sum(LAMBDA j : EntryTerm(m, groups[j], counts[j]),
            [j \in DOMAIN groups |-> j]) +
        IF HasData(m, g) THEN total ELSE 0

\* message_traits::size_bytes: a group gets the parameters added for it, the
\* last ones so far, and 0 for its data.
MessageSizeBytes(m, counts, total) ==
    LET Add(sum, g) ==
            LET last == sum.params + Len(Groups(m, g))
            IN  [params |-> last,
                 size |-> sum.size +
                          GroupSizeBytes(m, g, SubSeq(counts, sum.params + 1, last), 0)]
        ofGroups == FoldLeft(Add, [params |-> 0, size |-> 0], Members(m, 1, "group"))
    IN  SizeOf(schema.header.type) + BlockLength(m, 1) + ofGroups.size +
        Sum(LAMBDA k : LengthSize(m, k), Members(m, 1, "data")) +
        IF HasData(m, 1) THEN total ELSE 0

\* get_num_in_group_underlying_type: std::get throws if numInGroup is a ref,
\* though the validator accepts one.
CountIsRef(type) ==
    LET tree == Types[Find(Types, type)]
    IN  \E i \in ChildNodes(tree, 1) :
            tree[i].name = <<"numInGroup">> /\ tree[i].kind = "ref"

-----------------------------------------------------------------------------
\* The entries of the groups of a message: there are none of a group inside of
\* a group without entries.
Occurrences(m, counts) ==
    LET groups == Groups(m, 1)
        Parent(k) == Messages[m][k].up
    IN  [k \in DOMAIN Messages[m] \ {1} |->
            IF Parent(k) = 1 THEN 1
            ELSE counts[CHOOSE j \in DOMAIN groups : groups[j] = Parent(k)]]

Consistent(m, counts) ==
    LET groups == Groups(m, 1)
    IN  \A j \in DOMAIN groups :
            counts[j] > 0 => Occurrences(m, counts)[groups[j]] > 0

\* Of what is written, node by node: a header for every group and every data
\* member wherever it occurs, a block for every entry, and the data.
Written(m, counts, total) ==
    LET occur  == Occurrences(m, counts)
        groups == Groups(m, 1)
        data   == SelectSeq([k \in DOMAIN Messages[m] |-> k],
                            LAMBDA k : /\ Messages[m][k].kind = "data"
                                       /\ Messages[m][k].up \in {1} \cup ToSet(groups))
    IN  SizeOf(schema.header.type) + BlockLength(m, 1) + total +
        Sum(LAMBDA j : occur[groups[j]] * DimensionSize(m, groups[j]) +
                       counts[j] * BlockLength(m, groups[j]),
            [j \in DOMAIN groups |-> j]) +
        Sum(LAMBDA k : occur[k] * LengthSize(m, k), data)

\* Two parameters are different unless a group before has the same path too.
ParamsDistinct(m, i) ==
    LET params == Params(m, i)
        groups == Groups(m, i)
    IN  \A j, k \in DOMAIN params :
            j < k /\ params[j] = params[k] =>
                \E l \in 1 .. j - 1 : Joined(m, i, groups[l]) = Joined(m, i, groups[j])

\* message_traits::size_bytes, called with the numbers of entries of all groups
\* from top to bottom, is the size of the message; its parameters and those of
\* each group_traits::size_bytes have names of their own, but for groups of
\* which there are three with the same path.
\* (the parameters passed on to groups, and the suffixes of their names;
\* "in a top-to-bottom order", "total number of group entries", sbepp.hpp)
TraitsMeasureMessages ==
    Tagged =>
        \A m \in DOMAIN Messages :
            /\ \A counts \in [DOMAIN Groups(m, 1) -> 0 .. 2], total \in {0, 3} :
                   Consistent(m, counts) /\ (HasData(m, 1) \/ total = 0) =>
                       MessageSizeBytes(m, counts, total) = Written(m, counts, total)
            /\ \A i \in {1} \cup ToSet(Groups(m, 1)) : ParamsDistinct(m, i)
=============================================================================
