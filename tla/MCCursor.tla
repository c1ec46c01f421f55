------------------------------ MODULE MCCursor ------------------------------
(***************************************************************************)
(* Cursor on small messages: levels with and without fields, padding       *)
(* before a field, blocks longer than the schema's, constant fields, empty *)
(* groups, entries without members, nested groups and data of length 0, 1. *)
(***************************************************************************)
EXTENDS Cursor, TLC

MT == INSTANCE MessageTrees

NoFields  == <<>>
OneField  == <<MT!F(0, 1)>>
TwoFields == <<MT!F(1, 1), MT!F(0, 2)>>

FlatEntries ==
    {MT!EntryTree(f, x, c, <<>>) :
        f \in {NoFields, OneField, TwoFields}, x \in {0, 1}, c \in {0, 1}}

FlatGroups == {MT!FlatGroup(n, e) : n \in {0, 2}, e \in FlatEntries}

\* Entries that hold a group and a data member; two of them may differ in
\* everything but their block.
NestedGroups ==
    {MT!GroupTree(
        <<MT!EntryTree(b[1], b[2], 0, <<MT!FlatGroup(1, e), MT!DataTree(1)>>),
          MT!EntryTree(b[1], b[2], 0, <<MT!FlatGroup(2, e), MT!DataTree(0)>>)>>) :
        b \in {<<NoFields, 1>>, <<OneField, 0>>},
        e \in {MT!EntryTree(OneField, 1, 0, <<>>),
               MT!EntryTree(NoFields, 1, 0, <<>>)}}

Trees ==
    {MT!MessageTree(f, x, 0, <<>>) :
        f \in {NoFields, OneField, TwoFields}, x \in {0, 1}} \cup
    {MT!MessageTree(NoFields, 0, 0, <<g, MT!DataTree(1)>>) : g \in FlatGroups} \cup
    {MT!MessageTree(TwoFields, 1, 0, <<g, MT!DataTree(1)>>) : g \in FlatGroups} \cup
    {MT!MessageTree(OneField, 1, 0, <<g, h, MT!DataTree(1), MT!DataTree(0)>>) :
        g \in NestedGroups, h \in {MT!FlatGroup(1, MT!EntryTree(TwoFields, 1, 1, <<>>))}}

AllInstances == {MT!Instance(t) : t \in Trees}

\* Every level of these has something that takes the cursor over its block.
Instances == {m \in AllInstances : CursorPassesBlocks(m)}

\* A group whose entries have a constant field only, in a block of one byte.
ConstantOnly ==
    {MT!Instance(MT!MessageTree(OneField, 0, 0,
        <<MT!FlatGroup(2, MT!EntryTree(NoFields, 1, 1, <<>>))>>))}

=============================================================================
