------------------------- MODULE MCSizeBytesChecked -------------------------
(***************************************************************************)
(* SizeBytesChecked on messages with nested groups, groups without entries *)
(* and without members, data, blocks longer and shorter than the schema's, *)
(* and every buffer size from nothing to more than the longest of them.    *)
(***************************************************************************)
EXTENDS SizeBytesChecked

MT == INSTANCE MessageTrees

NoFields  == <<>>
TwoFields == <<MT!F(0, 1), MT!F(0, 1)>>

\* Without entries, with entries that have no members but perhaps a block, and
\* with entries that have fields.
FlatGroups ==
    {MT!FlatGroup(0, MT!EntryTree(NoFields, 0, 0, <<>>)),
     MT!FlatGroup(2, MT!EntryTree(NoFields, 0, 0, <<>>)),
     MT!FlatGroup(2, MT!EntryTree(NoFields, 1, 0, <<>>)),
     MT!FlatGroup(2, MT!EntryTree(TwoFields, 0, 0, <<>>))}

\* Two entries that hold different groups and data.
Nested(f, x, g, h) ==
    MT!GroupTree(
        <<MT!EntryTree(f, x, 0, <<g, MT!DataTree(1)>>),
          MT!EntryTree(f, x, 0, <<h, MT!DataTree(0)>>)>>)

\* x = -1: the last field of the schema lies behind the block on the wire.
Trees ==
    {MT!MessageTree(TwoFields, x, 0, <<g, MT!DataTree(1)>>) :
        x \in {-1, 1}, g \in FlatGroups} \cup
    {MT!MessageTree(NoFields, 1, 0,
         <<Nested(f, 1, g, MT!FlatGroup(1, MT!EntryTree(TwoFields, -1, 0, <<>>))),
           g>>) : f \in {NoFields, TwoFields}, g \in FlatGroups}

AllMessages == {MT!Instance(t) : t \in Trees}

Sizes == 0 .. 27
=============================================================================
