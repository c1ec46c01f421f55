---------------------------- MODULE MessageTrees ----------------------------
(***************************************************************************)
(* Message instances for TLC.  A message is written as a tree              *)
(*   [kind, hdr, block, fields, consts, kids]                              *)
(* with fields a sequence of [pad, size], and Instance lays it out: a node *)
(* is named by its path from the message, its size is the sum of its       *)
(* parts.  MessageLayout states the same layout by the generated code's    *)
(* address arithmetic; IsMessage of the result compares the two.           *)
(***************************************************************************)
EXTENDS MessageLayout, SequencesExt

LOCAL SumOf(s) == FoldLeft(LAMBDA x, y : x + y, 0, s)

RECURSIVE SubTree(_, _)
SubTree(t, p) == IF p = <<>> THEN t ELSE SubTree(t.kids[Head(p)], Tail(p))

RECURSIVE Paths(_)
Paths(t) ==
    {<<>>} \cup
    UNION {{<<i>> \o p : p \in Paths(t.kids[i])} : i \in DOMAIN t.kids}

RECURSIVE TreeSize(_)
TreeSize(t) ==
    t.hdr + t.block + SumOf([i \in DOMAIN t.kids |-> TreeSize(t.kids[i])])

RECURSIVE TreeAddr(_, _)
TreeAddr(t, p) ==
    IF p = <<>> THEN 0
    ELSE t.hdr + t.block
         + SumOf([i \in 1 .. Head(p) - 1 |-> TreeSize(t.kids[i])])
         + TreeAddr(t.kids[Head(p)], Tail(p))

FieldBytes(fields) ==
    SumOf([i \in DOMAIN fields |-> fields[i].pad + fields[i].size])

Offsets(t) ==
    [i \in DOMAIN t.fields |->
        [rel  |-> t.fields[i].pad,
         abs  |-> t.hdr + FieldBytes(SubSeq(t.fields, 1, i - 1))
                        + t.fields[i].pad,
         size |-> t.fields[i].size]]

Instance(t) ==
    LET P == Paths(t)
    IN  [nodes  |-> P,
         root   |-> <<>>,
         kind   |-> [p \in P |-> SubTree(t, p).kind],
         kids   |-> [p \in P |->
                        [i \in DOMAIN SubTree(t, p).kids |-> Append(p, i)]],
         parent |-> [p \in P |-> IF p = <<>> THEN p ELSE Front(p)],
         index  |-> [p \in P |-> IF p = <<>> THEN 0 ELSE Last(p)],
         hdr    |-> [p \in P |-> SubTree(t, p).hdr],
         block  |-> [p \in P |-> SubTree(t, p).block],
         fields |-> [p \in P |-> Offsets(SubTree(t, p))],
         consts |-> [p \in P |-> SubTree(t, p).consts],
         addr   |-> [p \in P |-> TreeAddr(t, p)],
         size   |-> [p \in P |-> TreeSize(SubTree(t, p))],
         end    |-> TreeSize(t)]

-----------------------------------------------------------------------------
(* Building blocks.  ext is how many bytes the wire's blockLength exceeds  *)
(* the fields known to the schema: a newer schema version, or a custom     *)
(* blockLength.                                                            *)

F(pad, size) == [pad |-> pad, size |-> size]

MessageTree(fields, ext, consts, kids) ==
    [kind |-> "message", hdr |-> 2, block |-> FieldBytes(fields) + ext,
     fields |-> fields, consts |-> consts, kids |-> kids]

EntryTree(fields, ext, consts, kids) ==
    [kind |-> "entry", hdr |-> 0, block |-> FieldBytes(fields) + ext,
     fields |-> fields, consts |-> consts, kids |-> kids]

GroupTree(entries) ==
    [kind |-> "group", hdr |-> 2, block |-> 0,
     fields |-> <<>>, consts |-> 0, kids |-> entries]

DataTree(len) ==
    [kind |-> "data", hdr |-> 1, block |-> len,
     fields |-> <<>>, consts |-> 0, kids |-> <<>>]

FlatGroup(n, e) == GroupTree([i \in 1 .. n |-> e])
=============================================================================
