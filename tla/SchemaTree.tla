----------------------------- MODULE SchemaTree -----------------------------
(***************************************************************************)
(* The vocabulary of a schema: what sbeppc's parser makes of the XML and   *)
(* its validators and generators read.                                     *)
(*                                                                         *)
(* An encoding or a message is a tree: the sequence of its nodes in        *)
(* document order, each with the index of the node it is inside of, 0 for  *)
(* the first one, the root.  The valid values of an enum and the choices   *)
(* of a set are nodes too.                                                 *)
(*                                                                         *)
(* A name is the sequence of its words, those between its underscores, so  *)
(* that appending "_0" to a name appends a word.                           *)
(***************************************************************************)
EXTENDS Integers, FiniteSets, SequencesExt

CONSTANTS
    None,       \* an absent attribute or node content
    LowerCase   \* the words with capital letters, and their lower-case form

ASSUME NoneAssumption == None \notin Int
ASSUME LowerCaseAssumption ==
    \A w \in DOMAIN LowerCase : LowerCase[w] \notin DOMAIN LowerCase

Lower(name) ==
    [w \in DOMAIN name |->
        IF name[w] \in DOMAIN LowerCase THEN LowerCase[name[w]] ELSE name[w]]

Default(value, default) == IF value = None THEN default ELSE value

-----------------------------------------------------------------------------
(* Nodes.                                                                  *)

Node(kind, name, up) ==
    [kind |-> kind, name |-> name, up |-> up,
     type     |-> <<>>,   \* primitiveType, encodingType, type, dimensionType
     presence |-> None,
     length   |-> None,
     content  |-> None,   \* a literal
     limits   |-> {},     \* minValue and maxValue, literals
     null     |-> None,   \* nullValue, a literal
     valueRef |-> None,   \* [enum, value]; enum is <<>> if there is no dot
     id       |-> None]

EncodingKinds == {"type", "composite", "enum", "set"}
MemberKinds   == {"field", "group", "data"}
NodeKinds == EncodingKinds \cup MemberKinds
             \cup {"ref", "value", "choice", "message", "unknown"}

\* The elements the parser looks for inside of another; it passes over others.
KindsInside(kind) ==
    CASE kind = "composite"            -> EncodingKinds \cup {"ref"}
      [] kind = "enum"                 -> {"value"}
      [] kind = "set"                  -> {"choice"}
      [] kind \in {"message", "group"} -> MemberKinds
      [] OTHER                         -> {}

ChildNodes(tree, i) ==
    {k \in DOMAIN tree : tree[k].up = i /\ tree[k].kind \in KindsInside(tree[i].kind)}

\* The children of node i, in order.
Children(tree, i) ==
    SelectSeq([k \in DOMAIN tree |-> k], LAMBDA k : k \in ChildNodes(tree, i))

NodesOf(tree, kinds) == {i \in DOMAIN tree : tree[i].kind \in kinds}

NamesOfChildren(tree, i) == {tree[k].name : k \in ChildNodes(tree, i)}

RootName(tree) == tree[1].name

-----------------------------------------------------------------------------
(* Primitive types and literals.  Wider integer types differ from uint16   *)
(* and int16 in their range only.                                          *)

Char == <<"char">>

Floats     == {<<"float">>, <<"double">>}
Integral   == {Char, <<"int8">>, <<"uint8">>, <<"int16">>, <<"uint16">>}
Unsigned   == {<<"uint8">>, <<"uint16">>}
SingleByte == {Char, <<"int8">>, <<"uint8">>}
Primitive  == Integral \cup Floats

Lowest(prim) ==
    CASE prim \in Unsigned           -> 0
      [] prim = <<"int16">>          -> -32768
      [] prim \in {Char, <<"int8">>} -> -128

Highest(prim) ==
    CASE prim \in {Char, <<"int8">>} -> 127
      [] prim = <<"uint8">>          -> 255
      [] prim = <<"int16">>          -> 32767
      [] prim = <<"uint16">>         -> 65535

IntegerRange(prim) == Lowest(prim) .. Highest(prim)

Size(prim) ==
    CASE prim \in SingleByte                 -> 1
      [] prim \in {<<"int16">>, <<"uint16">>} -> 2
      [] prim = <<"float">>                  -> 4
      [] prim = <<"double">>                 -> 8

\* A literal is the number it spells, None if it spells none; the number of
\* its characters; the code of the first one; whether it spells NaN or INF.
\* A number of one character is a digit.
Literals ==
    {l \in [number : Int \cup {None}, size : Nat, code : IntegerRange(Char),
            special : BOOLEAN] :
        l.size = 1 /\ l.number # None => l.code \in 48 .. 57}

\* value_fits_into_type.
Fits(literal, prim) ==
    /\ literal.size > 0
    /\ IF prim \in Floats
       THEN literal.special \/ literal.number # None
       ELSE literal.number # None /\ literal.number \in IntegerRange(prim)

-----------------------------------------------------------------------------
(* A schema is its attributes, the trees of its public encodings in the    *)
(* order in which the unordered_map types is iterated over, and those of   *)
(* its messages in document order.                                         *)

\* get_encoding: the index of the encoding of that name, whatever its case,
\* or None.
Find(types, name) ==
    LET found == {t \in DOMAIN types :
                      Lower(RootName(types[t])) = Lower(name)}
    IN  IF found = {} THEN None ELSE CHOOSE t \in found : TRUE

\* The root of the encoding of that name; only asked if there is one.
Encoding(types, name) == types[Find(types, name)][1]

\* The public encodings refs inside of public encoding t refer to.
RefersTo(types, t) ==
    {Find(types, types[t][i].type) : i \in NodesOf(types[t], {"ref"})} \ {None}

ClosedUnderRefs(types, S) == \A u \in S : RefersTo(types, u) \subseteq S

\* t and what refs lead to from it.
Reached(types, t) ==
    {u \in DOMAIN types : \A S \in SUBSET DOMAIN types :
                              t \in S /\ ClosedUnderRefs(types, S) => u \in S}

Cyclic(types, t) ==
    \E u \in RefersTo(types, t) : t \in Reached(types, u)
=============================================================================
