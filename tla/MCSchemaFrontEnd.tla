-------------------------- MODULE MCSchemaFrontEnd --------------------------
(***************************************************************************)
(* Schemas for SchemaFrontEnd: some for the parser, with includes; some    *)
(* for the rules, one way of breaking them each; some for the names.       *)
(***************************************************************************)
EXTENDS SchemaFrontEnd

MCWords == STRING

MCNumbers == <<"0", "1", "2", "3">>

MCLowerCase == "X" :> "x" @@ "E" :> "e" @@ "MIXED" :> "mixed"

\* Literals.
Lit(number, size, code, special) ==
    [number |-> number, size |-> size, code |-> code, special |-> special]

Digit == Lit(7, 1, 55, FALSE)         \* "7"
Large == Lit(300, 3, 51, FALSE)       \* "300"
Nine  == Lit(9, 1, 57, FALSE)
Eight == Lit(8, 1, 56, FALSE)
Word  == Lit(None, 1, 65, FALSE)      \* "A"
Text5 == Lit(None, 5, 104, FALSE)     \* "hello"
NaN   == Lit(None, 3, 78, TRUE)

\* A tree with given root and subtrees.
Tree(root, subtrees) ==
    FoldLeft(LAMBDA tree, sub :
                 tree \o [i \in DOMAIN sub |->
                             [sub[i] EXCEPT !.up = IF @ = 0 THEN 1 ELSE @ + Len(tree)]],
             <<root>>, subtrees)

Leaf(node) == <<node>>

x == <<"x">>   X == <<"X">>   y == <<"y">>   e == <<"e">>   E == <<"E">>
x0 == <<"x", "0">>
xEntry == <<"x", "entry">>
x0Entry == <<"x", "0", "entry">>
UInt8 == <<"uint8">>

Type(name, prim) == [Node("type", name, 0) EXCEPT !.type = prim]
Const(name, prim, content) ==
    [Type(name, prim) EXCEPT !.presence = "constant", !.content = content]
RefConst(name, prim, enum, value) ==
    [Type(name, prim) EXCEPT !.presence = "constant",
                             !.valueRef = [enum |-> enum, value |-> value]]
Ref(name, type) == [Node("ref", name, 0) EXCEPT !.type = type]
Enum(name, prim, values) ==
    Tree([Node("enum", name, 0) EXCEPT !.type = prim],
         [v \in DOMAIN values |->
             Leaf([Node("value", values[v], 0) EXCEPT !.content = Digit])])
EnumOf(name, prim, value, literal) ==
    Tree([Node("enum", name, 0) EXCEPT !.type = prim],
         <<Leaf([Node("value", value, 0) EXCEPT !.content = literal])>>)
SetOf(name, prim, choice, literal) ==
    Tree([Node("set", name, 0) EXCEPT !.type = prim],
         <<Leaf([Node("choice", choice, 0) EXCEPT !.content = literal])>>)
Composite(name, elements) == Tree(Node("composite", name, 0), elements)
Plain(name) == Leaf(Type(name, UInt8))

Field(name, type) == Leaf([Node("field", name, 0) EXCEPT !.type = type, !.id = 1])
ConstField(name, type, ref) ==
    Leaf([Node("field", name, 0) EXCEPT !.type = type, !.id = 1,
                                        !.presence = "constant", !.valueRef = ref])
Group(name, dims, members) ==
    Tree([Node("group", name, 0) EXCEPT !.type = dims, !.id = 1], members)
Data(name, type) == Leaf([Node("data", name, 0) EXCEPT !.type = type, !.id = 1])
Message(name, id, members) ==
    Tree([Node("message", name, 0) EXCEPT !.id = id], members)

HeaderName == <<"messageHeader">>
HeaderTree ==
    Composite(HeaderName,
        <<Plain(<<"schemaId">>), Plain(<<"templateId">>), Plain(<<"version">>),
          Plain(<<"blockLength">>)>>)
Dims == <<"groupSizeEncoding">>
DimsTree == Composite(Dims, <<Plain(<<"numInGroup">>), Plain(<<"blockLength">>)>>)
VarData(length) == Leaf([Type(<<"varData">>, UInt8) EXCEPT !.length = length])
DataTree(name) == Composite(name, <<Plain(<<"length">>), VarData(0)>>)

\* Elements of the files.
TypesItem(trees)   == [element |-> "types", trees |-> trees]
MessageItem(tree)  == [element |-> "message", tree |-> tree]
Include(href)      == [element |-> "include", href |-> href]
Unknown            == [element |-> "unknown"]

Attributes == [package |-> <<"pkg">>, type |-> HeaderName, valid |-> TRUE]
File(header, items) == [wellFormed |-> TRUE, header |-> header, items |-> items]
BrokenFile == [wellFormed |-> FALSE, header |-> None, items |-> <<>>]

Input(files, name) == [main |-> "main", files |-> files, schemaName |-> name]
Single(header, items) == Input("main" :> File(header, items), None)
SchemaOf(types, messages) ==
    Single(Attributes,
           <<TypesItem(<<HeaderTree>> \o types)>>
           \o [m \in DOMAIN messages |-> MessageItem(messages[m])])

-----------------------------------------------------------------------------
(* For the parser.                                                         *)

Pieces ==
    {TypesItem(<<Plain(x)>>), TypesItem(<<Plain(X)>>), Unknown,
     MessageItem(Message(x, 1, <<>>)), MessageItem(Message(x, 2, <<>>)),
     MessageItem(Message(y, 2, <<>>))}

Deep == <<MessageItem(Message(y, 2, <<>>)), TypesItem(<<Plain(y)>>)>>

Included ==
    {File(None, items) : items \in BoundedSeq(Pieces \cup {Include("deep")}, 2)}

Main(first, second) ==
    File(Attributes, <<TypesItem(<<HeaderTree>>), first, second>>)

IncludeInputs ==
    UNION {{Input("main" :> Main(piece, Include("inc")) @@ "inc" :> file @@
                  "deep" :> File(None, Deep), None),
            Input("main" :> Main(Include("inc"), piece) @@ "inc" :> file @@
                  "deep" :> File(None, Deep), None)} :
               piece \in Pieces, file \in Included}

FileInputs ==
    {Input("main" :> file, None) :
         file \in {BrokenFile, File(None, <<>>),
                   File([Attributes EXCEPT !.valid = FALSE], <<>>),
                   Main(Include("none"), Unknown)}}
    \cup
    {Input("main" :> Main(Include("inc"), Unknown) @@ "inc" :> file, None) :
         file \in {BrokenFile, File(Attributes, <<TypesItem(<<Plain(<<>>)>>)>>)}}

\* One element each that the parser throws at, or passes over.
OddTypes ==
    {Plain(<<>>),
     Leaf(Type(x, <<>>)),
     Leaf([Type(x, UInt8) EXCEPT !.presence = "sometimes"]),
     Leaf(Ref(x, HeaderName)),
     Enum(x, UInt8, <<y, y>>),
     EnumOf(x, UInt8, y, None),
     SetOf(x, UInt8, y, Word),
     SetOf(x, UInt8, y, None),
     Tree([Node("set", x, 0) EXCEPT !.type = UInt8],
          <<Leaf(Node("unknown", y, 0)),
            Leaf([Node("choice", y, 0) EXCEPT !.content = Digit])>>),
     Composite(x, <<Plain(y), Leaf(Ref(y, HeaderName))>>)}

OddMessages ==
    {Message(<<>>, 1, <<>>),
     Message(x, None, <<>>),
     Message(x, 1, <<Field(y, <<>>)>>),
     Message(x, 1, <<Field(y, UInt8), Group(y, <<>>, <<>>)>>),
     Message(x, 1, <<Group(y, <<>>, <<Data(y, e), Field(x, UInt8)>>)>>),
     Message(x, 1, <<Data(x, e), Group(y, <<>>, <<>>)>>),
     Message(x, 1, <<Leaf(Node("unknown", y, 0)), Field(y, UInt8)>>)}

ElementInputs ==
    {SchemaOf(<<tree>>, <<>>) : tree \in OddTypes} \cup
    {SchemaOf(<<>>, <<tree>>) : tree \in OddMessages}

-----------------------------------------------------------------------------
(* For the rules.                                                          *)

WithLimit(type, literal) == [type EXCEPT !.limits = {literal}]
WithNull(type, literal) ==
    [type EXCEPT !.presence = "optional", !.null = literal]
WithLength(type, length) == [type EXCEPT !.length = length]

Int8  == <<"int8">>
Int16 == <<"int16">>
Float == <<"float">>

RuledTypes ==
    {Type(<<"9th">>, UInt8), Type(x, y),
     WithLimit(Type(x, UInt8), Large), WithLimit(Type(x, Int16), Large),
     WithLimit(Type(x, UInt8), NaN), WithLimit(Type(x, Float), NaN),
     WithNull(Type(x, Float), NaN), WithNull(Type(x, Int8), Large),
     WithNull(Type(x, Int8), Digit),
     WithLength(Type(x, Char), 5), WithLength(Type(x, Int16), 5),
     Const(x, UInt8, Digit), Const(x, UInt8, Large), Const(x, UInt8, None),
     Const(x, Char, None), Const(x, Char, Word), Const(x, Char, Text5),
     WithLength(Const(x, Char, Text5), 4), WithLength(Const(x, Char, Text5), 6),
     WithLength(Const(x, Char, Word), 5), WithLength(Const(x, UInt8, Digit), 2),
     RefConst(x, UInt8, e, y), RefConst(x, UInt8, e, x),
     RefConst(x, Char, e, y), RefConst(x, UInt8, <<>>, <<>>),
     RefConst(x, UInt8, HeaderName, y), RefConst(x, UInt8, <<"z">>, y),
     WithLength(RefConst(x, UInt8, e, y), 2),
     [RefConst(x, UInt8, e, y) EXCEPT !.content = Digit]}

\* Enums a value ref may name.
Enums ==
    {EnumOf(E, UInt8, y, Digit), EnumOf(E, <<"uint16">>, y, Large),
     EnumOf(E, Char, y, Word), EnumOf(E, Char, y, Digit)}

TypeInputs ==
    {SchemaOf(<<Leaf(type), enum>>, <<>>) : type \in RuledTypes, enum \in Enums}

\* The same if its characters are those of a type.
CharEnumInputs ==
    {SchemaOf(<<Leaf(RefConst(x, UInt8, e, y)), EnumOf(E, <<"c">>, y, literal),
                Leaf(Type(<<"c">>, Char))>>, <<>>) : literal \in {Digit, Word}}

\* Enums and sets, and types they may be encoded as.
Encoded ==
    {EnumOf(e, prim, y, literal) :
         prim \in {UInt8, Char, Float, x}, literal \in {Digit, Large, Word}} \cup
    {EnumOf(e, UInt8, <<"9th">>, Digit), SetOf(e, UInt8, <<"9th">>, Digit)} \cup
    {SetOf(e, prim, y, literal) :
         prim \in {UInt8, <<"uint16">>, Int8, x}, literal \in {Digit, Eight, Nine}}

Underlyings ==
    {Leaf(Type(x, UInt8)), Leaf(Type(x, Char)),
     Leaf(WithLength(Type(x, Char), 2)), Composite(x, <<Plain(y)>>)}

EncodedInputs ==
    {SchemaOf(<<tree, type>>, <<>>) : tree \in Encoded, type \in Underlyings}

-----------------------------------------------------------------------------
(* For the rules about headers and messages.                               *)

\* What the type x of a field may be, and fields of it.
FieldTypes ==
    {Plain(x), Leaf(Const(x, UInt8, Digit)), Composite(x, <<Plain(y)>>),
     SetOf(x, UInt8, y, Digit), EnumOf(x, UInt8, y, Digit)}

Refs ==
    {None} \cup [enum : {<<>>, e, x}, value : {y}] \cup
    {[enum |-> e, value |-> x]}

Fields ==
    {Field(y, type) : type \in {UInt8, X, <<"z">>}} \cup
    {Leaf([Field(y, x)[1] EXCEPT !.presence = "optional"]), Field(<<"9th">>, x)} \cup
    {ConstField(y, type, ref) : type \in {UInt8, x}, ref \in Refs}

FieldInputs ==
    {SchemaOf(<<type, EnumOf(E, Char, y, Word)>>, <<Message(x, 1, <<field>>)>>) :
         type \in FieldTypes, field \in Fields}

\* Composites some of which can be the header of groups, of data members or of
\* both, the type x that they may refer to, and its uses.
Number == <<"numInGroup">>
Block  == <<"blockLength">>
Size1  == Leaf(WithLength(Type(Block, UInt8), 2))
Mixed  == <<"mixed">>

HeaderTypes ==
    {Composite(Mixed, elements) :
         elements \in {<<Plain(Number), Plain(Block)>>,
                       <<Leaf(Ref(Number, x)), Plain(Block)>>,
                       <<Plain(Number), Size1>>,
                       <<Leaf(Const(Number, UInt8, Digit)), Plain(Block)>>,
                       <<Plain(Number), Composite(Block, <<>>)>>,
                       <<Plain(<<"length">>), VarData(0)>>,
                       <<Plain(<<"length">>), VarData(1)>>,
                       <<Plain(Number), Plain(Block), Plain(<<"length">>), VarData(0)>>,
                       <<VarData(0)>>}} \cup
    {Plain(Mixed)}

HeaderUses ==
    {<<Group(x, Mixed, <<>>)>>, <<Data(x, Mixed)>>,
     <<Group(x, Mixed, <<>>), Data(y, <<"MIXED">>)>>,
     <<Group(x, Mixed, <<Group(x, <<"z">>, <<>>)>>)>>, <<Data(x, <<"z">>)>>}

HeaderInputs ==
    {SchemaOf(<<type, referred>>, <<Message(x, 1, use), Message(y, 2, <<Data(x, Mixed)>>)>>) :
         type \in HeaderTypes, referred \in {Plain(x), DimsTree}, use \in HeaderUses}

MessageHeaderInputs ==
    {Single([Attributes EXCEPT !.type = type],
            <<TypesItem(<<HeaderTree, DimsTree, Plain(x)>>)>>) :
         type \in {HeaderName, Dims, x, y}}

\* Names of the schema, of the command line, and of an entity.
NamesGiven ==
    {None, <<"std">>, <<"class">>, <<"9th">>, <<"std", "0">>, <<>>}

CppInputs ==
    {[Single([Attributes EXCEPT !.package = package],
             <<TypesItem(<<HeaderTree>>)>>) EXCEPT !.schemaName = name] :
         name \in NamesGiven, package \in {<<"pkg">>, <<"posix">>}} \cup
    {SchemaOf(<<Plain(<<"class">>)>>, <<>>),
     SchemaOf(<<EnumOf(x, UInt8, <<"class">>, Digit)>>, <<>>),
     SchemaOf(<<>>, <<Message(x, 1, <<Field(<<"class">>, UInt8)>>)>>)}

-----------------------------------------------------------------------------
(* For the names and tags.                                                 *)

NamedTypes ==
    {Plain(x0), Composite(x, <<Plain(x)>>), Composite(X, <<Plain(x), Plain(x0)>>),
     Composite(x, <<Plain(x), Plain(x0)>>),
     Composite(y, <<Plain(x), Composite(x0, <<Plain(x0)>>)>>),
     Composite(y, <<Composite(x, <<Plain(x)>>), Plain(x0)>>),
     Composite(e, <<Composite(y, <<Plain(x)>>), Enum(x, UInt8, <<x, x0>>)>>),
     Enum(x, UInt8, <<x>>), SetOf(x0, UInt8, x0, Digit),
     Plain(<<"types">>), Composite(<<"types">>, <<Plain(<<"types">>)>>),
     Plain(<<"min", "value">>), Leaf(Type(<<"null", "value">>, UInt8)),
     Leaf(WithNull(Type(<<"null", "value">>, Int8), None))}

NamedTypeInputs ==
    {SchemaOf(pair, <<>>) : pair \in NamedTypes \X NamedTypes}

Within(group, members) == Group(group, <<>>, members)

NamedMessages ==
    {<<Field(x, UInt8)>>,
     <<Within(x, <<>>), Within(xEntry, <<>>)>>,
     <<Within(xEntry, <<>>), Within(x, <<>>)>>,
     <<Within(x, <<Within(x, <<>>)>>)>>,
     <<Within(x, <<Within(x, <<>>)>>), Within(x0, <<>>)>>,
     <<Within(x, <<Field(xEntry, UInt8)>>), Within(x0Entry, <<>>)>>,
     <<Within(y, <<Within(x, <<Field(y, UInt8)>>)>>), Within(x, <<>>)>>,
     <<Within(<<"messages">>, <<>>)>>}

NamedMessageInputs ==
    {SchemaOf(<<DimsTree>>, <<Message(name, 1, first), Message(other, 2, second)>>) :
         name \in {x, <<"messages">>}, other \in {y, x0},
         first \in NamedMessages, second \in NamedMessages}

\* More clashes than there are numbers.
Nested == FoldLeft(LAMBDA inner, k : Within(x, <<inner>>), Within(x, <<>>), MCNumbers)

Numbered(name) == {name} \cup {Append(name, MCNumbers[k]) : k \in DOMAIN MCNumbers}

ExhaustingInputs ==
    {SchemaOf(<<DimsTree>>, <<Message(y, 1, <<Nested>>)>>),
     SchemaOf(<<DimsTree>>, <<Message(y, 1, <<Within(x, <<Nested>>)>>)>>),
     SchemaOf(<<>>, [k \in 1 .. Len(MCNumbers) + 1 |->
         Message(SetToSeq(Numbered(<<"messages">>))[k], k, <<>>)])}

\* Refs to one another, in a cycle or not.
Referring ==
    {<<Composite(x, <<Leaf(Ref(e, y)), Plain(y)>>),
       Composite(y, <<Leaf(Ref(y, e)), Leaf(Ref(x, e))>>), target>> :
         target \in {Enum(e, UInt8, <<x>>), Plain(e), Composite(e, <<Leaf(Ref(y, X))>>),
                     Composite(x0, <<Leaf(Ref(y, e))>>)}}

ReferringInputs ==
    {SchemaOf(types, <<Message(x, 1, <<Field(x, X), Field(y, y)>>)>>) :
         types \in Referring}

\* An optional type each.
NullInputs ==
    {SchemaOf(<<Leaf(WithNull(Type(x, prim), null))>>, <<>>) :
         prim \in Integral, null \in {None, Digit, Large}}

\* For the sizes: groups in groups, some of them with equal paths, headers of
\* several sizes, data at any depth, constants.
Var == <<"var">>
Sized ==
    <<Composite(Mixed, <<Plain(Number), Leaf(Type(Block, <<"uint16">>)),
                         Leaf(Const(x, UInt8, Digit)), Leaf(Ref(y, X)), Enum(e, UInt8, <<x>>)>>),
      Leaf(WithLength(Type(x, Char), 5)),
      Composite(Var, <<Leaf(Type(<<"length">>, <<"uint16">>)), VarData(0)>>)>>

NestedGroups ==
    {<<>>,
     <<Data(e, Var)>>,
     <<Group(y, Mixed, <<Field(x, X), Data(e, Var)>>)>>,
     <<Group(y, Dims, <<Group(e, Mixed, <<Field(x, UInt8)>>)>>)>>}

xy == <<"x", "y">>

SizedMessages ==
    {<<Group(x, dims, <<Field(y, Float)>> \o nested), Group(xy, Mixed, nested)>> :
         dims \in {Dims, Mixed}, nested \in NestedGroups} \cup
    {<<Field(y, X), Group(e, Dims, nested), Data(x, Var)>> : nested \in NestedGroups} \cup
    {<<Group(x, Dims, <<Group(<<"y", "e", "x">>, Dims, <<>>)>>),
       Group(xy, Dims, <<Group(<<"e", "x">>, Dims, <<>>)>>),
       Group(<<"x", "y", "e">>, Dims, <<Group(x, Dims, <<>>)>>)>>}

SizedInputs ==
    {SchemaOf(<<DimsTree>> \o Sized, <<Message(x, 1, members)>>) :
         members \in SizedMessages} \cup
    {SchemaOf(Tail(Sized) \o <<EnumOf(E, UInt8, y, Digit)>>,
              <<Message(x, 1, <<ConstField(x, UInt8, [enum |-> e, value |-> y]),
                                Field(y, X), Data(x, Var)>>)>>)}

\* A numInGroup that is a ref.
CountInputs ==
    {SchemaOf(<<Composite(Mixed, <<Leaf(Ref(Number, x)), Plain(Block)>>), Plain(x)>>,
              <<Message(x, 1, <<Group(y, Mixed, members)>>)>>) :
         members \in {<<>>, <<Field(x, x)>>}}

MCInputs ==
    IncludeInputs \cup FileInputs \cup ElementInputs
    \cup TypeInputs \cup NullInputs \cup CharEnumInputs \cup EncodedInputs
    \cup FieldInputs \cup HeaderInputs
    \cup MessageHeaderInputs \cup CppInputs
    \cup NamedTypeInputs \cup NamedMessageInputs \cup ExhaustingInputs
    \cup ReferringInputs
    \cup SizedInputs \cup CountInputs
=============================================================================
