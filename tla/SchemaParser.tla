---------------------------- MODULE SchemaParser ----------------------------
(***************************************************************************)
(* schema_parser: reads the schema's file and, through include elements,   *)
(* others.  Every include makes a parser of its own, which may be in the   *)
(* middle of its file when it meets the next one; what it has read is      *)
(* merged into the parser that made it.  An error ends the program.        *)
(*                                                                         *)
(* Left out: attributes nothing here depends on, their numeric form except *)
(* for ids, and a prefix of the element names, which the parser drops.     *)
(***************************************************************************)
EXTENDS SchemaTree

CONSTANTS
    Inputs,         \* what sbeppc may be run with, see IsInput
    Words,          \* what names and attributes in files are made of
    GarbageLengths  \* what an uninitialized length may be

VARIABLES
    input,
    stage,    \* "parse", "types", "messages", "cpp", "type names",
              \* "message names", "type tags", "message tags", "constants",
              \* "done"
    failed,   \* an error was thrown in this stage: main reports it
    parsers,  \* the parsers being executed, the innermost last: records
              \* [items, at, types, messages]
    schema    \* what they make of it: [header, types, messages]

ASSUME WordsAssumption == {"required", "groupSizeEncoding"} \subseteq Words

Names == Seq(Words)

\* What may stand in an XML file.  The content of an element is absent or not
\* empty; an empty CDATA section would make it both.
Nodes ==
    [kind : NodeKinds, name : Names, up : Nat, type : Names,
     presence : Words \cup {None},
     length   : Nat \cup {None},
     content  : {l \in Literals : l.size > 0} \cup {None},
     limits   : SUBSET Literals,
     null     : Literals \cup {None},
     valueRef : [enum : Names, value : Names] \cup {None},
     id       : Nat \cup {None}]

NodeTrees ==
    {tree \in Seq(Nodes) :
        /\ tree # <<>>
        /\ tree[1].up = 0
        /\ \A i \in 2 .. Len(tree) :
               /\ tree[i].up \in 1 .. i - 1
               /\ tree[i].kind \in
                      KindsInside(tree[tree[i].up].kind) \cup {"unknown"}}

Items ==
    [element : {"types"}, trees : Seq(NodeTrees)] \cup
    [element : {"message"},
     tree : {tree \in NodeTrees : tree[1].kind = "message"}] \cup
    [element : {"include"}, href : Words] \cup
    [element : {"unknown"}]

\* A file: well-formed XML or not; the attributes of its messageSchema element,
\* None if it has none; the elements inside of that one, or at the top level
\* of the file.  valid: the attributes id, version and byteOrder are.
Files ==
    [wellFormed : BOOLEAN,
     header : [package : Names, type : Names, valid : BOOLEAN] \cup {None},
     items  : Seq(Items)]

\* What parse_schema_content finds at the top of an included file: if that is
\* a messageSchema element, nothing it handles.
ContentOf(in, file) ==
    IF in.files[file].header = None THEN in.files[file].items
    ELSE <<[element |-> "unknown"]>>

\* What parsers may read, one after another.
Contents(in) ==
    {in.files[in.main].items} \cup {ContentOf(in, f) : f \in DOMAIN in.files}

Includes(in, items, file) ==
    /\ file \in DOMAIN in.files
    /\ \E k \in DOMAIN items : items[k].element = "include" /\ items[k].href = file

\* No file includes itself, directly or through others.
IncludesEnd(in) ==
    \E depth \in [Contents(in) -> 0 .. Cardinality(DOMAIN in.files)] :
        \A items \in Contents(in) : \A f \in DOMAIN in.files :
            Includes(in, items, f) => depth[ContentOf(in, f)] < depth[items]

IsInput(in) ==
    /\ in.main \in DOMAIN in.files
    /\ IsFiniteSet(DOMAIN in.files)
    /\ \A f \in DOMAIN in.files : in.files[f] \in Files
    /\ IncludesEnd(in)

ASSUME InputsAssumption == \A in \in Inputs : IsInput(in)
ASSUME GarbageAssumption == GarbageLengths \subseteq Nat

parserVars == <<input, stage, failed, parsers, schema>>

NoSchema == [header |-> None, types |-> <<>>, messages |-> <<>>]

-----------------------------------------------------------------------------
(* parse_type_encoding and its like: what is made of one element.          *)

\* A char constant without length attribute is as long as its content.  If it
\* has none, the size of an optional string without value is read.
Length(n, garbage) ==
    IF n.presence = "constant" /\ n.type = Char /\ n.length = None
    THEN IF n.content = None THEN garbage ELSE n.content.size
    ELSE Default(n.length, 1)

ParsedType(n, garbage) ==
    [n EXCEPT
        !.presence = Default(@, "required"),
        !.length   = Length(n, garbage),
        !.content  = IF n.presence = "constant" THEN @ ELSE None,
        !.valueRef = IF n.presence = "constant" THEN @ ELSE None]

Parsed(n, garbage) ==
    CASE n.kind = "type"  -> ParsedType(n, garbage)
      [] n.kind = "field" -> [n EXCEPT !.presence = Default(@, "required")]
      [] n.kind = "group" ->
             [n EXCEPT !.type = IF @ = <<>> THEN <<"groupSizeEncoding">> ELSE @]
      [] OTHER            -> n

ParsedTree(tree, garbage) == [i \in DOMAIN tree |-> Parsed(tree[i], garbage)]

\* get_required_..., get_presence: an element the parser throws at.
Malformed(n) ==
    \/ n.name = <<>>
    \/ n.kind \in {"type", "enum", "set", "ref", "field", "data"}
       /\ n.type = <<>>
    \/ n.kind \in MemberKinds \cup {"message"} /\ n.id = None
    \/ n.kind \in {"type", "field"}
       /\ n.presence \notin {None, "required", "optional", "constant"}
    \/ n.kind \in {"value", "choice"} /\ n.content = None
    \/ n.kind = "choice" /\ n.content.number = None

\* unique_set of the names in one enum, set, composite or level.
RepeatsName(tree, i) ==
    \E j, k \in ChildNodes(tree, i) : j < k /\ tree[j].name = tree[k].name

Rank(kind) ==
    CASE kind = "field" -> 1 [] kind = "group" -> 2 [] kind = "data" -> 3

\* throw_if_unexpected_member_type.
OutOfOrder(tree, i) ==
    /\ tree[i].kind \in {"message", "group"}
    /\ LET children == Children(tree, i)
       IN  \E j \in 2 .. Len(children) :
               Rank(tree[children[j]].kind) < Rank(tree[children[j - 1]].kind)

Rejects(tree) ==
    \E i \in DOMAIN tree :
        Malformed(tree[i]) \/ RepeatsName(tree, i) \/ OutOfOrder(tree, i)

-----------------------------------------------------------------------------
(* What a parser has read so far.                                          *)

\* The key of an encoding in message_schema.types.
SameType(t, u) == Lower(RootName(t)) = Lower(RootName(u))

\* add_unique_type for one encoding after another.
CanAddTypes(types, more) ==
    /\ \A k \in DOMAIN more : \A t \in types : ~SameType(t, more[k])
    /\ \A j, k \in DOMAIN more : j < k => ~SameType(more[j], more[k])

SameMessage(m, n) == RootName(m) = RootName(n) \/ m[1].id = n[1].id

\* add_unique_message for one message after another.
CanAddMessages(messages, more) ==
    LET all == messages \o more
    IN  \A j \in DOMAIN all : \A k \in Len(messages) + 1 .. Len(all) :
            j < k => ~SameMessage(all[j], all[k])

Opened(items) == [items |-> items, at |-> 1, types |-> {}, messages |-> <<>>]

In(s) == stage = s /\ ~failed

Fail ==
    /\ failed' = TRUE
    /\ UNCHANGED <<input, stage, parsers, schema>>

\* read_file and parse_xml.
Readable(file) == file \in DOMAIN input.files /\ input.files[file].wellFormed

ParserInit ==
    /\ input \in Inputs
    /\ stage = "parse"
    /\ failed = FALSE
    /\ parsers = <<>>
    /\ schema = NoSchema

\* main constructs the parser and calls parse_schema, which looks for the
\* messageSchema element and reads its attributes.
OpenSchema ==
    /\ In("parse") /\ parsers = <<>>
    /\ IF /\ Readable(input.main)
          /\ input.files[input.main].header # None
          /\ input.files[input.main].header.valid
       THEN /\ parsers' = <<Opened(input.files[input.main].items)>>
            /\ schema' = [schema EXCEPT
                              !.header = input.files[input.main].header]
            /\ UNCHANGED <<input, stage, failed>>
       ELSE Fail

Parser == parsers[Len(parsers)]

At(element) ==
    /\ In("parse") /\ parsers # <<>>
    /\ Parser.at <= Len(Parser.items)
    /\ Parser.items[Parser.at].element = element

Item == Parser.items[Parser.at]

Passed == [Parser EXCEPT !.at = @ + 1]

Becomes(parser) ==
    /\ parsers' = [parsers EXCEPT ![Len(parsers)] = parser]
    /\ UNCHANGED <<input, stage, failed, schema>>

\* parse_types_node.  Elements of other kinds, ref among them, are warned
\* about and passed over.
ParseTypes ==
    /\ At("types")
    /\ \E garbage \in GarbageLengths :
           LET trees == Item.trees
               read == {k \in DOMAIN trees : trees[k][1].kind \in EncodingKinds}
               parsed == [k \in read |-> ParsedTree(trees[k], garbage)]
           IN  IF (\E k \in read : Rejects(trees[k]))
                  \/ ~CanAddTypes(Parser.types, parsed)
               THEN Fail
               ELSE Becomes([Passed EXCEPT !.types = @ \cup ToSet(parsed)])

\* parse_message_node.
ParseMessage ==
    /\ At("message")
    /\ LET message == ParsedTree(Item.tree, 0)
       IN  IF Rejects(Item.tree)
              \/ ~CanAddMessages(Parser.messages, <<message>>)
           THEN Fail
           ELSE Becomes([Passed EXCEPT !.messages = Append(@, message)])

Content(file) == ContentOf(input, file)

\* parse_include: until the new parser ends, this one stays where it is.
ParseInclude ==
    /\ At("include")
    /\ IF Readable(Item.href)
       THEN /\ parsers' = Append(parsers, Opened(Content(Item.href)))
            /\ UNCHANGED <<input, stage, failed, schema>>
       ELSE Fail

ParseUnknown ==
    /\ At("unknown")
    /\ Becomes(Passed)

AtEnd ==
    /\ In("parse") /\ parsers # <<>>
    /\ Parser.at > Len(Parser.items)

Merged(parser, done) ==
    [parser EXCEPT !.at = @ + 1,
                   !.types = @ \cup done.types,
                   !.messages = @ \o done.messages]

\* Mutant: the messages an include brings are compared with one another only.
BugCanMerge(parser, done) ==
    \A t \in parser.types : \A u \in done.types : ~SameType(t, u)

CanMerge(parser, done) ==
    /\ \A t \in parser.types : \A u \in done.types : ~SameType(t, u)
    /\ CanAddMessages(parser.messages, done.messages)

\* merge_types and merge_messages.
EndInclude ==
    /\ AtEnd /\ Len(parsers) > 1
    /\ LET parser == parsers[Len(parsers) - 1]
       IN  IF CanMerge(parser, Parser)
           THEN /\ parsers' = [Front(parsers) EXCEPT
                                   ![Len(parsers) - 1] = Merged(parser, Parser)]
                /\ UNCHANGED <<input, stage, failed, schema>>
           ELSE Fail

\* The order of the unordered_map types is chosen here, once and for all.
EndSchema ==
    /\ AtEnd /\ Len(parsers) = 1
    /\ \E order \in SetToSeqs(Parser.types) :
           schema' = [schema EXCEPT !.types = order,
                                    !.messages = Parser.messages]
    /\ stage' = "types"
    /\ parsers' = <<>>
    /\ UNCHANGED <<input, failed>>

ParserNext ==
    \/ OpenSchema
    \/ ParseTypes
    \/ ParseMessage
    \/ ParseInclude
    \/ ParseUnknown
    \/ EndInclude
    \/ EndSchema

-----------------------------------------------------------------------------
(* What the parser promises: an include stands for what is in the file.    *)

\* What an element is in the text, text[items] being what a file of items is.
InText(text, item) ==
    IF item.element # "include" THEN <<item>>
    ELSE IF Readable(item.href) THEN text[Content(item.href)]
    ELSE <<[element |-> "unreadable"]>>

\* The text of the first n elements.
Spliced(text, items, n) == FlattenSeq([k \in 1 .. n |-> InText(text, items[k])])

\* The elements of files with those of the files they include in their place.
Texts ==
    LET text[items \in Contents(input)] == Spliced(text, items, Len(items))
    IN  text

Whole == Texts[input.files[input.main].items]

\* The messages in the first n elements of a text, as they are to be read.
MessagesBefore(text, n) ==
    FlattenSeq([k \in 1 .. n |->
                   IF text[k].element = "message" THEN <<ParsedTree(text[k].tree, 0)>>
                   ELSE <<>>])

MessagesIn(text) == MessagesBefore(text, Len(text))

\* The encodings in an element.
EncodingsOf(item) ==
    IF item.element # "types" THEN {}
    ELSE {t \in ToSet(item.trees) : t[1].kind \in EncodingKinds}

EncodingsIn(text) == UNION {EncodingsOf(text[k]) : k \in DOMAIN text}

\* The trees are what is made of encodings.
AreReadFrom(trees, encodings) ==
    /\ \A t \in trees : \E u \in encodings, garbage \in GarbageLengths :
           t = ParsedTree(u, garbage)
    /\ \A u \in encodings : \E t \in trees, garbage \in GarbageLengths :
           t = ParsedTree(u, garbage)

\* Elements that are wrong, or cannot both stand in a text.
IsWrong(item) ==
    \/ item.element = "unreadable"
    \/ item.element = "message" /\ Rejects(item.tree)
    \/ \E t \in EncodingsOf(item) : Rejects(t)
    \/ /\ item.element = "types"
       /\ \E j, k \in DOMAIN item.trees :
              /\ j < k /\ {item.trees[j], item.trees[k]} \subseteq EncodingsOf(item)
              /\ SameType(item.trees[j], item.trees[k])

DefineTheSame(a, b) ==
    \/ \E t \in EncodingsOf(a), u \in EncodingsOf(b) : SameType(t, u)
    \/ a.element = "message" /\ b.element = "message" /\ SameMessage(a.tree, b.tree)

Wrong(text) ==
    \/ \E k \in DOMAIN text : IsWrong(text[k])
    \/ \E j, k \in DOMAIN text : j < k /\ DefineTheSame(text[j], text[k])

\* An include is as good as the text of the file in its place: the parser
\* finds the same encodings and messages, the latter in the same order, and
\* fails if and only if that text is wrong somewhere or anything in it is
\* defined twice, wherever the two definitions are.
\* (schema_parser::parse_include and the unique sets of every parser)
IncludesAreTextual ==
    /\ stage # "parse" =>
           /\ schema.messages = MessagesIn(Whole)
           /\ AreReadFrom(ToSet(schema.types), EncodingsIn(Whole))
           /\ ~Wrong(Whole)
    /\ stage = "parse" /\ failed /\ schema.header # None => Wrong(Whole)
=============================================================================
