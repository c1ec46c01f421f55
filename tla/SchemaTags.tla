----------------------------- MODULE SchemaTags -----------------------------
(***************************************************************************)
(* tags_generator: a struct for every entity of the schema, in             *)
(* schema/schema.hpp.  The tag of an entity is inside of that of the       *)
(* entity it belongs to; public encodings and whatever has a mangled name  *)
(* are defined in namespaces of detail, and aliases stand in their place.  *)
(* The tag of a ref or field inherits from that of its encoding, so that   *)
(* one has to be defined before.                                           *)
(***************************************************************************)
EXTENDS SchemaNames

VARIABLES
    detailTypes,     \* the text of detail_types: the nodes <<t, i>> defined
    detailMessages,  \* the same of detail_messages
    publicMessages   \* of public_messages: messages.  public_types has an
                     \* alias for every encoding in detail_types

tagVars == <<detailTypes, detailMessages, publicMessages>>

-----------------------------------------------------------------------------
(* The order of the definitions.                                           *)

RefTarget(tree, i) == Find(Types, tree[i].type)

\* Mutant: what a ref refers to is not defined on the way.
BugEmittedFirst(f, t, k) ==
    IF Types[t][k].kind = "ref" THEN <<>>
    ELSE f[<<t, k>>] \o IF IsMangled("types", t, k) THEN <<<<t, k>>>> ELSE <<>>

\* The call for one element of a composite: what it appends to detail_types.
EmittedFirst(f, t, k) ==
    IF Types[t][k].kind = "ref"
    THEN LET target == RefTarget(Types[t], k)
         IN  Append(f[<<target, 1>>], <<target, 1>>)
    ELSE f[<<t, k>>] \o IF IsMangled("types", t, k) THEN <<<<t, k>>>> ELSE <<>>

\* make_composite_element_tags: what is appended to detail_types before the
\* tag of node i is complete.  f does the same for other nodes.
Emitted(f, t, i) ==
    FlattenSeq([k \in DOMAIN Types[t] |->
        IF k \in ChildNodes(Types[t], i) THEN EmittedFirst(f, t, k) ELSE <<>>])

TypeNodes == UNION {{t} \X DOMAIN Types[t] : t \in DOMAIN Types}

EmittedFor == LET f[n \in TypeNodes] == Emitted(f, n[1], n[2]) IN f

\* The first occurrence of everything: processed_types.
Once(s) ==
    FlattenSeq([i \in DOMAIN s |->
        IF \E j \in 1 .. i - 1 : s[j] = s[i] THEN <<>> ELSE <<s[i]>>])

\* handle_public_encoding: nothing if a ref has led to the encoding before.
WithEncoding(definitions, t) ==
    Once(definitions \o Append(EmittedFor[<<t, 1>>], <<t, 1>>))

\* make_group_tags and make_message_tag: mangled ones, the inner ones first.
MangledLevels(m) ==
    LET tree == Messages[m]
        After[i \in DOMAIN tree] ==
            FlattenSeq([k \in DOMAIN tree |->
                IF k \in ChildNodes(tree, i) /\ tree[k].kind = "group" THEN After[k]
                ELSE <<>>]) \o
            IF IsMangled("messages", m, i) THEN <<<<m, i>>>> ELSE <<>>
    IN  After[1]

-----------------------------------------------------------------------------
TagsInit ==
    /\ detailTypes = <<>> /\ detailMessages = <<>>
    /\ publicMessages = <<>>

Untagged == {t \in DOMAIN Types : <<t, 1>> \notin ToSet(detailTypes)}

\* One iteration of make_type_tags_impl.
TagType ==
    /\ In("type tags") /\ Untagged # {}
    /\ LET first == CHOOSE t \in Untagged : \A u \in Untagged : t <= u
       IN  detailTypes' = WithEncoding(detailTypes, first)
    /\ UNCHANGED <<parserVars, detailMessages, publicMessages>>

TypesTagged ==
    /\ In("type tags") /\ Untagged = {}
    /\ GoTo("message tags")
    /\ UNCHANGED tagVars

\* One iteration of make_message_tags_impl.
TagMessage ==
    /\ In("message tags") /\ Len(publicMessages) < Len(Messages)
    /\ LET m == Len(publicMessages) + 1
       IN  /\ detailMessages' = detailMessages \o MangledLevels(m)
           /\ publicMessages' = Append(publicMessages, m)
    /\ UNCHANGED <<parserVars, detailTypes>>

MessagesTagged ==
    /\ In("message tags") /\ Len(publicMessages) = Len(Messages)
    /\ GoTo("constants")
    /\ UNCHANGED tagVars

TagsNext ==
    \/ TagType
    \/ TypesTagged
    \/ TagMessage
    \/ MessagesTagged

-----------------------------------------------------------------------------
(* What schema.hpp declares, in its order.  A path is a sequence of names; *)
(* the first one stands for namespace detail::schema or struct schema.     *)

Detail == <<"detail">>
Schema == <<"schema">>

\* Mutant: types and messages are always structs of the schema.
BugTagScope(kind) == <<Schema, <<kind>>>>

\* The struct called types or messages.
TagScope(kind) ==
    IF tagName[kind] = None THEN <<Schema, <<kind>>>>
                            ELSE <<Detail, tagName[kind]>>

\* make_type_impl_path and make_message_impl_path.
ImplPath(kind, t, i) == <<Detail, <<kind>>, ImplName(<<kind, t, i>>)>>

\* make_public_tag: the tag of a node in its context.
PublicTag(kind, t, i) ==
    LET Up[k \in DOMAIN Trees(kind)[t]] ==
            LET n == Trees(kind)[t][k]
            IN  Append(IF n.up = 0 THEN <<Schema, <<kind>>>> ELSE Up[n.up], n.name)
    IN  Up[i]

\* Where the definition of a node is: encodings and what is mangled in detail,
\* the others inside of what they belong to.
Place(kind, t, i) ==
    LET Up[k \in DOMAIN Trees(kind)[t]] ==
            LET n == Trees(kind)[t][k]
            IN  IF IsMangled(kind, t, k) \/ (kind = "types" /\ k = 1)
                THEN ImplPath(kind, t, k)
                ELSE Append(IF k = 1 THEN TagScope(kind) ELSE Up[n.up], n.name)
    IN  Up[i]

\* get_nested_type_name, get_nested_type_tag: the base of the tag of a ref or
\* field, None if its encoding has nothing inside.
Base(n) ==
    IF n.kind \notin {"ref", "field"} \/ n.type \in Primitive THEN None
    ELSE LET t == Find(Types, n.type)
         IN  IF Types[t][1].kind = "type" THEN None ELSE ImplPath("types", t, 1)

\* A struct, or an alias of what is at target.
Struct(path, base)  == [path |-> path, base |-> base, target |-> None]
Alias(path, target) == [path |-> path, base |-> None, target |-> target]

\* The nodes defined inside of the definition of node i, but for those that
\* are somewhere else.
Inside(kind, t, i) ==
    LET tree == Trees(kind)[t]
        Here[k \in DOMAIN tree] ==
            \/ k = i
            \/ k > i /\ ~IsMangled(kind, t, k) /\ tree[k].up >= i /\ Here[tree[k].up]
    IN  {k \in DOMAIN tree : Here[k] /\ (k = i \/ tree[k].kind # "unknown")}

\* The structs of nodes inside of definition i.
StructsInside(kind, t, i) ==
    LET tree == Trees(kind)[t]
    IN  FlattenSeq([k \in DOMAIN tree |->
            IF k \in Inside(kind, t, i) THEN <<Struct(Place(kind, t, k), Base(tree[k]))>>
            ELSE <<>>])

\* Mutant: what is mangled is not found where it belongs.
BugAliasesInside(kind, t, i) == <<>>

\* The aliases of mangled nodes inside of definition i.
AliasesInside(kind, t, i) ==
    LET tree == Trees(kind)[t]
    IN  FlattenSeq([k \in DOMAIN tree |->
            IF k # i /\ tree[k].up \in Inside(kind, t, i) /\ IsMangled(kind, t, k)
            THEN <<Alias(Append(Place(kind, t, tree[k].up), tree[k].name),
                         ImplPath(kind, t, k))>>
            ELSE <<>>])

Definition(kind, n) ==
    StructsInside(kind, n[1], n[2]) \o AliasesInside(kind, n[1], n[2])

Definitions(kind, nodes) ==
    FlattenSeq([d \in DOMAIN nodes |-> Definition(kind, nodes[d])])

\* make_type_alias for the root of an encoding or a mangled message.
RootAlias(kind, t) ==
    Alias(Append(TagScope(kind), RootName(Trees(kind)[t])), ImplPath(kind, t, 1))

PublicText ==
    FlattenSeq([d \in DOMAIN detailTypes |->
        IF detailTypes[d][2] = 1 THEN <<RootAlias("types", detailTypes[d][1])>>
        ELSE <<>>]) \o
    FlattenSeq([i \in DOMAIN publicMessages |->
        IF IsMangled("messages", publicMessages[i], 1)
        THEN <<RootAlias("messages", publicMessages[i])>>
        ELSE Definition("messages", <<publicMessages[i], 1>>)])

\* The structs types and messages, or aliases of those in detail.
Scopes ==
    LET One(kind) ==
            <<Struct(TagScope(kind), None)>> \o
            IF tagName[kind] = None THEN <<>>
            ELSE <<Alias(<<Schema, <<kind>>>>, TagScope(kind))>>
    IN  One("types") \o One("messages")

\* generate.
Text == Definitions("types", detailTypes) \o Definitions("messages", detailMessages)
            \o Scopes \o PublicText

-----------------------------------------------------------------------------
\* The tags are complete, and stay as they are.
Tagged == stage = "constants"

StructsIn(text) ==
    {text[p].path : p \in {q \in DOMAIN text : text[q].target = None}}

\* schema.hpp compiles as far as names go: nothing is declared twice in a
\* struct or namespace, and no struct has a member of its own name.
\* (the scopes into which tags_generator divides the tags)
TagNamesDistinct ==
    Tagged =>
        LET text == Text
            structs == StructsIn(text)
        IN  /\ \A p, q \in DOMAIN text : text[p].path = text[q].path => p = q
            /\ \A p \in DOMAIN text :
                   LET path == text[p].path
                   IN  Front(path) \in structs => Last(path) # Last(Front(path))

\* What is inherited from or aliased is defined before, though encodings are
\* in no particular order and may refer to later ones.
\* (the call of handle_public_encoding in make_tag of a ref)
TagsDefinedBeforeUse ==
    Tagged =>
        LET text == Text
        IN  \A p \in DOMAIN text :
                \A base \in {text[p].base, text[p].target} \ {None} :
                    \E q \in 1 .. p - 1 : text[q].path = base /\ text[q].target = None

\* The path a qualified name leads to: aliases are followed at every step.
Resolved(text, path) ==
    LET Walk[n \in DOMAIN path] ==
            LET here == IF n = 1 THEN <<path[1]>> ELSE Append(Walk[n - 1], path[n])
                alias == {p \in DOMAIN text :
                              text[p].path = here /\ text[p].target # None}
            IN  IF alias = {} THEN here
                ELSE text[CHOOSE p \in alias : TRUE].target
    IN  Walk[Len(path)]

\* The nodes with a tag.
TaggedNodes ==
    {n \in UNION {{"types"} \X {t} \X DOMAIN Types[t] : t \in DOMAIN Types} \cup
           UNION {{"messages"} \X {m} \X DOMAIN Messages[m] : m \in DOMAIN Messages} :
        NodeOf(n).kind # "unknown"}

\* The public name of the tag of every entity, made of the names in the
\* schema, leads to a struct, and to one of its own; if it is the tag of a
\* class the struct is called like the class.
\* (the aliases of tags_generator; "their names always match those of the
\* corresponding implementation types", src/doc/representation.md)
TagsFound ==
    Tagged =>
        LET text == Text
            structs == StructsIn(text)
            Tag(n) == Resolved(text, PublicTag(n[1], n[2], n[3]))
        IN  /\ \A n \in TaggedNodes :
                   Tag(n) \in structs /\ Last(Tag(n)) = ImplName(n)
            /\ \A n, o \in TaggedNodes : Tag(n) = Tag(o) => n = o
=============================================================================
