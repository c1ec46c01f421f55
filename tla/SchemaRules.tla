---------------------------- MODULE SchemaRules ----------------------------
(***************************************************************************)
(* sbe_schema_validator and sbe_schema_cpp_validator: the rules of SBE,    *)
(* checked encoding by encoding in the order of types and message by       *)
(* message, then those of C++, checked for every name.                     *)
(*                                                                         *)
(* Custom offsets and block lengths are in FieldLayout, the contexts the   *)
(* validator creates in EncodingGraph.                                     *)
(***************************************************************************)
EXTENDS SchemaParser

CONSTANTS
    NotSymbolic,  \* words with a character that is no letter, digit or
                  \* underscore, or that begin a name with a digit
    Keywords      \* words that are C++ keywords

VARIABLES
    validated,     \* encoding_processing_states: names of complete ones
    groupHeaders,  \* validated_group_headers, lower-case names
    dataHeaders,   \* validated_data_headers
    next           \* the message to be validated; 0: their header

ruleVars == <<validated, groupHeaders, dataHeaders, next>>

Types    == schema.types
Messages == schema.messages
Exists(name) == Find(Types, name) # None
Get(name)    == Encoding(Types, name)

-----------------------------------------------------------------------------
(* Values and value refs.                                                  *)

\* is_sbe_symbolic_name.
Symbolic(name) ==
    /\ name # <<>>
    /\ \A w \in DOMAIN name : name[w] \notin NotSymbolic

\* The valid values of that name of the enum a value ref names.
Enumerators(ref) ==
    LET tree == Types[Find(Types, ref.enum)]
    IN  {i \in ChildNodes(tree, 1) : tree[i].name = ref.value}

\* find_value_ref throws.
Dangles(ref) ==
    \/ ref.enum = <<>> \/ ref.value = <<>>
    \/ ~Exists(ref.enum)
    \/ Get(ref.enum).kind # "enum"
    \/ Enumerators(ref) = {}

Enumerator(ref) ==
    Types[Find(Types, ref.enum)][CHOOSE i \in Enumerators(ref) : TRUE]

\* Mutant: any number fits.
BugRefFits(ref, prim) ==
    Get(ref.enum).type = Char \/ Enumerator(ref).content.number # None

\* value_ref_fits_into_type: only an enum declared as char has characters.
RefFits(ref, prim) ==
    LET literal == Enumerator(ref).content
    IN  IF Get(ref.enum).type = Char
        THEN Fits([literal EXCEPT !.number = literal.code], prim)
        ELSE Fits(literal, prim)

\* Mutant: strings of any length are accepted.
BugWrongContent(n) == n.type # Char /\ ~Fits(n.content, n.type)

WrongContent(n) ==
    IF n.type = Char THEN n.length < n.content.size ELSE ~Fits(n.content, n.type)

\* validate_constant_value.
WrongConstant(n) ==
    \/ (n.valueRef = None) = (n.content = None)
    \/ n.valueRef # None /\
           (Dangles(n.valueRef) \/ ~RefFits(n.valueRef, n.type))
    \/ n.valueRef = None /\ n.content # None /\ WrongContent(n)
    \/ (n.valueRef # None \/ n.type # Char) /\ n.length # 1

\* minValue, maxValue and nullValue of a type that is no constant.
WrongLimits(n) ==
    \/ \E literal \in n.limits : ~Fits(literal, n.type)
    \/ n.presence = "optional" /\ n.null # None /\ ~Fits(n.null, n.type)

-----------------------------------------------------------------------------
(* validate_encoding, one overload per kind.                               *)

WrongType(n) ==
    \/ n.type \notin Primitive
    \/ /\ n.type \in Primitive
       /\ IF n.presence = "constant" THEN WrongConstant(n)
          ELSE IF n.length = 1       THEN WrongLimits(n)
          ELSE n.type \notin SingleByte

\* What an enum or a set is encoded as: a primitive type, by itself or as a
\* public type of one element.  None is an error.
Underlying(n) ==
    IF n.type \in Primitive THEN n.type
    ELSE IF Exists(n.type) /\ Get(n.type).kind = "type" /\ Get(n.type).length = 1
    THEN Get(n.type).type
    ELSE None

WrongValue(n, prim) ==
    \/ ~Symbolic(n.name)
    \/ IF prim = Char THEN n.content.size # 1 ELSE ~Fits(n.content, prim)

WrongEnum(tree, i) ==
    LET prim == Underlying(tree[i])
    IN  \/ prim \notin Integral
        \/ prim \in Integral /\
               \E k \in ChildNodes(tree, i) : WrongValue(tree[k], prim)

WrongChoice(n, prim) ==
    ~Symbolic(n.name) \/ n.content.number > 8 * Size(prim) - 1

WrongSet(tree, i) ==
    LET prim == Underlying(tree[i])
    IN  \/ prim \notin Unsigned
        \/ prim \in Unsigned /\
               \E k \in ChildNodes(tree, i) : WrongChoice(tree[k], prim)

WrongNode(tree, i) ==
    LET n == tree[i]
    IN  \/ n.kind \in EncodingKinds \cup {"ref"} /\ ~Symbolic(n.name)
        \/ n.kind = "type" /\ WrongType(n)
        \/ n.kind = "enum" /\ WrongEnum(tree, i)
        \/ n.kind = "set"  /\ WrongSet(tree, i)
        \/ n.kind = "ref"  /\ ~Exists(n.type)

WrongEncoding(t) == \E i \in DOMAIN Types[t] : WrongNode(Types[t], i)

-----------------------------------------------------------------------------
(* Headers.                                                                *)

\* The type that is element name of a composite or that its ref names, or
\* None.
HeaderElement(tree, name) ==
    LET named == {i \in ChildNodes(tree, 1) : tree[i].name = name}
    IN  IF named = {} THEN None
        ELSE LET n == tree[CHOOSE i \in named : TRUE]
             IN  IF n.kind = "type" THEN n
                 ELSE IF n.kind = "ref" /\ Get(n.type).kind = "type"
                 THEN Get(n.type)
                 ELSE None

WrongHeaderElement(tree, name) ==
    LET t == HeaderElement(tree, name)
    IN  t = None \/ t.length # 1 \/ t.presence = "constant"

\* validate_level_header.
WrongHeader(type, required) ==
    \/ ~Exists(type)
    \/ Get(type).kind # "composite"
    \/ \E name \in required : WrongHeaderElement(Types[Find(Types, type)], name)

MessageHeader == {<<"schemaId">>, <<"templateId">>, <<"version">>, <<"blockLength">>}
GroupHeader   == {<<"numInGroup">>, <<"blockLength">>}

\* validate_data_header.
WrongDataHeader(type) ==
    \/ WrongHeader(type, {<<"length">>})
    \/ LET t == HeaderElement(Types[Find(Types, type)], <<"varData">>)
       IN  t = None \/ t.length # 0

-----------------------------------------------------------------------------
(* Messages.                                                               *)

\* The presence of field f, given the root of its encoding.
PresenceAs(n, f) ==
    CASE n.kind = "type"      -> n.presence
      [] n.kind = "composite" -> f.presence
      [] n.kind = "set"       -> "required"
      [] n.kind = "enum"      ->
             IF f.presence = "optional" THEN "required" ELSE f.presence

\* get_actual_presence.
ActualPresence(f) ==
    IF f.type \in Primitive THEN f.presence ELSE PresenceAs(Get(f.type), f)

\* validate_constant_field: a constant of a primitive type or of an enum takes
\* its value from a value ref, which for an enum names that enum.
WrongConstantField(f) ==
    IF f.type \in Primitive
    THEN \/ f.valueRef = None
         \/ Dangles(f.valueRef) \/ ~RefFits(f.valueRef, f.type)
    ELSE \/ Get(f.type).kind = "composite"
         \/ Get(f.type).kind = "enum" /\
                \/ f.valueRef = None
                \/ Dangles(f.valueRef)
                \/ Lower(f.type) # Lower(RootName(Types[Find(Types, f.valueRef.enum)]))

WrongField(f) ==
    \/ f.type \notin Primitive /\ ~Exists(f.type)
    \/ ActualPresence(f) = "constant" /\ WrongConstantField(f)

\* The lower-case names of the headers of the groups or of the data members.
HeadersUsed(tree, kind) ==
    {Lower(tree[i].type) : i \in NodesOf(tree, {kind})}

\* Mutant: one cache for both kinds of header.
BugUncheckedData(tree) ==
    HeadersUsed(tree, "data")
        \ (dataHeaders \cup groupHeaders \cup HeadersUsed(tree, "group"))

\* Headers of data members not validated before.
UncheckedData(tree) == HeadersUsed(tree, "data") \ dataHeaders

UncheckedGroups(tree) == HeadersUsed(tree, "group") \ groupHeaders

\* validate_members, level by level.
WrongMessage(tree) ==
    \/ \E i \in NodesOf(tree, MemberKinds \cup {"message"}) :
           ~Symbolic(tree[i].name)
    \/ \E i \in NodesOf(tree, {"field"}) : WrongField(tree[i])
    \/ \E type \in UncheckedGroups(tree) : WrongHeader(type, GroupHeader)
    \/ \E type \in UncheckedData(tree) : WrongDataHeader(type)

-----------------------------------------------------------------------------
(* The two validators.                                                     *)

RulesInit == validated = {} /\ groupHeaders = {} /\ dataHeaders = {} /\ next = 0

GoTo(s) ==
    /\ stage' = s
    /\ UNCHANGED <<input, failed, parsers, schema>>

Unvalidated == {t \in DOMAIN Types : RootName(Types[t]) \notin validated}

\* The encodings validate_public_encoding validates: t and what refs lead to,
\* but for those validated before.
Visited(t) == Reached(Types, t) \cap Unvalidated

\* One iteration of validate_types.
ValidateType ==
    /\ In("types") /\ Unvalidated # {}
    /\ LET first == CHOOSE t \in Unvalidated : \A u \in Unvalidated : t <= u
       IN  IF \E t \in Visited(first) : WrongEncoding(t) \/ Cyclic(Types, t)
           THEN Fail /\ UNCHANGED ruleVars
           ELSE /\ validated' = validated \cup
                       {RootName(Types[t]) : t \in Visited(first)}
                /\ UNCHANGED <<parserVars, groupHeaders, dataHeaders, next>>

TypesValid ==
    /\ In("types") /\ Unvalidated = {}
    /\ GoTo("messages")
    /\ UNCHANGED ruleVars

ValidateMessageHeader ==
    /\ In("messages") /\ next = 0
    /\ IF WrongHeader(schema.header.type, MessageHeader)
       THEN Fail /\ UNCHANGED ruleVars
       ELSE next' = 1 /\ UNCHANGED <<parserVars, validated, groupHeaders, dataHeaders>>

ValidateMessage ==
    /\ In("messages") /\ next \in DOMAIN Messages
    /\ IF WrongMessage(Messages[next])
       THEN Fail /\ UNCHANGED ruleVars
       ELSE /\ groupHeaders' = groupHeaders \cup HeadersUsed(Messages[next], "group")
            /\ dataHeaders' = dataHeaders \cup HeadersUsed(Messages[next], "data")
            /\ next' = next + 1
            /\ UNCHANGED <<parserVars, validated>>

MessagesValid ==
    /\ In("messages") /\ next > Len(Messages)
    /\ GoTo("cpp")
    /\ UNCHANGED ruleVars

IsKeyword(name) == Len(name) = 1 /\ name[1] \in Keywords

\* The schema's name: that of the command line or the package.
SchemaName == Default(input.schemaName, schema.header.package)

\* is_reserved_cpp_namespace.
WrongSchemaName ==
    \/ ~Symbolic(SchemaName)
    \/ IsKeyword(SchemaName)
    \/ SchemaName \in {<<"std">>, <<"posix">>}

\* sbe_schema_cpp_validator::validate.
ValidateCppNames ==
    /\ In("cpp")
    /\ IF \/ WrongSchemaName
          \/ \E tree \in ToSet(Types) \cup ToSet(Messages) :
                 \E i \in DOMAIN tree :
                     tree[i].kind # "unknown" /\ IsKeyword(tree[i].name)
       THEN Fail
       ELSE GoTo("type names")
    /\ UNCHANGED ruleVars

RulesNext ==
    \/ ValidateType
    \/ TypesValid
    \/ ValidateMessageHeader
    \/ ValidateMessage
    \/ MessagesValid
    \/ ValidateCppNames
=============================================================================
