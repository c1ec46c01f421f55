--------------------------- MODULE SchemaFrontEnd ---------------------------
(***************************************************************************)
(* sbeppc from the XML to what its generators are given: main calls the    *)
(* parser, the two validators, the names generator and the schema          *)
(* compiler, and the first error ends it.  Of the compiler, this has the   *)
(* tags, the values of constants and the sizes of messages; its headers    *)
(* are in EncodingGraph.                                                   *)
(***************************************************************************)
EXTENDS SchemaTraits

VARIABLE
    constants  \* the constants generated: records [type, value, number]

vars == <<parserVars, ruleVars, nameVars, tagVars, constants>>

-----------------------------------------------------------------------------
(* get_const_type and get_const_value.                                     *)

\* A value ref is generated as to_underlying of the enumerator.
Constant(type, value, number) == [type |-> type, value |-> value, number |-> number]

\* The number an enumerator is: 'c' if the enum's underlying type is char.
NumberOf(ref) ==
    LET literal == Enumerator(ref).content
    IN  IF Underlying(Get(ref.enum)) = Char THEN literal.code ELSE literal.number

\* Neither a value ref nor a value: an optional without value is used.
Undefined == Constant(None, "undefined", None)

RefValue(type, ref) ==
    IF ref = None THEN Undefined ELSE Constant(type, "number", NumberOf(ref))

\* make_char_constant: a string only if it has more than one character.
CharConstant(n, type) ==
    IF n.content.size > 1 THEN Constant(type, "string", None)
    ELSE Constant(type, "character", n.content.code)

TypeConstant(n) ==
    LET type == IF n.length # 1 THEN <<"array">> ELSE n.type
    IN  IF n.valueRef # None    THEN RefValue(type, n.valueRef)
        ELSE IF n.content = None THEN Undefined
        ELSE IF n.type = Char   THEN CharConstant(n, type)
        ELSE Constant(type, "number", n.content.number)

\* make_const_field_accessor.
FieldConstant(f) ==
    IF f.type \in Primitive THEN RefValue(f.type, f.valueRef)
    ELSE IF Get(f.type).kind = "type" THEN TypeConstant(Get(f.type))
    ELSE RefValue(Underlying(Get(f.type)), f.valueRef)

\* get_null_value: for optional types without nullValue.
BuiltInNull(prim) ==
    CASE prim = Char         -> 0
      [] prim = <<"int8">>   -> -128
      [] prim = <<"uint8">>  -> 255
      [] prim = <<"int16">>  -> -327678
      [] prim = <<"uint16">> -> 65535

NullConstant(n) ==
    Constant(n.type, "null", IF n.null = None THEN BuiltInNull(n.type) ELSE n.null.number)

HasNull(n) == n.presence = "optional" /\ n.length = 1 /\ n.type \in Integral

ConstantsOf(tree) ==
    {NullConstant(tree[i]) : i \in {k \in NodesOf(tree, {"type"}) :
                                        HasNull(tree[k])}} \cup
    {TypeConstant(tree[i]) : i \in {k \in NodesOf(tree, {"type"}) :
                                        tree[k].presence = "constant"}} \cup
    {FieldConstant(tree[i]) : i \in {k \in NodesOf(tree, {"field"}) :
                                         ActualPresence(tree[k]) = "constant"}}

AllTrees == ToSet(Types) \cup ToSet(Messages)

\* make_string_constant throws.
TooLong(n) ==
    /\ n.kind = "type" /\ n.presence = "constant" /\ n.type = Char
    /\ n.valueRef = None /\ n.content # None
    /\ n.content.size > 1 /\ n.length < n.content.size

\* Groups for which traits_generator throws.
WithoutCount ==
    {n \in UNION {{tree[i] : i \in NodesOf(tree, {"group"})} : tree \in ToSet(Messages)} :
        CountIsRef(n.type)}

\* types_compiler and messages_compiler, as far as constants and traits go.
Compile ==
    /\ In("constants")
    /\ IF \/ \E tree \in AllTrees : \E i \in DOMAIN tree : TooLong(tree[i])
          \/ WithoutCount # {}
       THEN Fail /\ UNCHANGED constants
       ELSE /\ constants' = UNION {ConstantsOf(tree) : tree \in AllTrees}
            /\ GoTo("done")

-----------------------------------------------------------------------------
\* main has returned.  Nowhere else does sbeppc stop.
Ended == (failed \/ stage = "done") /\ UNCHANGED vars

Init ==
    /\ ParserInit /\ RulesInit /\ NamesInit /\ TagsInit
    /\ constants = {}

Next ==
    \/ ParserNext /\ UNCHANGED <<ruleVars, nameVars, tagVars, constants>>
    \/ RulesNext /\ UNCHANGED <<nameVars, tagVars, constants>>
    \/ NamesNext /\ UNCHANGED <<ruleVars, tagVars, constants>>
    \/ TagsNext /\ UNCHANGED <<ruleVars, nameVars, constants>>
    \/ Compile /\ UNCHANGED <<ruleVars, nameVars, tagVars>>
    \/ Ended

Spec == Init /\ [][Next]_vars

-----------------------------------------------------------------------------
Stages ==
    {"parse", "types", "messages", "cpp", "type names", "message names",
     "type tags", "message tags", "constants", "done"}

TypeOK ==
    /\ IsInput(input)
    /\ stage \in Stages
    /\ failed \in BOOLEAN
    /\ \A p \in DOMAIN parsers :
           /\ parsers[p].at \in 1 .. Len(parsers[p].items) + 1
           /\ parsers[p].types \subseteq NodeTrees
    /\ AllTrees \subseteq NodeTrees
    /\ validated \subseteq Public("types")
    /\ next \in 0 .. Len(Messages) + 1
    /\ named \subseteq ClassNodes("types") \cup ClassNodes("messages")
    /\ DOMAIN mangled \subseteq named
    /\ ToSet(detailTypes) \subseteq TypeNodes
    /\ publicMessages \in {[i \in 1 .. n |-> i] : n \in 0 .. Len(Messages)}

\* Once names have been found for a schema nothing fails any more: whatever is
\* wrong is reported before a file has been written.  The code has one
\* exception: a numInGroup that is a ref ends sbeppc by an exception that main
\* does not catch, when the headers of types have been written.
\* (throw_error of make_mangled_name and make_string_constant; std::get in
\* get_num_in_group_underlying_type)
ErrorsBeforeOutput ==
    failed => \/ stage \in {"parse", "types", "messages", "cpp", "type names",
                            "message names"}
              \/ stage = "constants" /\ WithoutCount # {}

\* A string of one character that is declared as longer.
ShortString(n) ==
    n.kind = "type" /\ n.type = Char /\ n.length # 1 /\
        n.content # None /\ n.content.size = 1

\* The null value built in for int16, a mistyped -32768.
MistypedNull == NullConstant([type |-> <<"int16">>, null |-> None])

\* The constants of an accepted schema have a value, one their type can hold:
\* a number or a null value within its range, a string if and only if it is an
\* array.  The code has two exceptions: the null value built in for int16, and
\* a string of one character in a longer array, which comes out as a character.
\* (the optionals get_const_value dereferences without a test; null values and
\* constants initialize in braces, where narrowing is an error)
ConstantsHaveValues ==
    /\ Undefined \notin constants
    /\ \A c \in constants \ {MistypedNull} :
           /\ c.type \in Integral /\ c.value \in {"number", "null"} =>
                  c.number \in IntegerRange(c.type)
           /\ c.value = "string" => c.type = <<"array">>
           /\ c.type = <<"array">> =>
                  \/ c.value = "string"
                  \/ \E tree \in AllTrees : \E i \in DOMAIN tree : ShortString(tree[i])

\* The rules hold of a schema or they do not: the verdict is the one every
\* encoding and every message gets by itself, with nothing validated before
\* it, and therefore the same in any order of types.
\* (encoding_processing_states, validated_group_headers, validated_data_headers)
VerdictIgnoresOrder ==
    LET typesWrong == \E t \in DOMAIN Types : WrongEncoding(t) \/ Cyclic(Types, t)
        levelsWrong ==
            \/ WrongHeader(schema.header.type, MessageHeader)
            \/ \E m \in ToSet(Messages) :
                   \/ \E i \in DOMAIN m :
                          m[i].kind # "unknown" /\ ~Symbolic(m[i].name)
                   \/ \E i \in NodesOf(m, {"field"}) : WrongField(m[i])
                   \/ \E i \in NodesOf(m, {"group"}) :
                          WrongHeader(m[i].type, GroupHeader)
                   \/ \E i \in NodesOf(m, {"data"}) : WrongDataHeader(m[i].type)
    IN  /\ stage = "types" /\ failed => typesWrong
        /\ stage \notin {"parse", "types"} => ~typesWrong
        /\ stage = "messages" /\ failed => levelsWrong
        /\ stage \notin {"parse", "types", "messages"} => ~levelsWrong
=============================================================================
