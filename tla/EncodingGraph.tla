--------------------------- MODULE EncodingGraph ---------------------------
(***************************************************************************)
(* sbeppc's walks over the encodings of a schema.  The validator visits    *)
(* every encoding, following the refs inside of composites, computes sizes *)
(* and creates contexts.  The compiler visits them again, writes one       *)
(* header per public encoding, then the schema's header, the messages'     *)
(* headers and the top header, and gives every header the includes it      *)
(* needs.  Recursion is an explicit stack.                                 *)
(*                                                                         *)
(* Custom offsets are in FieldLayout; names are their lower-case form.     *)
(***************************************************************************)
EXTENDS Integers, Sequences, FiniteSets, SequencesExt

CONSTANTS
    Schemas,    \* records, see IsSchema
    None,       \* no encoding: an absent attribute, or a name not in <types>
    WritesFail  \* opening a file for writing may fail

\* A node is an encoding: in s.public those in <types>, elsewhere those inside
\* of a composite, at one place in one.  target is what a ref refers to, or the
\* enum of the valueRef of a constant.  A message is its fields and its header
\* types.
IsSchema(s) ==
    /\ IsFiniteSet(s.nodes)
    /\ s.public \subseteq s.nodes /\ None \notin s.nodes
    /\ s.kind \in [s.nodes -> {"type", "constant", "enum", "ref", "composite"}]
    /\ s.elements \in [s.nodes -> Seq(s.nodes \ s.public)]
    /\ \A n1 \in s.nodes, n2 \in s.nodes :
           \A i \in DOMAIN s.elements[n1], j \in DOMAIN s.elements[n2] :
               s.elements[n1][i] = s.elements[n2][j] => n1 = n2 /\ i = j
    /\ s.target \in [s.nodes -> s.public \cup {None}]
    /\ s.width \in [s.nodes -> Nat]
    /\ \A m \in DOMAIN s.messages :
           /\ s.messages[m].fields \in Seq([type     : s.public \cup {None},
                                           valueRef : s.public \cup {None}])
           /\ s.messages[m].headers \subseteq s.public
    /\ \A n \in s.nodes : s.kind[n] # "composite" => s.elements[n] = <<>>
    /\ \A n \in s.public : s.kind[n] # "ref"
    /\ \A n \in s.nodes : s.kind[n] \notin {"ref", "constant"} => s.target[n] = None
    /\ \A n \in s.nodes : s.kind[n] = "constant" /\ s.target[n] # None =>
           s.kind[s.target[n]] = "enum"

ASSUME SchemasAssumption == \A s \in Schemas : IsSchema(s)
ASSUME WritesFailAssumption == WritesFail \in BOOLEAN

VARIABLES
    schema,
    phase,     \* "validate", "types", "tags", "messages", "top", "done";
               \* "rejected": error reported; "failed": a file not written;
               \* "assert": a context is created twice or used uncreated
    todo,      \* what the loop over encodings or messages has not reached
    stack,     \* the functions being executed, the innermost last: records
               \* [node, next, offset, calls]
    progress,  \* encoding_processing_states
    size,      \* contexts: the size of every node that has one
    compiled,  \* compiled_types
    deps,      \* dependencies, a stack of sets
    files      \* the headers written and what they include

validator == <<progress, size>>
compiler  == <<compiled, deps, files>>
vars      == <<schema, phase, todo, stack, validator, compiler>>

-----------------------------------------------------------------------------
Kind(n)     == schema.kind[n]
Elements(n) == schema.elements[n]
Target(n)   == schema.target[n]
Public      == schema.public
Messages    == DOMAIN schema.messages
Fields(m)   == Range(schema.messages[m].fields)
Headers(m)  == schema.messages[m].headers

Top == stack[Len(stack)]

Frame(n) == [node |-> n, next |-> 1, offset |-> 0, calls |-> <<>>]

\* is_constant_composite_element.
IsConstantElement(e) ==
    \/ Kind(e) = "constant"
    \/ Kind(e) = "ref" /\ Kind(Target(e)) = "constant"

Init ==
    /\ schema \in Schemas
    /\ phase = "validate"
    /\ todo = Public
    /\ stack = <<>>
    /\ progress = [n \in Public |-> "new"]
    /\ size = [n \in {} |-> 0]
    /\ compiled = {}
    /\ deps = <<>>
    /\ files = [h \in {} |-> {}]

Stop(reason) ==
    /\ phase' = reason
    /\ UNCHANGED <<schema, todo, stack, validator, compiler>>

-----------------------------------------------------------------------------
(* The validator.                                                          *)

\* Mutant: an encoding being validated passes for a validated one.
BugMarked == "complete"

Marked == "in_progress"

\* validate_public_encoding of an encoding not seen before.
EnterPublic(n) ==
    /\ progress' = [progress EXCEPT ![n] = Marked]
    /\ stack' = Append(stack, Frame(n))

ValidateNext ==
    /\ phase = "validate" /\ stack = <<>>
    /\ \E n \in todo :
           /\ todo' = todo \ {n}
           /\ IF progress[n] = "new" THEN EnterPublic(n)
                                     ELSE UNCHANGED <<progress, stack>>
    /\ UNCHANGED <<schema, phase, size, compiler>>

Validating(kinds) ==
    /\ phase = "validate" /\ stack # <<>>
    /\ Kind(Top.node) \in kinds

FollowRef ==
    /\ Validating({"ref"})
    /\ Target(Top.node) # None
    /\ progress[Target(Top.node)] = "new"
    /\ EnterPublic(Target(Top.node))
    /\ UNCHANGED <<schema, phase, todo, size, compiler>>

RejectMissing ==
    /\ Validating({"ref"})
    /\ Target(Top.node) = None
    /\ Stop("rejected")

RejectCycle ==
    /\ Validating({"ref"})
    /\ Target(Top.node) # None
    /\ progress[Target(Top.node)] = "in_progress"
    /\ Stop("rejected")

ValidateElement ==
    /\ Validating({"composite"})
    /\ Top.next <= Len(Elements(Top.node))
    /\ stack' = Append(stack, Frame(Elements(Top.node)[Top.next]))
    /\ UNCHANGED <<schema, phase, todo, validator, compiler>>

\* Mutant: constants take room in a composite.
BugOffsetAfter(offset, e, bytes) == offset + bytes

\* validate_element_offset.
OffsetAfter(offset, e, bytes) ==
    IF IsConstantElement(e) THEN offset ELSE offset + bytes

\* The caller of the innermost function goes on: a ref stays where it is and
\* finds its target complete, a composite turns to its next element.
ReturnTo(frames, n, bytes) ==
    IF frames = <<>> \/ Kind(frames[Len(frames)].node) = "ref" THEN frames
    ELSE [frames EXCEPT ![Len(frames)].next = @ + 1,
                        ![Len(frames)].offset = OffsetAfter(@, n, bytes)]

\* context_manager::create() at the end of validate_encoding.
Return(bytes) ==
    LET n == Top.node
    IN  IF n \in DOMAIN size
        THEN Stop("assert")
        ELSE /\ size' = [x \in DOMAIN size \cup {n} |->
                            IF x = n THEN bytes ELSE size[x]]
             /\ stack' = ReturnTo(Front(stack), n, bytes)
             /\ progress' = IF n \in Public
                            THEN [progress EXCEPT ![n] = "complete"]
                            ELSE progress
             /\ UNCHANGED <<schema, phase, todo, compiler>>

ReturnLeaf ==
    /\ Validating({"type", "constant", "enum"})
    /\ Return(schema.width[Top.node])

ReturnComposite ==
    /\ Validating({"composite"})
    /\ Top.next > Len(Elements(Top.node))
    /\ Return(Top.offset)

ReturnRef ==
    /\ Validating({"ref"})
    /\ Target(Top.node) # None
    /\ progress[Target(Top.node)] = "complete"
    /\ IF Target(Top.node) \in DOMAIN size THEN Return(size[Target(Top.node)])
                                           ELSE Stop("assert")

EncodingsValid ==
    /\ phase = "validate" /\ stack = <<>> /\ todo = {}
    /\ phase' = "types"
    /\ todo' = Public
    /\ UNCHANGED <<schema, stack, validator, compiler>>

-----------------------------------------------------------------------------
(* The types compiler.                                                     *)

Header(n) == <<"types", n>>

Write(header, includes) ==
    files' = [h \in DOMAIN files \cup {header} |->
                 IF h = header THEN includes ELSE files[h]]

\* The enum of a constant's valueRef is compiled for get_const_value.
ValueRefOf(n) ==
    IF Kind(n) = "constant" /\ Target(n) # None THEN <<Target(n)>> ELSE <<>>

\* Mutant: a ref to a constant forgets about the enum.
BugCalls(e) == IF Kind(e) = "ref" THEN <<Target(e)>> ELSE ValueRefOf(e)

\* The public encodings that make_element_accessors compiles for an element.
Calls(e) ==
    IF Kind(e) = "ref" THEN <<Target(e)>> \o ValueRefOf(Target(e))
                       ELSE ValueRefOf(e)

AddDependency(n, sets) ==
    [sets EXCEPT ![Len(sets)] = @ \cup {n}]

\* Mutant: the encoding is noted only when it is compiled.
BugCompilePublic(n, frames) ==
    IF n \in compiled
    THEN /\ stack' = frames
         /\ UNCHANGED deps
    ELSE /\ stack' = Append(frames, Frame(n))
         /\ deps' = Append(AddDependency(n, deps), {})

\* Mutant: the encoding is left for the loop over all of them.
BugNoteOnly(n, frames) ==
    /\ stack' = frames
    /\ deps' = AddDependency(n, deps)

\* compile_public_encoding(n) from a caller that goes on as in frames.
CompilePublic(n, frames) ==
    IF n \in compiled
    THEN /\ stack' = frames
         /\ deps' = AddDependency(n, deps)
    ELSE /\ stack' = Append(frames, Frame(n))
         /\ deps' = Append(AddDependency(n, deps), {})

CompileNext ==
    /\ phase = "types" /\ stack = <<>>
    /\ \E n \in todo :
           /\ todo' = todo \ {n}
           /\ IF n \in compiled
              THEN UNCHANGED <<stack, deps>>
              ELSE stack' = <<Frame(n)>> /\ deps' = <<{n}, {}>>
    /\ UNCHANGED <<schema, phase, validator, compiled, files>>

Compiling == phase = "types" /\ stack # <<>>

TopElement == Elements(Top.node)[Top.next]

HasElement == Top.next <= Len(Elements(Top.node))

\* Mutant: the loop does not advance.
BugCompileElement ==
    /\ Compiling /\ HasElement
    /\ Top.calls = <<>>
    /\ stack' = [stack EXCEPT ![Len(stack)].calls = Calls(TopElement)]
    /\ UNCHANGED <<schema, phase, todo, validator, compiler>>

\* The element at next, with the calls it makes, is turned to.
CompileElement ==
    /\ Compiling /\ HasElement
    /\ Top.calls = <<>>
    /\ LET passed == [stack EXCEPT ![Len(stack)].next = @ + 1,
                                   ![Len(stack)].calls = Calls(TopElement)]
       IN  stack' = IF Kind(TopElement) = "composite"
                    THEN Append(passed, Frame(TopElement)) ELSE passed
    /\ UNCHANGED <<schema, phase, todo, validator, compiler>>

CompileCall ==
    /\ Compiling
    /\ Top.calls # <<>>
    /\ CompilePublic(Head(Top.calls),
                     [stack EXCEPT ![Len(stack)].calls = Tail(@)])
    /\ UNCHANGED <<schema, phase, todo, validator, compiled, files>>

Compiled == Compiling /\ ~HasElement /\ Top.calls = <<>>

\* A composite inside of another is part of the other's header.
CompiledInline ==
    /\ Compiled
    /\ Top.node \notin Public
    /\ stack' = Front(stack)
    /\ UNCHANGED <<schema, phase, todo, validator, compiler>>

CannotWrite == WritesFail /\ Stop("failed")

\* Mutant: a header that cannot be written is passed over.
BugCompiledPublic ==
    /\ Compiled
    /\ Top.node \in Public
    /\ compiled' = compiled \cup {Top.node}
    /\ \/ WritesFail /\ UNCHANGED files
       \/ Write(Header(Top.node), {Header(n) : n \in deps[Len(deps)]})
    /\ deps' = IF Len(stack) = 1 THEN <<>> ELSE Front(deps)
    /\ stack' = Front(stack)
    /\ UNCHANGED <<schema, phase, todo, validator>>

CompiledPublic ==
    /\ Compiled
    /\ Top.node \in Public
    /\ \/ CannotWrite
       \/ /\ compiled' = compiled \cup {Top.node}
          /\ Write(Header(Top.node), {Header(n) : n \in deps[Len(deps)]})
          /\ deps' = IF Len(stack) = 1 THEN <<>> ELSE Front(deps)
          /\ stack' = Front(stack)
          /\ UNCHANGED <<schema, phase, todo, validator>>

TypesCompiled ==
    /\ phase = "types" /\ stack = <<>> /\ todo = {}
    /\ phase' = "tags"
    /\ UNCHANGED <<schema, todo, stack, validator, compiler>>

-----------------------------------------------------------------------------
(* Messages and the headers for all.                                       *)

\* Types' headers include it, too, before it exists.
SchemaHeader == <<"schema">>

WriteTags ==
    /\ phase = "tags"
    /\ \/ CannotWrite
       \/ /\ Write(SchemaHeader, {})
          /\ phase' = "messages"
          /\ todo' = Messages
          /\ UNCHANGED <<schema, stack, validator, compiled, deps>>

\* Mutant: only the types of fields are included.
BugMessageIncludes(m) ==
    {Header(f.type) : f \in {g \in Fields(m) : g.type # None}}

\* What fields depend on: the encodings they name as their type.
MessageIncludes(m) ==
    {Header(f.type) : f \in {g \in Fields(m) : g.type # None}}
    \cup {Header(n) : n \in Headers(m)}

\* Messages come in the schema's order; any order is allowed here.
WriteMessage ==
    /\ phase = "messages"
    /\ \E m \in todo :
           \/ CannotWrite
           \/ /\ Write(<<"messages", m>>, MessageIncludes(m))
              /\ todo' = todo \ {m}
              /\ UNCHANGED <<schema, phase, stack, validator, compiled, deps>>

MessagesCompiled ==
    /\ phase = "messages" /\ todo = {}
    /\ phase' = "top"
    /\ UNCHANGED <<schema, todo, stack, validator, compiler>>

TopHeader == <<"top">>

WriteTop ==
    /\ phase = "top"
    /\ \/ CannotWrite
       \/ /\ Write(TopHeader, DOMAIN files)
          /\ phase' = "done"
          /\ UNCHANGED <<schema, todo, stack, validator, compiled, deps>>

-----------------------------------------------------------------------------
Next ==
    \/ ValidateNext \/ FollowRef \/ RejectMissing \/ RejectCycle
    \/ ValidateElement \/ ReturnLeaf \/ ReturnComposite \/ ReturnRef
    \/ EncodingsValid
    \/ CompileNext \/ CompileElement \/ CompileCall
    \/ CompiledInline \/ CompiledPublic \/ TypesCompiled
    \/ WriteTags \/ WriteMessage \/ MessagesCompiled \/ WriteTop

\* One thread runs the program to its end.
Spec == Init /\ [][Next]_vars /\ WF_vars(Next)

-----------------------------------------------------------------------------
(* What the schema says, without any walk.                                 *)

\* All that is inside of an encoding, inline composites' elements included.
Inside(n) ==
    LET In[k \in 0 .. Cardinality(schema.nodes)] ==
            IF k = 0 THEN {n}
            ELSE In[k - 1] \cup UNION {Range(Elements(x)) : x \in In[k - 1]}
    IN  In[Cardinality(schema.nodes)]

Refers(n) == {Target(x) : x \in {y \in Inside(n) : Kind(y) = "ref"}}

\* Refs refer to something, and none of them comes back to where it is.
IsSound ==
    /\ \A n \in Public : None \notin Refers(n)
    /\ \A S \in (SUBSET Public) \ {{}} : \E n \in S : Refers(n) \cap S = {}

\* w[1] + ... + w[b].
SumUpTo(w, b) ==
    LET Sum[k \in 0 .. b] == IF k = 0 THEN 0 ELSE Sum[k - 1] + w[k]
    IN  Sum[b]

\* The bytes of a composite's elements: constants are not on the wire.
OnWire(n) ==
    [j \in DOMAIN Elements(n) |->
        IF IsConstantElement(Elements(n)[j]) THEN 0 ELSE size[Elements(n)[j]]]

\* The public encodings named in the code of an encoding's header: targets of
\* refs, and enums whose enumerators are the values of constants.
NamesOfElement(e) ==
    LET c == IF Kind(e) = "ref" THEN Target(e) ELSE e
    IN  ({Target(e)} \cup
         (IF Kind(c) = "constant" THEN {Target(c)} ELSE {})) \ {None}

NamesOfType(n) == UNION {NamesOfElement(e) : e \in Inside(n) \ {n}}

\* In a message a constant's value is an enumerator as well: of the field's
\* valueRef, or of that of its type.
NamesOfField(f) ==
    ({f.type, f.valueRef} \cup
     (IF f.type # None /\ Kind(f.type) = "constant"
      THEN {Target(f.type)} ELSE {})) \ {None}

NamesOfMessage(m) ==
    Headers(m) \cup UNION {NamesOfField(f) : f \in Fields(m)}

\* The headers one gets by including one.
Included(header) ==
    LET In[k \in 0 .. Cardinality(DOMAIN files)] ==
            IF k = 0 THEN {header}
            ELSE In[k - 1] \cup UNION {files[h] : h \in In[k - 1] \cap DOMAIN files}
    IN  In[Cardinality(DOMAIN files)]

-----------------------------------------------------------------------------
TypeOK ==
    /\ phase \in {"validate", "types", "tags", "messages", "top", "done",
                  "rejected", "failed", "assert"}
    /\ todo \subseteq Public \cup Messages
    /\ \A i \in DOMAIN stack :
           /\ stack[i].node \in schema.nodes
           /\ stack[i].next \in 1 .. Len(Elements(stack[i].node)) + 1
           /\ stack[i].offset \in Nat
           /\ stack[i].calls \in Seq(Public)
    /\ progress \in [Public -> {"new", "in_progress", "complete"}]
    /\ DOMAIN size \subseteq schema.nodes
    /\ compiled \subseteq Public
    /\ deps \in Seq(SUBSET Public)

\* Encodings are rejected exactly if a ref leads nowhere or back to where it
\* came from, in whatever order the schema's map of types is iterated, and
\* however they refer to each other no context is asked for too early or made
\* twice.
\* ("Context should be created only once", "Context doesn't exist")
RejectsExactly ==
    /\ phase = "rejected" => ~IsSound
    /\ phase \notin {"validate", "rejected"} => IsSound
    /\ phase # "assert"

\* A composite is as long as its elements together that are on the wire, a
\* ref as long as what it refers to.
SizesAddUp ==
    \A n \in DOMAIN size :
        CASE Kind(n) = "composite" ->
                 size[n] = SumUpTo(OnWire(n), Len(Elements(n)))
          [] Kind(n) = "ref" -> size[n] = size[Target(n)]
          [] OTHER -> size[n] = schema.width[n]

\* The header of an encoding is written once, after those it includes, so
\* that public_type is known wherever it is used; the set of dependencies at
\* the top of the stack is the one of the encoding being compiled.
IncludedHeadersExist ==
    /\ \A h \in DOMAIN files \ {TopHeader} : files[h] \subseteq DOMAIN files
    /\ \A n \in compiled : Header(n) \in DOMAIN files

\* The program never ends as if all was well without having written a header
\* for everything, all of them included by the top header.
CompleteAtTheEnd ==
    TopHeader \in DOMAIN files =>
        files[TopHeader] = {Header(n) : n \in Public} \cup {SchemaHeader}
                           \cup {<<"messages", m>> : m \in Messages}

\* "Each of those headers includes its type dependencies": including one
\* header is enough for all encodings its code names.
HeadersAreSelfContained ==
    \A h \in DOMAIN files :
        /\ h[1] = "types" =>
               {Header(n) : n \in NamesOfType(h[2])} \subseteq Included(h)
        /\ h[1] = "messages" =>
               {Header(n) : n \in NamesOfMessage(h[2])} \subseteq Included(h)

\* Both walks end for every schema, the compiler's, which has no guard
\* against cycles, because of the validator's.
Terminates == <>(phase \in {"done", "rejected", "failed", "assert"})
=============================================================================
