---------------------------- MODULE SchemaNames ----------------------------
(***************************************************************************)
(* names_generator: which classes keep the name of their entity and which  *)
(* get a mangled one.                                                      *)
(*                                                                         *)
(* A public encoding or a message that keeps its name is a class of        *)
(* namespace types or messages; otherwise the class is in detail::types or *)
(* detail::messages, where the encodings inside of composites, the groups  *)
(* and their entries always are, and the public name is an alias.          *)
(*                                                                         *)
(* Encodings and messages are dealt with alike: a kind says which.         *)
(***************************************************************************)
EXTENDS SchemaRules

CONSTANT
    Numbers  \* what mangled names end with, in the order of the attempts: "0",
             \* "1" and so on, as far as std::size_t goes

ASSUME NumbersAssumption == Numbers \in Seq(STRING) /\ IsInjective(Numbers)

VARIABLES
    named,    \* the nodes that have been dealt with: <<kind, tree, node>>
    mangled,  \* mangled_name of the contexts that have one, by node
    used,     \* mangled_type_names and mangled_message_names, by kind
    tagName   \* mangled_tag_types_name and mangled_tag_messages_name, or None

nameVars == <<named, mangled, used, tagName>>

Kinds == {"types", "messages"}

Trees(kind) == IF kind = "types" THEN Types ELSE Messages

-----------------------------------------------------------------------------
\* non_mangled_type_names and non_mangled_message_names.
Public(kind) == {RootName(Trees(kind)[t]) : t \in DOMAIN Trees(kind)}

\* The nodes that are classes of the generated code.
ClassKinds(kind) == IF kind = "types" THEN EncodingKinds ELSE {"message", "group"}

ClassNodes(kind) ==
    UNION {{kind} \X {t} \X NodesOf(Trees(kind)[t], ClassKinds(kind)) :
               t \in DOMAIN Trees(kind)}

NodeOf(n) == Trees(n[1])[n[2]][n[3]]
NameOf(n) == NodeOf(n).name
IsRoot(n) == n[3] = 1

\* get_member_names: the members of the class or tag of a node.
MemberNames(tree, i) ==
    LET n == tree[i]
    IN  IF n.kind # "type" THEN NamesOfChildren(tree, i)
        ELSE IF n.presence = "constant" \/ n.length # 1 THEN {}
        ELSE {<<"min", "value">>, <<"max", "value">>} \cup
             (IF n.presence = "required" THEN {} ELSE {<<"null", "value">>})

MembersIn(n) == MemberNames(Trees(n[1])[n[2]], n[3])

EntryName(group) == Append(group, "entry")

\* Mutant: the entries of groups are forgotten.
BugTakes(n, name) == {name}

\* What a node called name takes of the names in the detail namespace.
Takes(n, name) ==
    IF NodeOf(n).kind = "group" THEN {name, EntryName(name)} ELSE {name}

\* Mutant: an encoding inside of a composite gives way to a public one.
BugClashes(n) ==
    Takes(n, NameOf(n)) \cap
        (MembersIn(n) \cup IF IsRoot(n) THEN {} ELSE used[n[1]] \cup Public(n[1])) # {}

\* A class cannot be called like a member of it, nor, unless it is public, like
\* one already in the detail namespace.
Clashes(n) ==
    Takes(n, NameOf(n)) \cap
        (MembersIn(n) \cup IF IsRoot(n) THEN {} ELSE used[n[1]]) # {}

Mangled(name, k) == Append(name, Numbers[k])

\* make_mangled_name and make_mangled_group_info: the numbers that would do, of
\* which they take the first.
FreeNumbers(n) ==
    {k \in DOMAIN Numbers :
        Takes(n, Mangled(NameOf(n), k)) \cap
            (MembersIn(n) \cup used[n[1]] \cup Public(n[1])) = {}}

-----------------------------------------------------------------------------
NamesInit ==
    /\ named = {} /\ mangled = <<>>
    /\ used = [kind \in Kinds |-> {}]
    /\ tagName = [kind \in Kinds |-> None]

NamingStage(kind) == IF kind = "types" THEN "type names" ELSE "message names"

Unnamed(kind) == ClassNodes(kind) \ named

\* The first node in the order of the trees and, within one, of the document.
Turn(kind) ==
    {n \in Unnamed(kind) :
        \A o \in Unnamed(kind) : n[2] < o[2] \/ (n[2] = o[2] /\ n[3] <= o[3])}

\* A public name that is kept is not in the detail namespace and takes none
\* there.
KeepName(kind) ==
    /\ In(NamingStage(kind))
    /\ \E n \in Turn(kind) :
           /\ ~Clashes(n)
           /\ used' = IF IsRoot(n) THEN used
                      ELSE [used EXCEPT ![kind] = @ \cup Takes(n, NameOf(n))]
           /\ named' = named \cup {n}
    /\ UNCHANGED <<parserVars, mangled, tagName>>

\* make_mangled_name throws if it has no number left.
MangleName(kind) ==
    /\ In(NamingStage(kind))
    /\ \E n \in Turn(kind) :
           LET fresh == Mangled(NameOf(n), Min(FreeNumbers(n)))
           IN  /\ Clashes(n)
               /\ IF FreeNumbers(n) = {} THEN Fail /\ UNCHANGED nameVars
                  ELSE /\ mangled' = [o \in DOMAIN mangled \cup {n} |->
                                         IF o = n THEN fresh ELSE mangled[o]]
                       /\ used' = [used EXCEPT ![kind] = @ \cup Takes(n, fresh)]
                       /\ named' = named \cup {n}
                       /\ UNCHANGED <<parserVars, tagName>>

\* The end of generate_type_names and generate_message_names: the struct types
\* or messages cannot have a tag of its own name inside.
NamesDone(kind) ==
    LET numbers == {k \in DOMAIN Numbers : Mangled(<<kind>>, k) \notin Public(kind)}
    IN  /\ In(NamingStage(kind)) /\ Unnamed(kind) = {}
        /\ IF <<kind>> \in Public(kind) /\ numbers = {}
           THEN Fail /\ UNCHANGED tagName
           ELSE /\ tagName' = [tagName EXCEPT
                                  ![kind] = IF <<kind>> \in Public(kind)
                                            THEN Mangled(<<kind>>, Min(numbers)) ELSE None]
                /\ GoTo(IF kind = "types" THEN "message names" ELSE "type tags")
        /\ UNCHANGED <<named, mangled, used>>

NamesNext ==
    \E kind \in Kinds : KeepName(kind) \/ MangleName(kind) \/ NamesDone(kind)

-----------------------------------------------------------------------------
(* The namespaces of the generated code.                                   *)

Named == stage \notin {"parse", "types", "messages", "cpp", "type names", "message names"}

IsMangled(kind, t, i) == <<kind, t, i>> \in DOMAIN mangled

\* impl_name: the name of the class or tag of a node, where it is defined.
ImplName(n) == IF n \in DOMAIN mangled THEN mangled[n] ELSE NameOf(n)

\* part: a class, the entry of a group, or an alias of a class.
Class(scope, name, part, n) ==
    [scope |-> scope, name |-> name, part |-> part, node |-> n]

PublicClasses(kind) ==
    {Class(<<kind>>, NameOf(n), IF n \in DOMAIN mangled THEN "alias" ELSE "class", n) :
         n \in {<<kind, t, 1>> : t \in DOMAIN Trees(kind)}}

DetailClasses(kind) ==
    {Class(<<"detail", kind>>, ImplName(n), "class", n) :
         n \in {o \in ClassNodes(kind) : ~IsRoot(o) \/ o \in DOMAIN mangled}} \cup
    {Class(<<"detail", kind>>, EntryName(ImplName(n)), "entry", n) :
         n \in {o \in ClassNodes(kind) : NodeOf(o).kind = "group"}}

\* What stands in the four namespaces.
Classes == UNION {PublicClasses(kind) \cup DetailClasses(kind) : kind \in Kinds}

\* The members of a group are in the class of its entries.
MembersOf(class) ==
    IF \/ class.part = "alias"
       \/ class.part = "class" /\ NodeOf(class.node).kind = "group"
    THEN {} ELSE MembersIn(class.node)

\* In an accepted schema no two classes of a namespace have the same name,
\* whichever encodings, composites, messages and groups they come from, and
\* none has a member of its own name, which C++ takes for a constructor.
\* (the clash checks of names_generator)
ClassNamesDistinct ==
    Named =>
        /\ \A c, d \in Classes :
               c.scope = d.scope /\ c.name = d.name => c = d
        /\ \A c \in Classes : c.name \notin MembersOf(c)

\* Only a class that could not have had its own name gets another one: some
\* member of it, or another class of the namespace as it has come out, has
\* it; for a group, the name of its entry counts too.
\* ("keeping non-mangled (if possible) names", names_generator.hpp)
NamesKeptIfPossible ==
    Named =>
        \A n \in DOMAIN mangled :
            LET own == IF NodeOf(n).kind = "group" THEN {NameOf(n), EntryName(NameOf(n))}
                       ELSE {NameOf(n)}
                others == {c \in DetailClasses(n[1]) : c.node # n}
            IN  own \cap (MembersIn(n) \cup {c.name : c \in others}) # {}
=============================================================================
