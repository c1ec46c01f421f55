-------------------------- MODULE MCEncodingGraph --------------------------
(***************************************************************************)
(* EncodingGraph on schemas with three public encodings: two that may be   *)
(* composites with up to two elements, refs in all directions, nested      *)
(* composites and constants among them, and an enum.                       *)
(***************************************************************************)
EXTENDS EncodingGraph

Leaf(kind, target) ==
    [kind |-> kind, target |-> target, width |-> 1, elements |-> <<>>]

Ref(target) == Leaf("ref", target)

Composite(elements) ==
    [kind |-> "composite", target |-> None, width |-> 0, elements |-> elements]

Enum == Leaf("enum", None)

RECURSIVE SubNodes(_, _)
SubNodes(path, t) ==
    {<<path, t>>} \cup
    UNION {SubNodes(Append(path, i), t.elements[i]) : i \in DOMAIN t.elements}

\* The schema with the encodings types, a function on names.
Schema(types, messages) ==
    LET nodes == UNION {SubNodes(<<n>>, types[n]) : n \in DOMAIN types}
        tree  == [p \in {x[1] : x \in nodes} |->
                     (CHOOSE x \in nodes : x[1] = p)[2]]
        name(n) == IF n = None THEN None ELSE <<n>>
    IN  [nodes    |-> DOMAIN tree,
         public   |-> {<<n>> : n \in DOMAIN types},
         kind     |-> [p \in DOMAIN tree |-> tree[p].kind],
         target   |-> [p \in DOMAIN tree |-> name(tree[p].target)],
         width    |-> [p \in DOMAIN tree |-> tree[p].width],
         elements |-> [p \in DOMAIN tree |->
                          [i \in DOMAIN tree[p].elements |-> Append(p, i)]],
         messages |-> messages]

Field(type, ref) == [type |-> type, valueRef |-> ref]

\* A field of every sort but those of ValueRefs.
AnyMessages ==
    (<<"M">> :> [fields  |-> <<Field(None, None), Field(<<"E">>, <<"E">>)>>,
                 headers |-> {<<"A">>}])
    @@
    (<<"N">> :> [fields  |-> <<Field(<<"B">>, None)>>, headers |-> {<<"A">>}])

Elements1 ==
    {Leaf("type", None), Leaf("constant", "E"), Ref("A"), Ref("B"), Ref("E"),
     Composite(<<Ref("B"), Leaf("constant", None)>>)}

\* One message, so that B is there only because it is a ref or a field.
SmallSchemas ==
    {Schema([n \in {"A", "B", "E"} |->
                CASE n = "A" -> Composite(a) [] n = "B" -> b [] n = "E" -> Enum],
            AnyMessages) :
        a \in {<<e>> : e \in Elements1}
                  \cup {<<e, Ref("B")>> : e \in Elements1}
                  \cup {<<Ref("B"), e>> : e \in Elements1} \cup {<<Ref(None)>>},
        b \in {Leaf("constant", None), Composite(<<>>)}
                  \cup {Composite(<<e>>) : e \in Elements1 \ {Ref("E")}}}

\* A message's constants take their values from an enum that is not the type
\* of a field: <field type="uint8" valueRef="E.x"/>, and a field whose type is
\* <type presence="constant" valueRef="E.x"/>.
ValueRefs ==
    {Schema([n \in {"A", "B", "E"} |->
                CASE n = "A" -> Composite(<<Leaf("type", None)>>)
                  [] n = "B" -> Leaf("constant", "E")
                  [] n = "E" -> Enum],
            <<"M">> :> [fields |-> <<f>>, headers |-> {<<"A">>}]) :
        f \in {Field(None, <<"E">>), Field(<<"B">>, None)}}
=============================================================================
