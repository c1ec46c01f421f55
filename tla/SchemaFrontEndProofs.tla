------------------------ MODULE SchemaFrontEndProofs ------------------------
(***************************************************************************)
(* What the parser and the validators promise to the generators, for all   *)
(* schemas, however they are divided into files, and any order of their    *)
(* encodings; and what the names of the classes generated are.             *)
(***************************************************************************)
EXTENDS SchemaFrontEnd, SequenceTheorems, FiniteSetTheorems, WellFoundedInduction,
    TLAPS

-----------------------------------------------------------------------------
(* Sets of natural numbers.                                                *)

LessThan == {p \in Nat \X Nat : p[1] < p[2]}

LEMMA LessThanIsWellFounded == IsWellFoundedOn(LessThan, Nat)
<1>1. IsWellFoundedOn(OpToRel(<, Nat), Nat)
  BY NatLessThanWellFounded
<1>2. OpToRel(<, Nat) = LessThan
  BY DEF OpToRel, LessThan
<1> QED
  BY <1>1, <1>2

\* A set of natural numbers has a least element.
LEMMA LeastNatural ==
    ASSUME NEW T \in SUBSET Nat, T # {}
    PROVE  \E x \in T : \A y \in T : x <= y
<1>1. PICK x \in T : \A y \in T : <<y, x>> \notin LessThan
  BY LessThanIsWellFounded, WFMin, Zenon
<1>2. ASSUME NEW y \in T
      PROVE  x <= y
  <2>1. <<y, x>> \notin LessThan /\ x \in Nat /\ y \in Nat
    BY <1>1
  <2>2. y < x => <<y, x>> \in LessThan
    BY <2>1 DEF LessThan
  <2> QED
    BY <2>1, <2>2
<1> QED
  BY <1>2

-----------------------------------------------------------------------------
(* Encodings and references.                                               *)

LEMMA KeepsExists ==
    ASSUME schema' = schema, NEW x
    PROVE  /\ Exists(x)' <=> Exists(x)
           /\ Get(x)' = Get(x)
BY DEF Exists, Get, Types

LEMMA KeepsDangles ==
    ASSUME schema' = schema, NEW r
    PROVE  /\ Enumerators(r)' = Enumerators(r)
           /\ Dangles(r)' <=> Dangles(r)
           /\ Enumerator(r)' = Enumerator(r)
<1>1. Enumerators(r)' = Enumerators(r)
  BY DEF Enumerators, Types
<1>2. Dangles(r)' <=> Dangles(r)
  BY <1>1, KeepsExists DEF Dangles
<1>3. Enumerator(r)' = Enumerator(r)
  BY <1>1 DEF Enumerator, Types
<1> QED
  BY <1>1, <1>2, <1>3

LEMMA KeepsEncodings ==
    ASSUME schema' = schema
    PROVE  /\ \A r, p : RefFits(r, p)' <=> RefFits(r, p)
           /\ \A n : WrongConstant(n)' <=> WrongConstant(n)
           /\ \A n : WrongType(n)' <=> WrongType(n)
           /\ \A n : Underlying(n)' = Underlying(n)
           /\ \A tree, i : WrongNode(tree, i)' <=> WrongNode(tree, i)
           /\ \A t : WrongEncoding(t)' <=> WrongEncoding(t)
<1>1. ASSUME NEW r, NEW p
      PROVE  RefFits(r, p)' <=> RefFits(r, p)
  BY KeepsDangles, KeepsExists DEF RefFits
<1>2. ASSUME NEW n
      PROVE  WrongConstant(n)' <=> WrongConstant(n)
  BY <1>1, KeepsDangles DEF WrongConstant
<1>3. ASSUME NEW n
      PROVE  WrongType(n)' <=> WrongType(n)
  BY <1>2 DEF WrongType
<1>4. ASSUME NEW n
      PROVE  Underlying(n)' = Underlying(n)
  BY KeepsExists DEF Underlying
<1>5. ASSUME NEW tree, NEW i
      PROVE  WrongEnum(tree, i)' <=> WrongEnum(tree, i)
  BY <1>4 DEF WrongEnum
<1>6. ASSUME NEW tree, NEW i
      PROVE  WrongSet(tree, i)' <=> WrongSet(tree, i)
  BY <1>4 DEF WrongSet
<1>7. ASSUME NEW tree, NEW i
      PROVE  WrongNode(tree, i)' <=> WrongNode(tree, i)
  BY <1>3, <1>5, <1>6, KeepsExists DEF WrongNode
<1>8. ASSUME NEW t
      PROVE  WrongEncoding(t)' <=> WrongEncoding(t)
  BY <1>7 DEF WrongEncoding, Types
<1> QED
  BY <1>1, <1>2, <1>3, <1>4, <1>7, <1>8

LEMMA KeepsLevels ==
    ASSUME schema' = schema
    PROVE  /\ \A type, names : WrongHeader(type, names)' <=> WrongHeader(type, names)
           /\ \A type : WrongDataHeader(type)' <=> WrongDataHeader(type)
           /\ \A f : ActualPresence(f)' = ActualPresence(f)
           /\ \A f : WrongField(f)' <=> WrongField(f)
<1>1. ASSUME NEW tree, NEW name
      PROVE  HeaderElement(tree, name)' = HeaderElement(tree, name)
  BY KeepsExists DEF HeaderElement
<1>2. ASSUME NEW tree, NEW name
      PROVE  WrongHeaderElement(tree, name)' <=> WrongHeaderElement(tree, name)
  BY <1>1 DEF WrongHeaderElement
<1>3. ASSUME NEW type, NEW names
      PROVE  WrongHeader(type, names)' <=> WrongHeader(type, names)
  BY <1>2, KeepsExists DEF WrongHeader, Types
<1>4. ASSUME NEW type
      PROVE  WrongDataHeader(type)' <=> WrongDataHeader(type)
  BY <1>1, <1>3 DEF WrongDataHeader, Types
<1>5. ASSUME NEW f
      PROVE  ActualPresence(f)' = ActualPresence(f)
  BY KeepsExists DEF ActualPresence
<1>6. ASSUME NEW f
      PROVE  WrongConstantField(f)' <=> WrongConstantField(f)
  BY KeepsEncodings, KeepsExists, KeepsDangles DEF WrongConstantField, Types
<1>7. ASSUME NEW f
      PROVE  WrongField(f)' <=> WrongField(f)
  BY <1>5, <1>6, KeepsExists DEF WrongField
<1> QED
  BY <1>3, <1>4, <1>5, <1>7

-----------------------------------------------------------------------------
(* Names.                                                                  *)

LEMMA LowerTwice ==
    ASSUME NEW name
    PROVE  Lower(Lower(name)) = Lower(name)
<1> DEFINE low == [w \in DOMAIN name |->
                      IF name[w] \in DOMAIN LowerCase THEN LowerCase[name[w]] ELSE name[w]]
<1>1. DOMAIN low = DOMAIN name
  OBVIOUS
<1>2. ASSUME NEW w \in DOMAIN name
      PROVE  low[w] \notin DOMAIN LowerCase
  BY LowerCaseAssumption
<1>3. Lower(low) = low
  BY <1>1, <1>2 DEF Lower
<1> QED
  BY <1>3 DEF Lower

LEMMA FindLower ==
    ASSUME NEW types, NEW name
    PROVE  Find(types, Lower(name)) = Find(types, name)
<1> DEFINE SoNamed(low) == {t \in DOMAIN types : Lower(RootName(types[t])) = low}
<1>1. SoNamed(Lower(Lower(name))) = SoNamed(Lower(name))
  BY LowerTwice
<1>2. ASSUME NEW other
      PROVE  Find(types, other) =
                 IF SoNamed(Lower(other)) = {} THEN None
                 ELSE CHOOSE t \in SoNamed(Lower(other)) : TRUE
  BY Zenon DEF Find
<1> HIDE DEF SoNamed
<1> QED
  BY <1>1, <1>2

LEMMA HeaderOfLower ==
    ASSUME NEW name
    PROVE  /\ \A names : WrongHeader(Lower(name), names) <=> WrongHeader(name, names)
           /\ WrongDataHeader(Lower(name)) <=> WrongDataHeader(name)
<1>1. Find(Types, Lower(name)) = Find(Types, name)
  BY FindLower
<1>2. /\ Exists(Lower(name)) <=> Exists(name)
      /\ Get(Lower(name)) = Get(name)
  BY <1>1 DEF Exists, Get, Encoding
<1>3. ASSUME NEW names
      PROVE  WrongHeader(Lower(name), names) <=> WrongHeader(name, names)
  BY <1>1, <1>2 DEF WrongHeader
<1>4. WrongDataHeader(Lower(name)) <=> WrongDataHeader(name)
  BY <1>1, <1>3 DEF WrongDataHeader
<1> QED
  BY <1>3, <1>4

\* What Find returns is an encoding of that name.
LEMMA FoundHasName ==
    ASSUME NEW types, DOMAIN types \subseteq Int, NEW name, Find(types, name) # None
    PROVE  /\ Find(types, name) \in DOMAIN types
           /\ Lower(RootName(types[Find(types, name)])) = Lower(name)
BY NoneAssumption DEF Find

-----------------------------------------------------------------------------
(* Trees as the parser makes them.                                         *)

EncodingNodes == EncodingKinds \cup {"ref", "value", "choice", "unknown"}
LevelNodes    == MemberKinds \cup {"message", "unknown"}

TreesOf(roots, kinds) ==
    {tree \in NodeTrees :
        /\ tree[1].kind \in roots
        /\ \A i \in DOMAIN tree :
               /\ tree[i].kind \in kinds
               /\ tree[i].kind = "value" => tree[i].content # None}

EncodingTrees == TreesOf(EncodingKinds, EncodingNodes)
LevelTrees    == TreesOf({"message"}, LevelNodes)

\* Below a root are only nodes of the kinds that belong there.
LEMMA KindsBelow ==
    ASSUME NEW tree \in NodeTrees, NEW kinds, tree[1].kind \in kinds, "unknown" \in kinds,
           \A k \in kinds : KindsInside(k) \subseteq kinds
    PROVE  \A i \in DOMAIN tree : tree[i].kind \in kinds
<1> SUFFICES ASSUME {i \in DOMAIN tree : tree[i].kind \notin kinds} # {}
             PROVE  FALSE
  OBVIOUS
<1>1. /\ tree \in Seq(Nodes) /\ tree # <<>>
      /\ \A i \in 2 .. Len(tree) :
             /\ tree[i].up \in 1 .. i - 1
             /\ tree[i].kind \in KindsInside(tree[tree[i].up].kind) \cup {"unknown"}
  BY DEF NodeTrees
<1>2. DOMAIN tree = 1 .. Len(tree) /\ Len(tree) \in Nat
  BY <1>1
<1>3. PICK i \in {j \in DOMAIN tree : tree[j].kind \notin kinds} :
          \A j \in {j \in DOMAIN tree : tree[j].kind \notin kinds} : i <= j
  <2>1. {j \in DOMAIN tree : tree[j].kind \notin kinds} \in SUBSET Nat
    BY <1>2
  <2> QED
    BY <2>1, LeastNatural
<1>4. i \in 2 .. Len(tree)
  <2>1. i # 1
    BY <1>3
  <2> QED
    BY <1>2, <1>3, <2>1
<1> DEFINE p == tree[i].up
<1>5. p \in 1 .. i - 1 /\ tree[i].kind \in KindsInside(tree[p].kind) \cup {"unknown"}
  BY <1>1, <1>4
<1> HIDE DEF p
<1>6. p \in DOMAIN tree /\ ~(i <= p)
  BY <1>2, <1>4, <1>5
<1>7. tree[p].kind \in kinds
  BY <1>3, <1>6
<1> QED
  BY <1>3, <1>5, <1>7

LEMMA KindsClosed ==
    /\ \A k \in EncodingNodes : KindsInside(k) \subseteq EncodingNodes
    /\ \A k \in LevelNodes : KindsInside(k) \subseteq LevelNodes
BY DEF EncodingNodes, LevelNodes, EncodingKinds, MemberKinds, KindsInside

LEMMA ParsedNode ==
    ASSUME NEW n \in Nodes, NEW g \in Nat
    PROVE  /\ Parsed(n, g) \in Nodes
           /\ Parsed(n, g).kind = n.kind
           /\ Parsed(n, g).up = n.up
           /\ n.kind # "type" => Parsed(n, g).content = n.content
<1>1. CASE n.kind = "type"
  <2>1. Length(n, g) \in Nat \cup {None}
    BY DEF Length, Default, Nodes, Literals
  <2>2. Default(n.presence, "required") \in Words \cup {None}
    BY WordsAssumption DEF Default, Nodes
  <2>3. ParsedType(n, g) \in Nodes
    BY <2>1, <2>2 DEF ParsedType, Nodes
  <2>4. ParsedType(n, g).kind = n.kind /\ ParsedType(n, g).up = n.up
    BY DEF ParsedType, Nodes
  <2> QED
    BY <1>1, <2>3, <2>4 DEF Parsed
<1>2. CASE n.kind = "field"
  <2>1. Default(n.presence, "required") \in Words \cup {None}
    BY WordsAssumption DEF Default, Nodes
  <2>2. Parsed(n, g) = [n EXCEPT !.presence = Default(@, "required")]
    BY <1>2 DEF Parsed
  <2> QED
    BY <2>1, <2>2 DEF Nodes
<1>3. CASE n.kind = "group"
  <2>1. Parsed(n, g) = [n EXCEPT !.type = IF @ = <<>> THEN <<"groupSizeEncoding">> ELSE @]
    BY <1>3 DEF Parsed
  <2>2. <<"groupSizeEncoding">> \in Names
    BY WordsAssumption DEF Names
  <2> QED
    BY <2>1, <2>2 DEF Nodes
<1>4. CASE n.kind \notin {"type", "field", "group"}
  BY <1>4 DEF Parsed
<1> QED
  BY <1>1, <1>2, <1>3, <1>4

LEMMA ParsedTrees ==
    ASSUME NEW tree \in NodeTrees, ~Rejects(tree), NEW g \in Nat
    PROVE  /\ tree[1].kind \in EncodingKinds => ParsedTree(tree, g) \in EncodingTrees
           /\ tree[1].kind = "message" => ParsedTree(tree, g) \in LevelTrees
<1> DEFINE parsed == ParsedTree(tree, g)
<1>1. /\ tree \in Seq(Nodes) /\ tree # <<>> /\ tree[1].up = 0
      /\ \A i \in 2 .. Len(tree) :
             /\ tree[i].up \in 1 .. i - 1
             /\ tree[i].kind \in KindsInside(tree[tree[i].up].kind) \cup {"unknown"}
  BY DEF NodeTrees
<1>2. DOMAIN tree = 1 .. Len(tree) /\ Len(tree) \in Nat /\ 1 \in DOMAIN tree
  BY <1>1
<1>3. ASSUME NEW i \in DOMAIN tree
      PROVE  /\ parsed[i] \in Nodes
             /\ parsed[i].kind = tree[i].kind /\ parsed[i].up = tree[i].up
             /\ tree[i].kind = "value" => parsed[i].content # None
  <2>1. parsed[i] = Parsed(tree[i], g) /\ tree[i] \in Nodes
    BY <1>1 DEF ParsedTree
  <2>2. ~Malformed(tree[i])
    BY DEF Rejects
  <2>3. tree[i].kind = "value" => tree[i].content # None
    BY <2>2 DEF Malformed
  <2> QED
    BY <2>1, <2>3, ParsedNode
<1>4. parsed \in Seq(Nodes) /\ Len(parsed) = Len(tree) /\ DOMAIN parsed = DOMAIN tree
  <2>1. DOMAIN parsed = 1 .. Len(tree)
    BY <1>2 DEF ParsedTree
  <2>2. parsed = [i \in 1 .. Len(tree) |-> parsed[i]]
    BY <1>2 DEF ParsedTree
  <2> QED
    BY <1>2, <1>3, <2>1, <2>2, IsASeq
<1> HIDE DEF parsed
<1>5. parsed \in NodeTrees
  <2>1. parsed # <<>> /\ parsed[1].up = 0
    BY <1>1, <1>2, <1>3, <1>4
  <2>2. ASSUME NEW i \in 2 .. Len(tree)
        PROVE  /\ parsed[i].up \in 1 .. i - 1
               /\ parsed[i].kind \in KindsInside(parsed[parsed[i].up].kind) \cup {"unknown"}
    <3>1. i \in DOMAIN tree /\ tree[i].up \in 1 .. i - 1
      BY <1>1, <1>2
    <3>2. tree[i].up \in DOMAIN tree
      BY <1>2, <3>1
    <3> QED
      BY <1>1, <1>3, <3>1, <3>2
  <2> QED
    BY <1>4, <2>1, <2>2 DEF NodeTrees
<1>6. ASSUME tree[1].kind \in EncodingKinds
      PROVE  parsed \in EncodingTrees
  <2>1. \A i \in DOMAIN parsed : parsed[i].kind \in EncodingNodes
    <3>1. parsed[1].kind \in EncodingNodes /\ "unknown" \in EncodingNodes
      BY <1>2, <1>3, <1>6 DEF EncodingNodes
    <3> QED
      BY <1>5, <3>1, KindsClosed, KindsBelow
  <2> QED
    BY <1>2, <1>3, <1>4, <1>5, <1>6, <2>1 DEF EncodingTrees, TreesOf
<1>7. ASSUME tree[1].kind = "message"
      PROVE  parsed \in LevelTrees
  <2>1. \A i \in DOMAIN parsed : parsed[i].kind \in LevelNodes
    <3>1. parsed[1].kind \in LevelNodes /\ "unknown" \in LevelNodes
      BY <1>2, <1>3, <1>7 DEF LevelNodes
    <3> QED
      BY <1>5, <3>1, KindsClosed, KindsBelow
  <2> QED
    BY <1>2, <1>3, <1>4, <1>5, <1>7, <2>1 DEF LevelTrees, TreesOf
<1> QED
  BY <1>6, <1>7 DEF parsed

-----------------------------------------------------------------------------
(* The inductive invariant.                                                *)

\* No two messages have one name or id.
Unlike(messages) ==
    \A j, k \in DOMAIN messages : SameMessage(messages[j], messages[k]) => j = k

ParserRecords ==
    [items : Seq(Items), at : Nat \ {0},
     types : {S \in SUBSET EncodingTrees :
                  \A t, u \in S : SameType(t, u) => t = u},
     messages : {s \in Seq(LevelTrees) : Unlike(s)}]

\* What parsers have read is what the rules are about, and no two encodings
\* or messages have one name.
Reading ==
    /\ input \in Inputs
    /\ parsers \in Seq(ParserRecords)
    /\ DOMAIN schema = {"header", "types", "messages"}
    /\ DOMAIN Types \subseteq Int
    /\ \A t \in DOMAIN Types : Types[t] \in EncodingTrees
    /\ \A t, u \in DOMAIN Types : SameType(Types[t], Types[u]) => t = u
    /\ Messages \in Seq(LevelTrees)
    /\ Unlike(Messages)

RightType(t) == ~WrongEncoding(t) /\ ~Cyclic(Types, t)

\* The rules for levels, with no header validated before.
RightLevels(tree) ==
    /\ \A i \in DOMAIN tree : tree[i].kind # "unknown" => Symbolic(tree[i].name)
    /\ \A i \in NodesOf(tree, {"field"}) : ~WrongField(tree[i])
    /\ \A i \in NodesOf(tree, {"group"}) : ~WrongHeader(tree[i].type, GroupHeader)
    /\ \A i \in NodesOf(tree, {"data"}) : ~WrongDataHeader(tree[i].type)

\* What is remembered as valid is.
Remembered ==
    /\ next \in Nat
    /\ stage = "parse" =>
           validated = {} /\ groupHeaders = {} /\ dataHeaders = {} /\ next = 0
    /\ stage = "types" => next = 0
    /\ \A t \in DOMAIN Types : RootName(Types[t]) \in validated => RightType(t)
    /\ \A type \in groupHeaders : ~WrongHeader(type, GroupHeader)
    /\ \A type \in dataHeaders : ~WrongDataHeader(type)
    /\ next > 0 => ~WrongHeader(schema.header.type, MessageHeader)
    /\ \A m \in DOMAIN Messages : m < next => RightLevels(Messages[m])

\* What has passed a stage is right, what has failed in it is not.
TypesWrong == \E t \in DOMAIN Types : ~RightType(t)

LevelsWrong ==
    \/ WrongHeader(schema.header.type, MessageHeader)
    \/ \E m \in DOMAIN Messages : ~RightLevels(Messages[m])

Judged ==
    /\ stage = "types" /\ failed => TypesWrong
    /\ stage \notin {"parse", "types"} => ~TypesWrong
    /\ stage = "messages" /\ failed => LevelsWrong
    /\ stage \notin {"parse", "types", "messages"} => ~LevelsWrong

LEMMA JudgedIsVerdict ==
    ASSUME Judged, Reading
    PROVE  VerdictIgnoresOrder
<1>1. TypesWrong <=> \E t \in DOMAIN Types : WrongEncoding(t) \/ Cyclic(Types, t)
  BY DEF TypesWrong, RightType
<1>2. LevelsWrong <=>
          \/ WrongHeader(schema.header.type, MessageHeader)
          \/ \E m \in ToSet(Messages) :
                 \/ \E i \in DOMAIN m :
                        m[i].kind # "unknown" /\ ~Symbolic(m[i].name)
                 \/ \E i \in NodesOf(m, {"field"}) : WrongField(m[i])
                 \/ \E i \in NodesOf(m, {"group"}) :
                        WrongHeader(m[i].type, GroupHeader)
                 \/ \E i \in NodesOf(m, {"data"}) : WrongDataHeader(m[i].type)
  <2>1. ASSUME NEW tree
        PROVE  ~RightLevels(tree) <=>
                   \/ \E i \in DOMAIN tree :
                          tree[i].kind # "unknown" /\ ~Symbolic(tree[i].name)
                   \/ \E i \in NodesOf(tree, {"field"}) : WrongField(tree[i])
                   \/ \E i \in NodesOf(tree, {"group"}) :
                          WrongHeader(tree[i].type, GroupHeader)
                   \/ \E i \in NodesOf(tree, {"data"}) : WrongDataHeader(tree[i].type)
    BY DEF RightLevels
  <2>2. ToSet(Messages) = {Messages[m] : m \in DOMAIN Messages}
    BY DEF ToSet
  <2> QED
    BY <2>1, <2>2 DEF LevelsWrong
<1> QED
  BY <1>1, <1>2, Zenon DEF VerdictIgnoresOrder, Judged

-----------------------------------------------------------------------------
(* The parser.                                                             *)

LEMMA InputFile ==
    ASSUME Reading, NEW f \in DOMAIN input.files
    PROVE  /\ input.files[f].items \in Seq(Items)
           /\ Content(f) \in Seq(Items)
<1>1. IsInput(input)
  BY InputsAssumption DEF Reading
<1>2. input.files[f].items \in Seq(Items)
  BY <1>1 DEF IsInput, Files
<1>3. <<[element |-> "unknown"]>> \in Seq(Items)
  <2>1. [element |-> "unknown"] \in Items
    BY DEF Items
  <2> QED
    BY <2>1
<1> QED
  BY <1>2, <1>3 DEF Content, ContentOf

LEMMA OpenedParser ==
    ASSUME NEW items \in Seq(Items)
    PROVE  Opened(items) \in ParserRecords
<1>1. <<>> \in Seq(LevelTrees) /\ Unlike(<<>>)
  BY DEF Unlike
<1> QED
  BY <1>1 DEF Opened, ParserRecords

\* The innermost parser and the element it is at.
LEMMA InnermostParser ==
    ASSUME Reading, parsers # <<>>
    PROVE  /\ Len(parsers) \in Nat \ {0} /\ Len(parsers) \in DOMAIN parsers
           /\ Parser \in ParserRecords
           /\ Parser.items \in Seq(Items) /\ Parser.at \in Nat \ {0}
           /\ Parser.types \in SUBSET EncodingTrees
           /\ \A t, u \in Parser.types : SameType(t, u) => t = u
           /\ Parser.messages \in Seq(LevelTrees) /\ Unlike(Parser.messages)
<1>1. parsers \in Seq(ParserRecords)
  BY DEF Reading
<1>2. Len(parsers) \in Nat \ {0} /\ Len(parsers) \in DOMAIN parsers
  BY <1>1
<1>3. Parser \in ParserRecords
  BY <1>1, <1>2 DEF Parser
<1> QED
  BY <1>2, <1>3 DEF ParserRecords

LEMMA ItemOfKind ==
    ASSUME Reading, NEW element, At(element)
    PROVE  Item \in Items /\ Item.element = element
<1>1. parsers # <<>> /\ Parser.at <= Len(Parser.items) /\ Item.element = element
  BY DEF At, Item
<1>2. Parser.items \in Seq(Items) /\ Parser.at \in Nat \ {0}
  BY <1>1, InnermostParser
<1> QED
  BY <1>1, <1>2 DEF Item

LEMMA BecomesReading ==
    ASSUME Reading, parsers # <<>>, NEW p \in ParserRecords, Becomes(p)
    PROVE  Reading'
<1>1. parsers' \in Seq(ParserRecords)
  BY InnermostParser, ExceptSeq DEF Reading, Becomes
<1> QED
  BY <1>1 DEF Reading, Becomes, Types, Messages

LEMMA MoreTypes ==
    ASSUME NEW p \in ParserRecords, NEW T, p.types \cup T \in SUBSET EncodingTrees,
           \A t, u \in p.types \cup T : SameType(t, u) => t = u
    PROVE  [p EXCEPT !.types = @ \cup T] \in ParserRecords
BY DEF ParserRecords

\* Messages added to others none of which has the name or id of one of them.
LEMMA MessagesAdded ==
    ASSUME NEW s \in Seq(LevelTrees), Unlike(s), NEW more \in Seq(LevelTrees),
           CanAddMessages(s, more), Unlike(more)
    PROVE  s \o more \in Seq(LevelTrees) /\ Unlike(s \o more)
<1> DEFINE all == s \o more
<1>1. /\ all \in Seq(LevelTrees) /\ Len(all) = Len(s) + Len(more)
      /\ DOMAIN all = 1 .. Len(all) /\ DOMAIN s = 1 .. Len(s)
      /\ Len(s) \in Nat /\ Len(more) \in Nat
      /\ \A j \in 1 .. Len(s) : all[j] = s[j]
  OBVIOUS
<1>2. \A j \in DOMAIN all : \A k \in Len(s) + 1 .. Len(all) :
          j < k => ~SameMessage(all[j], all[k])
  BY DEF CanAddMessages
<1>3. \A m, n : SameMessage(m, n) <=> SameMessage(n, m)
  BY DEF SameMessage
<1>4. ASSUME NEW j \in DOMAIN all, NEW k \in DOMAIN all, j < k
      PROVE  ~SameMessage(all[j], all[k])
  <2> HIDE DEF all
  <2>1. CASE k \in 1 .. Len(s)
    <3>1. j \in DOMAIN s /\ k \in DOMAIN s /\ all[j] = s[j] /\ all[k] = s[k] /\ j # k
      BY <1>1, <1>4, <2>1
    <3> QED
      BY <3>1 DEF Unlike
  <2>2. CASE k \in Len(s) + 1 .. Len(all)
    BY <1>2, <1>4, <2>2
  <2> QED
    BY <1>1, <2>1, <2>2
<1> HIDE DEF all
<1>5. \A j, k \in DOMAIN all : j = k \/ j < k \/ k < j
  BY <1>1
<1>6. Unlike(all)
  BY <1>3, <1>4, <1>5 DEF Unlike
<1> QED
  BY <1>1, <1>6 DEF all

LEMMA PassedElement ==
    ASSUME Reading, parsers # <<>>
    PROVE  /\ Passed \in ParserRecords
           /\ Passed.types = Parser.types /\ Passed.messages = Parser.messages
<1>1. Parser \in ParserRecords
  BY InnermostParser
<1> QED
  BY <1>1 DEF Passed, ParserRecords

LEMMA FailKeepsReading ==
    ASSUME Reading, Fail
    PROVE  Reading'
BY DEF Reading, Fail, Types, Messages

\* Encodings added to others none of which has the name of one of them.
LEMMA TypesAdded ==
    ASSUME NEW S \in SUBSET EncodingTrees, \A t, u \in S : SameType(t, u) => t = u,
           NEW T \in SUBSET EncodingTrees, \A t, u \in T : SameType(t, u) => t = u,
           \A t \in S : \A u \in T : ~SameType(t, u)
    PROVE  /\ S \cup T \in SUBSET EncodingTrees
           /\ \A t, u \in S \cup T : SameType(t, u) => t = u
<1>1. \A t, u : SameType(t, u) <=> SameType(u, t)
  BY DEF SameType
<1> QED
  BY <1>1

LEMMA ParseTypesReading ==
    ASSUME Reading, ParseTypes
    PROVE  Reading'
<1>1. parsers # <<>> /\ At("types")
  BY DEF ParseTypes, At
<1> DEFINE trees == Item.trees
           read == {k \in DOMAIN trees : trees[k][1].kind \in EncodingKinds}
           parsed(g) == [k \in read |-> ParsedTree(trees[k], g)]
<1>2. trees \in Seq(NodeTrees)
  BY <1>1, ItemOfKind DEF Items
<1>3. PICK g \in GarbageLengths :
          IF (\E k \in read : Rejects(trees[k])) \/ ~CanAddTypes(Parser.types, parsed(g))
          THEN Fail
          ELSE Becomes([Passed EXCEPT !.types = @ \cup ToSet(parsed(g))])
  BY DEF ParseTypes
<1>4. CASE Fail
  BY <1>4, FailKeepsReading
<1>5. CASE /\ \A k \in read : ~Rejects(trees[k])
           /\ CanAddTypes(Parser.types, parsed(g))
           /\ Becomes([Passed EXCEPT !.types = @ \cup ToSet(parsed(g))])
  <2>1. g \in Nat
    BY GarbageAssumption
  <2>2. ASSUME NEW k \in read
        PROVE  parsed(g)[k] \in EncodingTrees
    <3>1. trees[k] \in NodeTrees /\ trees[k][1].kind \in EncodingKinds
      BY <1>2
    <3> QED
      BY <1>5, <2>1, <3>1, ParsedTrees
  <2> DEFINE more == parsed(g)
             T == ToSet(more)
  <2>3. DOMAIN more = read /\ \A k \in read : more[k] \in EncodingTrees
    BY <2>2
  <2>4. read \subseteq Int
    BY <1>2
  <2>5. CanAddTypes(Parser.types, more)
    BY <1>5
  <2>6. Becomes([Passed EXCEPT !.types = @ \cup T])
    BY <1>5
  <2> HIDE DEF read, more
  <2>7. T = {more[k] : k \in read}
    BY <2>3 DEF ToSet
  <2>8. /\ T \in SUBSET EncodingTrees
        /\ \A t \in Parser.types : \A u \in T : ~SameType(t, u)
    BY <2>3, <2>5, <2>7 DEF CanAddTypes
  <2>9. \A t, u \in T : SameType(t, u) => t = u
    <3>1. ASSUME NEW j \in read, NEW k \in read, SameType(more[j], more[k])
          PROVE  more[j] = more[k]
      <4>1. ~(j < k) /\ ~(k < j)
        BY <2>3, <2>5, <3>1 DEF CanAddTypes, SameType
      <4> QED
        BY <2>4, <4>1
    <3> QED
      BY <2>7, <3>1
  <2> HIDE DEF T
  <2>10. /\ Parser.types \cup T \in SUBSET EncodingTrees
         /\ \A t, u \in Parser.types \cup T : SameType(t, u) => t = u
    <3>1. /\ Parser.types \in SUBSET EncodingTrees
          /\ \A t, u \in Parser.types : SameType(t, u) => t = u
      BY <1>1, InnermostParser
    <3> QED
      BY <2>8, <2>9, <3>1, TypesAdded
  <2>11. [Passed EXCEPT !.types = @ \cup T] \in ParserRecords
    <3>1. Passed \in ParserRecords /\ Passed.types = Parser.types
      BY <1>1, PassedElement
    <3> QED
      BY <2>10, <3>1, MoreTypes
  <2> QED
    BY <1>1, <2>6, <2>11, BecomesReading
<1> QED
  BY <1>3, <1>4, <1>5

LEMMA ParseMessageReading ==
    ASSUME Reading, ParseMessage
    PROVE  Reading'
<1>1. parsers # <<>> /\ At("message")
  BY DEF ParseMessage, At
<1>2. Item.tree \in NodeTrees /\ Item.tree[1].kind = "message"
  BY <1>1, ItemOfKind DEF Items
<1> DEFINE message == ParsedTree(Item.tree, 0)
<1>3. CASE Fail
  BY <1>3, FailKeepsReading
<1>4. CASE /\ ~Rejects(Item.tree) /\ CanAddMessages(Parser.messages, <<message>>)
           /\ Becomes([Passed EXCEPT !.messages = Append(@, message)])
  <2>1. message \in LevelTrees
    BY <1>2, <1>4, ParsedTrees
  <2> HIDE DEF message
  <2>2. Passed \in ParserRecords /\ Parser.messages \in Seq(LevelTrees)
            /\ Passed.messages = Parser.messages /\ Unlike(Parser.messages)
    BY <1>1, PassedElement, InnermostParser
  <2>3. Append(Passed.messages, message) \in {s \in Seq(LevelTrees) : Unlike(s)}
    <3>1. <<message>> \in Seq(LevelTrees) /\ Unlike(<<message>>)
      BY <2>1 DEF Unlike
    <3>2. Append(Parser.messages, message) = Parser.messages \o <<message>>
      BY <2>1, <2>2
    <3> QED
      BY <1>4, <2>2, <3>1, <3>2, MessagesAdded
  <2>4. [Passed EXCEPT !.messages = Append(@, message)] \in ParserRecords
    BY <2>2, <2>3 DEF ParserRecords
  <2> QED
    BY <1>1, <1>4, <2>4, BecomesReading
<1> QED
  BY <1>3, <1>4 DEF ParseMessage

LEMMA OpenSchemaReading ==
    ASSUME Reading, OpenSchema
    PROVE  Reading'
<1>1. CASE Fail
  BY <1>1, FailKeepsReading
<1>2. CASE /\ Readable(input.main)
           /\ parsers' = <<Opened(input.files[input.main].items)>>
           /\ schema' = [schema EXCEPT !.header = input.files[input.main].header]
           /\ UNCHANGED <<input, stage, failed>>
  <2>1. Opened(input.files[input.main].items) \in ParserRecords
    BY <1>2, InputFile, OpenedParser DEF Readable
  <2>2. parsers' \in Seq(ParserRecords)
    BY <1>2, <2>1
  <2>3. /\ DOMAIN schema' = {"header", "types", "messages"}
        /\ schema'.types = schema.types /\ schema'.messages = schema.messages
    BY <1>2 DEF Reading
  <2> QED
    BY <1>2, <2>2, <2>3 DEF Reading, Types, Messages
<1> QED
  BY <1>1, <1>2 DEF OpenSchema

LEMMA ParseIncludeReading ==
    ASSUME Reading, ParseInclude
    PROVE  Reading'
<1>1. CASE Fail
  BY <1>1, FailKeepsReading
<1>2. CASE /\ Readable(Item.href)
           /\ parsers' = Append(parsers, Opened(Content(Item.href)))
           /\ UNCHANGED <<input, stage, failed, schema>>
  <2>1. Opened(Content(Item.href)) \in ParserRecords
    BY <1>2, InputFile, OpenedParser DEF Readable
  <2>2. parsers' \in Seq(ParserRecords)
    BY <1>2, <2>1 DEF Reading
  <2> QED
    BY <1>2, <2>2 DEF Reading, Types, Messages
<1> QED
  BY <1>1, <1>2 DEF ParseInclude

LEMMA EndIncludeReading ==
    ASSUME Reading, EndInclude
    PROVE  Reading'
<1> DEFINE k == Len(parsers) - 1
           parser == parsers[k]
<1>1. parsers \in Seq(ParserRecords) /\ Len(parsers) > 1
  BY DEF Reading, EndInclude
<1>2. Len(parsers) \in Nat /\ k \in Nat \ {0} /\ k \in DOMAIN parsers
  BY <1>1
<1>3. Parser \in ParserRecords /\ parser \in ParserRecords
  BY <1>1, <1>2 DEF Parser
<1>4. CASE Fail
  BY <1>4, FailKeepsReading
<1>5. CASE /\ CanMerge(parser, Parser)
           /\ parsers' = [Front(parsers) EXCEPT ![k] = Merged(parser, Parser)]
           /\ UNCHANGED <<input, stage, failed, schema>>
  <2>1. Merged(parser, Parser) \in ParserRecords
    <3> DEFINE S == parser.types
               T == Parser.types
    <3>1. /\ S \in SUBSET EncodingTrees /\ \A t, u \in S : SameType(t, u) => t = u
          /\ T \in SUBSET EncodingTrees /\ \A t, u \in T : SameType(t, u) => t = u
      BY <1>3 DEF ParserRecords
    <3>2. \A t \in S : \A u \in T : ~SameType(t, u)
      BY <1>5 DEF CanMerge
    <3>3. /\ S \cup T \in SUBSET EncodingTrees
          /\ \A t, u \in S \cup T : SameType(t, u) => t = u
      <4> HIDE DEF S, T
      <4> QED
        BY <3>1, <3>2, TypesAdded
    <3>4. parser.messages \o Parser.messages \in {s \in Seq(LevelTrees) : Unlike(s)}
      <4>1. /\ parser.messages \in Seq(LevelTrees) /\ Parser.messages \in Seq(LevelTrees)
            /\ Unlike(parser.messages) /\ Unlike(Parser.messages)
        BY <1>3 DEF ParserRecords
      <4>2. CanAddMessages(parser.messages, Parser.messages)
        BY <1>5 DEF CanMerge
      <4> HIDE DEF parser
      <4> QED
        BY <4>1, <4>2, MessagesAdded
    <3>5. parser.at + 1 \in Nat \ {0}
      BY <1>3 DEF ParserRecords
    <3> QED
      BY <1>3, <3>3, <3>4, <3>5 DEF Merged, ParserRecords
  <2>2. Front(parsers) \in Seq(ParserRecords) /\ k \in 1 .. Len(Front(parsers))
    <3>1. Front(parsers) = SubSeq(parsers, 1, k)
      BY DEF Front
    <3>2. SubSeq(parsers, 1, k) \in Seq(ParserRecords) /\ Len(SubSeq(parsers, 1, k)) = k
      BY <1>1, <1>2
    <3> QED
      BY <1>2, <3>1, <3>2
  <2> HIDE DEF k, parser
  <2>3. parsers' \in Seq(ParserRecords)
    BY <1>5, <2>1, <2>2, ExceptSeq
  <2> QED
    BY <1>5, <2>3 DEF Reading, Types, Messages
<1> QED
  BY <1>4, <1>5 DEF EndInclude

LEMMA EndSchemaReading ==
    ASSUME Reading, EndSchema
    PROVE  Reading'
<1>1. parsers # <<>>
  BY DEF EndSchema, AtEnd
<1> DEFINE S == Parser.types
           D == 1 .. Cardinality(S)
<1>2. PICK order \in SetToSeqs(S) :
          schema' = [schema EXCEPT !.types = order, !.messages = Parser.messages]
  BY DEF EndSchema
<1>3. order \in [D -> S] /\ \A i, j \in D : i # j => order[i] # order[j]
  BY DEF SetToSeqs
<1>4. /\ DOMAIN schema' = {"header", "types", "messages"}
      /\ schema'.types = order /\ schema'.messages = Parser.messages
  BY <1>2 DEF Reading
<1>5. /\ S \in SUBSET EncodingTrees /\ \A t, u \in S : SameType(t, u) => t = u
      /\ Parser.messages \in Seq(LevelTrees) /\ Unlike(Parser.messages)
  BY <1>1, InnermostParser
<1>6. DOMAIN order = D /\ D \subseteq Int
  BY <1>3
<1> HIDE DEF D, S
<1>7. /\ \A t \in D : order[t] \in EncodingTrees
      /\ \A t, u \in D : SameType(order[t], order[u]) => t = u
  BY <1>3, <1>5
<1>8. parsers' \in Seq(ParserRecords) /\ input' = input
  BY DEF EndSchema
<1> QED
  BY <1>4, <1>5, <1>6, <1>7, <1>8 DEF Reading, Types, Messages

LEMMA ParserReading ==
    ASSUME Reading, ParserNext
    PROVE  Reading'
<1>1. CASE ParseUnknown
  <2>1. parsers # <<>> /\ Passed \in ParserRecords /\ Becomes(Passed)
    BY <1>1, PassedElement DEF ParseUnknown, At
  <2> QED
    BY <2>1, BecomesReading
<1> QED
  BY <1>1, OpenSchemaReading, ParseTypesReading, ParseMessageReading,
     ParseIncludeReading, EndIncludeReading, EndSchemaReading
  DEF ParserNext

\* Only the parser changes what has been read.
LEMMA KeepsReading ==
    ASSUME Reading, UNCHANGED <<input, parsers, schema>>
    PROVE  Reading'
BY DEF Reading, Types, Messages

-----------------------------------------------------------------------------
(* The validators.                                                         *)

\* The verdicts are about the schema alone.
LEMMA KeepsVerdicts ==
    ASSUME schema' = schema
    PROVE  /\ \A t : RightType(t)' <=> RightType(t)
           /\ \A tree : RightLevels(tree)' <=> RightLevels(tree)
           /\ TypesWrong' <=> TypesWrong
           /\ LevelsWrong' <=> LevelsWrong
<1>1. ASSUME NEW t
      PROVE  RightType(t)' <=> RightType(t)
  BY KeepsEncodings DEF RightType, Types
<1>2. ASSUME NEW tree
      PROVE  RightLevels(tree)' <=> RightLevels(tree)
  BY KeepsLevels DEF RightLevels
<1>3. TypesWrong' <=> TypesWrong
  BY <1>1 DEF TypesWrong, Types
<1>4. LevelsWrong' <=> LevelsWrong
  BY <1>2, KeepsLevels DEF LevelsWrong, Messages
<1> QED
  BY <1>1, <1>2, <1>3, <1>4

LEMMA KeepsRemembered ==
    ASSUME Remembered, UNCHANGED <<ruleVars, schema>>,
           stage' \in {"parse", "types"} => stage' = stage
    PROVE  Remembered'
BY KeepsVerdicts, KeepsLevels DEF Remembered, ruleVars, Types, Messages

LEMMA KeepsJudged ==
    ASSUME Judged, UNCHANGED <<schema, stage, failed>>
    PROVE  Judged'
BY KeepsVerdicts DEF Judged

LEMMA ParserJudges ==
    ASSUME Reading, Remembered, Judged, ParserNext, UNCHANGED ruleVars
    PROVE  Remembered' /\ Judged'
<1>1. /\ stage = "parse" /\ stage' \in {"parse", "types"}
      /\ stage' = "types" => ~failed'
  <2>1. CASE OpenSchema
    BY <2>1 DEF OpenSchema, In, Fail
  <2>2. CASE ParseTypes
    BY <2>2 DEF ParseTypes, At, In, Fail, Becomes
  <2>3. CASE ParseMessage
    BY <2>3 DEF ParseMessage, At, In, Fail, Becomes
  <2>4. CASE ParseInclude
    BY <2>4 DEF ParseInclude, At, In, Fail
  <2>5. CASE ParseUnknown
    BY <2>5 DEF ParseUnknown, At, In, Becomes
  <2>6. CASE EndInclude
    BY <2>6 DEF EndInclude, AtEnd, In, Fail
  <2>7. CASE EndSchema
    BY <2>7 DEF EndSchema, AtEnd, In
  <2> QED
    BY <2>1, <2>2, <2>3, <2>4, <2>5, <2>6, <2>7 DEF ParserNext
<1>2. validated' = {} /\ groupHeaders' = {} /\ dataHeaders' = {} /\ next' = 0
  BY <1>1 DEF Remembered, ruleVars
<1>3. \A m \in DOMAIN Messages' : ~(m < 0)
  <2>1. Messages' \in Seq(LevelTrees)
    BY ParserReading DEF Reading
  <2> QED
    BY <2>1
<1> QED
  BY <1>1, <1>2, <1>3 DEF Remembered, Judged

LEMMA TypeOfName ==
    ASSUME Reading, NEW t \in DOMAIN Types, NEW u \in DOMAIN Types,
           RootName(Types[t]) = RootName(Types[u])
    PROVE  t = u
BY DEF Reading, SameType

LEMMA ValidateTypeJudges ==
    ASSUME Reading, Remembered, Judged, ValidateType
    PROVE  Remembered' /\ Judged'
<1> DEFINE first == CHOOSE t \in Unvalidated : \A u \in Unvalidated : t <= u
<1>1. Visited(first) \subseteq DOMAIN Types
  BY DEF Visited, Unvalidated
<1>2. stage = "types" /\ ~failed /\ next = 0
  BY DEF ValidateType, In, Remembered
<1>3. CASE (\E t \in Visited(first) : WrongEncoding(t) \/ Cyclic(Types, t))
               /\ Fail /\ UNCHANGED ruleVars
  <2>1. TypesWrong
    BY <1>1, <1>3 DEF TypesWrong, RightType
  <2>2. schema' = schema /\ stage' = stage /\ failed'
    BY <1>3 DEF Fail
  <2>3. TypesWrong'
    BY <2>1, <2>2, KeepsVerdicts
  <2> QED
    BY <1>2, <1>3, <2>2, <2>3, KeepsRemembered DEF Judged
<1>4. CASE /\ \A t \in Visited(first) : ~(WrongEncoding(t) \/ Cyclic(Types, t))
           /\ validated' = validated \cup {RootName(Types[t]) : t \in Visited(first)}
           /\ UNCHANGED <<parserVars, groupHeaders, dataHeaders, next>>
  <2>1. schema' = schema /\ stage' = stage /\ failed' = failed
    BY <1>4 DEF parserVars
  <2>2. ASSUME NEW t \in DOMAIN Types, RootName(Types[t]) \in validated'
        PROVE  RightType(t)
    <3>1. CASE RootName(Types[t]) \in validated
      BY <3>1 DEF Remembered
    <3>2. CASE RootName(Types[t]) \in {RootName(Types[u]) : u \in Visited(first)}
      <4>1. PICK u \in Visited(first) : RootName(Types[t]) = RootName(Types[u])
        BY <3>2
      <4>2. t = u
        BY <1>1, <4>1, TypeOfName
      <4> QED
        BY <1>4, <4>1, <4>2 DEF RightType
    <3> QED
      BY <1>4, <2>2, <3>1, <3>2
  <2>3. \A t \in DOMAIN Types' : RootName(Types[t])' \in validated' => RightType(t)'
    BY <2>1, <2>2, KeepsVerdicts DEF Types
  <2>4. Remembered'
    BY <1>2, <1>4, <2>1, <2>3, KeepsVerdicts, KeepsLevels DEF Remembered, Messages, Types
  <2> QED
    BY <2>1, <2>4, KeepsJudged
<1> QED
  BY <1>3, <1>4 DEF ValidateType

LEMMA TypesValidJudges ==
    ASSUME Reading, Remembered, Judged, TypesValid
    PROVE  Remembered' /\ Judged'
<1>1. /\ stage = "types" /\ ~failed /\ stage' = "messages" /\ ~failed'
      /\ schema' = schema /\ UNCHANGED ruleVars
  BY DEF TypesValid, In, GoTo
<1>2. \A t \in DOMAIN Types : RootName(Types[t]) \in validated
  BY DEF TypesValid, Unvalidated
<1>3. ~TypesWrong
  BY <1>2 DEF Remembered, TypesWrong
<1> QED
  BY <1>1, <1>3, KeepsVerdicts, KeepsRemembered DEF Judged

LEMMA ValidateMessageHeaderJudges ==
    ASSUME Reading, Remembered, Judged, ValidateMessageHeader
    PROVE  Remembered' /\ Judged'
<1>1. stage = "messages" /\ ~failed /\ next = 0
  BY DEF ValidateMessageHeader, In
<1>2. CASE WrongHeader(schema.header.type, MessageHeader) /\ Fail /\ UNCHANGED ruleVars
  <2>1. schema' = schema /\ stage' = stage /\ failed' /\ LevelsWrong
    BY <1>2 DEF Fail, LevelsWrong
  <2> QED
    BY <1>1, <1>2, <2>1, KeepsVerdicts, KeepsRemembered DEF Judged
<1>3. CASE /\ ~WrongHeader(schema.header.type, MessageHeader)
           /\ next' = 1 /\ UNCHANGED <<parserVars, validated, groupHeaders, dataHeaders>>
  <2>1. schema' = schema /\ stage' = stage /\ failed' = failed
    BY <1>3 DEF parserVars
  <2>2. \A m \in DOMAIN Messages : ~(m < 1)
    BY DEF Reading
  <2>3. Remembered'
    BY <1>1, <1>3, <2>1, <2>2, KeepsVerdicts, KeepsLevels DEF Remembered, Messages, Types
  <2> QED
    BY <2>1, <2>3, KeepsJudged
<1> QED
  BY <1>2, <1>3 DEF ValidateMessageHeader

\* Headers validated before make no difference to the verdict on a message.
LEMMA MessageJudged ==
    ASSUME Remembered, NEW tree \in LevelTrees
    PROVE  /\ WrongMessage(tree) <=> ~RightLevels(tree)
           /\ RightLevels(tree) =>
                  /\ \A type \in HeadersUsed(tree, "group") : ~WrongHeader(type, GroupHeader)
                  /\ \A type \in HeadersUsed(tree, "data") : ~WrongDataHeader(type)
<1> DEFINE groups == HeadersUsed(tree, "group")
           datas == HeadersUsed(tree, "data")
<1>1. (\E i \in NodesOf(tree, MemberKinds \cup {"message"}) : ~Symbolic(tree[i].name))
          <=> \E i \in DOMAIN tree : tree[i].kind # "unknown" /\ ~Symbolic(tree[i].name)
  <2>1. \A i \in DOMAIN tree : tree[i].kind \in LevelNodes
    BY DEF LevelTrees, TreesOf
  <2>2. \A i \in DOMAIN tree :
            tree[i].kind # "unknown" <=> tree[i].kind \in MemberKinds \cup {"message"}
    BY <2>1 DEF LevelNodes, MemberKinds
  <2> QED
    BY <2>2 DEF NodesOf
<1>2. (\A type \in groups : ~WrongHeader(type, GroupHeader)) <=>
          \A i \in NodesOf(tree, {"group"}) : ~WrongHeader(tree[i].type, GroupHeader)
  BY HeaderOfLower DEF HeadersUsed
<1>3. (\A type \in datas : ~WrongDataHeader(type)) <=>
          \A i \in NodesOf(tree, {"data"}) : ~WrongDataHeader(tree[i].type)
  BY HeaderOfLower DEF HeadersUsed
<1> HIDE DEF groups, datas
<1>4. (\E type \in groups \ groupHeaders : WrongHeader(type, GroupHeader)) <=>
          \E type \in groups : WrongHeader(type, GroupHeader)
  BY DEF Remembered
<1>5. (\E type \in datas \ dataHeaders : WrongDataHeader(type)) <=>
          \E type \in datas : WrongDataHeader(type)
  BY DEF Remembered
<1>6. WrongMessage(tree) <=>
          \/ \E i \in NodesOf(tree, MemberKinds \cup {"message"}) : ~Symbolic(tree[i].name)
          \/ \E i \in NodesOf(tree, {"field"}) : WrongField(tree[i])
          \/ \E type \in groups \ groupHeaders : WrongHeader(type, GroupHeader)
          \/ \E type \in datas \ dataHeaders : WrongDataHeader(type)
  BY DEF WrongMessage, UncheckedGroups, UncheckedData, groups, datas
<1>7. RightLevels(tree) <=>
          /\ ~\E i \in DOMAIN tree : tree[i].kind # "unknown" /\ ~Symbolic(tree[i].name)
          /\ ~\E i \in NodesOf(tree, {"field"}) : WrongField(tree[i])
          /\ \A i \in NodesOf(tree, {"group"}) : ~WrongHeader(tree[i].type, GroupHeader)
          /\ \A i \in NodesOf(tree, {"data"}) : ~WrongDataHeader(tree[i].type)
  BY DEF RightLevels
<1>8. /\ \A type \in groups : RightLevels(tree) => ~WrongHeader(type, GroupHeader)
      /\ \A type \in datas : RightLevels(tree) => ~WrongDataHeader(type)
  BY <1>2, <1>3, <1>7
<1> QED
  BY <1>1, <1>2, <1>3, <1>4, <1>5, <1>6, <1>7, <1>8, Zenon DEF groups, datas

LEMMA ValidateMessageJudges ==
    ASSUME Reading, Remembered, Judged, ValidateMessage
    PROVE  Remembered' /\ Judged'
<1> DEFINE m == Messages[next]
<1>1. stage = "messages" /\ ~failed /\ next \in DOMAIN Messages
  BY DEF ValidateMessage, In
<1>2. m \in LevelTrees
  BY <1>1 DEF Reading
<1>3. CASE WrongMessage(m) /\ Fail /\ UNCHANGED ruleVars
  <2>1. schema' = schema /\ stage' = stage /\ failed'
    BY <1>3 DEF Fail
  <2>2. LevelsWrong
    BY <1>1, <1>2, <1>3, MessageJudged DEF LevelsWrong
  <2> QED
    BY <1>1, <1>3, <2>1, <2>2, KeepsVerdicts, KeepsRemembered DEF Judged
<1>4. CASE /\ ~WrongMessage(m)
           /\ groupHeaders' = groupHeaders \cup HeadersUsed(m, "group")
           /\ dataHeaders' = dataHeaders \cup HeadersUsed(m, "data")
           /\ next' = next + 1
           /\ UNCHANGED <<parserVars, validated>>
  <2>1. schema' = schema /\ stage' = stage /\ failed' = failed
    BY <1>4 DEF parserVars
  <2>2. /\ RightLevels(m)
        /\ \A type \in HeadersUsed(m, "group") : ~WrongHeader(type, GroupHeader)
        /\ \A type \in HeadersUsed(m, "data") : ~WrongDataHeader(type)
    BY <1>2, <1>4, MessageJudged
  <2> DEFINE groups == HeadersUsed(m, "group")
             datas == HeadersUsed(m, "data")
  <2>3. next \in Nat /\ next' \in Nat /\ next > 0
    <3>1. next \in Nat /\ next \in 1 .. Len(Messages)
      BY <1>1 DEF Reading, Remembered
    <3> QED
      BY <1>4, <3>1
  <2>4. ASSUME NEW k \in DOMAIN Messages, k < next'
        PROVE  RightLevels(Messages[k])
    <3>1. k \in Nat
      BY DEF Reading
    <3>2. k < next \/ k = next
      BY <1>4, <2>3, <2>4, <3>1
    <3> QED
      BY <2>2, <3>2 DEF Remembered
  <2>5. ~WrongHeader(schema.header.type, MessageHeader)
    BY <2>3 DEF Remembered
  <2>6. /\ \A type \in groupHeaders' : ~WrongHeader(type, GroupHeader)
        /\ \A type \in dataHeaders' : ~WrongDataHeader(type)
    BY <1>4, <2>2 DEF Remembered
  <2>7. Remembered'
    <3>1. /\ \A k \in DOMAIN Messages' : k < next' => RightLevels(Messages[k])'
          /\ \A t \in DOMAIN Types' : RootName(Types[t])' \in validated' => RightType(t)'
      BY <1>4, <2>1, <2>4, KeepsVerdicts DEF Messages, Types, Remembered
    <3>2. /\ \A type \in groupHeaders' : ~WrongHeader(type, GroupHeader)'
          /\ \A type \in dataHeaders' : ~WrongDataHeader(type)'
          /\ ~WrongHeader(schema.header.type, MessageHeader)'
      BY <2>1, <2>5, <2>6, KeepsLevels
    <3> QED
      BY <1>1, <2>1, <2>3, <3>1, <3>2 DEF Remembered
  <2> QED
    BY <2>1, <2>7, KeepsJudged
<1> QED
  BY <1>3, <1>4 DEF ValidateMessage

LEMMA MessagesValidJudges ==
    ASSUME Reading, Remembered, Judged, MessagesValid
    PROVE  Remembered' /\ Judged'
<1>1. /\ stage = "messages" /\ ~failed /\ stage' = "cpp" /\ ~failed'
      /\ schema' = schema /\ UNCHANGED ruleVars
  BY DEF MessagesValid, In, GoTo
<1>2. next > 0 /\ \A m \in DOMAIN Messages : m < next
  <2>1. next \in Nat /\ Messages \in Seq(LevelTrees) /\ next > Len(Messages)
    BY DEF Reading, Remembered, MessagesValid
  <2> QED
    BY <2>1
<1>3. ~LevelsWrong
  BY <1>2 DEF Remembered, LevelsWrong
<1>4. ~TypesWrong
  BY <1>1 DEF Judged
<1> QED
  BY <1>1, <1>3, <1>4, KeepsVerdicts, KeepsRemembered DEF Judged

LEMMA RulesJudge ==
    ASSUME Reading, Remembered, Judged, RulesNext
    PROVE  Reading' /\ Remembered' /\ Judged'
<1>1. ASSUME ValidateCppNames
      PROVE  Remembered' /\ Judged'
  <2>1. /\ stage = "cpp" /\ stage' \in {"cpp", "type names"}
        /\ schema' = schema /\ UNCHANGED ruleVars
    BY <1>1 DEF ValidateCppNames, In, Fail, GoTo
  <2> QED
    BY <2>1, KeepsVerdicts, KeepsRemembered DEF Judged
<1>2. UNCHANGED <<input, parsers, schema>>
  BY DEF RulesNext, ValidateType, TypesValid, ValidateMessageHeader, ValidateMessage,
         MessagesValid, ValidateCppNames, Fail, GoTo, parserVars
<1> QED
  BY <1>1, <1>2, KeepsReading, ValidateTypeJudges, TypesValidJudges,
     ValidateMessageHeaderJudges, ValidateMessageJudges, MessagesValidJudges
  DEF RulesNext

-----------------------------------------------------------------------------
(* The generators.                                                         *)

\* In stages behind the validators.
Passing(s) == s \notin {"parse", "types", "messages"}

LEMMA LaterSteps ==
    ASSUME Reading, Remembered, Judged, UNCHANGED <<input, parsers, schema, ruleVars>>,
           Passing(stage), Passing(stage')
    PROVE  Reading' /\ Remembered' /\ Judged'
BY KeepsReading, KeepsRemembered, KeepsVerdicts DEF Judged, Passing

LEMMA KeepsCounts ==
    ASSUME schema' = schema
    PROVE  WithoutCount' = WithoutCount
<1>1. ASSUME NEW type
      PROVE  CountIsRef(type)' <=> CountIsRef(type)
  BY DEF CountIsRef, Types
<1> QED
  BY <1>1 DEF WithoutCount, Messages

\* A type that is right.
LEMMA TypeIsRight ==
    ASSUME Reading, ~TypesWrong, NEW t \in DOMAIN Types, NEW i \in DOMAIN Types[t],
           Types[t][i].kind = "type"
    PROVE  ~WrongType(Types[t][i])
BY DEF TypesWrong, RightType, WrongEncoding, WrongNode

\* Only encodings have types inside.
LEMMA WhereTypesAre ==
    ASSUME Reading, NEW tree \in AllTrees, NEW i \in DOMAIN tree, tree[i].kind = "type"
    PROVE  \E t \in DOMAIN Types : tree = Types[t]
<1>1. CASE tree \in ToSet(Messages)
  <2>1. tree \in LevelTrees
    BY <1>1 DEF Reading, ToSet
  <2> QED
    BY <2>1 DEF LevelTrees, TreesOf, LevelNodes, MemberKinds
<1>2. CASE tree \in ToSet(Types)
  BY <1>2 DEF ToSet
<1> QED
  BY <1>1, <1>2 DEF AllTrees

LEMMA NeverTooLong ==
    ASSUME Reading, ~TypesWrong, NEW tree \in AllTrees, NEW i \in DOMAIN tree
    PROVE  ~TooLong(tree[i])
<1> SUFFICES ASSUME TooLong(tree[i])
             PROVE  FALSE
  OBVIOUS
<1> DEFINE n == tree[i]
<1>1. /\ n.kind = "type" /\ n.presence = "constant" /\ n.type = Char
      /\ n.valueRef = None /\ n.content # None /\ n.length < n.content.size
  BY DEF TooLong
<1>2. ~WrongType(n)
  <2>1. PICK t \in DOMAIN Types : tree = Types[t]
    BY <1>1, WhereTypesAre
  <2> QED
    BY <1>1, <2>1, TypeIsRight
<1> HIDE DEF n
<1>3. n.type \in Primitive
  BY <1>2 DEF WrongType
<1>4. ~WrongContent(n)
  BY <1>1, <1>2, <1>3 DEF WrongType, WrongConstant
<1> QED
  BY <1>1, <1>4 DEF WrongContent

LEMMA CompileFails ==
    ASSUME Reading, Judged, Compile, Fail
    PROVE  WithoutCount # {}
<1>1. stage = "constants" /\ ~failed /\ failed'
  BY DEF Compile, Fail, In
<1>2. ~TypesWrong
  BY <1>1 DEF Judged
<1>3. ~\E tree \in AllTrees : \E i \in DOMAIN tree : TooLong(tree[i])
  BY <1>2, NeverTooLong
<1> QED
  BY <1>1, <1>3 DEF Compile, GoTo

\* A step of names_generator.
LEMMA NamesStep ==
    ASSUME NamesNext
    PROVE  /\ UNCHANGED <<input, parsers, schema>>
           /\ stage \in {"type names", "message names"} /\ ~failed
           /\ \/ stage' \in {"type names", "message names"}
              \/ stage' = "type tags" /\ ~failed'
<1>1. PICK kind \in Kinds : KeepName(kind) \/ MangleName(kind) \/ NamesDone(kind)
  BY DEF NamesNext
<1>2. NamingStage(kind) \in {"type names", "message names"}
  BY DEF NamingStage
<1>3. CASE KeepName(kind)
  BY <1>2, <1>3 DEF KeepName, In, parserVars
<1>4. CASE MangleName(kind)
  BY <1>2, <1>4 DEF MangleName, In, Fail, parserVars
<1>5. CASE NamesDone(kind)
  BY <1>2, <1>5 DEF NamesDone, In, Fail, GoTo
<1> QED
  BY <1>1, <1>3, <1>4, <1>5

LEMMA ErrorsStep ==
    ASSUME Reading, Judged, ErrorsBeforeOutput, Next
    PROVE  ErrorsBeforeOutput'
<1>1. CASE ParserNext
  <2>1. stage' \in {"parse", "types"}
    <3>1. CASE OpenSchema
      BY <3>1 DEF OpenSchema, In, Fail
    <3>2. CASE ParseTypes
      BY <3>2 DEF ParseTypes, At, In, Fail, Becomes
    <3>3. CASE ParseMessage
      BY <3>3 DEF ParseMessage, At, In, Fail, Becomes
    <3>4. CASE ParseInclude
      BY <3>4 DEF ParseInclude, At, In, Fail
    <3>5. CASE ParseUnknown
      BY <3>5 DEF ParseUnknown, At, In, Becomes
    <3>6. CASE EndInclude
      BY <3>6 DEF EndInclude, AtEnd, In, Fail
    <3>7. CASE EndSchema
      BY <3>7 DEF EndSchema, AtEnd, In
    <3> QED
      BY <1>1, <3>1, <3>2, <3>3, <3>4, <3>5, <3>6, <3>7 DEF ParserNext
  <2> QED
    BY <2>1 DEF ErrorsBeforeOutput
<1>2. CASE RulesNext
  <2>1. \/ stage' \in {"types", "messages", "cpp"}
        \/ ~failed'
    BY <1>2 DEF RulesNext, ValidateType, TypesValid, ValidateMessageHeader,
       ValidateMessage, MessagesValid, ValidateCppNames, Fail, GoTo, In, parserVars
  <2> QED
    BY <2>1 DEF ErrorsBeforeOutput
<1>3. CASE NamesNext
  BY <1>3, NamesStep DEF ErrorsBeforeOutput
<1>6. CASE TagsNext
  <2>1. ~failed'
    BY <1>6 DEF TagsNext, TagType, TypesTagged, TagMessage,
       MessagesTagged, GoTo, In, parserVars
  <2> QED
    BY <2>1 DEF ErrorsBeforeOutput
<1>4. CASE Compile
  <2>1. CASE Fail
    <3>1. schema' = schema /\ stage' = stage /\ stage = "constants"
      BY <1>4, <2>1 DEF Fail, Compile, In
    <3> QED
      BY <1>4, <2>1, <3>1, CompileFails, KeepsCounts DEF ErrorsBeforeOutput
  <2>2. CASE GoTo("done")
    <3>1. ~failed'
      BY <1>4, <2>2 DEF Compile, GoTo, In
    <3> QED
      BY <3>1 DEF ErrorsBeforeOutput
  <2> QED
    BY <1>4, <2>1, <2>2 DEF Compile
<1>5. CASE Ended
  BY <1>5, KeepsCounts DEF Ended, vars, parserVars, ErrorsBeforeOutput
<1> QED
  BY <1>1, <1>2, <1>3, <1>4, <1>5, <1>6 DEF Next

-----------------------------------------------------------------------------
(* The constants.                                                          *)

\* What ConstantsHaveValues says of one constant, given whether there is a
\* short string.
Good(c, short) ==
    /\ c # Undefined
    /\ c # MistypedNull =>
           /\ c.type \in Integral /\ c.value \in {"number", "null"} =>
                  c.number \in IntegerRange(c.type)
           /\ c.value = "string" => c.type = <<"array">>
           /\ c.type = <<"array">> => c.value = "string" \/ short

LEMMA ArrayIsNoPrimitive == <<"array">> \notin Primitive
BY DEF Primitive, Integral, Floats, Char

LEMMA GoodNumber ==
    ASSUME NEW prim \in Primitive, NEW number, NEW short,
           prim \in Integral => number \in IntegerRange(prim)
    PROVE  Good(Constant(prim, "number", number), short)
BY ArrayIsNoPrimitive DEF Good, Constant, Undefined

\* A number that fits into an integral type is in its range.
LEMMA FitsInRange ==
    ASSUME NEW literal, NEW prim \in Integral, Fits(literal, prim)
    PROVE  literal.number # None /\ literal.number \in IntegerRange(prim)
<1>1. prim \notin Floats
  BY DEF Integral, Floats, Char
<1> QED
  BY <1>1 DEF Fits

LEMMA Ranges ==
    ASSUME NEW prim \in Integral
    PROVE  /\ Lowest(prim) \in Int /\ Highest(prim) \in Int
           /\ Lowest(prim) <= 0 /\ 127 <= Highest(prim)
<1>1. CASE prim = Char \/ prim = <<"int8">>
  BY <1>1 DEF Lowest, Highest, Unsigned, Char
<1>2. CASE prim = <<"uint8">>
  BY <1>2 DEF Lowest, Highest, Unsigned, Char
<1>3. CASE prim = <<"int16">>
  BY <1>3 DEF Lowest, Highest, Unsigned, Char
<1>4. CASE prim = <<"uint16">>
  BY <1>4 DEF Lowest, Highest, Unsigned, Char
<1> QED
  BY <1>1, <1>2, <1>3, <1>4 DEF Integral

LEMMA DigitInRange ==
    ASSUME NEW prim \in Integral, NEW x \in 48 .. 57
    PROVE  x \in IntegerRange(prim)
<1>1. x \in Int /\ 48 <= x /\ x <= 57
  OBVIOUS
<1> QED
  BY <1>1, Ranges DEF IntegerRange

\* Characters are in the range of char.
LEMMA CodeInRange ==
    ASSUME NEW literal \in Literals
    PROVE  literal.code \in IntegerRange(Char)
BY DEF Literals

LEMMA NullInRange ==
    ASSUME NEW prim \in Integral, prim # <<"int16">>
    PROVE  BuiltInNull(prim) \in IntegerRange(prim)
<1>1. CASE prim = Char
  <2>1. BuiltInNull(prim) = 0
    BY <1>1 DEF BuiltInNull, Char
  <2> QED
    BY <2>1, Ranges DEF IntegerRange
<1>2. CASE prim = <<"int8">>
  <2>1. BuiltInNull(prim) = -128 /\ Lowest(prim) = -128
    BY <1>2 DEF BuiltInNull, Lowest, Char, Unsigned
  <2> QED
    BY <2>1, Ranges DEF IntegerRange
<1>3. CASE prim = <<"uint8">>
  <2>1. BuiltInNull(prim) = 255 /\ Highest(prim) = 255
    BY <1>3 DEF BuiltInNull, Highest, Char
  <2> QED
    BY <2>1, Ranges DEF IntegerRange
<1>4. CASE prim = <<"uint16">>
  <2>1. BuiltInNull(prim) = 65535 /\ Highest(prim) = 65535
    BY <1>4 DEF BuiltInNull, Highest, Char
  <2> QED
    BY <2>1, Ranges DEF IntegerRange
<1> QED
  BY <1>1, <1>2, <1>3, <1>4 DEF Integral

LEMMA GoodNull ==
    ASSUME NEW n, ~WrongType(n), HasNull(n), NEW short
    PROVE  Good(NullConstant(n), short)
<1> DEFINE number == IF n.null = None THEN BuiltInNull(n.type) ELSE n.null.number
<1>2. n.presence = "optional" /\ n.length = 1 /\ n.type \in Integral
  BY DEF HasNull
<1>3. n.null # None => Fits(n.null, n.type)
  BY <1>2 DEF WrongType, WrongLimits, Primitive
<1>4. NullConstant(n) = Constant(n.type, "null", number)
  BY DEF NullConstant
<1>5. n.type # <<"array">>
  BY <1>2, ArrayIsNoPrimitive DEF Primitive
<1>6. number \in IntegerRange(n.type) \/ NullConstant(n) = MistypedNull
  <2>1. CASE n.null # None
    BY <1>2, <1>3, <2>1, FitsInRange
  <2>2. CASE n.null = None /\ n.type = <<"int16">>
    BY <2>2 DEF NullConstant, MistypedNull, Constant
  <2>3. CASE n.null = None /\ n.type # <<"int16">>
    BY <1>2, <2>3, NullInRange
  <2> QED
    BY <2>1, <2>2, <2>3
<1> HIDE DEF number
<1>7. /\ Constant(n.type, "null", number) # Undefined
      /\ Constant(n.type, "null", number).type = n.type
      /\ Constant(n.type, "null", number).value = "null"
      /\ Constant(n.type, "null", number).number = number
  BY DEF Constant, Undefined
<1> QED
  BY <1>4, <1>5, <1>6, <1>7 DEF Good

LEMMA NodesOfTypes ==
    ASSUME Reading, NEW t \in DOMAIN Types
    PROVE  /\ 1 \in DOMAIN Types[t]
           /\ Types[t][1].kind \in EncodingKinds
           /\ \A i \in DOMAIN Types[t] :
                  /\ Types[t][i] \in Nodes
                  /\ Types[t][i].kind = "value" => Types[t][i].content # None
<1> DEFINE tree == Types[t]
<1>1. tree \in EncodingTrees
  BY DEF Reading
<1> HIDE DEF tree
<1>2. tree \in Seq(Nodes) /\ tree # <<>>
  BY <1>1 DEF EncodingTrees, TreesOf, NodeTrees
<1>3. 1 \in DOMAIN tree /\ \A i \in DOMAIN tree : tree[i] \in Nodes
  BY <1>2
<1>4. /\ tree[1].kind \in EncodingKinds
      /\ \A i \in DOMAIN tree : tree[i].kind = "value" => tree[i].content # None
  BY <1>1 DEF EncodingTrees, TreesOf
<1> QED
  BY <1>3, <1>4 DEF tree

LEMMA WhereItIs ==
    ASSUME Reading, NEW name, Exists(name)
    PROVE  Find(Types, name) \in DOMAIN Types /\ Get(name) = Types[Find(Types, name)][1]
<1>1. DOMAIN Types \subseteq Int
  BY DEF Reading
<1> QED
  BY <1>1, FoundHasName DEF Exists, Get, Encoding

\* An enumerator is a value of the primitive type its enum is encoded as.
LEMMA EnumeratorFits ==
    ASSUME Reading, ~TypesWrong, NEW ref, ~Dangles(ref)
    PROVE  /\ Enumerator(ref).content \in Literals
           /\ Underlying(Get(ref.enum)) \in Integral
           /\ Underlying(Get(ref.enum)) = Char => Enumerator(ref).content.size = 1
           /\ Underlying(Get(ref.enum)) # Char =>
                  Fits(Enumerator(ref).content, Underlying(Get(ref.enum)))
<1> DEFINE t == Find(Types, ref.enum)
           tree == Types[t]
           i == CHOOSE k \in Enumerators(ref) : TRUE
           prim == Underlying(Get(ref.enum))
<1>1. t \in DOMAIN Types /\ Get(ref.enum) = tree[1] /\ tree[1].kind = "enum"
  BY WhereItIs DEF Dangles
<1>2. i \in ChildNodes(tree, 1) /\ Enumerator(ref) = tree[i]
  BY DEF Dangles, Enumerators, Enumerator
<1>3. i \in DOMAIN tree /\ tree[i].kind = "value"
  <2>1. KindsInside("enum") = {"value"}
    BY DEF KindsInside
  <2> QED
    BY <1>1, <1>2, <2>1 DEF ChildNodes
<1>4. tree[i] \in Nodes /\ tree[i].content # None /\ 1 \in DOMAIN tree
  BY <1>1, <1>3, NodesOfTypes
<1>5. tree[i].content \in Literals
  BY <1>4 DEF Nodes
<1>6. ~WrongEnum(tree, 1)
  <2>1. ~WrongEncoding(t)
    BY <1>1 DEF TypesWrong, RightType
  <2> QED
    BY <1>1, <1>4, <2>1 DEF WrongEncoding, WrongNode
<1>7. prim \in Integral /\ ~WrongValue(tree[i], prim)
  BY <1>1, <1>2, <1>6 DEF WrongEnum
<1> HIDE DEF t, tree, i, prim
<1>8. /\ prim = Char => tree[i].content.size = 1
      /\ prim # Char => Fits(tree[i].content, prim)
  BY <1>7 DEF WrongValue
<1> QED
  BY <1>2, <1>5, <1>7, <1>8 DEF prim

LEMMA DigitOfLiteral ==
    ASSUME NEW l \in Literals, l.size = 1, l.number # None
    PROVE  l.code \in 48 .. 57
BY DEF Literals

\* A value ref that fits is generated as a number that fits.
LEMMA GoodRef ==
    ASSUME Reading, ~TypesWrong, NEW ref, ref # None, ~Dangles(ref),
           NEW prim \in Primitive, RefFits(ref, prim), NEW short
    PROVE  Good(RefValue(prim, ref), short)
<1> DEFINE literal == Enumerator(ref).content
           enum == Get(ref.enum)
<1>1. /\ literal \in Literals
      /\ Underlying(enum) \in Integral
      /\ Underlying(enum) = Char => literal.size = 1
  BY EnumeratorFits
<1>2. IF enum.type = Char THEN Fits([literal EXCEPT !.number = literal.code], prim)
      ELSE Fits(literal, prim)
  BY DEF RefFits
<1>3. NumberOf(ref) = IF Underlying(enum) = Char THEN literal.code ELSE literal.number
  BY DEF NumberOf
<1>4. enum.type = Char => Underlying(enum) = Char
  BY DEF Underlying, Primitive, Integral
<1> HIDE DEF literal, enum
<1>5. prim \in Integral => NumberOf(ref) \in IntegerRange(prim)
  <2> SUFFICES ASSUME prim \in Integral
               PROVE  NumberOf(ref) \in IntegerRange(prim)
    OBVIOUS
  <2>1. CASE enum.type = Char
    <3>1. [literal EXCEPT !.number = literal.code].number = literal.code
      BY <1>1 DEF Literals
    <3> QED
      BY <1>2, <1>3, <1>4, <2>1, <3>1, FitsInRange
  <2>2. CASE enum.type # Char /\ Underlying(enum) = Char
    <3>1. literal.number # None
      BY <1>2, <2>2, FitsInRange
    <3> QED
      BY <1>1, <1>3, <2>2, <3>1, DigitOfLiteral, DigitInRange
  <2>3. CASE Underlying(enum) # Char
    BY <1>2, <1>3, <1>4, <2>3, FitsInRange
  <2> QED
    BY <2>1, <2>2, <2>3
<1>6. RefValue(prim, ref) = Constant(prim, "number", NumberOf(ref))
  BY DEF RefValue
<1> QED
  BY <1>5, <1>6, GoodNumber

\* The constants of types that are constant and right.
LEMMA GoodType ==
    ASSUME Reading, ~TypesWrong, NEW n \in Nodes, n.kind = "type", ~WrongType(n),
           n.presence = "constant", NEW short, ShortString(n) => short
    PROVE  Good(TypeConstant(n), short)
<1> DEFINE type == IF n.length # 1 THEN <<"array">> ELSE n.type
<1>1. n.type \in Primitive /\ ~WrongConstant(n)
  BY DEF WrongType
<1>2. (n.valueRef = None) # (n.content = None)
  BY <1>1 DEF WrongConstant
<1>3. CASE n.valueRef # None
  <2>1. ~Dangles(n.valueRef) /\ RefFits(n.valueRef, n.type) /\ n.length = 1
    BY <1>1, <1>3 DEF WrongConstant
  <2>2. TypeConstant(n) = RefValue(n.type, n.valueRef)
    BY <1>3, <2>1 DEF TypeConstant
  <2> QED
    BY <1>1, <1>3, <2>1, <2>2, GoodRef
<1>4. CASE n.valueRef = None /\ n.type = Char
  <2>1. n.content # None /\ ~(n.length < n.content.size)
    BY <1>1, <1>2, <1>4 DEF WrongConstant, WrongContent
  <2>2. n.content.size \in Nat /\ n.content.size > 0
    BY <2>1 DEF Nodes, Literals
  <2>3. TypeConstant(n) = CharConstant(n, type)
    BY <1>4, <2>1 DEF TypeConstant
  <2>4. Char \notin {<<"array">>}
    BY DEF Char
  <2>5. CASE n.content.size > 1
    <3>1. n.length # 1
      BY <2>1, <2>2, <2>5
    <3>2. TypeConstant(n) = Constant(<<"array">>, "string", None)
      BY <2>3, <2>5, <3>1 DEF CharConstant
    <3> HIDE DEF type
    <3> QED
      BY <3>2, ArrayIsNoPrimitive DEF Good, Constant, Undefined, Primitive
  <2>6. CASE ~(n.content.size > 1)
    <3>1. TypeConstant(n) = Constant(type, "character", n.content.code)
      BY <2>3, <2>6 DEF CharConstant
    <3>2. n.content.size = 1
      BY <2>2, <2>6
    <3>3. type = <<"array">> => short
      BY <1>4, <2>1, <2>4, <3>2 DEF ShortString
    <3> HIDE DEF type
    <3> QED
      BY <3>1, <3>3 DEF Good, Constant, Undefined
  <2> QED
    BY <2>5, <2>6
<1>5. CASE n.valueRef = None /\ n.type # Char
  <2>1. n.content # None /\ Fits(n.content, n.type) /\ n.length = 1
    BY <1>1, <1>2, <1>5 DEF WrongConstant, WrongContent
  <2>2. TypeConstant(n) = Constant(n.type, "number", n.content.number)
    BY <1>5, <2>1 DEF TypeConstant
  <2>3. n.type \in Integral => n.content.number \in IntegerRange(n.type)
    BY <2>1, FitsInRange
  <2> QED
    BY <1>1, <2>2, <2>3, GoodNumber
<1> QED
  BY <1>3, <1>4, <1>5

\* Fields that are constant and right.
LEMMA GoodField ==
    ASSUME Reading, ~TypesWrong, NEW f, ~WrongField(f), ActualPresence(f) = "constant",
           NEW short, \A t \in DOMAIN Types : \A i \in DOMAIN Types[t] :
                          ShortString(Types[t][i]) => short
    PROVE  Good(FieldConstant(f), short)
<1>1. ~WrongConstantField(f)
  BY DEF WrongField
<1>2. CASE f.type \in Primitive
  <2>1. f.valueRef # None /\ ~Dangles(f.valueRef) /\ RefFits(f.valueRef, f.type)
    BY <1>1, <1>2 DEF WrongConstantField
  <2>2. FieldConstant(f) = RefValue(f.type, f.valueRef)
    BY <1>2 DEF FieldConstant
  <2> QED
    BY <1>2, <2>1, <2>2, GoodRef
<1>3. CASE f.type \notin Primitive
  <2> DEFINE t == Find(Types, f.type)
             n == Get(f.type)
  <2>1. t \in DOMAIN Types /\ n = Types[t][1]
    BY <1>3, WhereItIs DEF WrongField
  <2>2. n \in Nodes /\ n.kind \in EncodingKinds /\ 1 \in DOMAIN Types[t]
    BY <2>1, NodesOfTypes
  <2>3. PresenceAs(n, f) = "constant"
    BY <1>3 DEF ActualPresence
  <2>4. CASE n.kind = "type"
    <3>1. n.presence = "constant"
      BY <2>3, <2>4 DEF PresenceAs
    <3>2. ~WrongType(n) /\ (ShortString(n) => short)
      BY <2>1, <2>2, <2>4, TypeIsRight
    <3>3. FieldConstant(f) = TypeConstant(n)
      BY <1>3, <2>4 DEF FieldConstant
    <3> HIDE DEF n
    <3> QED
      BY <2>2, <2>4, <3>1, <3>2, <3>3, GoodType
  <2>5. CASE n.kind = "enum"
    <3>1. /\ f.valueRef # None /\ ~Dangles(f.valueRef)
          /\ Lower(f.type) = Lower(RootName(Types[Find(Types, f.valueRef.enum)]))
      BY <1>1, <1>3, <2>5 DEF WrongConstantField
    <3>2. Get(f.valueRef.enum) = n
      <4> DEFINE u == Find(Types, f.valueRef.enum)
      <4>1. u \in DOMAIN Types /\ Get(f.valueRef.enum) = Types[u][1]
        BY <3>1, WhereItIs DEF Dangles
      <4>2. Lower(RootName(Types[t])) = Lower(f.type)
        BY <1>3, FoundHasName DEF WrongField, Exists, Reading
      <4>3. t = u
        BY <2>1, <3>1, <4>1, <4>2 DEF Reading, SameType
      <4> QED
        BY <2>1, <4>1, <4>3
    <3> DEFINE prim == Underlying(n)
               literal == Enumerator(f.valueRef).content
    <3>3. /\ literal \in Literals /\ prim \in Integral
          /\ prim # Char => Fits(literal, prim)
      BY <3>1, <3>2, EnumeratorFits
    <3>4. FieldConstant(f) = RefValue(prim, f.valueRef)
      BY <1>3, <2>5 DEF FieldConstant
    <3>5. NumberOf(f.valueRef) = IF prim = Char THEN literal.code ELSE literal.number
      BY <3>2 DEF NumberOf
    <3> HIDE DEF n, prim, literal
    <3>6. NumberOf(f.valueRef) \in IntegerRange(prim)
      BY <3>3, <3>5, CodeInRange, FitsInRange
    <3>7. RefValue(prim, f.valueRef) = Constant(prim, "number", NumberOf(f.valueRef))
      BY <3>1 DEF RefValue
    <3>8. prim \in Primitive
      BY <3>3 DEF Primitive
    <3> QED
      BY <3>4, <3>6, <3>7, <3>8, GoodNumber
  <2>6. n.kind # "composite"
    BY <1>1, <1>3 DEF WrongConstantField
  <2>7. n.kind # "set"
    BY <2>3 DEF PresenceAs
  <2> QED
    BY <2>2, <2>4, <2>5, <2>6, <2>7 DEF EncodingKinds
<1> QED
  BY <1>2, <1>3

\* There is a string of one character that is declared as longer.
Short == \E tree \in AllTrees : \E i \in DOMAIN tree : ShortString(tree[i])

LEMMA GoodConstants ==
    ASSUME Reading, ~TypesWrong, ~LevelsWrong, NEW tree \in AllTrees,
           NEW c \in ConstantsOf(tree)
    PROVE  Good(c, Short)
<1>1. \A t \in DOMAIN Types : \A i \in DOMAIN Types[t] :
          ShortString(Types[t][i]) => Short
  BY DEF Short, AllTrees, ToSet
<1>2. ASSUME NEW i \in DOMAIN tree, tree[i].kind = "type"
      PROVE  /\ tree[i] \in Nodes
             /\ ~WrongType(tree[i])
             /\ ShortString(tree[i]) => Short
  <2>1. PICK t \in DOMAIN Types : tree = Types[t]
    BY <1>2, WhereTypesAre
  <2> QED
    BY <1>1, <1>2, <2>1, NodesOfTypes, TypeIsRight
<1>3. ASSUME NEW i \in DOMAIN tree, tree[i].kind = "field"
      PROVE  ~WrongField(tree[i])
  <2>1. tree \notin EncodingTrees
    BY <1>3 DEF EncodingTrees, TreesOf, EncodingNodes, EncodingKinds
  <2>2. PICK m \in DOMAIN Messages : tree = Messages[m]
    BY <2>1 DEF AllTrees, ToSet, Reading
  <2>3. RightLevels(tree)
    BY <2>2 DEF LevelsWrong
  <2> QED
    BY <1>3, <2>3 DEF RightLevels, NodesOf
<1> HIDE DEF Short
<1>4. ASSUME NEW i \in NodesOf(tree, {"type"}), HasNull(tree[i]), c = NullConstant(tree[i])
      PROVE  Good(c, Short)
  <2>1. i \in DOMAIN tree /\ tree[i].kind = "type"
    BY <1>4 DEF NodesOf
  <2> QED
    BY <1>2, <1>4, <2>1, GoodNull
<1>5. ASSUME NEW i \in NodesOf(tree, {"type"}), tree[i].presence = "constant",
             c = TypeConstant(tree[i])
      PROVE  Good(c, Short)
  <2>1. i \in DOMAIN tree /\ tree[i].kind = "type"
    BY <1>5 DEF NodesOf
  <2> QED
    BY <1>2, <1>5, <2>1, GoodType
<1>6. ASSUME NEW i \in NodesOf(tree, {"field"}), ActualPresence(tree[i]) = "constant",
             c = FieldConstant(tree[i])
      PROVE  Good(c, Short)
  <2>1. i \in DOMAIN tree /\ tree[i].kind = "field"
    BY <1>6 DEF NodesOf
  <2> QED
    BY <1>1, <1>3, <1>6, <2>1, GoodField
<1> QED
  BY <1>4, <1>5, <1>6 DEF ConstantsOf

LEMMA GoodIsInvariant ==
    (\A c \in constants : Good(c, Short)) => ConstantsHaveValues
BY DEF Good, Short, ConstantsHaveValues

\* Constants are generated at the end, when nothing is read any more.
ConstantsLast == stage # "done" => constants = {}

LEMMA CompileConstants ==
    ASSUME Reading, Judged, ConstantsLast, Compile
    PROVE  ConstantsLast' /\ (\A c \in constants : Good(c, Short))'
<1>1. stage = "constants" /\ schema' = schema /\ constants = {}
  BY DEF Compile, In, Fail, GoTo, ConstantsLast
<1>2. Short' <=> Short
  <2>1. AllTrees' = AllTrees
    BY <1>1 DEF AllTrees, Types, Messages
  <2> QED
    BY <2>1 DEF Short
<1>3. CASE Fail /\ UNCHANGED constants
  BY <1>1, <1>3 DEF Fail, ConstantsLast
<1>4. CASE /\ constants' = UNION {ConstantsOf(tree) : tree \in AllTrees}
           /\ GoTo("done")
  <2>1. ~TypesWrong /\ ~LevelsWrong
    BY <1>1 DEF Judged
  <2>2. ASSUME NEW c \in constants'
        PROVE  Good(c, Short)
    BY <1>4, <2>1, <2>2, GoodConstants
  <2>3. stage' = "done"
    BY <1>4 DEF GoTo
  <2> QED
    BY <1>2, <2>2, <2>3 DEF ConstantsLast
<1> QED
  BY <1>3, <1>4 DEF Compile

-----------------------------------------------------------------------------
(* The names.                                                              *)

Letters == Words \cup {Numbers[k] : k \in DOMAIN Numbers} \cup {"entry"}

InDetail(n) == ~IsRoot(n) \/ n \in DOMAIN mangled

Taken(n) == Takes(n, ImplName(n))

\* The nodes of a kind whose names are in its detail namespace so far.
NamedInDetail(kind) == {n \in named : n[1] = kind /\ InDetail(n)}

\* What names_generator maintains: its sets are what the detail namespaces
\* hold, in which no two nodes have taken the same name, nor one of a member;
\* and something is in the way of every name that has been given up.
NamesRight ==
    /\ used = [kind \in Kinds |-> used[kind]]
    /\ named \subseteq ClassNodes("types") \cup ClassNodes("messages")
    /\ DOMAIN mangled \subseteq named
    /\ \A n \in DOMAIN mangled : mangled[n] \in Seq(Letters)
    /\ \A kind \in Kinds : used[kind] = UNION {Taken(n) : n \in NamedInDetail(kind)}
    /\ \A kind \in Kinds : \A n, o \in NamedInDetail(kind) :
           n # o => Taken(n) \cap Taken(o) = {}
    /\ \A n \in named : Taken(n) \cap MembersIn(n) = {}
    /\ \A n \in DOMAIN mangled :
           Takes(n, NameOf(n)) \cap
               (MembersIn(n) \cup
                UNION {Taken(o) : o \in NamedInDetail(n[1]) \ {n}}) # {}

Unvisited == {"parse", "types", "messages", "cpp"}

\* How far it has come.
Visiting ==
    /\ stage \in Unvisited =>
           named = {} /\ DOMAIN mangled = {} /\ used = [kind \in Kinds |-> {}]
    /\ stage \notin Unvisited \cup {"type names"} => ClassNodes("types") \subseteq named
    /\ Named => ClassNodes("messages") \subseteq named

LEMMA TreeOfKind ==
    ASSUME Reading, NEW kind \in Kinds, NEW t \in DOMAIN Trees(kind)
    PROVE  /\ Trees(kind)[t] \in NodeTrees
           /\ Trees(kind)[t][1].kind \in ClassKinds(kind)
           /\ Trees(kind)[t][1].kind # "group"
<1>1. CASE kind = "types"
  <2>1. Trees(kind)[t] \in EncodingTrees
    BY <1>1 DEF Trees, Reading
  <2> QED
    BY <1>1, <2>1 DEF EncodingTrees, TreesOf, ClassKinds, EncodingKinds
<1>2. CASE kind = "messages"
  <2>1. Trees(kind)[t] \in LevelTrees
    BY <1>2 DEF Trees, Reading
  <2> QED
    BY <1>2, <2>1 DEF LevelTrees, TreesOf, ClassKinds
<1> QED
  BY <1>1, <1>2 DEF Kinds

LEMMA ClassNode ==
    ASSUME Reading, NEW kind \in Kinds, NEW n \in ClassNodes(kind)
    PROVE  /\ n = <<kind, n[2], n[3]>> /\ n[1] = kind
           /\ n[2] \in DOMAIN Trees(kind)
           /\ NameOf(n) \in Seq(Words)
           /\ NodeOf(n).kind = "group" => ~IsRoot(n)
<1>1. PICK t \in DOMAIN Trees(kind) :
          n \in {kind} \X {t} \X NodesOf(Trees(kind)[t], ClassKinds(kind))
  BY DEF ClassNodes
<1>2. n = <<kind, t, n[3]>> /\ n[3] \in DOMAIN Trees(kind)[t]
  BY <1>1 DEF NodesOf
<1>3. /\ Trees(kind)[t] \in Seq(Nodes)
      /\ Trees(kind)[t][1].kind # "group"
  BY TreeOfKind DEF NodeTrees
<1>4. NodeOf(n) = Trees(kind)[t][n[3]]
  BY <1>2 DEF NodeOf
<1>5. NameOf(n) \in Seq(Words)
  <2>1. NodeOf(n) \in Nodes
    BY <1>2, <1>3, <1>4
  <2> QED
    BY <2>1 DEF NameOf, Nodes, Names
<1> QED
  BY <1>2, <1>3, <1>4, <1>5 DEF IsRoot

LEMMA RootNode ==
    ASSUME Reading, NEW kind \in Kinds, NEW t \in DOMAIN Trees(kind)
    PROVE  <<kind, t, 1>> \in ClassNodes(kind) /\ NameOf(<<kind, t, 1>>) = RootName(Trees(kind)[t])
<1>1. 1 \in DOMAIN Trees(kind)[t]
  <2>1. Trees(kind)[t] \in Seq(Nodes) /\ Trees(kind)[t] # <<>>
    BY TreeOfKind DEF NodeTrees
  <2> QED
    BY <2>1
<1>2. 1 \in NodesOf(Trees(kind)[t], ClassKinds(kind))
  BY <1>1, TreeOfKind DEF NodesOf
<1> QED
  BY <1>2 DEF ClassNodes, NameOf, NodeOf, RootName

LEMMA RootsDiffer ==
    ASSUME Reading, NEW kind \in Kinds,
           NEW t \in DOMAIN Trees(kind), NEW u \in DOMAIN Trees(kind),
           RootName(Trees(kind)[t]) = RootName(Trees(kind)[u])
    PROVE  t = u
<1>1. CASE kind = "types"
  BY <1>1 DEF Trees, Reading, SameType
<1>2. CASE kind = "messages"
  BY <1>2 DEF Trees, Reading, SameMessage, Unlike
<1> QED
  BY <1>1, <1>2 DEF Kinds

LEMMA KindsApart ==
    ASSUME Reading, NEW kind \in Kinds,
           NEW n \in ClassNodes("types") \cup ClassNodes("messages"), n[1] = kind
    PROVE  n \in ClassNodes(kind)
<1>1. "types" \in Kinds /\ "messages" \in Kinds
  BY DEF Kinds
<1> QED
  BY <1>1, ClassNode DEF Kinds

\* An entry never has the name of its group.
LEMMA EntryDiffers ==
    ASSUME NEW name \in Seq(Letters)
    PROVE  EntryName(name) # name
<1>1. "entry" \in Letters
  BY DEF Letters
<1> QED
  BY <1>1 DEF EntryName

LEMMA ImplNames ==
    ASSUME Reading, NamesRight, NEW kind \in Kinds, NEW n \in ClassNodes(kind)
    PROVE  ImplName(n) \in Seq(Letters)
<1>1. NameOf(n) \in Seq(Words)
  BY ClassNode
<1>2. NameOf(n) \in Seq(Letters)
  BY <1>1 DEF Letters
<1> QED
  BY <1>2 DEF ImplName, NamesRight
-----------------------------------------------------------------------------
(* What follows of names that are right.                                   *)

\* A class of a detail namespace has a name its node has taken.
LEMMA DetailClass ==
    ASSUME Reading, NamesRight, NEW kind \in Kinds, ClassNodes(kind) \subseteq named,
           NEW c \in DetailClasses(kind)
    PROVE  /\ c.node \in ClassNodes(kind) /\ c.node \in NamedInDetail(kind)
           /\ c.scope = <<"detail", kind>>
           /\ c.name \in Taken(c.node)
           /\ \/ c.part = "class" /\ c.name = ImplName(c.node)
              \/ c.part = "entry" /\ c.name = EntryName(ImplName(c.node))
           /\ c = Class(c.scope, c.name, c.part, c.node)
<1>1. CASE \E n \in {o \in ClassNodes(kind) : ~IsRoot(o) \/ o \in DOMAIN mangled} :
               c = Class(<<"detail", kind>>, ImplName(n), "class", n)
  <2>1. PICK n \in ClassNodes(kind) :
            /\ InDetail(n)
            /\ c = Class(<<"detail", kind>>, ImplName(n), "class", n)
    BY <1>1 DEF InDetail
  <2>2. n[1] = kind
    BY ClassNode
  <2>3. c.node = n /\ c.name = ImplName(n) /\ c.part = "class" /\ c.scope = <<"detail", kind>>
    BY <2>1 DEF Class
  <2>4. ImplName(n) \in Taken(n)
    BY DEF Taken, Takes
  <2> QED
    BY <2>1, <2>2, <2>3, <2>4 DEF NamedInDetail
<1>2. CASE \E n \in {o \in ClassNodes(kind) : NodeOf(o).kind = "group"} :
               c = Class(<<"detail", kind>>, EntryName(ImplName(n)), "entry", n)
  <2>1. PICK n \in ClassNodes(kind) :
            /\ NodeOf(n).kind = "group"
            /\ c = Class(<<"detail", kind>>, EntryName(ImplName(n)), "entry", n)
    BY <1>2
  <2>2. n[1] = kind /\ InDetail(n)
    BY <2>1, ClassNode DEF InDetail
  <2>3. /\ c.node = n /\ c.name = EntryName(ImplName(n)) /\ c.part = "entry"
        /\ c.scope = <<"detail", kind>>
    BY <2>1 DEF Class
  <2>4. EntryName(ImplName(n)) \in Taken(n)
    BY <2>1 DEF Taken, Takes
  <2> QED
    BY <2>1, <2>2, <2>3, <2>4 DEF NamedInDetail
<1> QED
  BY <1>1, <1>2 DEF DetailClasses

LEMMA PublicClass ==
    ASSUME Reading, NEW kind \in Kinds, NEW c \in PublicClasses(kind)
    PROVE  \E t \in DOMAIN Trees(kind) :
               /\ c.node = <<kind, t, 1>> /\ c.node \in ClassNodes(kind)
               /\ c.scope = <<kind>> /\ c.name = NameOf(c.node)
               /\ c.name = RootName(Trees(kind)[t])
               /\ c.part = IF c.node \in DOMAIN mangled THEN "alias" ELSE "class"
               /\ c = Class(c.scope, c.name, c.part, c.node)
<1>1. PICK t \in DOMAIN Trees(kind) :
          c = Class(<<kind>>, NameOf(<<kind, t, 1>>),
                    IF <<kind, t, 1>> \in DOMAIN mangled THEN "alias" ELSE "class",
                    <<kind, t, 1>>)
  BY DEF PublicClasses
<1>2. /\ c.node = <<kind, t, 1>> /\ c.scope = <<kind>> /\ c.name = NameOf(<<kind, t, 1>>)
      /\ c.part = IF <<kind, t, 1>> \in DOMAIN mangled THEN "alias" ELSE "class"
  BY <1>1 DEF Class
<1> QED
  BY <1>1, <1>2, RootNode

LEMMA DetailNamesDiffer ==
    ASSUME Reading, NamesRight, NEW kind \in Kinds, ClassNodes(kind) \subseteq named,
           NEW c \in DetailClasses(kind), NEW d \in DetailClasses(kind), c.name = d.name
    PROVE  c = d
<1>1. c.node = d.node
  <2>1. /\ c.node \in NamedInDetail(kind) /\ d.node \in NamedInDetail(kind)
        /\ c.name \in Taken(c.node) /\ d.name \in Taken(d.node)
    BY DetailClass
  <2> QED
    BY <2>1 DEF NamesRight
<1>2. EntryName(ImplName(c.node)) # ImplName(c.node)
  BY DetailClass, ImplNames, EntryDiffers
<1>3. c.part = d.part
  BY <1>1, <1>2, DetailClass
<1> QED
  <2>1. c.scope = d.scope
    BY DetailClass
  <2>2. c = Class(c.scope, c.name, c.part, c.node) /\ d = Class(d.scope, d.name, d.part, d.node)
    BY DetailClass
  <2> QED
    BY <1>1, <1>3, <2>1, <2>2

LEMMA ClassesApart ==
    ASSUME Reading, NamesRight, ClassNodes("types") \subseteq named,
           ClassNodes("messages") \subseteq named
    PROVE  /\ \A c, d \in Classes : c.scope = d.scope /\ c.name = d.name => c = d
           /\ \A c \in Classes : c.name \notin MembersOf(c)
<1>1. \A kind \in Kinds : ClassNodes(kind) \subseteq named
  BY DEF Kinds
<1>2. ASSUME NEW c \in Classes, NEW d \in Classes, c.scope = d.scope, c.name = d.name
      PROVE  c = d
  <2>1. PICK k \in Kinds : c \in PublicClasses(k) \cup DetailClasses(k)
    BY DEF Classes
  <2>2. PICK l \in Kinds : d \in PublicClasses(l) \cup DetailClasses(l)
    BY DEF Classes
  <2>3. /\ c \in PublicClasses(k) => c.scope = <<k>>
        /\ d \in PublicClasses(l) => d.scope = <<l>>
    BY PublicClass
  <2>4. /\ c \in DetailClasses(k) => c.scope = <<"detail", k>>
        /\ d \in DetailClasses(l) => d.scope = <<"detail", l>>
    BY <1>1, DetailClass
  <2>5. <<k>> # <<"detail", l>> /\ <<l>> # <<"detail", k>>
    OBVIOUS
  <2>6. \/ c \in PublicClasses(k) /\ d \in PublicClasses(l) /\ k = l
        \/ c \in DetailClasses(k) /\ d \in DetailClasses(l) /\ k = l
    BY <1>2, <2>1, <2>2, <2>3, <2>4, <2>5
  <2>7. CASE c \in PublicClasses(k) /\ d \in PublicClasses(l) /\ k = l
    <3>1. PICK t \in DOMAIN Trees(k) :
              /\ c.node = <<k, t, 1>> /\ c.name = RootName(Trees(k)[t])
              /\ c.part = IF c.node \in DOMAIN mangled THEN "alias" ELSE "class"
              /\ c = Class(c.scope, c.name, c.part, c.node)
      BY <2>7, PublicClass
    <3>2. PICK u \in DOMAIN Trees(k) :
              /\ d.node = <<k, u, 1>> /\ d.name = RootName(Trees(k)[u])
              /\ d.part = IF d.node \in DOMAIN mangled THEN "alias" ELSE "class"
              /\ d = Class(d.scope, d.name, d.part, d.node)
      BY <2>7, PublicClass
    <3>3. t = u
      BY <1>2, <3>1, <3>2, RootsDiffer
    <3>4. c.node = d.node /\ c.part = d.part
      BY <3>1, <3>2, <3>3
    <3> QED
      BY <1>2, <3>1, <3>2, <3>4
  <2>8. CASE c \in DetailClasses(k) /\ d \in DetailClasses(l) /\ k = l
    BY <1>1, <1>2, <2>8, DetailNamesDiffer
  <2> QED
    BY <2>6, <2>7, <2>8
<1>3. ASSUME NEW c \in Classes, c.name \in MembersOf(c)
      PROVE  FALSE
  <2>1. PICK k \in Kinds : c \in PublicClasses(k) \cup DetailClasses(k)
    BY DEF Classes
  <2>2. c.part # "alias" /\ c.name \in MembersIn(c.node)
    BY <1>3 DEF MembersOf
  <2>3. CASE c \in PublicClasses(k)
    <3>1. c.node \in ClassNodes(k) /\ c.name = NameOf(c.node) /\ c.node \notin DOMAIN mangled
      BY <2>2, <2>3, PublicClass
    <3>2. c.name \in Taken(c.node) /\ c.node \in named
      BY <1>1, <3>1 DEF Taken, Takes, ImplName
    <3> QED
      BY <2>2, <3>2 DEF NamesRight
  <2>4. CASE c \in DetailClasses(k)
    <3>1. c.name \in Taken(c.node) /\ c.node \in named
      BY <1>1, <2>4, DetailClass
    <3> QED
      BY <2>2, <3>1 DEF NamesRight
  <2> QED
    BY <2>1, <2>3, <2>4
<1> QED
  BY <1>2, <1>3

LEMMA SomethingInTheWay ==
    ASSUME Reading, NamesRight, NEW n \in DOMAIN mangled
    PROVE  Takes(n, NameOf(n)) \cap
               (MembersIn(n) \cup {c.name : c \in {d \in DetailClasses(n[1]) : d.node # n}}) # {}
<1>1. PICK x \in Takes(n, NameOf(n)) :
          \/ x \in MembersIn(n)
          \/ \E o \in NamedInDetail(n[1]) \ {n} : x \in Taken(o)
  BY DEF NamesRight
<1>2. ASSUME NEW o \in NamedInDetail(n[1]) \ {n}, x \in Taken(o)
      PROVE  \E c \in DetailClasses(n[1]) : c.node # n /\ c.name = x
  <2>1. n[1] \in Kinds
    <3>1. n \in ClassNodes("types") \cup ClassNodes("messages")
      BY DEF NamesRight
    <3> QED
      BY <3>1, ClassNode DEF Kinds
  <2>2. o \in ClassNodes(n[1]) /\ (~IsRoot(o) \/ o \in DOMAIN mangled)
    BY <2>1, KindsApart DEF NamedInDetail, InDetail, NamesRight
  <2>3. \/ x = ImplName(o)
        \/ NodeOf(o).kind = "group" /\ x = EntryName(ImplName(o))
    BY <1>2 DEF Taken, Takes
  <2>4. CASE x = ImplName(o)
    <3> DEFINE c == Class(<<"detail", n[1]>>, ImplName(o), "class", o)
    <3>1. c \in DetailClasses(n[1])
      BY <2>2 DEF DetailClasses
    <3>2. c.node = o /\ c.name = x
      BY <2>4 DEF Class
    <3> QED
      BY <3>1, <3>2
  <2>5. CASE NodeOf(o).kind = "group" /\ x = EntryName(ImplName(o))
    <3> DEFINE c == Class(<<"detail", n[1]>>, EntryName(ImplName(o)), "entry", o)
    <3>1. c \in DetailClasses(n[1])
      BY <2>2, <2>5 DEF DetailClasses
    <3>2. c.node = o /\ c.name = x
      BY <2>5 DEF Class
    <3> QED
      BY <3>1, <3>2
  <2> QED
    BY <2>3, <2>4, <2>5
<1> QED
  BY <1>1, <1>2
-----------------------------------------------------------------------------
(* The steps of names_generator.                                           *)

LEMMA NoNames ==
    ASSUME named = {}, DOMAIN mangled = {}, used = [kind \in Kinds |-> {}]
    PROVE  NamesRight
<1>1. \A kind \in Kinds : NamedInDetail(kind) = {}
  BY DEF NamedInDetail
<1> QED
  BY <1>1 DEF NamesRight

\* What is said of a node is about the schema.
LEMMA NodesKept ==
    ASSUME schema' = schema
    PROVE  /\ \A kind : ClassNodes(kind)' = ClassNodes(kind)
           /\ \A n : /\ NodeOf(n)' = NodeOf(n) /\ NameOf(n)' = NameOf(n)
                    /\ MembersIn(n)' = MembersIn(n)
           /\ \A n, name : Takes(n, name)' = Takes(n, name)
<1>1. ASSUME NEW kind
      PROVE  Trees(kind)' = Trees(kind)
  BY DEF Trees, Types, Messages
<1>2. ASSUME NEW kind
      PROVE  ClassNodes(kind)' = ClassNodes(kind)
  BY <1>1 DEF ClassNodes
<1>3. ASSUME NEW n
      PROVE  /\ NodeOf(n)' = NodeOf(n) /\ NameOf(n)' = NameOf(n)
             /\ MembersIn(n)' = MembersIn(n)
  BY <1>1 DEF NodeOf, NameOf, MembersIn
<1>4. ASSUME NEW n, NEW name
      PROVE  Takes(n, name)' = Takes(n, name)
  BY <1>3 DEF Takes
<1> QED
  BY <1>2, <1>3, <1>4

LEMMA NamesKept ==
    ASSUME NamesRight, UNCHANGED <<schema, named, mangled, used>>
    PROVE  NamesRight'
<1>1. ASSUME NEW n
      PROVE  ImplName(n)' = ImplName(n) /\ Taken(n)' = Taken(n) /\ InDetail(n)' = InDetail(n)
  BY NodesKept DEF ImplName, Taken, InDetail, IsRoot
<1>2. ASSUME NEW kind
      PROVE  NamedInDetail(kind)' = NamedInDetail(kind)
  BY <1>1 DEF NamedInDetail
<1> QED
  BY <1>1, <1>2, NodesKept DEF NamesRight

\* One more node is named, and its name suits it.
LEMMA OneMore ==
    ASSUME NamesRight, schema' = schema,
           NEW kind \in Kinds, NEW n \in ClassNodes(kind), n \notin named, n[1] = kind,
           named' = named \cup {n},
           \A o \in named : o \in DOMAIN mangled' <=> o \in DOMAIN mangled,
           \A o \in DOMAIN mangled : mangled'[o] = mangled[o],
           DOMAIN mangled' \subseteq DOMAIN mangled \cup {n},
           n \in DOMAIN mangled' => mangled'[n] \in Seq(Letters),
           used' = [used EXCEPT ![kind] = @ \cup IF InDetail(n)' THEN Taken(n)' ELSE {}],
           InDetail(n)' => Taken(n)' \cap used[kind] = {},
           Taken(n)' \cap MembersIn(n) = {},
           n \in DOMAIN mangled' =>
               Takes(n, NameOf(n)) \cap (MembersIn(n) \cup used[kind]) # {}
    PROVE  NamesRight'
<1>1. ASSUME NEW o \in named
      PROVE  ImplName(o)' = ImplName(o) /\ Taken(o)' = Taken(o) /\ InDetail(o)' = InDetail(o)
  BY NodesKept DEF ImplName, Taken, InDetail, IsRoot
<1>2. ASSUME NEW k
      PROVE  NamedInDetail(k)' =
                 NamedInDetail(k) \cup IF k = kind /\ InDetail(n)' THEN {n} ELSE {}
  BY <1>1 DEF NamedInDetail
<1>3. n \notin DOMAIN mangled /\ n \notin NamedInDetail(kind)
  BY DEF NamesRight, NamedInDetail
<1>4. ASSUME NEW k \in Kinds
      PROVE  used'[k] = UNION {Taken(o)' : o \in NamedInDetail(k)'}
  <2>1. used[k] = UNION {Taken(o) : o \in NamedInDetail(k)}
    BY DEF NamesRight
  <2>2. \A o \in NamedInDetail(k) : Taken(o)' = Taken(o)
    BY <1>1 DEF NamedInDetail
  <2>3. used'[k] = used[k] \cup IF k = kind /\ InDetail(n)' THEN Taken(n)' ELSE {}
    BY DEF NamesRight
  <2> QED
    BY <1>2, <2>1, <2>2, <2>3
<1>5. ASSUME NEW k \in Kinds, NEW o \in NamedInDetail(k)', NEW p \in NamedInDetail(k)', o # p
      PROVE  Taken(o)' \cap Taken(p)' = {}
  <2>1. used[k] = UNION {Taken(q) : q \in NamedInDetail(k)}
    BY DEF NamesRight
  <2>2. \A q \in NamedInDetail(k) : Taken(q)' = Taken(q) /\ Taken(q) \subseteq used[k]
    BY <1>1, <2>1 DEF NamedInDetail
  <2>3. CASE o \in NamedInDetail(k) /\ p \in NamedInDetail(k)
    BY <1>5, <2>2, <2>3 DEF NamesRight
  <2>4. CASE o \in NamedInDetail(k) /\ p = n /\ k = kind /\ InDetail(n)'
    BY <2>2, <2>4
  <2>5. CASE p \in NamedInDetail(k) /\ o = n /\ k = kind /\ InDetail(n)'
    BY <2>2, <2>5
  <2> QED
    BY <1>2, <1>5, <2>3, <2>4, <2>5
<1>6. ASSUME NEW o \in named'
      PROVE  Taken(o)' \cap MembersIn(o)' = {}
  <2>1. CASE o = n
    BY <2>1, NodesKept
  <2>2. CASE o \in named
    BY <1>1, <2>2, NodesKept DEF NamesRight
  <2> QED
    BY <2>1, <2>2
<1>7. ASSUME NEW o \in DOMAIN mangled'
      PROVE  Takes(o, NameOf(o))' \cap
                 (MembersIn(o)' \cup
                  UNION {Taken(p)' : p \in NamedInDetail(o[1])' \ {o}}) # {}
  <2>1. ASSUME NEW p \in NamedInDetail(o[1]), p # o, NEW x \in Taken(p)
        PROVE  x \in UNION {Taken(q)' : q \in NamedInDetail(o[1])' \ {o}}
    <3>1. Taken(p)' = Taken(p) /\ p \in NamedInDetail(o[1])'
      BY <1>1, <1>2 DEF NamedInDetail
    <3> QED
      BY <2>1, <3>1
  <2>2. PICK x \in Takes(o, NameOf(o)) :
            \/ x \in MembersIn(o)
            \/ \E p \in NamedInDetail(o[1]) : p # o /\ x \in Taken(p)
    <3>1. CASE o = n
      <4>1. PICK x \in Takes(n, NameOf(n)) : x \in MembersIn(n) \cup used[kind]
        BY <3>1
      <4>2. used[kind] = UNION {Taken(p) : p \in NamedInDetail(kind)}
        BY DEF NamesRight
      <4>3. x \in used[kind] => \E p \in NamedInDetail(kind) : x \in Taken(p)
        BY <4>2
      <4> QED
        BY <1>3, <3>1, <4>1, <4>3
    <3>2. CASE o \in DOMAIN mangled
      <4>1. Takes(o, NameOf(o)) \cap
                (MembersIn(o) \cup
                 UNION {Taken(p) : p \in NamedInDetail(o[1]) \ {o}}) # {}
        BY <3>2 DEF NamesRight
      <4> QED
        BY <4>1
    <3> QED
      BY <3>1, <3>2
  <2>3. x \in Takes(o, NameOf(o))' /\ MembersIn(o)' = MembersIn(o)
    <3>1. NameOf(o)' = NameOf(o) /\ Takes(o, NameOf(o))' = Takes(o, NameOf(o)')
      BY NodesKept
    <3> QED
      BY <3>1, NodesKept
  <2> QED
    BY <2>1, <2>2, <2>3
<1>8. /\ DOMAIN mangled' \subseteq named'
      /\ named' \subseteq (ClassNodes("types") \cup ClassNodes("messages"))'
  BY NodesKept DEF NamesRight, Kinds
<1>10. used' = [k \in Kinds |-> used'[k]]
  <2>1. used = [k \in Kinds |-> used[k]]
    BY DEF NamesRight
  <2> QED
    BY <2>1
<1>9. ASSUME NEW o \in DOMAIN mangled'
      PROVE  mangled'[o] \in Seq(Letters)
  BY DEF NamesRight
<1> QED
  BY <1>4, <1>5, <1>6, <1>7, <1>8, <1>9, <1>10 DEF NamesRight

LEMMA KeepNameRight ==
    ASSUME Reading, NamesRight, NEW kind \in Kinds, KeepName(kind)
    PROVE  NamesRight'
<1>1. PICK n \in Turn(kind) :
          /\ ~Clashes(n)
          /\ used' = IF IsRoot(n) THEN used
                     ELSE [used EXCEPT ![kind] = @ \cup Takes(n, NameOf(n))]
          /\ named' = named \cup {n}
  BY DEF KeepName
<1>2. n \in ClassNodes(kind) /\ n \notin named /\ n[1] = kind
  BY ClassNode DEF Turn, Unnamed
<1>3. schema' = schema /\ mangled' = mangled
  BY DEF KeepName, parserVars
<1>4. n \notin DOMAIN mangled
  BY <1>2 DEF NamesRight
<1>5. InDetail(n)' <=> ~IsRoot(n)
  BY <1>3, <1>4 DEF InDetail, IsRoot
<1>6. Taken(n)' = Takes(n, NameOf(n))
  BY <1>3, <1>4, NodesKept DEF Taken, ImplName
<1>7. /\ Taken(n)' \cap MembersIn(n) = {}
      /\ ~IsRoot(n) => Taken(n)' \cap used[kind] = {}
  BY <1>1, <1>2, <1>6 DEF Clashes
<1>8. used' = [used EXCEPT ![kind] = @ \cup IF InDetail(n)' THEN Taken(n)' ELSE {}]
  <2>1. CASE IsRoot(n)
    BY <1>1, <1>5, <2>1 DEF NamesRight
  <2>2. CASE ~IsRoot(n)
    BY <1>1, <1>5, <1>6, <2>2
  <2> QED
    BY <2>1, <2>2
<1> HIDE DEF NamesRight
<1> QED
  BY <1>1, <1>2, <1>3, <1>4, <1>5, <1>7, <1>8, OneMore

LEMMA MangleNameRight ==
    ASSUME Reading, NamesRight, NEW kind \in Kinds, MangleName(kind)
    PROVE  NamesRight'
<1>1. PICK n \in Turn(kind) :
          /\ Clashes(n)
          /\ IF FreeNumbers(n) = {} THEN Fail /\ UNCHANGED nameVars
             ELSE LET fresh == Mangled(NameOf(n), Min(FreeNumbers(n)))
                  IN  /\ mangled' = [o \in DOMAIN mangled \cup {n} |->
                                        IF o = n THEN fresh ELSE mangled[o]]
                      /\ used' = [used EXCEPT ![kind] = @ \cup Takes(n, fresh)]
                      /\ named' = named \cup {n}
                      /\ UNCHANGED <<parserVars, tagName>>
  BY DEF MangleName
<1>2. n \in ClassNodes(kind) /\ n \notin named /\ n[1] = kind
  BY ClassNode DEF Turn, Unnamed
<1>3. CASE FreeNumbers(n) = {}
  <2>1. UNCHANGED <<schema, named, mangled, used>>
    BY <1>1, <1>3 DEF Fail, nameVars
  <2> QED
    BY <2>1, NamesKept
<1>4. CASE FreeNumbers(n) # {}
  <2> DEFINE fresh == Mangled(NameOf(n), Min(FreeNumbers(n)))
  <2>1. /\ mangled' = [o \in DOMAIN mangled \cup {n} |-> IF o = n THEN fresh ELSE mangled[o]]
        /\ used' = [used EXCEPT ![kind] = @ \cup Takes(n, fresh)]
        /\ named' = named \cup {n}
        /\ schema' = schema
    BY <1>1, <1>4 DEF parserVars
  <2>2. Min(FreeNumbers(n)) \in FreeNumbers(n)
    <3>1. FreeNumbers(n) \subseteq Nat
      BY NumbersAssumption DEF FreeNumbers
    <3>2. PICK k \in FreeNumbers(n) : \A l \in FreeNumbers(n) : k <= l
      BY <1>4, <3>1, LeastNatural
    <3> QED
      BY <3>2 DEF Min
  <2>3. fresh \in Seq(Letters)
    <3>1. NameOf(n) \in Seq(Letters)
      <4>1. NameOf(n) \in Seq(Words)
        BY <1>2, ClassNode
      <4> QED
        BY <4>1 DEF Letters
    <3>2. Numbers[Min(FreeNumbers(n))] \in Letters
      BY <2>2 DEF FreeNumbers, Letters
    <3> QED
      BY <3>1, <3>2 DEF Mangled
  <2>4. Takes(n, fresh) \cap (MembersIn(n) \cup used[kind]) = {}
    BY <1>2, <2>2 DEF FreeNumbers
  <2>5. Takes(n, NameOf(n)) \cap (MembersIn(n) \cup used[kind]) # {}
    BY <1>1, <1>2 DEF Clashes
  <2> HIDE DEF fresh
  <2>6. n \in DOMAIN mangled' /\ mangled'[n] = fresh
    BY <2>1
  <2>7. InDetail(n)' /\ Taken(n)' = Takes(n, fresh)
    BY <2>1, <2>6, NodesKept DEF InDetail, Taken, ImplName
  <2>8. /\ \A o \in named : o \in DOMAIN mangled' <=> o \in DOMAIN mangled
        /\ \A o \in DOMAIN mangled : mangled'[o] = mangled[o]
        /\ DOMAIN mangled' \subseteq DOMAIN mangled \cup {n}
    BY <1>2, <2>1 DEF NamesRight
  <2>9. used' = [used EXCEPT ![kind] = @ \cup IF InDetail(n)' THEN Taken(n)' ELSE {}]
    BY <2>1, <2>7
  <2>10. /\ mangled'[n] \in Seq(Letters)
         /\ Taken(n)' \cap used[kind] = {} /\ Taken(n)' \cap MembersIn(n) = {}
    BY <2>3, <2>4, <2>6, <2>7
  <2> HIDE DEF NamesRight
  <2> QED
    BY <1>2, <2>1, <2>5, <2>8, <2>9, <2>10, OneMore
<1> QED
  BY <1>3, <1>4

LEMMA NamesNextRight ==
    ASSUME Reading, NamesRight, Visiting, NamesNext
    PROVE  NamesRight' /\ Visiting'
<1>1. PICK kind \in Kinds : KeepName(kind) \/ MangleName(kind) \/ NamesDone(kind)
  BY DEF NamesNext
<1>2. NamesRight'
  <2>1. CASE NamesDone(kind)
    BY <2>1, NamesKept DEF NamesDone, Fail, GoTo
  <2> QED
    BY <1>1, <2>1, KeepNameRight, MangleNameRight
<1>3. schema' = schema
  BY NamesStep
<1>4. /\ stage = NamingStage(kind)
      /\ \/ stage' = stage /\ named \subseteq named'
         \/ /\ ClassNodes(kind) \subseteq named /\ named' = named
            /\ stage' = IF kind = "types" THEN "message names" ELSE "type tags"
  <2>1. CASE KeepName(kind)
    BY <2>1 DEF KeepName, In, parserVars
  <2>2. CASE MangleName(kind)
    BY <2>2 DEF MangleName, In, parserVars, Fail, nameVars
  <2>3. CASE NamesDone(kind)
    BY <2>3 DEF NamesDone, In, Fail, GoTo, Unnamed
  <2> QED
    BY <1>1, <2>1, <2>2, <2>3
<1>5. \A k : ClassNodes(k)' = ClassNodes(k)
  BY <1>3, NodesKept
<1> QED
  BY <1>2, <1>4, <1>5 DEF Visiting, NamingStage, Kinds, Named, Unvisited

\* Before, there are no names; behind, they stay as they are.
LEMMA OthersKeepNames ==
    ASSUME NamesRight, Visiting, UNCHANGED <<named, mangled, used>>,
           \/ stage \in Unvisited /\ stage' \in Unvisited \cup {"type names"}
           \/ schema' = schema /\ stage' = stage
           \/ schema' = schema /\ Named /\ Named'
    PROVE  NamesRight' /\ Visiting'
<1>1. CASE stage \in Unvisited /\ stage' \in Unvisited \cup {"type names"}
  <2>1. named' = {} /\ DOMAIN mangled' = {} /\ used' = [kind \in Kinds |-> {}]
    BY <1>1 DEF Visiting
  <2>2. NamesRight'
    <3>1. \A kind \in Kinds : NamedInDetail(kind)' = {}
      BY <2>1 DEF NamedInDetail
    <3> QED
      BY <2>1, <3>1 DEF NamesRight
  <2>3. ~Named'
    BY <1>1 DEF Named, Unvisited
  <2> QED
    BY <1>1, <2>1, <2>2, <2>3 DEF Visiting
<1>2. CASE schema' = schema /\ (stage' = stage \/ (Named /\ Named'))
  <2>1. NamesRight'
    BY <1>2, NamesKept
  <2> QED
    BY <1>2, <2>1, NodesKept DEF Visiting, Named, Unvisited
<1> QED
  BY <1>1, <1>2

-----------------------------------------------------------------------------
(* All of it together.                                                     *)

IInv == Reading /\ Remembered /\ Judged /\ ErrorsBeforeOutput /\ ConstantsLast
        /\ (\A c \in constants : Good(c, Short))
        /\ NamesRight /\ Visiting

LEMMA InitIInv ==
    ASSUME Init
    PROVE  IInv
<1>1. /\ input \in Inputs /\ stage = "parse" /\ failed = FALSE /\ parsers = <<>>
      /\ schema = NoSchema /\ constants = {}
      /\ validated = {} /\ groupHeaders = {} /\ dataHeaders = {} /\ next = 0
      /\ named = {} /\ DOMAIN mangled = {} /\ used = [kind \in Kinds |-> {}]
  BY DEF Init, ParserInit, RulesInit, NamesInit
<1>2. Types = <<>> /\ Messages = <<>>
  BY <1>1 DEF Types, Messages, NoSchema
<1>3. Reading
  <2>1. parsers \in Seq(ParserRecords) /\ Messages \in Seq(LevelTrees) /\ Unlike(Messages)
    BY <1>1, <1>2 DEF Unlike
  <2>2. DOMAIN schema = {"header", "types", "messages"}
    BY <1>1 DEF NoSchema
  <2>3. DOMAIN Types = {}
    BY <1>2
  <2> QED
    BY <1>1, <2>1, <2>2, <2>3 DEF Reading
<1>4. DOMAIN Types = {} /\ DOMAIN Messages = {}
  BY <1>2
<1>5. Remembered
  BY <1>1, <1>4 DEF Remembered
<1>6. NamesRight /\ Visiting
  <2>1. stage \in Unvisited /\ ~Named
    BY <1>1 DEF Unvisited, Named
  <2> QED
    BY <1>1, <2>1, NoNames DEF Visiting
<1> QED
  BY <1>1, <1>3, <1>5, <1>6 DEF IInv, Judged, ErrorsBeforeOutput, ConstantsLast

\* All steps but those of parser and validators.
LEMMA GeneratorsKeep ==
    ASSUME Reading, Remembered, Judged,
           NamesNext \/ TagsNext \/ Compile,
           UNCHANGED ruleVars
    PROVE  Reading' /\ Remembered' /\ Judged'
<1>1. CASE NamesNext
  BY <1>1, NamesStep, LaterSteps DEF Passing
<1>3. CASE TagsNext
  <2>1. CASE TagType
    BY <2>1, LaterSteps DEF TagType, In, parserVars, Passing
  <2>2. CASE TypesTagged
    BY <2>2, LaterSteps DEF TypesTagged, In, GoTo, Passing
  <2>3. CASE TagMessage
    BY <2>3, LaterSteps DEF TagMessage, In, parserVars, Passing
  <2>4. CASE MessagesTagged
    BY <2>4, LaterSteps DEF MessagesTagged, In, GoTo, Passing
  <2> QED
    BY <1>3, <2>1, <2>2, <2>3, <2>4 DEF TagsNext
<1>4. CASE Compile
  BY <1>4, LaterSteps DEF Compile, In, GoTo, Fail, Passing
<1> QED
  BY <1>1, <1>3, <1>4

\* Before constants are compiled, there are none.
LEMMA NotYet ==
    ASSUME ConstantsLast, UNCHANGED constants,
           ParserNext \/ RulesNext \/ NamesNext \/ TagsNext
    PROVE  constants' = {}
<1>1. stage # "done"
  <2>1. ASSUME ParserNext
        PROVE  stage = "parse"
    BY <2>1 DEF ParserNext, OpenSchema, ParseTypes, ParseMessage, ParseInclude,
       ParseUnknown, EndInclude, EndSchema, At, AtEnd, In
  <2>2. ASSUME RulesNext
        PROVE  stage \in {"types", "messages", "cpp"}
    BY <2>2 DEF RulesNext, ValidateType, TypesValid, ValidateMessageHeader,
       ValidateMessage, MessagesValid, ValidateCppNames, In
  <2>3. ASSUME NamesNext \/ TagsNext
        PROVE  stage \in {"type names", "message names", "type tags", "message tags"}
    BY <2>3, NamesStep DEF TagsNext, TagType, TypesTagged, TagMessage, MessagesTagged, In
  <2> QED
    BY <2>1, <2>2, <2>3
<1> QED
  BY <1>1 DEF ConstantsLast

\* All steps but those of names_generator.
LEMMA NamesStay ==
    ASSUME NamesRight, Visiting, UNCHANGED nameVars,
           ParserNext \/ RulesNext \/ TagsNext \/ Compile
    PROVE  NamesRight' /\ Visiting'
<1>1. UNCHANGED <<named, mangled, used>>
  BY DEF nameVars
<1>2. CASE ParserNext
  <2>1. stage = "parse" /\ stage' \in {"parse", "types"}
    <3>1. CASE OpenSchema
      BY <3>1 DEF OpenSchema, In, Fail
    <3>2. CASE ParseTypes
      BY <3>2 DEF ParseTypes, At, In, Fail, Becomes
    <3>3. CASE ParseMessage
      BY <3>3 DEF ParseMessage, At, In, Fail, Becomes
    <3>4. CASE ParseInclude
      BY <3>4 DEF ParseInclude, At, In, Fail
    <3>5. CASE ParseUnknown
      BY <3>5 DEF ParseUnknown, At, In, Becomes
    <3>6. CASE EndInclude
      BY <3>6 DEF EndInclude, AtEnd, In, Fail
    <3>7. CASE EndSchema
      BY <3>7 DEF EndSchema, AtEnd, In
    <3> QED
      BY <1>2, <3>1, <3>2, <3>3, <3>4, <3>5, <3>6, <3>7 DEF ParserNext
  <2> QED
    BY <1>1, <2>1, OthersKeepNames DEF Unvisited
<1>3. CASE RulesNext
  <2>1. stage \in Unvisited /\ stage' \in Unvisited \cup {"type names"}
    BY <1>3 DEF RulesNext, ValidateType, TypesValid, ValidateMessageHeader,
       ValidateMessage, MessagesValid, ValidateCppNames, Fail, GoTo, In, parserVars,
       Unvisited
  <2> QED
    BY <1>1, <2>1, OthersKeepNames
<1>4. CASE TagsNext
  <2>1. schema' = schema /\ Named /\ Named'
    BY <1>4 DEF TagsNext, TagType, TypesTagged, TagMessage, MessagesTagged, GoTo, In,
       parserVars, Named
  <2> QED
    BY <1>1, <2>1, OthersKeepNames
<1>5. CASE Compile
  <2>1. schema' = schema /\ Named /\ Named'
    BY <1>5 DEF Compile, GoTo, Fail, In, Named
  <2> QED
    BY <1>1, <2>1, OthersKeepNames
<1> QED
  BY <1>2, <1>3, <1>4, <1>5

LEMMA NextIInv ==
    ASSUME IInv, [Next]_vars
    PROVE  IInv'
<1>0. /\ Reading /\ Remembered /\ Judged /\ ErrorsBeforeOutput /\ ConstantsLast
      /\ (\A c \in constants : Good(c, Short))
      /\ NamesRight /\ Visiting
  BY DEF IInv
<1>1. CASE UNCHANGED vars
  <2>1. UNCHANGED <<input, parsers, schema, stage, failed, ruleVars, constants>>
    BY <1>1 DEF vars, parserVars
  <2>2. Reading' /\ Remembered' /\ Judged'
    BY <1>0, <2>1, KeepsReading, KeepsRemembered, KeepsJudged
  <2>3. Short' <=> Short
    BY <2>1 DEF Short, AllTrees, Types, Messages
  <2>4. ErrorsBeforeOutput' /\ ConstantsLast'
    BY <1>0, <2>1, KeepsCounts DEF ErrorsBeforeOutput, ConstantsLast
  <2>5. (\A c \in constants : Good(c, Short))'
    BY <1>0, <2>1, <2>3
  <2>6. NamesRight' /\ Visiting'
    BY <1>0, <1>1, <2>1, OthersKeepNames DEF vars, nameVars
  <2> QED
    BY <2>2, <2>4, <2>5, <2>6 DEF IInv
<1>2. CASE Next
  <2>1. ErrorsBeforeOutput'
    BY <1>0, <1>2, ErrorsStep
  <2>2. CASE ParserNext /\ UNCHANGED <<ruleVars, nameVars, tagVars, constants>>
    <3>1. Reading' /\ Remembered' /\ Judged'
      BY <1>0, <2>2, ParserReading, ParserJudges
    <3>2. constants' = {}
      BY <1>0, <2>2, NotYet
    <3>3. NamesRight' /\ Visiting'
      BY <1>0, <2>2, NamesStay
    <3> QED
      BY <2>1, <3>1, <3>2, <3>3 DEF IInv, ConstantsLast
  <2>3. CASE RulesNext /\ UNCHANGED <<nameVars, tagVars, constants>>
    <3>1. Reading' /\ Remembered' /\ Judged'
      BY <1>0, <2>3, RulesJudge
    <3>2. constants' = {}
      BY <1>0, <2>3, NotYet
    <3>3. NamesRight' /\ Visiting'
      BY <1>0, <2>3, NamesStay
    <3> QED
      BY <2>1, <3>1, <3>2, <3>3 DEF IInv, ConstantsLast
  <2>4. CASE \/ NamesNext /\ UNCHANGED <<ruleVars, tagVars, constants>>
             \/ TagsNext /\ UNCHANGED <<ruleVars, nameVars, constants>>
    <3>1. Reading' /\ Remembered' /\ Judged'
      BY <1>0, <2>4, GeneratorsKeep
    <3>2. constants' = {}
      BY <1>0, <2>4, NotYet
    <3>3. NamesRight' /\ Visiting'
      BY <1>0, <2>4, NamesNextRight, NamesStay
    <3> QED
      BY <2>1, <3>1, <3>2, <3>3 DEF IInv, ConstantsLast
  <2>5. CASE Compile /\ UNCHANGED <<ruleVars, nameVars, tagVars>>
    <3>1. Reading' /\ Remembered' /\ Judged'
      BY <1>0, <2>5, GeneratorsKeep
    <3>2. ConstantsLast' /\ (\A c \in constants : Good(c, Short))'
      BY <1>0, <2>5, CompileConstants
    <3>3. NamesRight' /\ Visiting'
      BY <1>0, <2>5, NamesStay
    <3> QED
      BY <2>1, <3>1, <3>2, <3>3 DEF IInv
  <2>6. CASE Ended
    BY <1>1, <2>6 DEF Ended
  <2> QED
    BY <1>2, <2>2, <2>3, <2>4, <2>5, <2>6 DEF Next
<1> QED
  BY <1>1, <1>2

LEMMA Inductive == Spec => []IInv
<1>1. Init => IInv
  BY InitIInv
<1>2. IInv /\ [Next]_vars => IInv'
  BY NextIInv
<1> QED
  BY <1>1, <1>2, PTL DEF Spec

-----------------------------------------------------------------------------
(* Induction, and sequences in a row.                                     *)

\* A set that has 0 and with n also n + 1 has all of them.
LEMMA NaturalInduction ==
    ASSUME NEW T, 0 \in T, \A n \in Nat : n \in T => n + 1 \in T
    PROVE  Nat \subseteq T
<1> SUFFICES ASSUME Nat \ T # {}
             PROVE  FALSE
  OBVIOUS
<1>1. PICK x \in Nat \ T : \A y \in Nat \ T : x <= y
  BY LeastNatural
<1>2. x # 0 /\ x - 1 \in Nat
  BY <1>1
<1>3. x - 1 \in T
  BY <1>1, <1>2
<1>4. (x - 1) + 1 \in T
  BY <1>2, <1>3
<1> QED
  BY <1>1, <1>4

\* The same from a up to b.
LEMMA IntervalInduction ==
    ASSUME NEW a \in Int, NEW b \in Int, NEW T,
           a \in T, \A i \in a .. b - 1 : i \in T => i + 1 \in T
    PROVE  a .. b \subseteq T
<1> DEFINE U == {n \in Nat : a + n <= b => a + n \in T}
<1>1. 0 \in U
  OBVIOUS
<1>2. ASSUME NEW n \in Nat, n \in U
      PROVE  n + 1 \in U
  <2>1. CASE a + (n + 1) <= b
    <3>1. a + n \in T /\ a + n \in a .. b - 1
      BY <1>2, <2>1
    <3>2. (a + n) + 1 \in T
      BY <3>1
    <3> QED
      BY <3>2
  <2>2. CASE ~(a + (n + 1) <= b)
    BY <2>2
  <2> QED
    BY <2>1, <2>2
<1> HIDE DEF U
<1>3. Nat \subseteq U
  BY <1>1, <1>2, NaturalInduction
<1>4. ASSUME NEW i \in a .. b
      PROVE  i \in T
  <2>1. i - a \in U
    BY <1>3
  <2>2. a + (i - a) = i /\ i <= b
    OBVIOUS
  <2> QED
    BY <2>1, <2>2 DEF U
<1> QED
  BY <1>4

\* F[f] is what a definition says of a function that is to be f: elements of
\* V, and those of n depend on what f has for elements of a lower rank only.
IsDefinition(F, S, V, rank, K) ==
    /\ V # {} /\ K \in Nat
    /\ F \in [[S -> V] -> [S -> V]]
    /\ rank \in [S -> 0 .. K]
    /\ \A f, g \in [S -> V] : \A n \in S :
           (\A k \in S : rank[k] < rank[n] => f[k] = g[k]) => F[f][n] = F[g][n]

IsDefined(F, S, V) == \E f \in [S -> V] : f = F[f]

\* Such a definition defines a function.
LEMMA DefinitionDefines ==
    ASSUME NEW F, NEW S, NEW V, NEW rank, NEW K, IsDefinition(F, S, V, rank, K)
    PROVE  IsDefined(F, S, V)
<1>0. /\ V # {} /\ K \in Nat
      /\ F \in [[S -> V] -> [S -> V]]
      /\ rank \in [S -> 0 .. K]
      /\ \A f, g \in [S -> V] : \A n \in S :
             (\A k \in S : rank[k] < rank[n] => f[k] = g[k]) => F[f][n] = F[g][n]
  BY DEF IsDefinition
<1> PICK v \in V : TRUE
  BY <1>0
<1> DEFINE Solves(f, j) == \A n \in S : rank[n] < j => F[f][n] = f[n]
           T == {j \in Nat : \E f \in [S -> V] : Solves(f, j)}
<1>1. 0 \in T
  <2>1. [n \in S |-> v] \in [S -> V]
    OBVIOUS
  <2>2. Solves([n \in S |-> v], 0)
    BY <1>0
  <2> QED
    BY <2>1, <2>2
<1>2. ASSUME NEW j \in Nat, j \in T
      PROVE  j + 1 \in T
  <2>1. PICK f \in [S -> V] : Solves(f, j)
    BY <1>2
  <2>2. F[f] \in [S -> V]
    BY <1>0
  <2>3. ASSUME NEW n \in S, rank[n] < j + 1
        PROVE  F[F[f]][n] = F[f][n]
    <3>1. ASSUME NEW k \in S, rank[k] < rank[n]
          PROVE  f[k] = F[f][k]
      <4>1. rank[k] \in Int /\ rank[n] \in Int
        BY <1>0
      <4>2. rank[k] < j
        BY <2>3, <3>1, <4>1
      <4> QED
        BY <2>1, <4>2
    <3> QED
      BY <1>0, <2>2, <3>1
  <2>4. Solves(F[f], j + 1)
    BY <2>3
  <2> HIDE DEF Solves
  <2> QED
    BY <2>2, <2>4
<1> HIDE DEF T
<1>3. K + 1 \in T
  BY <1>0, <1>1, <1>2, NaturalInduction
<1>4. PICK f \in [S -> V] : Solves(f, K + 1)
  BY <1>3 DEF T
<1>5. \A n \in S : F[f][n] = f[n]
  <2>1. \A n \in S : rank[n] < K + 1
    BY <1>0
  <2> QED
    BY <1>4, <2>1
<1>6. F[f] \in [S -> V]
  BY <1>0
<1>7. F[f] = f
  BY <1>5, <1>6
<1> QED
  BY <1>7 DEF IsDefined

\* How FlattenSeq computes its result.
FlatFunction(t, n) ==
    CHOOSE f : f = [i \in 1 .. n |-> IF i = 1 THEN t[i] ELSE f[i - 1] \o t[i]]

\* t[1] to t[n] are sequences.
AreLists(t, n, X) == \A i \in 1 .. n : t[i] \in Seq(X)

\* f[i] is t[1] to t[i] in a row.
IsFlat(f, t, n, X) ==
    /\ \A i \in 1 .. n : f[i] \in Seq(X)
    /\ n > 0 => f[1] = t[1]
    /\ \A i \in 1 .. n - 1 : f[i + 1] = f[i] \o t[i + 1]

Unfolds(f, t, n) ==
    f = [i \in 1 .. n |-> IF i = 1 THEN t[i] ELSE f[i - 1] \o t[i]]

LEMMA FlatFunctionUnfolds ==
    ASSUME NEW X, NEW n \in Nat, NEW t, AreLists(t, n, X)
    PROVE  Unfolds(FlatFunction(t, n), t, n)
<1>0. n \in Nat /\ \A i \in 1 .. n : t[i] \in Seq(X)
  BY DEF AreLists
<1> DEFINE S == 1 .. n
           V == Seq(X)
           F == [f \in [S -> V] |->
                    [i \in S |-> IF i = 1 THEN t[i] ELSE f[i - 1] \o t[i]]]
           rank == [i \in S |-> i]
<1>1. \A i \in S : i # 1 => i - 1 \in S
  BY <1>0
<1>2. F \in [[S -> V] -> [S -> V]]
  <2> SUFFICES ASSUME NEW f \in [S -> V], NEW i \in S
               PROVE  (IF i = 1 THEN t[i] ELSE f[i - 1] \o t[i]) \in V
    OBVIOUS
  <2>1. CASE i = 1
    BY <1>0, <1>1, <2>1
  <2>2. CASE i # 1
    <3>1. f[i - 1] \in V /\ t[i] \in V
      BY <1>0, <1>1, <2>2
    <3>2. f[i - 1] \o t[i] \in V
      BY <3>1, ConcatProperties
    <3> QED
      BY <2>2, <3>2
  <2> QED
    BY <2>1, <2>2
<1>3. rank \in [S -> 0 .. n] /\ <<>> \in V
  BY <1>0
<1>4. \A f, g \in [S -> V] : \A x \in S :
          (\A k \in S : rank[k] < rank[x] => f[k] = g[k]) => F[f][x] = F[g][x]
  <2> SUFFICES ASSUME NEW f \in [S -> V], NEW g \in [S -> V], NEW x \in S,
                      \A k \in S : rank[k] < rank[x] => f[k] = g[k]
               PROVE  F[f][x] = F[g][x]
    OBVIOUS
  <2>1. x # 1 => f[x - 1] = g[x - 1]
    BY <1>0, <1>1
  <2> QED
    BY <2>1
<1>5. PICK f \in [S -> V] : f = F[f]
  <2> HIDE DEF V, F, rank, S
  <2>1. IsDefinition(F, S, V, rank, n)
    BY <1>0, <1>2, <1>3, <1>4 DEF IsDefinition
  <2>2. IsDefined(F, S, V)
    BY <2>1, DefinitionDefines
  <2> QED
    BY <2>2 DEF IsDefined
<1>6. f = [i \in S |-> IF i = 1 THEN t[i] ELSE f[i - 1] \o t[i]]
  BY <1>5
<1> QED
  BY <1>6 DEF FlatFunction, Unfolds

LEMMA FlatFunctionExists ==
    ASSUME NEW X, NEW n \in Nat, NEW t, AreLists(t, n, X)
    PROVE  IsFlat(FlatFunction(t, n), t, n, X)
<1> DEFINE c == FlatFunction(t, n)
           T == {i \in Int : i \in 1 .. n => c[i] \in Seq(X)}
<1>0. n \in Nat /\ \A i \in 1 .. n : t[i] \in Seq(X)
  BY DEF AreLists
<1>8. Unfolds(c, t, n)
  BY FlatFunctionUnfolds
<1> HIDE DEF c
<1>1. c = [i \in 1 .. n |-> IF i = 1 THEN t[i] ELSE c[i - 1] \o t[i]]
  BY <1>8 DEF Unfolds
<1>2. n > 0 => c[1] = t[1]
  BY <1>0, <1>1
<1>3. ASSUME NEW i \in 1 .. n - 1
      PROVE  c[i + 1] = c[i] \o t[i + 1]
  <2>1. i + 1 \in 1 .. n /\ i + 1 # 1 /\ (i + 1) - 1 = i
    BY <1>0
  <2> QED
    BY <1>1, <2>1
<1>4. 1 \in T
  BY <1>0, <1>2
<1>5. ASSUME NEW i \in 1 .. n - 1, i \in T
       PROVE  i + 1 \in T
  <2>1. i \in 1 .. n /\ i + 1 \in 1 .. n
    BY <1>0
  <2>2. c[i] \in Seq(X) /\ t[i + 1] \in Seq(X)
    BY <1>0, <1>5, <2>1
  <2>3. c[i + 1] \in Seq(X)
    BY <1>3, <2>2, ConcatProperties
  <2> QED
    BY <2>1, <2>3
<1>6. 1 .. n \subseteq T
  <2> HIDE DEF T
  <2> QED
    BY ONLY n \in Nat, <1>4, <1>5, IntervalInduction
<1>7. \A i \in 1 .. n : c[i] \in Seq(X)
  BY <1>6
<1> QED
  BY <1>2, <1>3, <1>7 DEF c, IsFlat

Associative(X) ==
    \A a, b, c \in Seq(X) : (a \o b) \o c = a \o (b \o c)

LEMMA Concatenations ==
    ASSUME NEW X
    PROVE  Associative(X)
  BY DEF Associative

\* The provers look into \o where they see it.
IsConcat(r, a, b) == r = a \o b

\* The first n elements of s, in a row.
Flat(s, n) == FlattenSeq([k \in 1 .. n |-> s[k]])

LEMMA FlatIsFunction ==
    ASSUME NEW X, NEW N \in Nat, NEW s, AreLists(s, N, X), NEW n \in 1 .. N
    PROVE  Flat(s, n) = FlatFunction(s, N)[n]
<1> DEFINE c == FlatFunction(s, N)
           t == [k \in 1 .. n |-> s[k]]
           d == FlatFunction(t, n)
<1>1. IsFlat(c, s, N, X)
  BY FlatFunctionExists
<1>2. n \in Nat /\ n # 0 /\ \A i \in 1 .. n : t[i] = s[i] /\ i \in 1 .. N
  OBVIOUS
<1>3. AreLists(t, n, X)
  BY <1>2 DEF AreLists
<1>4. t \in Seq(Seq(X)) /\ Len(t) = n
  <2>1. t \in [1 .. n -> Seq(X)]
    BY <1>2 DEF AreLists
  <2> HIDE DEF t
  <2> QED
    BY <1>2, <2>1
<1> HIDE DEF t, c
<1>5. FlattenSeq(t) = d[n]
  BY <1>2, <1>4 DEF FlattenSeq, FlatFunction
<1>6. IsFlat(d, t, n, X)
  BY <1>2, <1>3, FlatFunctionExists
<1> HIDE DEF d
<1> DEFINE T == {i \in Int : i \in 1 .. n => d[i] = c[i]}
<1>7. 1 \in T
  BY <1>1, <1>2, <1>6 DEF IsFlat
<1>8. ASSUME NEW i \in 1 .. n - 1, i \in T
      PROVE  i + 1 \in T
  <2>1. i \in 1 .. n /\ i \in 1 .. N - 1 /\ i + 1 \in 1 .. n
    OBVIOUS
  <2>2. d[i + 1] = d[i] \o t[i + 1]
    BY <1>6 DEF IsFlat
  <2>3. c[i + 1] = c[i] \o s[i + 1]
    BY <1>1, <2>1 DEF IsFlat
  <2>4. d[i] = c[i] /\ t[i + 1] = s[i + 1]
    BY <1>2, <1>8, <2>1
  <2>5. d[i + 1] = c[i + 1]
    BY <2>2, <2>3, <2>4, Zenon
  <2> QED
    BY <2>5
<1>9. 1 .. n \subseteq T
  <2> HIDE DEF T
  <2> QED
    BY ONLY <1>2, <1>7, <1>8, IntervalInduction
<1>10. d[n] = c[n]
  BY <1>2, <1>9
<1> QED
  BY <1>5, <1>10, Zenon DEF Flat, t, c

\* They are a sequence; one more is put behind them.
LEMMA FlatOneByOne ==
    ASSUME NEW X, NEW N \in Nat, NEW s, AreLists(s, N, X), NEW n \in 0 .. N
    PROVE  /\ Flat(s, n) \in Seq(X)
           /\ n = 0 => Flat(s, n) = <<>>
           /\ n < N => IsConcat(Flat(s, n + 1), Flat(s, n), s[n + 1])
<1> DEFINE c == FlatFunction(s, N)
<1>1. IsFlat(c, s, N, X)
  BY FlatFunctionExists
<1>2. \A i \in 1 .. N : Flat(s, i) = c[i]
  BY FlatIsFunction
<1> HIDE DEF c
<1>3. Flat(s, 0) = <<>>
  BY DEF Flat, FlattenSeq
<1>4. CASE n = 0
  <2>1. <<>> \in Seq(X)
    OBVIOUS
  <2>2. ASSUME 0 < N
        PROVE  IsConcat(Flat(s, 1), <<>>, s[1])
    <3>1. 1 \in 1 .. N
      BY <2>2
    <3>2. Flat(s, 1) = c[1]
      BY <1>2, <3>1
    <3>3. c[1] = s[1]
      BY <1>1, <2>2 DEF IsFlat
    <3>4. s[1] \in Seq(X)
      BY <3>1 DEF AreLists
    <3>5. <<>> \o s[1] = s[1]
      BY <3>4, ConcatEmptySeq
    <3> QED
      BY <3>2, <3>3, <3>5, Zenon DEF IsConcat
  <2>3. 0 + 1 = 1
    OBVIOUS
  <2> QED
    BY <1>3, <1>4, <2>1, <2>2, <2>3, Zenon
<1>5. CASE n # 0
  <2>1. n \in 1 .. N
    BY <1>5
  <2>2. Flat(s, n) = c[n] /\ c[n] \in Seq(X)
    BY <1>1, <1>2, <2>1 DEF IsFlat
  <2>3. ASSUME n < N
        PROVE  IsConcat(Flat(s, n + 1), Flat(s, n), s[n + 1])
    <3>1. n \in 1 .. N - 1 /\ n + 1 \in 1 .. N
      BY <2>1, <2>3
    <3>2. Flat(s, n + 1) = c[n + 1]
      BY <1>2, <3>1
    <3>3. c[n + 1] = c[n] \o s[n + 1]
      BY <1>1, <3>1 DEF IsFlat
    <3> QED
      BY <2>2, <3>2, <3>3, Zenon DEF IsConcat
  <2> QED
    BY <1>5, <2>2, <2>3
<1> QED
  BY <1>4, <1>5

-----------------------------------------------------------------------------
(* The text of files.                                                      *)

\* The elements of a text.
TextItems == Items \cup {[element |-> "unreadable"]}

LEMMA ContentsOfFiles ==
    ASSUME input \in Inputs
    PROVE  /\ Contents(input) \subseteq Seq(Items)
           /\ input.files[input.main].items \in Contents(input)
           /\ \A f \in DOMAIN input.files : Content(f) \in Contents(input)
<1>1. IsInput(input)
  BY InputsAssumption
<1>2. \A f \in DOMAIN input.files : input.files[f].items \in Seq(Items)
  BY <1>1 DEF IsInput, Files
<1>3. <<[element |-> "unknown"]>> \in Seq(Items)
  <2>1. [element |-> "unknown"] \in Items
    BY DEF Items
  <2> QED
    BY <2>1
<1>4. \A f \in DOMAIN input.files : ContentOf(input, f) \in Seq(Items)
  BY <1>2, <1>3 DEF ContentOf
<1>5. Contents(input) \subseteq Seq(Items)
  BY <1>1, <1>2, <1>4 DEF Contents, IsInput
<1> QED
  BY <1>5 DEF Contents, Content

TextFunctions == [Contents(input) -> Seq(TextItems)]

LEMMA ElementInText ==
    ASSUME input \in Inputs, NEW text \in TextFunctions, NEW item \in Items
    PROVE  InText(text, item) \in Seq(TextItems)
<1>1. item \in TextItems /\ [element |-> "unreadable"] \in TextItems
  BY DEF TextItems
<1>2. <<item>> \in Seq(TextItems) /\ <<[element |-> "unreadable"]>> \in Seq(TextItems)
  BY <1>1
<1>3. ASSUME Readable(item.href)
      PROVE  text[Content(item.href)] \in Seq(TextItems)
  BY <1>3, ContentsOfFiles DEF Readable, TextFunctions
<1> QED
  BY <1>2, <1>3 DEF InText

\* A text grows by what one more element is in it.
LEMMA SplicedOneByOne ==
    ASSUME input \in Inputs, NEW text \in TextFunctions,
           NEW items \in Contents(input), NEW n \in 0 .. Len(items)
    PROVE  /\ Spliced(text, items, n) \in Seq(TextItems)
           /\ n = 0 => Spliced(text, items, n) = <<>>
           /\ n < Len(items) =>
                  IsConcat(Spliced(text, items, n + 1), Spliced(text, items, n),
                           InText(text, items[n + 1]))
<1> DEFINE s == [k \in 1 .. Len(items) |-> InText(text, items[k])]
<1>1. items \in Seq(Items) /\ Len(items) \in Nat
      /\ \A k \in 1 .. Len(items) : items[k] \in Items
  BY ContentsOfFiles
<1>2. AreLists(s, Len(items), TextItems)
  BY <1>1, ElementInText DEF AreLists
<1>3. ASSUME NEW m \in 0 .. Len(items)
      PROVE  Spliced(text, items, m) = Flat(s, m)
  <2>1. [k \in 1 .. m |-> InText(text, items[k])] = [k \in 1 .. m |-> s[k]]
    BY <1>1
  <2> QED
    BY <2>1, Zenon DEF Spliced, Flat
<1>4. \A k \in 1 .. Len(items) : s[k] = InText(text, items[k])
  OBVIOUS
<1> HIDE DEF s
<1>5. /\ Flat(s, n) \in Seq(TextItems)
      /\ n = 0 => Flat(s, n) = <<>>
      /\ n < Len(items) => IsConcat(Flat(s, n + 1), Flat(s, n), s[n + 1])
  BY <1>1, <1>2, FlatOneByOne
<1>6. Spliced(text, items, n) = Flat(s, n)
  BY <1>3
<1>7. ASSUME n < Len(items)
      PROVE  IsConcat(Spliced(text, items, n + 1), Spliced(text, items, n),
                      InText(text, items[n + 1]))
  <2>1. n + 1 \in 0 .. Len(items) /\ n + 1 \in 1 .. Len(items)
    BY <1>1, <1>7
  <2>2. Spliced(text, items, n + 1) = Flat(s, n + 1)
    BY <1>3, <2>1
  <2>3. s[n + 1] = InText(text, items[n + 1])
    BY <1>4, <2>1
  <2> QED
    BY <1>5, <1>6, <1>7, <2>2, <2>3, Zenon
<1> QED
  BY <1>5, <1>6, <1>7

\* Texts are defined: what an element stands for depends on files included.
LEMMA TextsDefined ==
    ASSUME input \in Inputs
    PROVE  /\ Texts \in TextFunctions
           /\ \A items \in Contents(input) : Texts[items] = Spliced(Texts, items, Len(items))
<1> DEFINE S == Contents(input)
           V == Seq(TextItems)
           K == Cardinality(DOMAIN input.files)
           F == [f \in [S -> V] |-> [items \in S |-> Spliced(f, items, Len(items))]]
<1>1. IsFiniteSet(DOMAIN input.files) /\ IncludesEnd(input)
  BY InputsAssumption DEF IsInput
<1>2. PICK depth \in [S -> 0 .. K] :
          \A items \in S : \A f \in DOMAIN input.files :
              Includes(input, items, f) => depth[ContentOf(input, f)] < depth[items]
  BY <1>1 DEF IncludesEnd
<1>3. K \in Nat
  BY <1>1, FS_CardinalityType
<1>4. S \subseteq Seq(Items)
  BY ContentsOfFiles
<1>5. F \in [[S -> V] -> [S -> V]]
  <2> SUFFICES ASSUME NEW f \in [S -> V], NEW items \in S
               PROVE  Spliced(f, items, Len(items)) \in V
    OBVIOUS
  <2>1. Len(items) \in 0 .. Len(items)
    BY <1>4
  <2> QED
    BY <2>1, SplicedOneByOne DEF TextFunctions
<1>6. ASSUME NEW f, NEW g, NEW items \in S,
             \A k \in S : depth[k] < depth[items] => f[k] = g[k]
      PROVE  Spliced(f, items, Len(items)) = Spliced(g, items, Len(items))
  <2>1. ASSUME NEW k \in 1 .. Len(items)
        PROVE  InText(f, items[k]) = InText(g, items[k])
    <3> DEFINE file == items[k].href
    <3>1. ASSUME items[k].element = "include", Readable(file)
          PROVE  f[Content(file)] = g[Content(file)]
      <4>1. Includes(input, items, file) /\ file \in DOMAIN input.files
        BY <1>4, <3>1 DEF Includes, Readable
      <4>2. depth[Content(file)] < depth[items] /\ Content(file) \in S
        BY <1>2, <4>1, ContentsOfFiles DEF Content
      <4> QED
        BY <1>6, <4>2
    <3> QED
      BY <3>1 DEF InText
  <2>2. [k \in 1 .. Len(items) |-> InText(f, items[k])]
            = [k \in 1 .. Len(items) |-> InText(g, items[k])]
    BY <2>1
  <2> QED
    BY <2>2, Zenon DEF Spliced
<1>7. /\ <<>> \in V
      /\ \A f, g \in [S -> V] : \A items \in S :
             (\A k \in S : depth[k] < depth[items] => f[k] = g[k])
                 => F[f][items] = F[g][items]
  BY <1>6
<1>8. PICK f \in [S -> V] : f = F[f]
  <2> HIDE DEF V, F, S, K
  <2>1. IsDefinition(F, S, V, depth, K)
    BY <1>2, <1>3, <1>5, <1>7 DEF IsDefinition
  <2>2. IsDefined(F, S, V)
    BY <2>1, DefinitionDefines
  <2> QED
    BY <2>2 DEF IsDefined
<1> DEFINE Solves(t) == t = [items \in S |-> Spliced(t, items, Len(items))]
<1>9. Solves(f)
  BY <1>8
<1>10. Texts = CHOOSE t : Solves(t)
  BY DEF Texts
<1>11. Solves(Texts)
  <2> HIDE DEF Solves
  <2> QED
    BY <1>9, <1>10
<1>12. DOMAIN Texts = S /\ \A items \in S : Texts[items] = Spliced(Texts, items, Len(items))
  BY <1>11
<1>13. \A items \in S : f[items] = Spliced(f, items, Len(items))
  BY <1>9
<1>14. ASSUME NEW items \in S, Texts[items] # f[items]
       PROVE  FALSE
  <2> DEFINE T == {n \in Nat : \E k \in S : depth[k] = n /\ Texts[k] # f[k]}
  <2>1. depth[items] \in T
    BY <1>2, <1>14
  <2>2. PICK n \in T : \A m \in T : n <= m
    BY <2>1, LeastNatural
  <2>3. PICK k \in S : depth[k] = n /\ Texts[k] # f[k]
    BY <2>2
  <2>4. ASSUME NEW j \in S, depth[j] < depth[k]
        PROVE  Texts[j] = f[j]
    <3>1. depth[j] \in Nat /\ n \in Nat
      BY <1>2, <2>2
    <3>2. depth[j] \notin T
      BY <2>2, <2>3, <2>4, <3>1
    <3> QED
      BY <3>1, <3>2
  <2>5. Spliced(Texts, k, Len(k)) = Spliced(f, k, Len(k))
    BY <1>6, <2>4
  <2> QED
    BY <1>12, <1>13, <2>3, <2>5
<1>15. Texts \in [S -> V]
  <2>1. \A items \in S : Texts[items] \in V
    BY <1>14
  <2>2. Texts = [items \in S |-> Texts[items]]
    BY <1>11, <1>12
  <2> HIDE DEF S, V
  <2> QED
    BY <2>1, <2>2
<1> QED
  BY <1>12, <1>15 DEF TextFunctions

-----------------------------------------------------------------------------
(* What is in a text made of two.                                          *)

LEMMA Segments ==
    ASSUME NEW X, NEW a \in Seq(X), NEW b \in Seq(X), NEW r, IsConcat(r, a, b)
    PROVE  /\ r \in Seq(X) /\ Len(r) = Len(a) + Len(b)
           /\ DOMAIN r = 1 .. Len(a) + Len(b)
           /\ \A i \in 1 .. Len(a) : r[i] = a[i]
           /\ \A j \in 1 .. Len(b) : r[Len(a) + j] = b[j]
BY DEF IsConcat

\* The positions in the second part.
LEMMA Behind ==
    ASSUME NEW m \in Nat, NEW n \in Nat, NEW k \in 1 .. m + n
    PROVE  k \in 1 .. m \/ \E j \in 1 .. n : k = m + j
<1>1. CASE k <= m
  BY <1>1
<1>2. CASE ~(k <= m)
  <2>1. k - m \in 1 .. n /\ k = m + (k - m)
    BY <1>2
  <2> QED
    BY <2>1
<1> QED
  BY <1>1, <1>2

\* What is read as the messages of a text.
ReadMessages == {ParsedTree(tree, 0) : tree \in NodeTrees}

MessageAt(item) ==
    IF item.element = "message" THEN <<ParsedTree(item.tree, 0)>> ELSE <<>>

LEMMA MessageItem ==
    ASSUME NEW item \in TextItems
    PROVE  /\ item.element = "message" =>
                  item.tree \in NodeTrees /\ item.tree[1].kind = "message"
           /\ item.element = "types" => item.trees \in Seq(NodeTrees)
           /\ MessageAt(item) \in Seq(ReadMessages)
<1>1. item.element = "message" => item.tree \in NodeTrees /\ item.tree[1].kind = "message"
  BY DEF TextItems, Items
<1>2. item.element = "types" => item.trees \in Seq(NodeTrees)
  BY DEF TextItems, Items
<1>3. ASSUME item.element = "message"
      PROVE  <<ParsedTree(item.tree, 0)>> \in Seq(ReadMessages)
  <2>1. ParsedTree(item.tree, 0) \in ReadMessages
    BY <1>1, <1>3 DEF ReadMessages
  <2> QED
    BY <2>1
<1>4. <<>> \in Seq(ReadMessages)
  OBVIOUS
<1> QED
  BY <1>1, <1>2, <1>3, <1>4 DEF MessageAt

LEMMA MessagesOneByOne ==
    ASSUME NEW text \in Seq(TextItems), NEW n \in 0 .. Len(text)
    PROVE  /\ MessagesBefore(text, n) \in Seq(ReadMessages)
           /\ n = 0 => MessagesBefore(text, n) = <<>>
           /\ n < Len(text) =>
                  IsConcat(MessagesBefore(text, n + 1), MessagesBefore(text, n),
                           MessageAt(text[n + 1]))
<1> PICK N \in Nat : N = Len(text)
  OBVIOUS
<1> DEFINE s == [k \in 1 .. N |-> MessageAt(text[k])]
<1>1. \A k \in 1 .. N : text[k] \in TextItems
  OBVIOUS
<1>2. AreLists(s, N, ReadMessages)
  BY <1>1, MessageItem DEF AreLists
<1>3. ASSUME NEW m \in 0 .. N
      PROVE  MessagesBefore(text, m) = Flat(s, m)
  <2>1. [k \in 1 .. m |-> MessageAt(text[k])] = [k \in 1 .. m |-> s[k]]
    OBVIOUS
  <2> QED
    BY <2>1, Zenon DEF MessagesBefore, MessageAt, Flat
<1>4. \A k \in 1 .. N : s[k] = MessageAt(text[k])
  OBVIOUS
<1> HIDE DEF s
<1>5. /\ Flat(s, n) \in Seq(ReadMessages)
      /\ n = 0 => Flat(s, n) = <<>>
      /\ n < N => IsConcat(Flat(s, n + 1), Flat(s, n), s[n + 1])
  BY <1>2, FlatOneByOne
<1>6. MessagesBefore(text, n) = Flat(s, n)
  BY <1>3
<1>7. ASSUME n < N
      PROVE  IsConcat(MessagesBefore(text, n + 1), MessagesBefore(text, n),
                      MessageAt(text[n + 1]))
  <2>1. n + 1 \in 0 .. N /\ n + 1 \in 1 .. N
    BY <1>7
  <2>2. MessagesBefore(text, n + 1) = Flat(s, n + 1)
    BY <1>3, <2>1
  <2>3. s[n + 1] = MessageAt(text[n + 1])
    BY <1>4, <2>1
  <2> QED
    BY <1>5, <1>6, <1>7, <2>2, <2>3, Zenon
<1> QED
  BY <1>5, <1>6, <1>7

\* The messages of the first part, then those of the second.
LEMMA MessagesOfBoth ==
    ASSUME NEW a \in Seq(TextItems), NEW b \in Seq(TextItems), NEW r, IsConcat(r, a, b)
    PROVE  /\ IsConcat(MessagesIn(r), MessagesIn(a), MessagesIn(b))
           /\ MessagesIn(a) \in Seq(ReadMessages)
<1> PICK m \in Nat : m = Len(a)
  OBVIOUS
<1> PICK n \in Nat : n = Len(b)
  OBVIOUS
<1> DEFINE T == {j \in Nat : j <= n =>
                     IsConcat(MessagesBefore(r, m + j), MessagesIn(a), MessagesBefore(b, j))}
<1>1. /\ r \in Seq(TextItems) /\ Len(r) = m + n
      /\ \A i \in 1 .. m : r[i] = a[i]
      /\ \A j \in 1 .. n : r[m + j] = b[j]
  BY Segments
<1>2. MessagesIn(a) \in Seq(ReadMessages)
  BY MessagesOneByOne DEF MessagesIn
<1>3. MessagesBefore(r, m) = MessagesIn(a)
  <2>1. [k \in 1 .. m |-> MessageAt(r[k])] = [k \in 1 .. m |-> MessageAt(a[k])]
    BY <1>1
  <2> QED
    BY <2>1, Zenon DEF MessagesBefore, MessagesIn, MessageAt
<1>4. 0 \in T
  <2>1. MessagesBefore(b, 0) = <<>>
    BY MessagesOneByOne
  <2>2. MessagesIn(a) \o <<>> = MessagesIn(a)
    BY <1>2, ConcatEmptySeq
  <2>3. IsConcat(MessagesBefore(r, m), MessagesIn(a), MessagesBefore(b, 0))
    BY <1>3, <2>1, <2>2, Zenon DEF IsConcat
  <2>4. m + 0 = m
    OBVIOUS
  <2> QED
    BY <2>3, <2>4
<1>5. ASSUME NEW j \in Nat, j \in T
      PROVE  j + 1 \in T
  <2>1. CASE j + 1 <= n
    <3>1. /\ j \in 0 .. Len(b) /\ j < Len(b) /\ j + 1 \in 1 .. n
          /\ m + j \in 0 .. Len(r) /\ m + j < Len(r) /\ (m + j) + 1 = m + (j + 1)
      BY <1>1, <2>1
    <3> DEFINE x == MessageAt(b[j + 1])
               p == MessagesBefore(b, j)
               q == MessagesIn(a)
    <3>2. r[(m + j) + 1] = b[j + 1] /\ b[j + 1] \in TextItems
      BY <1>1, <3>1
    <3>3. x \in Seq(ReadMessages) /\ p \in Seq(ReadMessages) /\ q \in Seq(ReadMessages)
      BY <1>2, <3>1, <3>2, MessageItem, MessagesOneByOne
    <3>4. IsConcat(MessagesBefore(b, j + 1), p, x)
      BY <3>1, MessagesOneByOne
    <3>5. IsConcat(MessagesBefore(r, (m + j) + 1), MessagesBefore(r, m + j), x)
      <4>1. IsConcat(MessagesBefore(r, (m + j) + 1), MessagesBefore(r, m + j),
                     MessageAt(r[(m + j) + 1]))
        BY <1>1, <3>1, MessagesOneByOne
      <4> QED
        BY <3>2, <4>1, Zenon
    <3>6. IsConcat(MessagesBefore(r, m + j), q, p)
      BY <1>5, <3>1
    <3> HIDE DEF x, p, q
    <3>7. (q \o p) \o x = q \o (p \o x)
        <4>1. Associative(ReadMessages)
        BY Concatenations
      <4> QED
        BY <3>3, <4>1, Zenon DEF Associative
    <3>8. IsConcat(MessagesBefore(r, (m + j) + 1), q, MessagesBefore(b, j + 1))
      BY <3>4, <3>5, <3>6, <3>7, Zenon DEF IsConcat
    <3> QED
      BY <3>1, <3>8 DEF q
  <2>2. CASE ~(j + 1 <= n)
    BY <2>2
  <2> QED
    BY <2>1, <2>2
<1> HIDE DEF T
<1>6. n \in T
  BY <1>4, <1>5, NaturalInduction
<1>7. IsConcat(MessagesBefore(r, m + n), MessagesIn(a), MessagesBefore(b, n))
  BY <1>6 DEF T
<1> QED
  BY <1>1, <1>2, <1>7, Zenon DEF MessagesIn

LEMMA EncodingsOfBoth ==
    ASSUME NEW a \in Seq(TextItems), NEW b \in Seq(TextItems), NEW r, IsConcat(r, a, b)
    PROVE  EncodingsIn(r) = EncodingsIn(a) \cup EncodingsIn(b)
<1> PICK m \in Nat : m = Len(a)
  OBVIOUS
<1> PICK n \in Nat : n = Len(b)
  OBVIOUS
<1>1. /\ DOMAIN r = 1 .. m + n /\ DOMAIN a = 1 .. m /\ DOMAIN b = 1 .. n
      /\ \A i \in 1 .. m : r[i] = a[i]
      /\ \A j \in 1 .. n : r[m + j] = b[j]
  BY Segments
<1>2. \A i \in 1 .. m : i \in 1 .. m + n
  OBVIOUS
<1>3. \A j \in 1 .. n : m + j \in 1 .. m + n
  OBVIOUS
<1>4. ASSUME NEW t \in EncodingsIn(r)
      PROVE  t \in EncodingsIn(a) \cup EncodingsIn(b)
  <2>1. PICK k \in 1 .. m + n : t \in EncodingsOf(r[k])
    BY <1>1 DEF EncodingsIn
  <2>2. CASE k \in 1 .. m
    BY <1>1, <2>1, <2>2 DEF EncodingsIn
  <2>3. CASE \E j \in 1 .. n : k = m + j
    <3>1. PICK j \in 1 .. n : k = m + j
      BY <2>3
    <3>2. j \in DOMAIN b /\ t \in EncodingsOf(b[j])
      BY <1>1, <2>1, <3>1
    <3> QED
      BY <3>2 DEF EncodingsIn
  <2> QED
    BY <2>1, <2>2, <2>3, Behind
<1>5. EncodingsIn(a) \subseteq EncodingsIn(r)
  BY <1>1, <1>2 DEF EncodingsIn
<1>6. EncodingsIn(b) \subseteq EncodingsIn(r)
  BY <1>1, <1>3 DEF EncodingsIn
<1> QED
  BY <1>4, <1>5, <1>6

\* Some element of one and some of the other define the same.
DefineTwice(a, b) ==
    \E j \in DOMAIN a, k \in DOMAIN b : DefineTheSame(a[j], b[k])

LEMMA WrongInBoth ==
    ASSUME NEW a \in Seq(TextItems), NEW b \in Seq(TextItems), NEW r, IsConcat(r, a, b)
    PROVE  Wrong(r) <=> Wrong(a) \/ Wrong(b) \/ DefineTwice(a, b)
<1> PICK m \in Nat : m = Len(a)
  OBVIOUS
<1> PICK n \in Nat : n = Len(b)
  OBVIOUS
<1>1. /\ DOMAIN r = 1 .. m + n /\ DOMAIN a = 1 .. m /\ DOMAIN b = 1 .. n
      /\ \A i \in 1 .. m : r[i] = a[i]
      /\ \A j \in 1 .. n : r[m + j] = b[j]
  BY Segments
<1>2. \A i \in 1 .. m : i \in 1 .. m + n
  OBVIOUS
<1>3. \A j \in 1 .. n : m + j \in 1 .. m + n
  OBVIOUS
<1>4. \A i \in 1 .. m : \A j \in 1 .. n : i < m + j
  OBVIOUS
<1>5. \A i, j \in 1 .. n : i < j <=> m + i < m + j
  OBVIOUS
<1>6. ASSUME Wrong(a)
      PROVE  Wrong(r)
  <2>1. CASE \E k \in 1 .. m : IsWrong(a[k])
    BY <1>1, <1>2, <2>1 DEF Wrong
  <2>2. CASE \E j, k \in 1 .. m : j < k /\ DefineTheSame(a[j], a[k])
    BY <1>1, <1>2, <2>2 DEF Wrong
  <2> QED
    BY <1>1, <1>6, <2>1, <2>2 DEF Wrong
<1>7. ASSUME Wrong(b)
      PROVE  Wrong(r)
  <2>1. CASE \E k \in 1 .. n : IsWrong(b[k])
    BY <1>1, <1>3, <2>1 DEF Wrong
  <2>2. CASE \E j, k \in 1 .. n : j < k /\ DefineTheSame(b[j], b[k])
    <3>1. PICK j \in 1 .. n, k \in 1 .. n : j < k /\ DefineTheSame(b[j], b[k])
      BY <2>2
    <3>2. m + j < m + k /\ m + j \in DOMAIN r /\ m + k \in DOMAIN r
          /\ r[m + j] = b[j] /\ r[m + k] = b[k]
      BY <1>1, <1>3, <1>5, <3>1
    <3> QED
      BY <3>1, <3>2 DEF Wrong
  <2> QED
    BY <1>1, <1>7, <2>1, <2>2 DEF Wrong
<1>8. ASSUME DefineTwice(a, b)
      PROVE  Wrong(r)
  <2>1. PICK j \in 1 .. m, k \in 1 .. n : DefineTheSame(a[j], b[k])
    BY <1>1, <1>8 DEF DefineTwice
  <2>2. j < m + k /\ j \in DOMAIN r /\ m + k \in DOMAIN r
        /\ r[j] = a[j] /\ r[m + k] = b[k]
    BY <1>1, <1>2, <1>3, <1>4
  <2> QED
    BY <2>1, <2>2 DEF Wrong
<1>9. ASSUME Wrong(r)
      PROVE  Wrong(a) \/ Wrong(b) \/ DefineTwice(a, b)
  <2>1. CASE \E k \in 1 .. m + n : IsWrong(r[k])
    <3>1. PICK k \in 1 .. m + n : IsWrong(r[k])
      BY <2>1
    <3>2. CASE k \in 1 .. m
      BY <1>1, <3>1, <3>2 DEF Wrong
    <3>3. CASE \E j \in 1 .. n : k = m + j
      BY <1>1, <3>1, <3>3 DEF Wrong
    <3> QED
      BY <3>2, <3>3, Behind
  <2>2. CASE \E j, k \in 1 .. m + n : j < k /\ DefineTheSame(r[j], r[k])
    <3>1. PICK j \in 1 .. m + n, k \in 1 .. m + n : j < k /\ DefineTheSame(r[j], r[k])
      BY <2>2
    <3>2. CASE k \in 1 .. m
      <4>1. j \in 1 .. m
        BY <3>1, <3>2
      <4> QED
        BY <1>1, <3>1, <3>2, <4>1 DEF Wrong
    <3>3. CASE \E i \in 1 .. n : k = m + i
      <4> PICK i \in 1 .. n : k = m + i
        BY <3>3
      <4>1. CASE j \in 1 .. m
        BY <1>1, <3>1, <4>1 DEF DefineTwice
      <4>2. CASE \E h \in 1 .. n : j = m + h
        <5> PICK h \in 1 .. n : j = m + h
          BY <4>2
        <5>1. h < i
          BY <3>1
        <5>2. r[j] = b[h] /\ r[k] = b[i]
          BY <1>1
        <5> QED
          BY <1>1, <3>1, <5>1, <5>2 DEF Wrong
      <4> QED
        BY <4>1, <4>2, Behind
    <3> QED
      BY <3>2, <3>3, Behind
  <2> QED
    BY <1>1, <1>9, <2>1, <2>2 DEF Wrong
<1> QED
  BY <1>6, <1>7, <1>8, <1>9

\* A text of one element.
LEMMA TextOfOne ==
    ASSUME NEW x \in TextItems
    PROVE  /\ <<x>> \in Seq(TextItems)
           /\ MessagesIn(<<x>>) = MessageAt(x)
           /\ EncodingsIn(<<x>>) = EncodingsOf(x)
           /\ Wrong(<<x>>) <=> IsWrong(x)
           /\ \A a : DefineTwice(a, <<x>>) <=> \E j \in DOMAIN a : DefineTheSame(a[j], x)
<1> PICK s : s = <<x>>
  OBVIOUS
<1>1. s \in Seq(TextItems) /\ Len(s) = 1 /\ DOMAIN s = {1} /\ s[1] = x
  OBVIOUS
<1>2. MessagesIn(s) = MessageAt(x)
  <2> PICK z \in Nat : z = 0
    OBVIOUS
  <2>1. MessagesBefore(s, z) = <<>>
        /\ IsConcat(MessagesBefore(s, z + 1), MessagesBefore(s, z), MessageAt(s[z + 1]))
    <3>1. z \in 0 .. Len(s) /\ z < Len(s)
      BY <1>1
    <3> QED
      BY <1>1, <3>1, MessagesOneByOne
  <2>2. z + 1 = 1
    OBVIOUS
  <2>3. <<>> \o MessageAt(x) = MessageAt(x)
    BY MessageItem, ConcatEmptySeq
  <2> QED
    BY <1>1, <2>1, <2>2, <2>3, Zenon DEF IsConcat, MessagesIn
<1>3. EncodingsIn(s) = EncodingsOf(x)
  BY <1>1 DEF EncodingsIn
<1>4. Wrong(s) <=> IsWrong(x)
  BY <1>1 DEF Wrong
<1>5. \A a : DefineTwice(a, s) <=> \E j \in DOMAIN a : DefineTheSame(a[j], x)
  BY <1>1 DEF DefineTwice
<1> QED
  BY <1>1, <1>2, <1>3, <1>4, <1>5, Zenon

\* The parser does not change what encodings and messages are called.
LEMMA ParsedRoot ==
    ASSUME NEW tree \in NodeTrees, NEW g \in Nat
    PROVE  /\ RootName(ParsedTree(tree, g)) = RootName(tree)
           /\ ParsedTree(tree, g)[1].id = tree[1].id
<1>1. tree \in Seq(Nodes) /\ tree # <<>>
  BY DEF NodeTrees
<1>2. 1 \in DOMAIN tree /\ tree[1] \in Nodes
  BY <1>1
<1>3. ParsedTree(tree, g)[1] = Parsed(tree[1], g)
  BY <1>2 DEF ParsedTree
<1> PICK n \in Nodes : n = tree[1]
  BY <1>2
<1>4. Parsed(n, g).name = n.name /\ Parsed(n, g).id = n.id
  <2>1. CASE n.kind = "type"
    BY <2>1 DEF Parsed, ParsedType, Nodes
  <2>2. CASE n.kind = "field"
    BY <2>2 DEF Parsed, Nodes
  <2>3. CASE n.kind = "group"
    BY <2>3 DEF Parsed, Nodes
  <2>4. CASE n.kind \notin {"type", "field", "group"}
    BY <2>4 DEF Parsed
  <2> QED
    BY <2>1, <2>2, <2>3, <2>4
<1> QED
  BY <1>3, <1>4 DEF RootName

LEMMA EncodingTreesInText ==
    /\ \A item \in TextItems : EncodingsOf(item) \subseteq NodeTrees
    /\ \A text \in Seq(TextItems) : EncodingsIn(text) \subseteq NodeTrees
<1>1. ASSUME NEW item \in TextItems
      PROVE  EncodingsOf(item) \subseteq NodeTrees
  <2>1. item.element = "types" => item.trees \in Seq(NodeTrees)
    BY MessageItem
  <2> QED
    BY <2>1 DEF EncodingsOf, ToSet
<1>2. ASSUME NEW text \in Seq(TextItems)
      PROVE  EncodingsIn(text) \subseteq NodeTrees
  <2>1. \A k \in DOMAIN text : text[k] \in TextItems
    OBVIOUS
  <2> QED
    BY <1>1, <2>1 DEF EncodingsIn
<1> QED
  BY <1>1, <1>2

\* Some tree of one set and some tree of the other have one name.
NamedAlike(S, T) == \E t \in S, u \in T : SameType(t, u)

LEMMA AlikeWhenRead ==
    ASSUME NEW A \in SUBSET NodeTrees, NEW S, AreReadFrom(S, A), NEW T
    PROVE  NamedAlike(S, T) <=> NamedAlike(A, T)
<1>1. ASSUME NEW u \in A, NEW g \in GarbageLengths, NEW x
      PROVE  SameType(ParsedTree(u, g), x) <=> SameType(u, x)
  <2>1. RootName(ParsedTree(u, g)) = RootName(u)
    BY GarbageAssumption, ParsedRoot
  <2> QED
    BY <2>1 DEF SameType
<1> QED
  BY <1>1 DEF NamedAlike, AreReadFrom

LEMMA AlikeBothWays ==
    ASSUME NEW S, NEW T
    PROVE  NamedAlike(S, T) <=> NamedAlike(T, S)
BY DEF NamedAlike, SameType

LEMMA ReadFromBoth ==
    ASSUME NEW S, NEW A, AreReadFrom(S, A), NEW T, NEW B, AreReadFrom(T, B)
    PROVE  AreReadFrom(S \cup T, A \cup B)
BY DEF AreReadFrom

\* Some message of one sequence has the name or the id of one of the other.
MessagesAlike(s, t) ==
    \E j \in DOMAIN s, k \in DOMAIN t : SameMessage(s[j], t[k])

\* Each message of a text is read, and no other.
LEMMA MessagesOfText ==
    ASSUME NEW text \in Seq(TextItems)
    PROVE  /\ \A k \in DOMAIN text : text[k].element = "message" =>
                  \E j \in DOMAIN MessagesIn(text) :
                      MessagesIn(text)[j] = ParsedTree(text[k].tree, 0)
           /\ \A j \in DOMAIN MessagesIn(text) : \E k \in DOMAIN text :
                  /\ text[k].element = "message"
                  /\ MessagesIn(text)[j] = ParsedTree(text[k].tree, 0)
<1> PICK N \in Nat : N = Len(text)
  OBVIOUS
<1> DEFINE Agree(s, n) ==
               /\ \A k \in 1 .. n : text[k].element = "message" =>
                      \E j \in DOMAIN s : s[j] = ParsedTree(text[k].tree, 0)
               /\ \A j \in DOMAIN s : \E k \in 1 .. n :
                      text[k].element = "message" /\ s[j] = ParsedTree(text[k].tree, 0)
           T == {n \in Nat : n <= N => Agree(MessagesBefore(text, n), n)}
<1>1. 0 \in T
  <2>1. MessagesBefore(text, 0) = <<>>
    BY MessagesOneByOne
  <2>2. DOMAIN <<>> = {} /\ 1 .. 0 = {}
    OBVIOUS
  <2> QED
    BY <2>1, <2>2, Zenon
<1>2. ASSUME NEW n \in Nat, n \in T
      PROVE  n + 1 \in T
  <2> SUFFICES ASSUME n + 1 <= N
               PROVE  Agree(MessagesBefore(text, n + 1), n + 1)
    OBVIOUS
  <2>1. n \in 0 .. Len(text) /\ n < Len(text) /\ n + 1 \in DOMAIN text /\ n <= N
    OBVIOUS
  <2> PICK x \in TextItems : x = text[n + 1]
    BY <2>1
  <2> PICK s \in Seq(ReadMessages) : s = MessagesBefore(text, n)
    BY <2>1, MessagesOneByOne
  <2> PICK r : r = MessagesBefore(text, n + 1)
    OBVIOUS
  <2>2. IsConcat(r, s, MessageAt(x))
    BY <2>1, MessagesOneByOne
  <2>3. Agree(s, n)
    BY <1>2, <2>1
  <2>4. \A k \in 1 .. n + 1 : k \in 1 .. n \/ k = n + 1
    OBVIOUS
  <2>5. CASE x.element = "message"
    <3> PICK y : y = ParsedTree(x.tree, 0)
      OBVIOUS
    <3>1. MessageAt(x) = <<y>> /\ y \in ReadMessages
      BY <2>5, MessageItem DEF MessageAt, ReadMessages
    <3>2. /\ DOMAIN r = 1 .. Len(s) + 1 /\ DOMAIN s = 1 .. Len(s)
          /\ \A i \in 1 .. Len(s) : r[i] = s[i]
          /\ r[Len(s) + 1] = y
      BY <2>2, <3>1 DEF IsConcat
    <3>3. \A i \in 1 .. Len(s) + 1 : i \in 1 .. Len(s) \/ i = Len(s) + 1
      OBVIOUS
    <3>4. Len(s) + 1 \in DOMAIN r /\ DOMAIN s \subseteq DOMAIN r
      BY <3>2
    <3>5. n + 1 \in 1 .. n + 1 /\ 1 .. n \subseteq 1 .. n + 1
      OBVIOUS
    <3>6. \A k \in 1 .. n + 1 : text[k].element = "message" =>
              \E j \in DOMAIN r : r[j] = ParsedTree(text[k].tree, 0)
      BY <2>3, <2>4, <3>2, <3>4
    <3>7. \A j \in DOMAIN r : \E k \in 1 .. n + 1 :
              text[k].element = "message" /\ r[j] = ParsedTree(text[k].tree, 0)
      BY <2>3, <2>5, <3>2, <3>3, <3>5
    <3> QED
      BY <3>6, <3>7
  <2>6. CASE x.element # "message"
    <3>1. r = s
      BY <2>2, <2>6, ConcatEmptySeq DEF MessageAt, IsConcat
    <3> QED
      BY <2>3, <2>4, <2>6, <3>1
  <2> QED
    BY <2>5, <2>6
<1> HIDE DEF T
<1>3. N \in T
  BY <1>1, <1>2, NaturalInduction
<1>4. Agree(MessagesBefore(text, N), N) /\ DOMAIN text = 1 .. N
  BY <1>3 DEF T
<1> QED
  BY <1>4 DEF MessagesIn

LEMMA MessagesLikeText ==
    ASSUME NEW a \in Seq(TextItems), NEW b \in Seq(TextItems)
    PROVE  MessagesAlike(MessagesIn(a), MessagesIn(b)) <=>
               \E j \in DOMAIN a, k \in DOMAIN b :
                   /\ a[j].element = "message" /\ b[k].element = "message"
                   /\ SameMessage(a[j].tree, b[k].tree)
<1>1. ASSUME NEW t \in NodeTrees, NEW u \in NodeTrees
      PROVE  SameMessage(ParsedTree(t, 0), ParsedTree(u, 0)) <=> SameMessage(t, u)
  <2>1. 0 \in Nat
    OBVIOUS
  <2> QED
    BY <2>1, ParsedRoot DEF SameMessage
<1>2. \A x \in TextItems : x.element = "message" => x.tree \in NodeTrees
  BY MessageItem
<1>3. (\A j \in DOMAIN a : a[j] \in TextItems) /\ (\A k \in DOMAIN b : b[k] \in TextItems)
  OBVIOUS
<1>4. ASSUME MessagesAlike(MessagesIn(a), MessagesIn(b))
      PROVE  \E j \in DOMAIN a, k \in DOMAIN b :
                 /\ a[j].element = "message" /\ b[k].element = "message"
                 /\ SameMessage(a[j].tree, b[k].tree)
  <2>1. PICK j \in DOMAIN MessagesIn(a), k \in DOMAIN MessagesIn(b) :
            SameMessage(MessagesIn(a)[j], MessagesIn(b)[k])
    BY <1>4 DEF MessagesAlike
  <2>2. PICK i \in DOMAIN a : a[i].element = "message"
                              /\ MessagesIn(a)[j] = ParsedTree(a[i].tree, 0)
    BY MessagesOfText
  <2>3. PICK h \in DOMAIN b : b[h].element = "message"
                              /\ MessagesIn(b)[k] = ParsedTree(b[h].tree, 0)
    BY MessagesOfText
  <2>4. SameMessage(a[i].tree, b[h].tree)
    BY <1>1, <1>2, <1>3, <2>1, <2>2, <2>3
  <2> QED
    BY <2>2, <2>3, <2>4
<1>5. ASSUME NEW j \in DOMAIN a, NEW k \in DOMAIN b,
             a[j].element = "message", b[k].element = "message",
             SameMessage(a[j].tree, b[k].tree)
      PROVE  MessagesAlike(MessagesIn(a), MessagesIn(b))
  <2>1. PICK i \in DOMAIN MessagesIn(a) : MessagesIn(a)[i] = ParsedTree(a[j].tree, 0)
    BY <1>5, MessagesOfText
  <2>2. PICK h \in DOMAIN MessagesIn(b) : MessagesIn(b)[h] = ParsedTree(b[k].tree, 0)
    BY <1>5, MessagesOfText
  <2>3. SameMessage(MessagesIn(a)[i], MessagesIn(b)[h])
    BY <1>1, <1>2, <1>3, <1>5, <2>1, <2>2
  <2> QED
    BY <2>3 DEF MessagesAlike
<1> QED
  BY <1>4, <1>5

LEMMA TwiceInTexts ==
    ASSUME NEW a \in Seq(TextItems), NEW b \in Seq(TextItems)
    PROVE  DefineTwice(a, b) <=> \/ NamedAlike(EncodingsIn(a), EncodingsIn(b))
                                 \/ MessagesAlike(MessagesIn(a), MessagesIn(b))
<1>1. NamedAlike(EncodingsIn(a), EncodingsIn(b)) <=>
          \E j \in DOMAIN a, k \in DOMAIN b :
              \E t \in EncodingsOf(a[j]), u \in EncodingsOf(b[k]) : SameType(t, u)
  BY DEF NamedAlike, EncodingsIn
<1> QED
  BY <1>1, MessagesLikeText DEF DefineTwice, DefineTheSame

\* Messages can be added if none is like those there.
LEMMA AddingMessages ==
    ASSUME NEW X, NEW s \in Seq(X), NEW more \in Seq(X), Unlike(more)
    PROVE  CanAddMessages(s, more) <=> ~MessagesAlike(s, more)
<1> PICK m \in Nat : m = Len(s)
  OBVIOUS
<1> PICK n \in Nat : n = Len(more)
  OBVIOUS
<1> PICK r : r = s \o more
  OBVIOUS
<1>1. /\ DOMAIN r = 1 .. m + n /\ Len(r) = m + n
      /\ DOMAIN s = 1 .. m /\ DOMAIN more = 1 .. n
      /\ \A i \in 1 .. m : r[i] = s[i]
      /\ \A j \in 1 .. n : r[m + j] = more[j]
  BY Segments DEF IsConcat
<1>2. CanAddMessages(s, more) <=>
          \A j \in 1 .. m + n : \A k \in m + 1 .. m + n : j < k => ~SameMessage(r[j], r[k])
  BY <1>1 DEF CanAddMessages
<1>3. ASSUME MessagesAlike(s, more)
      PROVE  ~CanAddMessages(s, more)
  <2>1. PICK j \in 1 .. m, k \in 1 .. n : SameMessage(s[j], more[k])
    BY <1>1, <1>3 DEF MessagesAlike
  <2>2. j \in 1 .. m + n /\ m + k \in m + 1 .. m + n /\ j < m + k
    OBVIOUS
  <2>3. SameMessage(r[j], r[m + k])
    BY <1>1, <2>1
  <2> QED
    BY <1>2, <2>2, <2>3
<1>4. ASSUME ~MessagesAlike(s, more), NEW j \in 1 .. m + n, NEW k \in m + 1 .. m + n, j < k
      PROVE  ~SameMessage(r[j], r[k])
  <2> PICK h \in 1 .. n : k = m + h
    <3>1. k - m \in 1 .. n /\ k = m + (k - m)
      OBVIOUS
    <3> QED
      BY <3>1
  <2>1. r[k] = more[h]
    BY <1>1
  <2>2. CASE j \in 1 .. m
    BY <1>1, <1>4, <2>1, <2>2 DEF MessagesAlike
  <2>3. CASE \E i \in 1 .. n : j = m + i
    <3> PICK i \in 1 .. n : j = m + i
      BY <2>3
    <3>1. r[j] = more[i] /\ i # h
      BY <1>1, <1>4
    <3> QED
      BY <1>1, <2>1, <3>1 DEF Unlike
  <2> QED
    BY <2>2, <2>3, Behind
<1> QED
  BY <1>2, <1>3, <1>4

-----------------------------------------------------------------------------
(* What parsers have read is what the text of the elements behind them has *)
(* in it.                                                                  *)

\* The text of the elements a parser has passed.
SoFar(p) == Spliced(Texts, p.items, p.at - 1)

HasRead(p) ==
    /\ p.items \in Contents(input) /\ p.at \in 1 .. Len(p.items) + 1
    /\ IsFiniteSet(p.types)
    /\ p.messages = MessagesIn(SoFar(p))
    /\ AreReadFrom(p.types, EncodingsIn(SoFar(p)))
    /\ ~Wrong(SoFar(p))

\* Parser q reads the file of the include that p is at.
IncludedBy(p, q) ==
    /\ p.at <= Len(p.items) /\ p.items[p.at].element = "include"
    /\ Readable(p.items[p.at].href)
    /\ q.items = Content(p.items[p.at].href)

AllHaveRead == \A k \in DOMAIN parsers : HasRead(parsers[k])

StackOfIncludes ==
    /\ parsers # <<>> => parsers[1].items = input.files[input.main].items
    /\ \A k \in DOMAIN parsers : k + 1 \in DOMAIN parsers =>
           IncludedBy(parsers[k], parsers[k + 1])

\* No file is open before the schema's own is.
HeaderLast == stage = "parse" /\ parsers = <<>> => schema.header = None

LEMMA OneMoreElement ==
    ASSUME input \in Inputs, NEW items \in Contents(input), NEW at \in 1 .. Len(items)
    PROVE  /\ items[at] \in Items
           /\ InText(Texts, items[at]) \in Seq(TextItems)
           /\ Spliced(Texts, items, at - 1) \in Seq(TextItems)
           /\ Spliced(Texts, items, at) \in Seq(TextItems)
           /\ IsConcat(Spliced(Texts, items, at), Spliced(Texts, items, at - 1),
                       InText(Texts, items[at]))
<1>1. items \in Seq(Items) /\ items[at] \in Items
  BY ContentsOfFiles
<1>2. Texts \in TextFunctions
  BY TextsDefined
<1>3. at - 1 \in 0 .. Len(items) /\ at \in 0 .. Len(items) /\ at - 1 < Len(items)
      /\ (at - 1) + 1 = at
  BY <1>1
<1> PICK n \in 0 .. Len(items) : n = at - 1
  BY <1>3
<1>4. /\ Spliced(Texts, items, n) \in Seq(TextItems)
      /\ IsConcat(Spliced(Texts, items, n + 1), Spliced(Texts, items, n),
                  InText(Texts, items[n + 1]))
  BY <1>2, <1>3, SplicedOneByOne
<1>5. Spliced(Texts, items, at) \in Seq(TextItems)
  BY <1>2, <1>3, SplicedOneByOne
<1>6. InText(Texts, items[at]) \in Seq(TextItems)
  BY <1>1, <1>2, ElementInText
<1> QED
  BY <1>1, <1>3, <1>4, <1>5, <1>6

\* What a parser reads, in the text.
LEMMA ReadOn ==
    ASSUME input \in Inputs, NEW p, HasRead(p), p.at <= Len(p.items),
           NEW x, x = InText(Texts, p.items[p.at]),
           ~Wrong(x), ~DefineTwice(SoFar(p), x),
           NEW E, IsFiniteSet(E), AreReadFrom(E, EncodingsIn(x)),
           NEW q, q.items = p.items, q.at = p.at + 1,
           q.types = p.types \cup E,
           IsConcat(q.messages, p.messages, MessagesIn(x))
    PROVE  HasRead(q)
<1> DEFINE a == SoFar(p)
           r == Spliced(Texts, p.items, p.at)
<1>1. /\ p.items \in Contents(input) /\ p.at \in 1 .. Len(p.items) + 1
      /\ IsFiniteSet(p.types) /\ p.messages = MessagesIn(a)
      /\ AreReadFrom(p.types, EncodingsIn(a)) /\ ~Wrong(a)
  BY DEF HasRead
<1>2. p.items \in Seq(Items)
  BY <1>1, ContentsOfFiles
<1>3. p.at \in 1 .. Len(p.items) /\ q.at \in 1 .. Len(q.items) + 1 /\ q.at - 1 = p.at
  BY <1>1, <1>2
<1>4. /\ a \in Seq(TextItems) /\ x \in Seq(TextItems) /\ IsConcat(r, a, x)
  BY <1>1, <1>3, OneMoreElement DEF SoFar
<1>5. SoFar(q) = r
  BY <1>3 DEF SoFar
<1>6. ~DefineTwice(a, x)
  OBVIOUS
<1> HIDE DEF a, r
<1>7. ~Wrong(r)
  BY <1>1, <1>4, <1>6, WrongInBoth
<1>8. EncodingsIn(r) = EncodingsIn(a) \cup EncodingsIn(x)
  BY <1>4, EncodingsOfBoth
<1>9. AreReadFrom(q.types, EncodingsIn(r))
  BY <1>1, <1>8, ReadFromBoth
<1>10. IsFiniteSet(q.types)
  BY <1>1, FS_Union
<1>11. q.messages = MessagesIn(r)
  <2>1. IsConcat(MessagesIn(r), MessagesIn(a), MessagesIn(x))
    BY <1>4, MessagesOfBoth
  <2> QED
    BY <1>1, <2>1, Zenon DEF IsConcat
<1> QED
  BY <1>1, <1>3, <1>5, <1>7, <1>9, <1>10, <1>11 DEF HasRead

\* Nothing that follows makes a text right.
LEMMA StaysWrong ==
    ASSUME input \in Inputs, NEW items \in Contents(input), NEW n \in 1 .. Len(items),
           Wrong(Spliced(Texts, items, n))
    PROVE  Wrong(Texts[items])
<1> PICK N \in Nat : N = Len(items)
  BY ContentsOfFiles
<1> DEFINE T == {k \in Int : k \in 1 .. Len(items) => Wrong(Spliced(Texts, items, k))}
<1>1. n \in Int /\ N \in Int /\ N \in n .. N /\ N \in 1 .. Len(items)
  OBVIOUS
<1>2. n \in T
  OBVIOUS
<1>3. ASSUME NEW i \in n .. N - 1, i \in T
      PROVE  i + 1 \in T
  <2>1. i \in Int /\ i + 1 \in Int /\ i \in 1 .. Len(items) /\ i + 1 \in 1 .. Len(items)
        /\ (i + 1) - 1 = i
    BY <1>1
  <2>2. Wrong(Spliced(Texts, items, i))
    BY <1>3, <2>1
  <2>3. /\ InText(Texts, items[i + 1]) \in Seq(TextItems)
        /\ Spliced(Texts, items, i) \in Seq(TextItems)
        /\ IsConcat(Spliced(Texts, items, i + 1), Spliced(Texts, items, i),
                    InText(Texts, items[i + 1]))
    <3> PICK j \in 1 .. Len(items) : j = i + 1
      BY <2>1
    <3> QED
      BY <2>1, OneMoreElement
  <2>4. Wrong(Spliced(Texts, items, i + 1))
    BY <2>2, <2>3, WrongInBoth
  <2> QED
    BY <2>1, <2>4
<1> HIDE DEF T
<1>4. n .. N \subseteq T
  BY ONLY <1>1, <1>2, <1>3, IntervalInduction
<1>5. N \in T
  BY <1>1, <1>4
<1>6. Wrong(Spliced(Texts, items, Len(items)))
  BY <1>1, <1>5 DEF T
<1> QED
  BY <1>6, TextsDefined

\* Whatever is wrong in a file included is wrong in the schema.
LEMMA WrongGoesUp ==
    ASSUME input \in Inputs, AllHaveRead, StackOfIncludes, parsers \in Seq(ParserRecords),
           NEW k \in DOMAIN parsers, parsers[k].at <= Len(parsers[k].items),
           Wrong(Spliced(Texts, parsers[k].items, parsers[k].at))
    PROVE  Wrong(Whole)
<1> DEFINE Up(j) == /\ j \in DOMAIN parsers
                    /\ Wrong(Texts[parsers[j].items])
           U == {j \in Nat : Up(j)}
<1>0. DOMAIN parsers = 1 .. Len(parsers) /\ Len(parsers) \in Nat
  OBVIOUS
<1>1. ASSUME NEW j \in DOMAIN parsers, parsers[j].at <= Len(parsers[j].items),
             Wrong(Spliced(Texts, parsers[j].items, parsers[j].at))
      PROVE  Wrong(Texts[parsers[j].items])
  <2>1. parsers[j].items \in Contents(input)
        /\ parsers[j].at \in 1 .. Len(parsers[j].items) + 1
    BY DEF AllHaveRead, HasRead
  <2>2. parsers[j].items \in Seq(Items)
    BY <2>1, ContentsOfFiles
  <2>3. parsers[j].at \in 1 .. Len(parsers[j].items)
    BY <1>1, <2>1, <2>2
  <2> QED
    BY <1>1, <2>1, <2>3, StaysWrong
<1>2. Up(k)
  BY <1>1
<1>3. PICK j \in U : \A i \in U : j <= i
  <2>1. k \in U
    BY <1>0, <1>2
  <2> HIDE DEF U
  <2>2. U \in SUBSET Nat
    BY DEF U
  <2> QED
    BY <2>1, <2>2, LeastNatural
<1>4. CASE j = 1
  <2>1. Texts[parsers[1].items] = Whole
    BY <1>0, <1>3, <1>4 DEF StackOfIncludes, Whole
  <2> QED
    BY <1>3, <1>4, <2>1
<1>5. CASE j # 1
  <2> PICK h \in Nat : h = j - 1
    BY <1>0, <1>3, <1>5
  <2>1. h \in DOMAIN parsers /\ h + 1 = j /\ h + 1 \in DOMAIN parsers /\ ~(j <= h)
    BY <1>0, <1>3, <1>5
  <2> PICK p \in ParserRecords : p = parsers[h]
    BY <2>1
  <2>2. IncludedBy(p, parsers[j])
    BY <2>1 DEF StackOfIncludes
  <2>3. p.items \in Contents(input) /\ p.at \in 1 .. Len(p.items) + 1
    BY <2>1 DEF AllHaveRead, HasRead
  <2>4. p.items \in Seq(Items)
    BY <2>3, ContentsOfFiles
  <2>5. p.at \in 1 .. Len(p.items)
    BY <2>2, <2>3, <2>4 DEF IncludedBy
  <2>6. InText(Texts, p.items[p.at]) = Texts[parsers[j].items]
    BY <2>2 DEF IncludedBy, InText
  <2>7. Wrong(InText(Texts, p.items[p.at]))
    BY <1>3, <2>6
  <2>8. Wrong(Spliced(Texts, p.items, p.at))
    BY <2>3, <2>5, <2>7, OneMoreElement, WrongInBoth
  <2>9. Up(h)
    BY <1>1, <2>1, <2>2, <2>8 DEF IncludedBy
  <2> QED
    BY <1>3, <2>1, <2>9
<1> QED
  BY <1>4, <1>5

\* What has been read is about the input alone.
LEMMA KeepsText ==
    ASSUME input' = input
    PROVE  /\ Texts' = Texts /\ Whole' = Whole
           /\ \A p : HasRead(p)' <=> HasRead(p)
           /\ \A p, q : IncludedBy(p, q)' <=> IncludedBy(p, q)
<1>1. \A text, items, n : Spliced(text, items, n)' = Spliced(text, items, n)
  BY Zenon DEF Spliced, InText, Readable, Content
<1>2. Texts' = Texts
  BY <1>1, Zenon DEF Texts
<1>3. Whole' = Whole
  BY <1>2, Zenon DEF Whole
<1>4. \A p : HasRead(p)' <=> HasRead(p)
  BY <1>1, <1>2, Zenon DEF HasRead, SoFar
<1>5. \A p, q : IncludedBy(p, q)' <=> IncludedBy(p, q)
  BY DEF IncludedBy, Readable, Content
<1> QED
  BY <1>2, <1>3, <1>4, <1>5

LEMMA StackRead ==
    ASSUME input' = input,
           \A k \in DOMAIN parsers' : HasRead(parsers'[k]),
           parsers' # <<>> => parsers'[1].items = input.files[input.main].items,
           \A k \in DOMAIN parsers' : k + 1 \in DOMAIN parsers' =>
               IncludedBy(parsers'[k], parsers'[k + 1])
    PROVE  AllHaveRead' /\ StackOfIncludes'
<1>1. AllHaveRead'
  <2> SUFFICES ASSUME NEW k \in DOMAIN parsers'
               PROVE  HasRead(parsers[k])'
    BY DEF AllHaveRead
  <2> PICK p : p = parsers'[k]
    OBVIOUS
  <2>1. HasRead(p)'
    BY KeepsText
  <2> QED
    BY <2>1 DEF HasRead, SoFar
<1>2. StackOfIncludes'
  BY KeepsText DEF StackOfIncludes, IncludedBy, Readable, Content
<1> QED
  BY <1>1, <1>2

-----------------------------------------------------------------------------
(* An element is refused if and only if it is wrong where it stands.       *)

LEMMA TypesFit ==
    ASSUME NEW item \in TextItems, item.element = "types", NEW g \in GarbageLengths,
           NEW a \in Seq(TextItems), NEW S, AreReadFrom(S, EncodingsIn(a)),
           NEW read, read = {k \in DOMAIN item.trees :
                                 item.trees[k][1].kind \in EncodingKinds},
           NEW parsed, parsed = [k \in read |-> ParsedTree(item.trees[k], g)]
    PROVE  /\ (\E k \in read : Rejects(item.trees[k])) \/ ~CanAddTypes(S, parsed) <=>
                  Wrong(<<item>>) \/ DefineTwice(a, <<item>>)
           /\ AreReadFrom(ToSet(parsed), EncodingsOf(item))
           /\ IsFiniteSet(ToSet(parsed))
<1> PICK trees \in Seq(NodeTrees) : trees = item.trees
  BY MessageItem
<1> DEFINE A == EncodingsOf(item)
           E == ToSet(parsed)
<1>1. read = {k \in DOMAIN trees : trees[k][1].kind \in EncodingKinds}
      /\ parsed = [k \in read |-> ParsedTree(trees[k], g)]
  OBVIOUS
<1>2. read \subseteq 1 .. Len(trees) /\ \A k \in read : trees[k] \in NodeTrees
  BY <1>1
<1>3. A = {trees[k] : k \in read}
  BY <1>1 DEF EncodingsOf, ToSet
<1>4. DOMAIN parsed = read /\ E = {parsed[k] : k \in read}
      /\ \A k \in read : parsed[k] = ParsedTree(trees[k], g)
  BY <1>1 DEF ToSet
<1>5. \A k \in DOMAIN trees : trees[k] \in A => k \in read
  BY <1>1, <1>3
<1>6. A \in SUBSET NodeTrees
  BY <1>2, <1>3
<1>7. item.element # "unreadable" /\ item.element # "message"
  OBVIOUS
<1>8. IsWrong(item) <=> \/ \E t \in A : Rejects(t)
                        \/ \E j, k \in DOMAIN trees :
                               j < k /\ {trees[j], trees[k]} \subseteq A
                                     /\ SameType(trees[j], trees[k])
  BY <1>7, Zenon DEF IsWrong
<1>9. IsFiniteSet(E)
  <2>1. IsFiniteSet(read)
    <3>1. IsFiniteSet(1 .. Len(trees))
      BY FS_Interval
    <3> QED
      BY <1>2, <3>1, FS_Subset
  <2>2. parsed \in Surjection(read, E)
    BY <1>1, <1>4 DEF Surjection
  <2> HIDE DEF E
  <2> QED
    BY <2>1, <2>2, FS_Surjection
<1> HIDE DEF A, E
<1>10. AreReadFrom(E, A)
  <2>1. \A t \in E : \E u \in A : t = ParsedTree(u, g)
    BY ONLY <1>3, <1>4
  <2>2. \A u \in A : \E t \in E : t = ParsedTree(u, g)
    BY ONLY <1>3, <1>4
  <2> QED
    BY ONLY <2>1, <2>2, g \in GarbageLengths DEF AreReadFrom
<1>11. \A j, k \in read : SameType(parsed[j], parsed[k]) <=> SameType(trees[j], trees[k])
  <2> SUFFICES ASSUME NEW j \in read, NEW k \in read
               PROVE  SameType(parsed[j], parsed[k]) <=> SameType(trees[j], trees[k])
    OBVIOUS
  <2>1. RootName(parsed[j]) = RootName(trees[j]) /\ RootName(parsed[k]) = RootName(trees[k])
    BY <1>2, <1>4, ParsedRoot, GarbageAssumption
  <2> QED
    BY <2>1 DEF SameType
<1>12. CanAddTypes(S, parsed) <=>
           /\ ~NamedAlike(S, E)
           /\ \A j, k \in read : j < k => ~SameType(parsed[j], parsed[k])
  <2>1. (\A k \in read : \A t \in S : ~SameType(t, parsed[k])) <=> ~NamedAlike(S, E)
    BY ONLY <1>4 DEF NamedAlike
  <2> QED
    BY ONLY <1>4, <2>1 DEF CanAddTypes
<1>13. NamedAlike(S, E) <=> NamedAlike(EncodingsIn(a), A)
  <2>1. EncodingsIn(a) \in SUBSET NodeTrees
    BY EncodingTreesInText
  <2>2. NamedAlike(S, E) <=> NamedAlike(EncodingsIn(a), E)
    BY <2>1, AlikeWhenRead
  <2>3. NamedAlike(E, EncodingsIn(a)) <=> NamedAlike(A, EncodingsIn(a))
    BY <1>6, <1>10, AlikeWhenRead
  <2> QED
    BY <2>2, <2>3, AlikeBothWays
<1>14. DefineTwice(a, <<item>>) <=> NamedAlike(EncodingsIn(a), A)
  <2>1. EncodingsIn(<<item>>) = A /\ MessagesIn(<<item>>) = <<>>
        /\ <<item>> \in Seq(TextItems)
    BY <1>7, TextOfOne DEF MessageAt, A
  <2>2. ~MessagesAlike(MessagesIn(a), <<>>)
    BY DEF MessagesAlike
  <2>3. DefineTwice(a, <<item>>) <=> \/ NamedAlike(EncodingsIn(a), EncodingsIn(<<item>>))
                                     \/ MessagesAlike(MessagesIn(a), MessagesIn(<<item>>))
    BY <2>1, TwiceInTexts
  <2> QED
    BY <2>1, <2>2, <2>3
<1>15. Wrong(<<item>>) <=> IsWrong(item)
  BY TextOfOne
<1>16. IsWrong(item) <=> \/ \E k \in read : Rejects(trees[k])
                         \/ \E j, k \in read : j < k /\ SameType(trees[j], trees[k])
  BY <1>1, <1>3, <1>5, <1>8
<1> QED
  BY <1>9, <1>10, <1>11, <1>12, <1>13, <1>14, <1>15, <1>16 DEF A, E

LEMMA MessageFits ==
    ASSUME NEW item \in TextItems, item.element = "message",
           NEW a \in Seq(TextItems), NEW m, m = ParsedTree(item.tree, 0)
    PROVE  /\ Rejects(item.tree) \/ ~CanAddMessages(MessagesIn(a), <<m>>) <=>
                  Wrong(<<item>>) \/ DefineTwice(a, <<item>>)
           /\ MessagesIn(<<item>>) = <<m>>
           /\ EncodingsIn(<<item>>) = {}
           /\ MessagesIn(a) \in Seq(ReadMessages) /\ m \in ReadMessages
<1>1. EncodingsOf(item) = {}
  BY DEF EncodingsOf
<1>2. EncodingsIn(<<item>>) = {} /\ MessagesIn(<<item>>) = <<m>>
      /\ <<item>> \in Seq(TextItems)
  BY <1>1, TextOfOne DEF MessageAt
<1>3. m \in ReadMessages
  BY MessageItem DEF ReadMessages
<1>4. MessagesIn(a) \in Seq(ReadMessages)
  BY MessagesOneByOne DEF MessagesIn
<1>5. <<m>> \in Seq(ReadMessages) /\ Unlike(<<m>>)
  BY <1>3 DEF Unlike
<1>6. CanAddMessages(MessagesIn(a), <<m>>) <=> ~MessagesAlike(MessagesIn(a), <<m>>)
  BY <1>4, <1>5, AddingMessages
<1>7. ~NamedAlike(EncodingsIn(a), {})
  BY DEF NamedAlike
<1>8. DefineTwice(a, <<item>>) <=> \/ NamedAlike(EncodingsIn(a), EncodingsIn(<<item>>))
                                   \/ MessagesAlike(MessagesIn(a), MessagesIn(<<item>>))
  BY <1>2, TwiceInTexts
<1>9. Wrong(<<item>>) <=> IsWrong(item)
  BY TextOfOne
<1>10. IsWrong(item) <=> Rejects(item.tree)
  BY <1>1 DEF IsWrong
<1> QED
  BY <1>2, <1>3, <1>4, <1>6, <1>7, <1>8, <1>9, <1>10

\* What a file brings, for one that has all of it read.
LEMMA FileFits ==
    ASSUME NEW a \in Seq(TextItems), NEW b \in Seq(TextItems),
           NEW p, NEW q, Unlike(q.messages),
           p.messages = MessagesIn(a), AreReadFrom(p.types, EncodingsIn(a)),
           q.messages = MessagesIn(b), AreReadFrom(q.types, EncodingsIn(b))
    PROVE  CanMerge(p, q) <=> ~DefineTwice(a, b)
<1>1. NamedAlike(p.types, q.types) <=> NamedAlike(EncodingsIn(a), EncodingsIn(b))
  <2>1. EncodingsIn(a) \in SUBSET NodeTrees /\ EncodingsIn(b) \in SUBSET NodeTrees
    BY EncodingTreesInText
  <2>2. NamedAlike(p.types, q.types) <=> NamedAlike(EncodingsIn(a), q.types)
    BY <2>1, AlikeWhenRead
  <2>3. NamedAlike(q.types, EncodingsIn(a)) <=> NamedAlike(EncodingsIn(b), EncodingsIn(a))
    BY <2>1, AlikeWhenRead
  <2> QED
    BY <2>2, <2>3, AlikeBothWays
<1>2. MessagesIn(a) \in Seq(ReadMessages) /\ MessagesIn(b) \in Seq(ReadMessages)
  BY MessagesOneByOne DEF MessagesIn
<1>3. CanAddMessages(MessagesIn(a), MessagesIn(b)) <=>
          ~MessagesAlike(MessagesIn(a), MessagesIn(b))
  BY <1>2, AddingMessages
<1>4. CanMerge(p, q) <=> /\ ~NamedAlike(p.types, q.types)
                         /\ CanAddMessages(p.messages, q.messages)
  BY DEF CanMerge, NamedAlike
<1> QED
  BY <1>1, <1>3, <1>4, TwiceInTexts

-----------------------------------------------------------------------------
(* The parsers, step by step.                                              *)

HaveRead == AllHaveRead /\ StackOfIncludes /\ HeaderLast

\* A parser, the text it has passed and that of the element it is at.
LEMMA AtElement ==
    ASSUME Reading, AllHaveRead, NEW k \in DOMAIN parsers,
           parsers[k].at <= Len(parsers[k].items),
           NEW p, p = parsers[k], NEW x, x = InText(Texts, p.items[p.at])
    PROVE  /\ HasRead(p) /\ p \in ParserRecords
           /\ p.at \in 1 .. Len(p.items) /\ p.items \in Contents(input)
           /\ SoFar(p) \in Seq(TextItems) /\ x \in Seq(TextItems)
           /\ p.items[p.at] \in Items /\ p.items[p.at] \in TextItems
           /\ p.messages = MessagesIn(SoFar(p))
           /\ AreReadFrom(p.types, EncodingsIn(SoFar(p)))
<1>1. HasRead(p) /\ p \in ParserRecords
  BY DEF AllHaveRead, Reading
<1>2. /\ p.items \in Contents(input) /\ p.at \in 1 .. Len(p.items) + 1
      /\ p.messages = MessagesIn(SoFar(p))
      /\ AreReadFrom(p.types, EncodingsIn(SoFar(p)))
  BY <1>1 DEF HasRead
<1>3. input \in Inputs
  BY DEF Reading
<1>4. p.items \in Seq(Items)
  BY <1>2, <1>3, ContentsOfFiles
<1>5. p.at \in 1 .. Len(p.items)
  BY <1>2, <1>4
<1>6. SoFar(p) \in Seq(TextItems) /\ x \in Seq(TextItems) /\ p.items[p.at] \in Items
  BY <1>2, <1>3, <1>5, OneMoreElement DEF SoFar
<1>7. p.items[p.at] \in TextItems
  BY <1>6 DEF TextItems
<1> QED
  BY <1>1, <1>2, <1>5, <1>6, <1>7

\* An element that is wrong where it stands makes the schema wrong.
LEMMA WrongElement ==
    ASSUME Reading, AllHaveRead, StackOfIncludes, NEW k \in DOMAIN parsers,
           parsers[k].at <= Len(parsers[k].items),
           NEW p, p = parsers[k], NEW x, x = InText(Texts, p.items[p.at]),
           Wrong(x) \/ DefineTwice(SoFar(p), x)
    PROVE  Wrong(Whole)
<1>1. /\ SoFar(p) \in Seq(TextItems) /\ x \in Seq(TextItems)
      /\ p.at \in 1 .. Len(p.items) /\ p.items \in Contents(input)
  BY AtElement
<1>2. input \in Inputs /\ parsers \in Seq(ParserRecords)
  BY DEF Reading
<1>3. IsConcat(Spliced(Texts, p.items, p.at), SoFar(p), x)
  BY <1>1, <1>2, OneMoreElement DEF SoFar
<1>4. Wrong(Spliced(Texts, p.items, p.at))
  BY <1>1, <1>3, WrongInBoth
<1> QED
  BY <1>2, <1>4, WrongGoesUp

LEMMA ParserFails ==
    ASSUME HaveRead, Fail, stage = "parse",
           schema.header # None => Wrong(Whole)
    PROVE  HaveRead' /\ IncludesAreTextual'
<1>1. UNCHANGED <<input, stage, parsers, schema>>
  BY DEF Fail
<1>2. AllHaveRead' /\ StackOfIncludes'
  BY <1>1, StackRead DEF HaveRead, AllHaveRead, StackOfIncludes
<1>3. HeaderLast'
  BY <1>1 DEF HaveRead, HeaderLast
<1>4. (schema.header # None => Wrong(Whole))'
  BY <1>1, KeepsText
<1> QED
  BY <1>1, <1>2, <1>3, <1>4 DEF HaveRead, IncludesAreTextual

LEMMA ParserGoesOn ==
    ASSUME stage' = "parse", ~failed', parsers' # <<>>,
           AllHaveRead', StackOfIncludes'
    PROVE  HaveRead' /\ IncludesAreTextual'
BY DEF HaveRead, HeaderLast, IncludesAreTextual

\* A parser on top of others that stay what they are.
LEMMA Replaced ==
    ASSUME Reading, AllHaveRead, StackOfIncludes, NEW k \in DOMAIN parsers,
           NEW p, HasRead(p), p.items = parsers[k].items,
           input' = input, DOMAIN parsers' = 1 .. k, parsers'[k] = p,
           \A j \in 1 .. k - 1 : parsers'[j] = parsers[j]
    PROVE  AllHaveRead' /\ StackOfIncludes' /\ parsers' # <<>>
<1>1. DOMAIN parsers = 1 .. Len(parsers) /\ Len(parsers) \in Nat /\ k \in Nat /\ 1 <= k
      /\ k <= Len(parsers)
  BY DEF Reading
<1>2. parsers' # <<>>
  BY <1>1
<1>3. ASSUME NEW j \in DOMAIN parsers'
      PROVE  HasRead(parsers'[j])
  <2>1. CASE j = k
    BY <2>1
  <2>2. CASE j # k
    <3>1. j \in 1 .. k - 1 /\ j \in DOMAIN parsers
      BY <1>1, <2>2
    <3> QED
      BY <3>1 DEF AllHaveRead
  <2> QED
    BY <2>1, <2>2
<1>4. parsers'[1].items = input.files[input.main].items
  <2>1. parsers # <<>>
    BY <1>1
  <2>2. parsers'[1].items = parsers[1].items
    BY <1>1
  <2> QED
    BY <2>1, <2>2 DEF StackOfIncludes
<1>5. ASSUME NEW j \in DOMAIN parsers', j + 1 \in DOMAIN parsers'
      PROVE  IncludedBy(parsers'[j], parsers'[j + 1])
  <2>1. j \in 1 .. k - 1 /\ j \in DOMAIN parsers /\ j + 1 \in DOMAIN parsers
    BY <1>1, <1>5
  <2>2. IncludedBy(parsers[j], parsers[j + 1])
    BY <2>1 DEF StackOfIncludes
  <2>3. parsers'[j] = parsers[j] /\ parsers'[j + 1].items = parsers[j + 1].items
    BY <1>1, <2>1
  <2> QED
    BY <2>2, <2>3 DEF IncludedBy
<1> QED
  BY <1>2, <1>3, <1>4, <1>5, StackRead

\* The innermost parser reads on.
LEMMA BecomesRead ==
    ASSUME Reading, AllHaveRead, StackOfIncludes, parsers # <<>>, In("parse"),
           NEW q, Becomes(q), HasRead(q), q.items = Parser.items
    PROVE  HaveRead' /\ IncludesAreTextual'
<1> PICK k \in DOMAIN parsers : k = Len(parsers)
  BY InnermostParser
<1>1. parsers \in Seq(ParserRecords)
  BY DEF Reading
<1>2. parsers' = [parsers EXCEPT ![k] = q] /\ UNCHANGED <<input, stage, failed>>
  BY DEF Becomes
<1>3. DOMAIN parsers = 1 .. k /\ DOMAIN parsers' = 1 .. k /\ parsers'[k] = q
      /\ \A j \in 1 .. k - 1 : parsers'[j] = parsers[j]
  BY <1>1, <1>2
<1>4. q.items = parsers[k].items
  BY DEF Parser
<1>5. AllHaveRead' /\ StackOfIncludes' /\ parsers' # <<>>
  BY <1>2, <1>3, <1>4, Replaced
<1>6. stage' = "parse" /\ ~failed'
  BY <1>2 DEF In
<1> QED
  BY <1>5, <1>6, ParserGoesOn

\* The innermost parser at an element that is no include.
LEMMA AtPlainElement ==
    ASSUME Reading, AllHaveRead, NEW element, element # "include", At(element)
    PROVE  /\ Item \in TextItems /\ Item.element = element
           /\ Len(parsers) \in DOMAIN parsers /\ parsers # <<>> /\ stage = "parse"
           /\ Parser.at <= Len(Parser.items)
           /\ HasRead(Parser) /\ Parser \in ParserRecords
           /\ SoFar(Parser) \in Seq(TextItems)
           /\ Parser.messages = MessagesIn(SoFar(Parser))
           /\ AreReadFrom(Parser.types, EncodingsIn(SoFar(Parser)))
           /\ InText(Texts, Parser.items[Parser.at]) = <<Item>>
<1>1. parsers # <<>> /\ stage = "parse" /\ Parser.at <= Len(Parser.items)
      /\ Item.element = element
  BY DEF At, In, Item
<1>2. Len(parsers) \in DOMAIN parsers
  BY <1>1, InnermostParser
<1> PICK k \in DOMAIN parsers : k = Len(parsers)
  BY <1>2
<1>3. Parser = parsers[k]
  BY DEF Parser
<1>4. InText(Texts, Parser.items[Parser.at]) = <<Item>>
  BY <1>1 DEF InText, Item
<1> QED
  BY <1>1, <1>2, <1>3, <1>4, AtElement DEF Item

\* Such an element makes the schema wrong if it is wrong where it stands.
LEMMA PlainElementFails ==
    ASSUME Reading, HaveRead, NEW element, element # "include", At(element), Fail,
           Wrong(<<Item>>) \/ DefineTwice(SoFar(Parser), <<Item>>)
    PROVE  HaveRead' /\ IncludesAreTextual'
<1>1. AllHaveRead /\ StackOfIncludes
  BY DEF HaveRead
<1>2. /\ Len(parsers) \in DOMAIN parsers /\ Parser.at <= Len(Parser.items)
      /\ InText(Texts, Parser.items[Parser.at]) = <<Item>> /\ stage = "parse"
  BY <1>1, AtPlainElement
<1>3. Wrong(Whole)
  BY <1>1, <1>2, WrongElement DEF Parser
<1> QED
  BY <1>2, <1>3, ParserFails

\* And is read otherwise.
LEMMA PlainElementRead ==
    ASSUME Reading, HaveRead, NEW element, element # "include", At(element),
           ~Wrong(<<Item>>), ~DefineTwice(SoFar(Parser), <<Item>>),
           NEW E, IsFiniteSet(E), AreReadFrom(E, EncodingsIn(<<Item>>)),
           NEW q, Becomes(q), q.items = Parser.items, q.at = Parser.at + 1,
           q.types = Parser.types \cup E,
           IsConcat(q.messages, Parser.messages, MessagesIn(<<Item>>))
    PROVE  HaveRead' /\ IncludesAreTextual'
<1>1. AllHaveRead /\ StackOfIncludes /\ input \in Inputs
  BY DEF HaveRead, Reading
<1>2. /\ parsers # <<>> /\ Parser.at <= Len(Parser.items) /\ HasRead(Parser)
      /\ InText(Texts, Parser.items[Parser.at]) = <<Item>>
  BY <1>1, AtPlainElement
<1>3. HasRead(q)
  BY <1>1, <1>2, ReadOn
<1>4. In("parse")
  BY DEF At
<1> QED
  BY <1>1, <1>2, <1>3, <1>4, BecomesRead

LEMMA ParseTypesReads ==
    ASSUME Reading, HaveRead, ParseTypes
    PROVE  HaveRead' /\ IncludesAreTextual'
<1>1. At("types") /\ AllHaveRead
  BY DEF ParseTypes, HaveRead
<1> DEFINE trees == Item.trees
           read == {k \in DOMAIN trees : trees[k][1].kind \in EncodingKinds}
           parsed(g) == [k \in read |-> ParsedTree(trees[k], g)]
           refused(g) == \/ \E k \in read : Rejects(trees[k])
                         \/ ~CanAddTypes(Parser.types, parsed(g))
<1>2. PICK g \in GarbageLengths :
          IF refused(g) THEN Fail
          ELSE Becomes([Passed EXCEPT !.types = @ \cup ToSet(parsed(g))])
  BY DEF ParseTypes
<1>3. /\ Item \in TextItems /\ Item.element = "types"
      /\ SoFar(Parser) \in Seq(TextItems) /\ Parser \in ParserRecords
      /\ AreReadFrom(Parser.types, EncodingsIn(SoFar(Parser)))
  BY <1>1, AtPlainElement
<1>4. /\ refused(g) <=> Wrong(<<Item>>) \/ DefineTwice(SoFar(Parser), <<Item>>)
      /\ AreReadFrom(ToSet(parsed(g)), EncodingsOf(Item))
      /\ IsFiniteSet(ToSet(parsed(g)))
  BY <1>3, TypesFit
<1> DEFINE E == ToSet(parsed(g))
           q == [Passed EXCEPT !.types = @ \cup E]
<1>5. refused(g) => Fail
  BY <1>2
<1>6. ~refused(g) => Becomes(q)
  BY <1>2
<1>7. AreReadFrom(E, EncodingsOf(Item)) /\ IsFiniteSet(E)
  BY <1>4
<1> HIDE DEF refused, E
<1>8. CASE refused(g)
  BY <1>1, <1>4, <1>5, <1>8, PlainElementFails
<1>9. CASE ~refused(g)
  <2>1. q.items = Parser.items /\ q.at = Parser.at + 1 /\ q.types = Parser.types \cup E
        /\ q.messages = Parser.messages
    BY <1>3 DEF Passed, ParserRecords
  <2>2. EncodingsIn(<<Item>>) = EncodingsOf(Item) /\ MessagesIn(<<Item>>) = <<>>
    BY <1>3, TextOfOne DEF MessageAt
  <2>3. IsConcat(q.messages, Parser.messages, <<>>)
    <3>1. Parser.messages \in Seq(LevelTrees)
      BY <1>3 DEF ParserRecords
    <3> HIDE DEF q
    <3> QED
      BY <2>1, <3>1, ConcatEmptySeq DEF IsConcat
  <2> HIDE DEF q
  <2> QED
    BY <1>1, <1>4, <1>6, <1>7, <1>9, <2>1, <2>2, <2>3, PlainElementRead
<1> QED
  BY <1>8, <1>9

LEMMA ParseMessageReads ==
    ASSUME Reading, HaveRead, ParseMessage
    PROVE  HaveRead' /\ IncludesAreTextual'
<1>1. At("message") /\ AllHaveRead
  BY DEF ParseMessage, HaveRead
<1> DEFINE message == ParsedTree(Item.tree, 0)
           refused == \/ Rejects(Item.tree)
                      \/ ~CanAddMessages(Parser.messages, <<message>>)
           q == [Passed EXCEPT !.messages = Append(@, message)]
<1>2. IF refused THEN Fail ELSE Becomes(q)
  BY DEF ParseMessage
<1>3. /\ Item \in TextItems /\ Item.element = "message"
      /\ SoFar(Parser) \in Seq(TextItems) /\ Parser \in ParserRecords
      /\ Parser.messages = MessagesIn(SoFar(Parser))
  BY <1>1, AtPlainElement
<1>4. /\ refused <=> Wrong(<<Item>>) \/ DefineTwice(SoFar(Parser), <<Item>>)
      /\ MessagesIn(<<Item>>) = <<message>> /\ EncodingsIn(<<Item>>) = {}
      /\ Parser.messages \in Seq(ReadMessages) /\ message \in ReadMessages
  BY <1>3, MessageFits
<1>5. refused => Fail
  BY <1>2
<1>6. ~refused => Becomes(q)
  BY <1>2
<1> HIDE DEF refused, message
<1>7. CASE refused
  BY <1>1, <1>4, <1>5, <1>7, PlainElementFails
<1>8. CASE ~refused
  <2>1. q.items = Parser.items /\ q.at = Parser.at + 1 /\ q.types = Parser.types \cup {}
        /\ q.messages = Append(Parser.messages, message)
    BY <1>3 DEF Passed, ParserRecords
  <2>2. IsFiniteSet({}) /\ AreReadFrom({}, {})
    BY FS_EmptySet DEF AreReadFrom
  <2> HIDE DEF q
  <2>3. IsConcat(q.messages, Parser.messages, <<message>>)
    BY <1>4, <2>1 DEF IsConcat
  <2> QED
    BY <1>1, <1>4, <1>6, <1>8, <2>1, <2>2, <2>3, PlainElementRead
<1> QED
  BY <1>7, <1>8

LEMMA ParseUnknownReads ==
    ASSUME Reading, HaveRead, ParseUnknown
    PROVE  HaveRead' /\ IncludesAreTextual'
<1>1. At("unknown") /\ AllHaveRead /\ Becomes(Passed)
  BY DEF ParseUnknown, HaveRead
<1>2. /\ Item \in TextItems /\ Item.element = "unknown"
      /\ SoFar(Parser) \in Seq(TextItems) /\ Parser \in ParserRecords
  BY <1>1, AtPlainElement
<1>3. EncodingsOf(Item) = {} /\ MessageAt(Item) = <<>>
  BY <1>2 DEF EncodingsOf, MessageAt
<1>4. ~IsWrong(Item)
  BY <1>2, <1>3 DEF IsWrong
<1>5. /\ MessagesIn(<<Item>>) = <<>> /\ EncodingsIn(<<Item>>) = {} /\ ~Wrong(<<Item>>)
      /\ <<Item>> \in Seq(TextItems)
  BY <1>2, <1>3, <1>4, TextOfOne
<1>6. ~DefineTwice(SoFar(Parser), <<Item>>)
  <2>1. \A y : ~DefineTheSame(y, Item)
    BY <1>2, <1>3 DEF DefineTheSame
  <2> QED
    BY <1>2, <2>1, TextOfOne
<1>7. Passed.items = Parser.items /\ Passed.at = Parser.at + 1
      /\ Passed.types = Parser.types \cup {} /\ Passed.messages = Parser.messages
  BY <1>2 DEF Passed, ParserRecords
<1>8. IsConcat(Passed.messages, Parser.messages, <<>>)
  <2>1. Parser.messages \in Seq(LevelTrees)
    BY <1>2 DEF ParserRecords
  <2> QED
    BY <1>7, <2>1, ConcatEmptySeq DEF IsConcat
<1>9. IsFiniteSet({}) /\ AreReadFrom({}, {})
  BY FS_EmptySet DEF AreReadFrom
<1> QED
  BY <1>1, <1>5, <1>6, <1>7, <1>8, <1>9, PlainElementRead

\* A parser that has read nothing yet.
LEMMA OpenedHasRead ==
    ASSUME input \in Inputs, NEW items \in Contents(input)
    PROVE  HasRead(Opened(items)) /\ Opened(items).items = items
<1> PICK p : p = Opened(items)
  OBVIOUS
<1>1. p.items = items /\ p.at = 1 /\ p.types = {} /\ p.messages = <<>>
  BY DEF Opened
<1>2. items \in Seq(Items) /\ Texts \in TextFunctions
  BY ContentsOfFiles, TextsDefined
<1>3. SoFar(p) = <<>>
  <2>1. SoFar(p) = Spliced(Texts, items, 0)
    BY <1>1 DEF SoFar
  <2>2. 0 \in 0 .. Len(items)
    BY <1>2
  <2> QED
    BY <1>2, <2>1, <2>2, SplicedOneByOne
<1>4. MessagesIn(<<>>) = <<>>
  <2>1. <<>> \in Seq(TextItems) /\ Len(<<>>) = 0
    OBVIOUS
  <2> PICK s \in Seq(TextItems) : s = <<>> /\ Len(s) = 0
    BY <2>1
  <2>2. 0 \in 0 .. Len(s)
    OBVIOUS
  <2> QED
    BY <2>2, MessagesOneByOne DEF MessagesIn
<1>5. EncodingsIn(<<>>) = {} /\ ~Wrong(<<>>)
  BY DEF EncodingsIn, Wrong
<1>6. IsFiniteSet({}) /\ AreReadFrom({}, {})
  BY FS_EmptySet DEF AreReadFrom
<1>7. p.at \in 1 .. Len(p.items) + 1
  BY <1>1, <1>2
<1> QED
  BY <1>1, <1>3, <1>4, <1>5, <1>6, <1>7 DEF HasRead

LEMMA OpenSchemaReads ==
    ASSUME Reading, HaveRead, OpenSchema
    PROVE  HaveRead' /\ IncludesAreTextual'
<1>1. stage = "parse" /\ parsers = <<>> /\ schema.header = None /\ ~failed
  BY DEF OpenSchema, In, HaveRead, HeaderLast
<1>2. CASE Fail
  BY <1>1, <1>2, ParserFails
<1>3. CASE /\ parsers' = <<Opened(input.files[input.main].items)>>
           /\ UNCHANGED <<input, stage, failed>>
  <2> PICK items : items = input.files[input.main].items
    OBVIOUS
  <2>1. HasRead(Opened(items)) /\ Opened(items).items = items
    BY ContentsOfFiles, OpenedHasRead DEF Reading
  <2>2. parsers' = <<Opened(items)>> /\ parsers' # <<>>
    BY <1>3
  <2> HIDE DEF Opened
  <2>3. DOMAIN parsers' = {1} /\ parsers'[1] = Opened(items)
    BY <2>2
  <2>4. AllHaveRead' /\ StackOfIncludes'
    <3>1. \A k \in DOMAIN parsers' : k + 1 \notin DOMAIN parsers'
      BY <2>3
    <3>2. \A k \in DOMAIN parsers' : HasRead(parsers'[k])
      BY <2>1, <2>3
    <3>3. parsers'[1].items = items
      BY <2>1, <2>3
    <3> QED
      BY <1>3, <3>1, <3>2, <3>3, StackRead
  <2> QED
    BY <1>1, <1>3, <2>2, <2>4, ParserGoesOn
<1> QED
  BY <1>2, <1>3 DEF OpenSchema

LEMMA ParseIncludeReads ==
    ASSUME Reading, HaveRead, ParseInclude
    PROVE  HaveRead' /\ IncludesAreTextual'
<1>1. /\ parsers # <<>> /\ Parser.at <= Len(Parser.items) /\ Item.element = "include"
      /\ stage = "parse" /\ ~failed /\ AllHaveRead /\ StackOfIncludes
  BY DEF ParseInclude, At, In, Item, HaveRead
<1> PICK k \in DOMAIN parsers : k = Len(parsers)
  BY <1>1, InnermostParser
<1> PICK p : p = parsers[k]
  OBVIOUS
<1> PICK x : x = InText(Texts, p.items[p.at])
  OBVIOUS
<1>2. Parser = p /\ Item = p.items[p.at]
  BY DEF Parser, Item
<1>3. CASE ~Readable(Item.href) /\ Fail
  <2>1. x = <<[element |-> "unreadable"]>>
    BY <1>1, <1>2, <1>3 DEF InText
  <2> PICK u : u = [element |-> "unreadable"]
    OBVIOUS
  <2>2. u \in TextItems /\ IsWrong(u)
    BY DEF TextItems, IsWrong
  <2>3. Wrong(x)
    BY <2>1, <2>2, TextOfOne
  <2>4. Wrong(Whole)
    BY <1>1, <1>2, <2>3, WrongElement
  <2> QED
    BY <1>1, <1>3, <2>4, ParserFails
<1>4. CASE /\ Readable(Item.href)
           /\ parsers' = Append(parsers, Opened(Content(Item.href)))
           /\ UNCHANGED <<input, stage, failed, schema>>
  <2> PICK q : q = Opened(Content(Item.href))
    OBVIOUS
  <2>1. Content(Item.href) \in Contents(input) /\ input \in Inputs
    BY <1>4, ContentsOfFiles DEF Readable, Reading
  <2>2. HasRead(q) /\ q.items = Content(Item.href)
    BY <2>1, OpenedHasRead
  <2>3. IncludedBy(p, q)
    BY <1>1, <1>2, <1>4, <2>2 DEF IncludedBy
  <2>4. parsers \in Seq(ParserRecords)
    BY DEF Reading
  <2>5. /\ DOMAIN parsers = 1 .. k /\ DOMAIN parsers' = 1 .. k + 1 /\ parsers'[k + 1] = q
        /\ k \in Nat /\ k >= 1 /\ \A j \in 1 .. k : parsers'[j] = parsers[j]
    BY <1>4, <2>4
  <2>6. parsers' # <<>>
    BY <2>5
  <2>7. AllHaveRead' /\ StackOfIncludes'
    <3>1. ASSUME NEW j \in DOMAIN parsers'
          PROVE  HasRead(parsers'[j])
      <4>1. CASE j \in 1 .. k
        BY <1>1, <2>5, <4>1 DEF AllHaveRead
      <4>2. CASE j = k + 1
        BY <2>2, <2>5, <4>2
      <4> QED
        BY <2>5, <4>1, <4>2
    <3>2. parsers'[1].items = input.files[input.main].items
      BY <1>1, <2>5 DEF StackOfIncludes
    <3>3. ASSUME NEW j \in DOMAIN parsers', j + 1 \in DOMAIN parsers'
          PROVE  IncludedBy(parsers'[j], parsers'[j + 1])
      <4>1. CASE j = k
        BY <2>3, <2>5, <4>1
      <4>2. CASE j # k
        <5>1. j \in DOMAIN parsers /\ j + 1 \in DOMAIN parsers
              /\ parsers'[j] = parsers[j] /\ parsers'[j + 1] = parsers[j + 1]
          BY <2>5, <3>3, <4>2
        <5> QED
          BY <1>1, <5>1 DEF StackOfIncludes
      <4> QED
        BY <4>1, <4>2
    <3> QED
      BY <1>4, <3>1, <3>2, <3>3, StackRead
  <2> QED
    BY <1>1, <1>4, <2>6, <2>7, ParserGoesOn
<1> QED
  BY <1>3, <1>4 DEF ParseInclude

\* A parser at its end has read all of its file.
LEMMA AllOfIt ==
    ASSUME Reading, AllHaveRead, NEW k \in DOMAIN parsers, NEW p, p = parsers[k],
           p.at > Len(p.items)
    PROVE  /\ SoFar(p) = Texts[p.items] /\ SoFar(p) \in Seq(TextItems)
           /\ HasRead(p) /\ p \in ParserRecords
           /\ p.messages = MessagesIn(SoFar(p)) /\ ~Wrong(SoFar(p))
           /\ AreReadFrom(p.types, EncodingsIn(SoFar(p))) /\ IsFiniteSet(p.types)
<1>1. HasRead(p) /\ p \in ParserRecords /\ input \in Inputs
  BY DEF AllHaveRead, Reading
<1>2. /\ p.items \in Contents(input) /\ p.at \in 1 .. Len(p.items) + 1
      /\ p.messages = MessagesIn(SoFar(p)) /\ ~Wrong(SoFar(p))
      /\ AreReadFrom(p.types, EncodingsIn(SoFar(p))) /\ IsFiniteSet(p.types)
  BY <1>1 DEF HasRead
<1>3. p.items \in Seq(Items) /\ Texts \in TextFunctions
  BY <1>1, <1>2, ContentsOfFiles, TextsDefined
<1>4. p.at - 1 = Len(p.items) /\ Len(p.items) \in 0 .. Len(p.items)
  BY <1>2, <1>3
<1>5. SoFar(p) = Texts[p.items]
  BY <1>1, <1>2, <1>4, TextsDefined DEF SoFar
<1>6. SoFar(p) \in Seq(TextItems)
  BY <1>1, <1>2, <1>3, <1>4, SplicedOneByOne DEF SoFar
<1> QED
  BY <1>1, <1>2, <1>5, <1>6

LEMMA EndIncludeReads ==
    ASSUME Reading, HaveRead, EndInclude
    PROVE  HaveRead' /\ IncludesAreTextual'
<1>1. /\ stage = "parse" /\ ~failed /\ AllHaveRead /\ StackOfIncludes
      /\ Len(parsers) > 1 /\ Parser.at > Len(Parser.items)
      /\ parsers \in Seq(ParserRecords) /\ input \in Inputs
  BY DEF EndInclude, AtEnd, In, HaveRead, Reading
<1> PICK k \in Nat : k = Len(parsers) - 1
  BY <1>1
<1>2. k \in DOMAIN parsers /\ k + 1 \in DOMAIN parsers /\ Len(parsers) = k + 1
      /\ k >= 1 /\ DOMAIN parsers = 1 .. k + 1
  BY <1>1
<1> PICK p \in ParserRecords : p = parsers[k]
  BY <1>1, <1>2
<1> PICK q \in ParserRecords : q = parsers[k + 1]
  BY <1>1, <1>2
<1>3. Parser = q
  BY <1>2 DEF Parser
<1>4. IncludedBy(p, q)
  BY <1>1, <1>2 DEF StackOfIncludes
<1> PICK x : x = InText(Texts, p.items[p.at])
  OBVIOUS
<1>5. /\ x = SoFar(q) /\ x \in Seq(TextItems)
      /\ q.messages = MessagesIn(x) /\ ~Wrong(x)
      /\ AreReadFrom(q.types, EncodingsIn(x)) /\ IsFiniteSet(q.types)
  <2>1. /\ SoFar(q) = Texts[q.items] /\ SoFar(q) \in Seq(TextItems)
        /\ q.messages = MessagesIn(SoFar(q)) /\ ~Wrong(SoFar(q))
        /\ AreReadFrom(q.types, EncodingsIn(SoFar(q))) /\ IsFiniteSet(q.types)
    BY <1>1, <1>2, <1>3, AllOfIt
  <2>2. x = Texts[q.items]
    BY <1>4 DEF IncludedBy, InText
  <2> QED
    BY <2>1, <2>2
<1>6. p.at <= Len(p.items)
  BY <1>4 DEF IncludedBy
<1>7. /\ HasRead(p) /\ SoFar(p) \in Seq(TextItems)
      /\ p.messages = MessagesIn(SoFar(p))
      /\ AreReadFrom(p.types, EncodingsIn(SoFar(p)))
  BY <1>1, <1>2, <1>6, AtElement
<1>8. Unlike(q.messages)
  BY DEF ParserRecords
<1>9. CanMerge(p, q) <=> ~DefineTwice(SoFar(p), x)
  BY <1>5, <1>7, <1>8, FileFits
<1>10. CASE ~CanMerge(p, q) /\ Fail
  <2>1. Wrong(Whole)
    BY <1>1, <1>2, <1>6, <1>9, <1>10, WrongElement
  <2> QED
    BY <1>1, <1>10, <2>1, ParserFails
<1>11. CASE /\ CanMerge(p, q)
            /\ parsers' = [Front(parsers) EXCEPT ![k] = Merged(p, q)]
            /\ UNCHANGED <<input, stage, failed, schema>>
  <2> PICK r : r = Merged(p, q)
    OBVIOUS
  <2>1. /\ r.items = p.items /\ r.at = p.at + 1 /\ r.types = p.types \cup q.types
        /\ r.messages = p.messages \o q.messages
    BY DEF Merged, ParserRecords
  <2>2. IsConcat(r.messages, p.messages, MessagesIn(x))
    BY <1>5, <2>1, Zenon DEF IsConcat
  <2>3. HasRead(r)
    BY <1>1, <1>5, <1>6, <1>7, <1>9, <1>11, <2>1, <2>2, ReadOn
  <2>4. /\ DOMAIN parsers' = 1 .. k /\ parsers'[k] = r
        /\ \A j \in 1 .. k - 1 : parsers'[j] = parsers[j]
    <3> PICK f : f = Front(parsers)
      OBVIOUS
    <3>1. f = SubSeq(parsers, 1, k)
      BY <1>2 DEF Front
    <3>2. DOMAIN f = 1 .. k /\ \A j \in 1 .. k : f[j] = parsers[j]
      BY <1>1, <1>2, <3>1
    <3>3. parsers' = [f EXCEPT ![k] = r]
      BY <1>11
    <3> QED
      BY <1>2, <3>2, <3>3
  <2>5. AllHaveRead' /\ StackOfIncludes' /\ parsers' # <<>>
    BY <1>1, <1>2, <1>11, <2>1, <2>3, <2>4, Replaced
  <2> QED
    BY <1>1, <1>11, <2>5, ParserGoesOn
<1>12. IF CanMerge(p, q)
       THEN /\ parsers' = [Front(parsers) EXCEPT ![k] = Merged(p, q)]
            /\ UNCHANGED <<input, stage, failed, schema>>
       ELSE Fail
  BY <1>3 DEF EndInclude
<1> QED
  BY <1>10, <1>11, <1>12

\* What the schema is given is the text of the whole.
LEMMA EndSchemaReads ==
    ASSUME Reading, HaveRead, EndSchema
    PROVE  HaveRead' /\ IncludesAreTextual'
<1>1. /\ AllHaveRead /\ StackOfIncludes /\ parsers # <<>> /\ Len(parsers) = 1
      /\ Parser.at > Len(Parser.items)
      /\ stage' = "types" /\ parsers' = <<>> /\ UNCHANGED input
      /\ parsers \in Seq(ParserRecords)
  BY DEF EndSchema, AtEnd, HaveRead, Reading
<1>2. 1 \in DOMAIN parsers /\ Parser = parsers[1]
  BY <1>1 DEF Parser
<1> PICK p : p = parsers[1]
  OBVIOUS
<1>3. SoFar(p) = Whole
  <2>1. p.items = input.files[input.main].items
    BY <1>1, <1>2 DEF StackOfIncludes
  <2> QED
    BY <1>1, <1>2, <2>1, AllOfIt DEF Whole
<1>4. /\ p.messages = MessagesIn(Whole) /\ ~Wrong(Whole)
      /\ AreReadFrom(p.types, EncodingsIn(Whole)) /\ IsFiniteSet(p.types)
  BY <1>1, <1>2, <1>3, AllOfIt
<1>5. PICK order \in SetToSeqs(p.types) :
          schema' = [schema EXCEPT !.types = order, !.messages = p.messages]
  BY <1>2 DEF EndSchema
<1>6. schema'.messages = p.messages /\ schema'.types = order
  BY <1>5 DEF Reading
<1>7. ToSet(order) = p.types
  <2> PICK S : S = p.types
    OBVIOUS
  <2> DEFINE D == 1 .. Cardinality(S)
  <2>1. order \in [D -> S] /\ \A i, j \in D : i # j => order[i] # order[j]
    BY <1>5 DEF SetToSeqs
  <2>2. IsFiniteSet(S) /\ Cardinality(S) \in Nat
    BY <1>4, FS_CardinalityType
  <2>3. Cardinality(D) = Cardinality(S)
    <3> PICK n \in Nat : n = Cardinality(S)
      BY <2>2
    <3>1. \A a, b \in Int : Cardinality(a .. b) = IF a > b THEN 0 ELSE b - a + 1
      BY FS_Interval
    <3> QED
      BY <3>1
  <2> HIDE DEF D
  <2>4. order \in Injection(D, S)
    BY <2>1 DEF Injection, IsInjective
  <2>5. order \in Surjection(D, S)
    BY <2>2, <2>3, <2>4, FS_Injection
  <2> QED
    BY <2>1, <2>5 DEF Surjection, ToSet
<1>8. AllHaveRead' /\ StackOfIncludes' /\ HeaderLast'
  <2>1. DOMAIN parsers' = {}
    BY <1>1
  <2> QED
    BY <1>1, <2>1 DEF AllHaveRead, StackOfIncludes, HeaderLast
<1>9. Whole' = Whole
  BY <1>1, KeepsText
<1>10. IncludesAreTextual'
  <2>1. (schema.messages = MessagesIn(Whole))'
    BY <1>4, <1>6, <1>9
  <2>2. AreReadFrom(ToSet(schema.types), EncodingsIn(Whole))'
    BY <1>4, <1>6, <1>7, <1>9
  <2>3. (~Wrong(Whole))'
    BY <1>4, <1>9
  <2> QED
    BY <1>1, <2>1, <2>2, <2>3 DEF IncludesAreTextual
<1> QED
  BY <1>8, <1>10 DEF HaveRead

LEMMA ParserReads ==
    ASSUME Reading, HaveRead, ParserNext
    PROVE  HaveRead' /\ IncludesAreTextual'
BY OpenSchemaReads, ParseTypesReads, ParseMessageReads, ParseIncludeReads,
   ParseUnknownReads, EndIncludeReads, EndSchemaReads DEF ParserNext

\* Nothing is read any more, and no file is left open.
LEMMA NothingRead ==
    ASSUME HaveRead, IncludesAreTextual, UNCHANGED <<input, parsers, schema>>,
           \/ UNCHANGED <<stage, failed>>
           \/ stage # "parse" /\ stage' # "parse"
    PROVE  HaveRead' /\ IncludesAreTextual'
<1>1. AllHaveRead' /\ StackOfIncludes'
  BY StackRead DEF HaveRead, AllHaveRead, StackOfIncludes
<1>2. HeaderLast'
  BY DEF HaveRead, HeaderLast
<1>3. IncludesAreTextual'
  <2>1. (MessagesIn(Whole))' = MessagesIn(Whole) /\ (EncodingsIn(Whole))' = EncodingsIn(Whole)
        /\ (Wrong(Whole)' <=> Wrong(Whole))
    BY KeepsText
  <2>2. AreReadFrom(ToSet(schema.types), EncodingsIn(Whole))'
            <=> AreReadFrom(ToSet(schema.types), EncodingsIn(Whole))
    BY KeepsText
  <2> QED
    BY <2>1, <2>2 DEF IncludesAreTextual
<1> QED
  BY <1>1, <1>2, <1>3 DEF HaveRead

LEMMA TextStart ==
    ASSUME Init
    PROVE  HaveRead /\ IncludesAreTextual
<1>1. parsers = <<>> /\ schema.header = None /\ stage = "parse" /\ failed = FALSE
  BY DEF Init, ParserInit, NoSchema
<1>2. DOMAIN parsers = {}
  BY <1>1
<1> QED
  BY <1>1, <1>2
  DEF HaveRead, AllHaveRead, StackOfIncludes, HeaderLast, IncludesAreTextual

LEMMA NextReads ==
    ASSUME Reading, HaveRead, IncludesAreTextual, [Next]_vars
    PROVE  HaveRead' /\ IncludesAreTextual'
<1>1. CASE UNCHANGED vars
  <2>1. UNCHANGED <<input, stage, failed, parsers, schema>>
    BY <1>1 DEF vars, parserVars
  <2> QED
    BY <2>1, NothingRead
<1>2. CASE ParserNext
  BY <1>2, ParserReads
<1>3. CASE RulesNext
  <2>1. /\ UNCHANGED <<input, parsers, schema>>
        /\ \/ UNCHANGED <<stage, failed>>
           \/ stage # "parse" /\ stage' # "parse"
    BY <1>3 DEF RulesNext, ValidateType, TypesValid, ValidateMessageHeader,
       ValidateMessage, MessagesValid, ValidateCppNames, Fail, GoTo, In, parserVars
  <2> QED
    BY <2>1, NothingRead
<1>4. CASE NamesNext
  BY <1>4, NamesStep, NothingRead
<1>5. CASE TagsNext
  BY <1>5, NothingRead DEF TagsNext, TagType, TypesTagged, TagMessage, MessagesTagged,
     GoTo, In, parserVars
<1>6. CASE Compile
  BY <1>6, NothingRead DEF Compile, GoTo, Fail, In
<1>7. CASE Ended
  BY <1>1, <1>7 DEF Ended
<1> QED
  BY <1>1, <1>2, <1>3, <1>4, <1>5, <1>6, <1>7 DEF Next

-----------------------------------------------------------------------------
(* Definitions in an order in which what they need comes first.            *)

\* The nodes the definition of node n needs the structs of: what refs inside of
\* it refer to, and what is mangled in it.
Needs(kind, n) ==
    LET tree == Trees(kind)[n[1]]
        inside == Inside(kind, n[1], n[2])
    IN  {<<RefTarget(tree, k), 1>> : k \in {j \in inside : tree[j].kind = "ref"}} \cup
        {<<n[1], k>> : k \in {j \in DOMAIN tree :
                                  /\ j # n[2] /\ tree[j].up \in inside
                                  /\ IsMangled(kind, n[1], j)}}

\* What one element of a sequence needs and what it provides.  The sequence is
\* the text, or what is defined in a namespace of detail.
Uses(sort, x) ==
    IF sort = "text" THEN {x.base, x.target} \ {None} ELSE Needs(sort, x)

Gives(sort, x) ==
    IF sort # "text" THEN {x} ELSE IF x.target = None THEN {x.path} ELSE {}

Given(sort, s) == UNION {Gives(sort, s[p]) : p \in DOMAIN s}

\* What is needed is provided before, or is in K.
Founded(sort, s, K) ==
    \A p \in DOMAIN s : \A x \in Uses(sort, s[p]) :
        x \in K \/ \E q \in 1 .. p - 1 : x \in Gives(sort, s[q])

IsList(s) == s \in Seq({s[p] : p \in DOMAIN s})

LEMMA ListOf ==
    ASSUME NEW X, NEW s \in Seq(X)
    PROVE  IsList(s)
<1> DEFINE E == {s[p] : p \in DOMAIN s}
<1>1. Len(s) \in Nat /\ DOMAIN s = 1 .. Len(s) /\ s = [p \in 1 .. Len(s) |-> s[p]]
  OBVIOUS
<1>2. \A p \in 1 .. Len(s) : s[p] \in E
  BY <1>1
<1> HIDE DEF E
<1>3. s \in Seq(E)
  BY <1>1, <1>2, IsASeq
<1> QED
  BY <1>3 DEF IsList, E

LEMMA ListDomain ==
    ASSUME NEW s, IsList(s)
    PROVE  Len(s) \in Nat /\ DOMAIN s = 1 .. Len(s)
BY DEF IsList

\* Nothing, and one element.
LEMMA FoundedFew ==
    ASSUME NEW sort, NEW x, NEW K
    PROVE  /\ IsList(<<>>) /\ Given(sort, <<>>) = {} /\ Founded(sort, <<>>, K)
           /\ IsList(<<x>>) /\ Given(sort, <<x>>) = Gives(sort, x)
           /\ Uses(sort, x) \subseteq K => Founded(sort, <<x>>, K)
<1>1. <<>> \in Seq({}) /\ <<x>> \in Seq({x})
  OBVIOUS
<1>2. IsList(<<>>) /\ IsList(<<x>>)
  BY <1>1, ListOf
<1>3. DOMAIN <<>> = {} /\ DOMAIN <<x>> = {1} /\ <<x>>[1] = x
  OBVIOUS
<1>4. Given(sort, <<>>) = {} /\ Founded(sort, <<>>, K)
  BY <1>3 DEF Given, Founded
<1>5. Given(sort, <<x>>) = Gives(sort, x)
  BY <1>3 DEF Given
<1>6. Uses(sort, x) \subseteq K => Founded(sort, <<x>>, K)
  BY <1>3 DEF Founded
<1> QED
  BY <1>2, <1>4, <1>5, <1>6

LEMMA FoundedMore ==
    ASSUME NEW sort, NEW s, NEW K, NEW L, K \subseteq L, Founded(sort, s, K)
    PROVE  Founded(sort, s, L)
BY DEF Founded

\* One sequence behind another.
LEMMA FoundedTwo ==
    ASSUME NEW sort, NEW r, NEW a, NEW b, NEW K, IsConcat(r, a, b),
           IsList(a), IsList(b),
           Founded(sort, a, K), Founded(sort, b, K \cup Given(sort, a))
    PROVE  /\ IsList(r) /\ Founded(sort, r, K)
           /\ Given(sort, r) = Given(sort, a) \cup Given(sort, b)
<1> DEFINE X == {a[p] : p \in DOMAIN a} \cup {b[p] : p \in DOMAIN b}
<1>1. a \in Seq(X) /\ b \in Seq(X)
  <2>1. a \in Seq({a[p] : p \in DOMAIN a}) /\ b \in Seq({b[p] : p \in DOMAIN b})
    BY DEF IsList
  <2> QED
    BY <2>1
<1> HIDE DEF X
<1>2. r = a \o b
  BY DEF IsConcat
<1>3. /\ r \in Seq(X) /\ Len(r) = Len(a) + Len(b)
      /\ \A p \in 1 .. Len(a) : r[p] = a[p]
      /\ \A p \in 1 .. Len(b) : r[Len(a) + p] = b[p]
  BY <1>1, <1>2, ConcatProperties
<1>4. /\ Len(a) \in Nat /\ Len(b) \in Nat /\ DOMAIN a = 1 .. Len(a)
      /\ DOMAIN b = 1 .. Len(b) /\ DOMAIN r = 1 .. Len(a) + Len(b)
  BY <1>1, <1>3
<1>5. \A p \in DOMAIN r : \/ p \in DOMAIN a /\ r[p] = a[p]
                          \/ p - Len(a) \in DOMAIN b /\ r[p] = b[p - Len(a)]
  <2> SUFFICES ASSUME NEW p \in DOMAIN r, p \notin DOMAIN a
               PROVE  p - Len(a) \in DOMAIN b /\ r[p] = b[p - Len(a)]
    BY <1>3, <1>4
  <2>1. p - Len(a) \in 1 .. Len(b) /\ Len(a) + (p - Len(a)) = p
    BY <1>4
  <2> QED
    BY <1>3, <1>4, <2>1
<1>6. IsList(r)
  BY <1>3, ListOf
<1>7. Given(sort, r) = Given(sort, a) \cup Given(sort, b)
  <2>1. ASSUME NEW p \in DOMAIN r
        PROVE  Gives(sort, r[p]) \subseteq Given(sort, a) \cup Given(sort, b)
    BY <1>5 DEF Given
  <2>2. ASSUME NEW p \in DOMAIN a
        PROVE  Gives(sort, a[p]) \subseteq Given(sort, r)
    <3>1. p \in DOMAIN r /\ r[p] = a[p]
      BY <1>3, <1>4
    <3> QED
      BY <3>1 DEF Given
  <2>3. ASSUME NEW p \in DOMAIN b
        PROVE  Gives(sort, b[p]) \subseteq Given(sort, r)
    <3>1. Len(a) + p \in DOMAIN r /\ r[Len(a) + p] = b[p]
      BY <1>3, <1>4
    <3> QED
      BY <3>1 DEF Given
  <2> QED
    BY <2>1, <2>2, <2>3 DEF Given
<1>8. ASSUME NEW p \in DOMAIN r, NEW x \in Uses(sort, r[p])
      PROVE  x \in K \/ \E q \in 1 .. p - 1 : x \in Gives(sort, r[q])
  <2>1. CASE p \in DOMAIN a /\ r[p] = a[p]
    <3>1. x \in K \/ \E q \in 1 .. p - 1 : x \in Gives(sort, a[q])
      BY <2>1 DEF Founded
    <3>2. \A q \in 1 .. p - 1 : a[q] = r[q]
      BY <1>3, <1>4, <2>1
    <3> QED
      BY <3>1, <3>2
  <2>2. CASE p - Len(a) \in DOMAIN b /\ r[p] = b[p - Len(a)]
    <3>1. \/ x \in K \/ x \in Given(sort, a)
          \/ \E q \in 1 .. (p - Len(a)) - 1 : x \in Gives(sort, b[q])
      BY <2>2 DEF Founded
    <3>2. CASE x \in Given(sort, a)
      <4>1. PICK q \in DOMAIN a : x \in Gives(sort, a[q])
        BY <3>2 DEF Given
      <4>2. q \in 1 .. p - 1 /\ r[q] = a[q]
        BY <1>3, <1>4, <2>2
      <4> QED
        BY <4>1, <4>2
    <3>3. CASE \E q \in 1 .. (p - Len(a)) - 1 : x \in Gives(sort, b[q])
      <4>1. PICK q \in 1 .. (p - Len(a)) - 1 : x \in Gives(sort, b[q])
        BY <3>3
      <4>2. q \in 1 .. Len(b) /\ Len(a) + q \in 1 .. p - 1
        BY <1>4, <2>2
      <4>3. r[Len(a) + q] = b[q]
        BY <1>3, <4>2
      <4> QED
        BY <4>1, <4>2, <4>3
    <3> QED
      BY <3>1, <3>2, <3>3
  <2> QED
    BY <1>5, <2>1, <2>2
<1> QED
  BY <1>6, <1>7, <1>8 DEF Founded

\* What the first n of the sequences t provide.
GivenUpTo(sort, t, n) == UNION {Given(sort, t[j]) : j \in 1 .. n}

\* Many sequences in a row.
LEMMA FoundedMany ==
    ASSUME NEW sort, NEW t, NEW N \in Nat, NEW K,
           \A i \in 1 .. N :
               IsList(t[i]) /\ Founded(sort, t[i], K \cup GivenUpTo(sort, t, i - 1))
    PROVE  /\ IsList(Flat(t, N)) /\ Founded(sort, Flat(t, N), K)
           /\ Given(sort, Flat(t, N)) = GivenUpTo(sort, t, N)
<1> DEFINE X == UNION {{t[i][p] : p \in DOMAIN t[i]} : i \in 1 .. N}
           T == {n \in Int :
                    /\ IsList(Flat(t, n)) /\ Founded(sort, Flat(t, n), K)
                    /\ Given(sort, Flat(t, n)) = GivenUpTo(sort, t, n)}
<1>1. AreLists(t, N, X)
  <2> SUFFICES ASSUME NEW i \in 1 .. N
               PROVE  t[i] \in Seq(X)
    BY DEF AreLists
  <2>1. t[i] \in Seq({t[i][p] : p \in DOMAIN t[i]})
    BY DEF IsList
  <2>2. {t[i][p] : p \in DOMAIN t[i]} \subseteq X
    OBVIOUS
  <2> HIDE DEF X
  <2> QED
    BY <2>1, <2>2
<1> HIDE DEF X
<1>2. 0 \in T
  <2>1. 0 \in 0 .. N
    OBVIOUS
  <2>2. Flat(t, 0) = <<>>
    BY <1>1, <2>1, FlatOneByOne
  <2>3. GivenUpTo(sort, t, 0) = {}
    BY DEF GivenUpTo
  <2>4. /\ IsList(Flat(t, 0)) /\ Founded(sort, Flat(t, 0), K)
        /\ Given(sort, Flat(t, 0)) = GivenUpTo(sort, t, 0)
    BY <2>2, <2>3, FoundedFew, Zenon
  <2> QED
    BY <2>4
<1>3. ASSUME NEW n \in 0 .. N - 1, n \in T
      PROVE  n + 1 \in T
  <2>1. IsConcat(Flat(t, n + 1), Flat(t, n), t[n + 1])
    <3>1. n \in 0 .. N /\ n < N
      OBVIOUS
    <3> QED
      BY <1>1, <3>1, FlatOneByOne
  <2>2. n + 1 \in 1 .. N /\ (n + 1) - 1 = n /\ n \in Nat
    OBVIOUS
  <2>3. /\ IsList(t[n + 1])
        /\ Founded(sort, t[n + 1], K \cup GivenUpTo(sort, t, n))
    BY <2>2
  <2>4. /\ IsList(Flat(t, n + 1)) /\ Founded(sort, Flat(t, n + 1), K)
        /\ Given(sort, Flat(t, n + 1)) = Given(sort, Flat(t, n)) \cup Given(sort, t[n + 1])
    BY <1>3, <2>1, <2>3, FoundedTwo
  <2>5. GivenUpTo(sort, t, n + 1) = GivenUpTo(sort, t, n) \cup Given(sort, t[n + 1])
    <3>1. 1 .. n + 1 = (1 .. n) \cup {n + 1}
      BY <2>2
    <3> QED
      BY <3>1 DEF GivenUpTo
  <2> QED
    BY <1>3, <2>2, <2>4, <2>5
<1> HIDE DEF T
<1>4. 0 .. N \subseteq T
  BY <1>2, <1>3, IntervalInduction
<1> QED
  BY <1>4 DEF T

-----------------------------------------------------------------------------
(* What is inside of a definition.                                         *)

LEMMA TreeShape ==
    ASSUME Reading, NEW kind \in Kinds, NEW t \in DOMAIN Trees(kind),
           NEW tree, tree = Trees(kind)[t]
    PROVE  /\ DOMAIN tree = 1 .. Len(tree) /\ Len(tree) \in Nat \ {0}
           /\ tree[1].kind \in ClassKinds(kind)
           /\ \A i \in 2 .. Len(tree) :
                  /\ tree[i].up \in 1 .. i - 1
                  /\ tree[i].kind \in KindsInside(tree[tree[i].up].kind) \cup {"unknown"}
           /\ tree[1].up = 0
<1>1. tree \in NodeTrees /\ tree[1].kind \in ClassKinds(kind)
  BY TreeOfKind
<1>2. tree \in Seq(Nodes) /\ tree # <<>>
  BY <1>1 DEF NodeTrees
<1>3. DOMAIN tree = 1 .. Len(tree) /\ Len(tree) \in Nat \ {0}
  BY <1>2
<1> QED
  BY <1>1, <1>3 DEF NodeTrees

\* Node k is in its place in definition i, f being that of the nodes before.
HereBody(kind, t, i, f, k) ==
    \/ k = i
    \/ k > i /\ ~IsMangled(kind, t, k) /\ Trees(kind)[t][k].up >= i
           /\ f[Trees(kind)[t][k].up]

Here(kind, t, i) ==
    LET f[k \in DOMAIN Trees(kind)[t]] ==
            \/ k = i
            \/ k > i /\ ~IsMangled(kind, t, k) /\ Trees(kind)[t][k].up >= i
                   /\ f[Trees(kind)[t][k].up]
    IN  f

LEMMA HereUnfolds ==
    ASSUME Reading, NEW kind \in Kinds, NEW t \in DOMAIN Trees(kind),
           NEW i \in DOMAIN Trees(kind)[t]
    PROVE  \A k \in DOMAIN Trees(kind)[t] :
               Here(kind, t, i)[k] = HereBody(kind, t, i, Here(kind, t, i), k)
<1> DEFINE tree == Trees(kind)[t]
           S == DOMAIN tree
           F == [f \in [S -> BOOLEAN] |-> [k \in S |-> HereBody(kind, t, i, f, k)]]
           rank == [k \in S |-> k]
<1>1. /\ S = 1 .. Len(tree) /\ Len(tree) \in Nat
      /\ \A k \in 2 .. Len(tree) : tree[k].up \in 1 .. k - 1
  BY TreeShape
<1>2. \A k \in S : k > i => tree[k].up \in S /\ tree[k].up < k
  BY <1>1
<1>3. rank \in [S -> 0 .. Len(tree)]
  BY <1>1
<1>4. F \in [[S -> BOOLEAN] -> [S -> BOOLEAN]]
  BY DEF HereBody
<1>5. ASSUME NEW f \in [S -> BOOLEAN], NEW g \in [S -> BOOLEAN], NEW n \in S,
             \A k \in S : rank[k] < rank[n] => f[k] = g[k]
      PROVE  F[f][n] = F[g][n]
  <2>1. F[f][n] = HereBody(kind, t, i, f, n) /\ F[g][n] = HereBody(kind, t, i, g, n)
    OBVIOUS
  <2>2. n > i => f[tree[n].up] = g[tree[n].up]
    BY <1>2, <1>5
  <2>3. HereBody(kind, t, i, f, n) = HereBody(kind, t, i, g, n)
    <3> HIDE DEF S, F, rank
    <3> QED
      BY <2>2, Zenon DEF HereBody
  <2> QED
    BY <2>1, <2>3
<1>6. PICK f \in [S -> BOOLEAN] : f = F[f]
  <2> HIDE DEF S, F, rank
  <2>1. IsDefinition(F, S, BOOLEAN, rank, Len(tree))
    BY <1>1, <1>3, <1>4, <1>5 DEF IsDefinition
  <2>2. IsDefined(F, S, BOOLEAN)
    BY <2>1, DefinitionDefines
  <2> QED
    BY <2>2 DEF IsDefined
<1>7. f = [k \in S |-> HereBody(kind, t, i, f, k)]
  BY <1>6
<1> DEFINE h == Here(kind, t, i)
<1>8. h = [k \in S |-> HereBody(kind, t, i, h, k)]
  BY <1>7, Zenon DEF Here, HereBody
<1> HIDE DEF h
<1> QED
  BY <1>8, Zenon DEF h

LEMMA InsideIs ==
    ASSUME Reading, NEW kind \in Kinds, NEW t \in DOMAIN Trees(kind),
           NEW tree, tree = Trees(kind)[t], NEW i \in DOMAIN tree, NEW k \in DOMAIN tree
    PROVE  k \in Inside(kind, t, i) <=>
               \/ k = i
               \/ /\ k > i /\ tree[k].kind # "unknown" /\ ~IsMangled(kind, t, k)
                  /\ tree[k].up >= i /\ tree[k].up \in Inside(kind, t, i)
<1> DEFINE h == Here(kind, t, i)
<1>1. \A j : j \in Inside(kind, t, i) <=>
                 /\ j \in DOMAIN tree /\ h[j]
                 /\ j = i \/ tree[j].kind # "unknown"
  BY Zenon DEF Inside, Here
<1>2. \A j \in DOMAIN tree : h[j] = HereBody(kind, t, i, h, j)
  BY HereUnfolds
<1>3. DOMAIN tree = 1 .. Len(tree) /\ Len(tree) \in Nat
  BY TreeShape
<1> HIDE DEF h
<1>4. CASE k = i
  <2>1. HereBody(kind, t, i, h, k)
    BY <1>4 DEF HereBody
  <2>2. h[k]
    BY <1>2, <2>1
  <2> QED
    BY <1>1, <1>4, <2>2
<1>5. CASE k # i
  <2>1. h[k] <=> k > i /\ ~IsMangled(kind, t, k) /\ tree[k].up >= i /\ h[tree[k].up]
    <3>1. h[k] = HereBody(kind, t, i, h, k)
      BY <1>2
    <3> QED
      BY <1>5, <3>1, Zenon DEF HereBody
  <2>2. ASSUME k > i, tree[k].kind # "unknown"
        PROVE  /\ tree[k].up \in DOMAIN tree
               /\ tree[tree[k].up].kind # "unknown"
    <3>1. k \in 2 .. Len(tree)
      BY <1>3, <2>2
    <3>2. /\ tree[k].up \in 1 .. k - 1
          /\ tree[k].kind \in KindsInside(tree[tree[k].up].kind) \cup {"unknown"}
      BY <3>1, TreeShape
    <3>3. KindsInside("unknown") = {}
      BY DEF KindsInside, EncodingKinds, MemberKinds
    <3> QED
      BY <1>3, <2>2, <3>2, <3>3
  <2> QED
    BY <1>1, <1>5, <2>1, <2>2
<1> QED
  BY <1>4, <1>5

LEMMA InsideNodes ==
    ASSUME NEW kind, NEW t, NEW i
    PROVE  Inside(kind, t, i) \subseteq DOMAIN Trees(kind)[t]
BY Zenon DEF Inside

\* What is inside of a definition is inside of that of a child.
LEMMA InsideChild ==
    ASSUME Reading, NEW kind \in Kinds, NEW t \in DOMAIN Trees(kind),
           NEW tree, tree = Trees(kind)[t], NEW i \in DOMAIN tree
    PROVE  \A k \in Inside(kind, t, i) \ {i} :
               \E c \in ChildNodes(tree, i) :
                   ~IsMangled(kind, t, c) /\ k \in Inside(kind, t, c)
<1> DEFINE Within(k) == \E c \in ChildNodes(tree, i) :
                          ~IsMangled(kind, t, c) /\ k \in Inside(kind, t, c)
           Bad == {k \in Inside(kind, t, i) \ {i} : ~Within(k)}
<1> SUFFICES ASSUME Bad # {}
             PROVE  FALSE
  OBVIOUS
<1>1. DOMAIN tree = 1 .. Len(tree) /\ Len(tree) \in Nat
  BY TreeShape
<1>2. Inside(kind, t, i) \subseteq DOMAIN tree
  BY InsideNodes
<1>3. PICK k \in Bad : \A j \in Bad : k <= j
  <2>1. Bad \in SUBSET Nat
    BY <1>1, <1>2
  <2> HIDE DEF Bad
  <2> QED
    BY <2>1, LeastNatural
<1>4. k \in Inside(kind, t, i) /\ k # i /\ ~Within(k) /\ k \in DOMAIN tree
  BY <1>2
<1> HIDE DEF Within
<1> DEFINE up == tree[k].up
<1>5. /\ k > i /\ tree[k].kind # "unknown" /\ ~IsMangled(kind, t, k)
      /\ up >= i /\ up \in Inside(kind, t, i)
  BY <1>4, InsideIs
<1>6. k \in 2 .. Len(tree)
  BY <1>1, <1>4, <1>5
<1>7. /\ up \in 1 .. k - 1
      /\ tree[k].kind \in KindsInside(tree[up].kind) \cup {"unknown"}
  BY <1>6, TreeShape
<1> HIDE DEF up
<1>8. CASE up = i
  <2>1. k \in ChildNodes(tree, i)
    BY <1>4, <1>5, <1>7, <1>8 DEF ChildNodes, up
  <2>2. k \in Inside(kind, t, k)
    BY <1>4, InsideIs
  <2> QED
    BY <1>4, <1>5, <2>1, <2>2 DEF Within
<1>9. CASE up # i
  <2>1. Within(up)
    <3>1. up \notin Bad
      BY <1>1, <1>3, <1>6, <1>7
    <3> QED
      BY <1>5, <1>9, <3>1
  <2>2. PICK c \in ChildNodes(tree, i) :
            ~IsMangled(kind, t, c) /\ up \in Inside(kind, t, c)
    BY <2>1 DEF Within
  <2>3. c \in DOMAIN tree /\ up \in DOMAIN tree
    BY <2>2, InsideNodes DEF ChildNodes
  <2>4. up >= c
    <3>1. up = c \/ up > c
      BY <2>2, <2>3, InsideIs
    <3> QED
      BY <1>1, <2>3, <3>1
  <2>5. k \in Inside(kind, t, c)
    <3>1. k > c
      BY <1>1, <1>4, <1>7, <2>3, <2>4
    <3> QED
      BY <1>4, <1>5, <2>2, <2>3, <2>4, <3>1, InsideIs DEF up
  <2> QED
    BY <1>4, <2>2, <2>5 DEF Within
<1> QED
  BY <1>8, <1>9

\* Nothing is inside of nodes without children.
LEMMA NothingInside ==
    ASSUME Reading, NEW kind \in Kinds, NEW t \in DOMAIN Trees(kind),
           NEW tree, tree = Trees(kind)[t], NEW i \in DOMAIN tree,
           KindsInside(tree[i].kind) = {}
    PROVE  Inside(kind, t, i) \subseteq {i}
<1>1. ChildNodes(tree, i) = {}
  BY DEF ChildNodes
<1> QED
  BY <1>1, InsideChild

\* Encodings and what is mangled are defined in detail.
ByItself(kind, t, k) == IsMangled(kind, t, k) \/ (kind = "types" /\ k = 1)

Places(kind, t) ==
    LET f[k \in DOMAIN Trees(kind)[t]] ==
            LET n == Trees(kind)[t][k]
            IN  IF IsMangled(kind, t, k) \/ (kind = "types" /\ k = 1)
                THEN ImplPath(kind, t, k)
                ELSE Append(IF k = 1 THEN TagScope(kind) ELSE f[n.up], n.name)
    IN  f

PlaceBody(kind, t, f, k) ==
    IF ByItself(kind, t, k) THEN ImplPath(kind, t, k)
    ELSE Append(IF k = 1 THEN TagScope(kind) ELSE f[Trees(kind)[t][k].up],
                Trees(kind)[t][k].name)

LEMMA PlacesUnfold ==
    ASSUME Reading, NEW kind \in Kinds, NEW t \in DOMAIN Trees(kind)
    PROVE  \A k \in DOMAIN Trees(kind)[t] :
               Places(kind, t)[k] = PlaceBody(kind, t, Places(kind, t), k)
<1> DEFINE tree == Trees(kind)[t]
           S == DOMAIN tree
           W == {Detail, Schema, <<kind>>, tagName[kind]} \cup
                {ImplName(<<kind, t, k>>) : k \in S} \cup {tree[k].name : k \in S}
           V == Seq(W)
           F == [f \in [S -> V] |-> [k \in S |-> PlaceBody(kind, t, f, k)]]
           rank == [k \in S |-> k]
<1>1. /\ S = 1 .. Len(tree) /\ Len(tree) \in Nat
      /\ \A k \in 2 .. Len(tree) : tree[k].up \in 1 .. k - 1
  BY TreeShape
<1>2. \A k \in S : k # 1 => tree[k].up \in S /\ tree[k].up < k
  BY <1>1
<1>3. rank \in [S -> 0 .. Len(tree)] /\ <<>> \in V
  BY <1>1
<1>4. /\ Detail \in W /\ Schema \in W /\ <<kind>> \in W /\ tagName[kind] \in W
      /\ \A k \in S : ImplName(<<kind, t, k>>) \in W /\ tree[k].name \in W
  OBVIOUS
<1>5. F \in [[S -> V] -> [S -> V]]
  <2> SUFFICES ASSUME NEW f \in [S -> V], NEW k \in S
               PROVE  PlaceBody(kind, t, f, k) \in V
    OBVIOUS
  <2> HIDE DEF S, W, F, rank
  <2>1. ImplPath(kind, t, k) \in V
    BY <1>4 DEF ImplPath
  <2>2. TagScope(kind) \in V
    BY <1>4 DEF TagScope
  <2>3. k # 1 => f[tree[k].up] \in V
    BY <1>2
  <2>4. tree[k].name \in W
    BY <1>4
  <2> QED
    BY <2>1, <2>2, <2>3, <2>4 DEF PlaceBody
<1>6. ASSUME NEW f \in [S -> V], NEW g \in [S -> V], NEW n \in S,
             \A k \in S : rank[k] < rank[n] => f[k] = g[k]
      PROVE  F[f][n] = F[g][n]
  <2>1. F[f][n] = PlaceBody(kind, t, f, n) /\ F[g][n] = PlaceBody(kind, t, g, n)
    OBVIOUS
  <2>2. n # 1 => f[tree[n].up] = g[tree[n].up]
    BY <1>2, <1>6
  <2>3. PlaceBody(kind, t, f, n) = PlaceBody(kind, t, g, n)
    <3> HIDE DEF S, F, rank, V, W
    <3> QED
      BY <2>2 DEF PlaceBody
  <2> QED
    BY <2>1, <2>3
<1>7. PICK f \in [S -> V] : f = F[f]
  <2> HIDE DEF S, F, rank, V, W
  <2>1. IsDefinition(F, S, V, rank, Len(tree))
    BY <1>1, <1>3, <1>5, <1>6 DEF IsDefinition
  <2>2. IsDefined(F, S, V)
    BY <2>1, DefinitionDefines
  <2> QED
    BY <2>2 DEF IsDefined
<1>8. f = [k \in S |-> PlaceBody(kind, t, f, k)]
  BY <1>7
<1> DEFINE h == Places(kind, t)
<1>9. h = [k \in S |-> PlaceBody(kind, t, h, k)]
  BY <1>8, Zenon DEF Places, PlaceBody, ByItself
<1> HIDE DEF h
<1> QED
  BY <1>9, Zenon DEF h

LEMMA PlaceByItself ==
    ASSUME Reading, NEW kind \in Kinds, NEW t \in DOMAIN Trees(kind),
           NEW k \in DOMAIN Trees(kind)[t], ByItself(kind, t, k)
    PROVE  Place(kind, t, k) = ImplPath(kind, t, k)
<1>1. Place(kind, t, k) = Places(kind, t)[k]
  BY Zenon DEF Place, Places
<1>2. Places(kind, t)[k] = PlaceBody(kind, t, Places(kind, t), k)
  BY PlacesUnfold
<1> QED
  BY <1>1, <1>2 DEF PlaceBody

-----------------------------------------------------------------------------
(* The text of definitions.                                                *)

\* The structs of nodes.
Paths(kind, nodes) == {ImplPath(kind, n[1], n[2]) : n \in nodes}

\* A definition of its own.
Standing(kind, n) ==
    /\ n[1] \in DOMAIN Trees(kind) /\ n[2] \in DOMAIN Trees(kind)[n[1]]
    /\ n = <<n[1], n[2]>>

\* The types of what is in a definition are known.
BasesIn(K, kind, n) ==
    \A k \in Inside(kind, n[1], n[2]) :
        Base(Trees(kind)[n[1]][k]) \in K \cup {None}

LEMMA DefinitionFounded ==
    ASSUME Reading, NEW kind \in Kinds, NEW n, Standing(kind, n), NEW K,
           BasesIn(K, kind, n), Paths(kind, Needs(kind, n)) \subseteq K
    PROVE  /\ IsList(Definition(kind, n)) /\ Founded("text", Definition(kind, n), K)
           /\ ByItself(kind, n[1], n[2]) =>
                  ImplPath(kind, n[1], n[2]) \in Given("text", Definition(kind, n))
<1> DEFINE t == n[1]
           i == n[2]
           tree == Trees(kind)[t]
           structs == [k \in DOMAIN tree |->
                          IF k \in Inside(kind, t, i)
                          THEN <<Struct(Place(kind, t, k), Base(tree[k]))>> ELSE <<>>]
           aliases == [k \in DOMAIN tree |->
                          IF k # i /\ tree[k].up \in Inside(kind, t, i)
                                 /\ IsMangled(kind, t, k)
                          THEN <<Alias(Append(Place(kind, t, tree[k].up), tree[k].name),
                                       ImplPath(kind, t, k))>>
                          ELSE <<>>]
           N == Len(tree)
<1>1. t \in DOMAIN Trees(kind) /\ i \in DOMAIN tree
  BY DEF Standing
<1>2. DOMAIN tree = 1 .. N /\ N \in Nat
  BY <1>1, TreeShape
<1>3. StructsInside(kind, t, i) = FlattenSeq(structs)
  BY DEF StructsInside
<1>4. AliasesInside(kind, t, i) = FlattenSeq(aliases)
  BY DEF AliasesInside
<1>5. FlattenSeq(structs) = Flat(structs, N) /\ FlattenSeq(aliases) = Flat(aliases, N)
  BY <1>2 DEF Flat
<1>6. ASSUME NEW k \in 1 .. N
      PROVE  /\ IsList(structs[k])
             /\ Founded("text", structs[k], K \cup GivenUpTo("text", structs, k - 1))
  <2> DEFINE x == Struct(Place(kind, t, k), Base(tree[k]))
  <2>1. CASE k \in Inside(kind, t, i)
    <3>1. structs[k] = <<x>>
      BY <1>2, <2>1
    <3>2. Base(tree[k]) \in K \cup {None}
      BY <2>1 DEF BasesIn
    <3>3. Uses("text", x) \subseteq K
      BY <3>2 DEF Uses, Struct
    <3> HIDE DEF x, structs
    <3> QED
      BY <3>1, <3>3, FoundedFew
  <2>2. CASE k \notin Inside(kind, t, i)
    <3>1. structs[k] = <<>>
      BY <1>2, <2>2
    <3> HIDE DEF structs
    <3> QED
      BY <3>1, FoundedFew
  <2> QED
    BY <2>1, <2>2
<1>7. ASSUME NEW k \in 1 .. N, NEW L, K \subseteq L
      PROVE  IsList(aliases[k]) /\ Founded("text", aliases[k], L)
  <2> DEFINE x == Alias(Append(Place(kind, t, tree[k].up), tree[k].name),
                        ImplPath(kind, t, k))
  <2>1. CASE k # i /\ tree[k].up \in Inside(kind, t, i) /\ IsMangled(kind, t, k)
    <3>1. aliases[k] = <<x>>
      BY <1>2, <2>1
    <3>2. <<t, k>> \in Needs(kind, n)
      BY <1>2, <2>1 DEF Needs
    <3>3. ImplPath(kind, t, k) \in K
      BY <3>2 DEF Paths
    <3>4. Uses("text", x) \subseteq L
      BY <1>7, <3>3 DEF Uses, Alias
    <3> HIDE DEF x, aliases
    <3> QED
      BY <3>1, <3>4, FoundedFew
  <2>2. CASE ~(k # i /\ tree[k].up \in Inside(kind, t, i) /\ IsMangled(kind, t, k))
    <3>1. aliases[k] = <<>>
      BY <1>2, <2>2
    <3> HIDE DEF aliases
    <3> QED
      BY <3>1, FoundedFew
  <2> QED
    BY <2>1, <2>2
<1>8. ASSUME ByItself(kind, t, i)
      PROVE  ImplPath(kind, t, i) \in GivenUpTo("text", structs, N)
  <2>1. i \in Inside(kind, t, i)
    BY <1>1, InsideIs
  <2>2. structs[i] = <<Struct(Place(kind, t, i), Base(tree[i]))>>
    BY <1>1, <2>1
  <2>3. Given("text", structs[i]) = Gives("text", Struct(Place(kind, t, i), Base(tree[i])))
    BY <2>2, FoundedFew
  <2>4. Place(kind, t, i) = ImplPath(kind, t, i)
    BY <1>1, <1>8, PlaceByItself
  <2>5. ImplPath(kind, t, i) \in Given("text", structs[i])
    BY <2>3, <2>4 DEF Gives, Struct
  <2> QED
    BY <1>1, <1>2, <2>5 DEF GivenUpTo
<1> HIDE DEF structs, aliases, N
<1>9. /\ IsList(Flat(structs, N)) /\ Founded("text", Flat(structs, N), K)
      /\ Given("text", Flat(structs, N)) = GivenUpTo("text", structs, N)
  BY <1>2, <1>6, FoundedMany
<1> DEFINE L == K \cup Given("text", Flat(structs, N))
<1>10. IsList(Flat(aliases, N)) /\ Founded("text", Flat(aliases, N), L)
  <2>1. \A k \in 1 .. N :
            /\ IsList(aliases[k])
            /\ Founded("text", aliases[k], L \cup GivenUpTo("text", aliases, k - 1))
    BY <1>7
  <2> HIDE DEF L
  <2> QED
    BY <1>2, <2>1, FoundedMany
<1>11. IsConcat(Definition(kind, n), Flat(structs, N), Flat(aliases, N))
  BY <1>3, <1>4, <1>5, Zenon DEF Definition, IsConcat
<1>12. /\ IsList(Definition(kind, n)) /\ Founded("text", Definition(kind, n), K)
       /\ Given("text", Definition(kind, n)) =
              Given("text", Flat(structs, N)) \cup Given("text", Flat(aliases, N))
  BY <1>9, <1>10, <1>11, FoundedTwo
<1> QED
  BY <1>8, <1>9, <1>12

\* The struct of a definition of its own is in it.
LEMMA DefinitionGives ==
    ASSUME Reading, NEW kind \in Kinds, NEW n, Standing(kind, n), ByItself(kind, n[1], n[2])
    PROVE  ImplPath(kind, n[1], n[2]) \in Given("text", Definition(kind, n))
<1> DEFINE bases == {Base(Trees(kind)[n[1]][k]) : k \in Inside(kind, n[1], n[2])}
           K == bases \cup Paths(kind, Needs(kind, n))
<1>1. BasesIn(K, kind, n)
  BY DEF BasesIn
<1>2. Paths(kind, Needs(kind, n)) \subseteq K
  OBVIOUS
<1> HIDE DEF K
<1> QED
  BY <1>1, <1>2, DefinitionFounded

\* Definitions in an order in which what they need comes first, K having the
\* types that no node among those they need is.
LEMMA DefinitionsFounded ==
    ASSUME Reading, NEW kind \in Kinds, NEW nodes, IsList(nodes),
           Founded(kind, nodes, {}), NEW K,
           \A d \in DOMAIN nodes :
               /\ Standing(kind, nodes[d]) /\ ByItself(kind, nodes[d][1], nodes[d][2])
               /\ BasesIn(K \cup Paths(kind, Needs(kind, nodes[d])), kind, nodes[d])
    PROVE  /\ IsList(Definitions(kind, nodes))
           /\ Founded("text", Definitions(kind, nodes), K)
           /\ Paths(kind, ToSet(nodes)) \subseteq Given("text", Definitions(kind, nodes))
<1> DEFINE N == Len(nodes)
           text == [d \in DOMAIN nodes |-> Definition(kind, nodes[d])]
<1>1. DOMAIN nodes = 1 .. N /\ N \in Nat
  BY ListDomain
<1>2. Definitions(kind, nodes) = Flat(text, N)
  BY <1>1 DEF Definitions, Flat
<1>3. ASSUME NEW d \in 1 .. N
      PROVE  ImplPath(kind, nodes[d][1], nodes[d][2]) \in Given("text", text[d])
  BY <1>1, DefinitionGives
<1>4. ASSUME NEW d \in 1 .. N
      PROVE  Paths(kind, Needs(kind, nodes[d])) \subseteq GivenUpTo("text", text, d - 1)
  <2> SUFFICES ASSUME NEW x \in Needs(kind, nodes[d])
               PROVE  ImplPath(kind, x[1], x[2]) \in GivenUpTo("text", text, d - 1)
    BY DEF Paths
  <2>1. kind # "text"
    BY DEF Kinds
  <2>2. PICK q \in 1 .. d - 1 : x = nodes[q]
    BY <1>1, <2>1 DEF Founded, Uses, Gives
  <2>3. q \in 1 .. N
    BY <1>1
  <2>4. ImplPath(kind, x[1], x[2]) \in Given("text", text[q])
    BY <1>3, <2>2, <2>3
  <2> HIDE DEF text
  <2> QED
    BY <2>4 DEF GivenUpTo
<1>5. ASSUME NEW d \in 1 .. N
      PROVE  /\ IsList(text[d])
             /\ Founded("text", text[d], K \cup GivenUpTo("text", text, d - 1))
  <2> DEFINE L == K \cup GivenUpTo("text", text, d - 1)
  <2>1. text[d] = Definition(kind, nodes[d]) /\ Standing(kind, nodes[d])
    BY <1>1
  <2>2. BasesIn(L, kind, nodes[d])
    <3>1. K \cup Paths(kind, Needs(kind, nodes[d])) \subseteq L
      BY <1>4
    <3>2. BasesIn(K \cup Paths(kind, Needs(kind, nodes[d])), kind, nodes[d])
      BY <1>1
    <3> HIDE DEF L, text
    <3> QED
      BY <3>1, <3>2 DEF BasesIn
  <2>3. Paths(kind, Needs(kind, nodes[d])) \subseteq L
    BY <1>4
  <2> HIDE DEF L, text
  <2>4. IsList(Definition(kind, nodes[d])) /\ Founded("text", Definition(kind, nodes[d]), L)
    BY <2>1, <2>2, <2>3, DefinitionFounded
  <2> QED
    BY <2>1, <2>4 DEF L
<1> HIDE DEF text
<1>6. /\ IsList(Flat(text, N)) /\ Founded("text", Flat(text, N), K)
      /\ Given("text", Flat(text, N)) = GivenUpTo("text", text, N)
  BY <1>1, <1>5, FoundedMany
<1>7. Paths(kind, ToSet(nodes)) \subseteq GivenUpTo("text", text, N)
  <2> SUFFICES ASSUME NEW d \in 1 .. N
               PROVE  ImplPath(kind, nodes[d][1], nodes[d][2]) \in GivenUpTo("text", text, N)
    BY <1>1 DEF Paths, ToSet
  <2> QED
    BY <1>3 DEF GivenUpTo
<1> QED
  BY <1>2, <1>6, <1>7

-----------------------------------------------------------------------------
(* The order in which tags_generator visits encodings.                     *)

\* There are finitely many encodings.
CountedTypes == \E n \in Nat : DOMAIN Types = 1 .. n

RefsExist ==
    \A t \in DOMAIN Types : \A k \in DOMAIN Types[t] :
        Types[t][k].kind = "ref" =>
            /\ RefTarget(Types[t], k) \in DOMAIN Types
            /\ RefTarget(Types[t], k) \in RefersTo(Types, t)

NoneCyclic == \A t \in DOMAIN Types : ~Cyclic(Types, t)

LEMMA RightTypes ==
    ASSUME Reading, ~TypesWrong
    PROVE  RefsExist /\ NoneCyclic
<1>1. \A t \in DOMAIN Types : RightType(t)
  BY DEF TypesWrong
<1>2. NoneCyclic
  BY <1>1 DEF RightType, NoneCyclic
<1>3. ASSUME NEW t \in DOMAIN Types, NEW k \in DOMAIN Types[t], Types[t][k].kind = "ref"
      PROVE  /\ RefTarget(Types[t], k) \in DOMAIN Types
             /\ RefTarget(Types[t], k) \in RefersTo(Types, t)
  <2>1. ~WrongNode(Types[t], k)
    BY <1>1 DEF RightType, WrongEncoding
  <2>2. Exists(Types[t][k].type)
    BY <1>3, <2>1 DEF WrongNode
  <2>3. RefTarget(Types[t], k) \in DOMAIN Types
    BY <2>2, WhereItIs DEF RefTarget
  <2>4. RefTarget(Types[t], k) \in RefersTo(Types, t)
    BY <1>3, <2>2 DEF RefTarget, RefersTo, NodesOf, Exists
  <2> QED
    BY <2>3, <2>4
<1> QED
  BY <1>2, <1>3 DEF RefsExist

\* The nodes that are visited from node i of encoding t.
Visits(t, i) ==
    {n \in TypeNodes : \/ n[1] \in Reached(Types, t) \ {t}
                       \/ n[1] = t /\ n[2] >= i}

LEMMA TypeNodeIs ==
    ASSUME NEW n
    PROVE  n \in TypeNodes <=>
               /\ n = <<n[1], n[2]>> /\ n[1] \in DOMAIN Types
               /\ n[2] \in DOMAIN Types[n[1]]
BY DEF TypeNodes

LEMMA TypesAreTrees ==
    ASSUME Reading, NEW t \in DOMAIN Types
    PROVE  /\ DOMAIN Types[t] = 1 .. Len(Types[t]) /\ Len(Types[t]) \in Nat \ {0}
           /\ \A i \in 2 .. Len(Types[t]) : Types[t][i].up \in 1 .. i - 1
           /\ "types" \in Kinds /\ Types = Trees("types")
           /\ <<t, 1>> \in TypeNodes
<1>1. "types" \in Kinds /\ Types = Trees("types")
  BY DEF Kinds, Trees
<1>2. /\ DOMAIN Types[t] = 1 .. Len(Types[t]) /\ Len(Types[t]) \in Nat \ {0}
      /\ \A i \in 2 .. Len(Types[t]) : Types[t][i].up \in 1 .. i - 1
  BY <1>1, TreeShape
<1>3. 1 \in DOMAIN Types[t]
  BY <1>2
<1> QED
  BY <1>1, <1>2, <1>3, TypeNodeIs

LEMMA TypeNodeShape ==
    ASSUME Reading, NEW n \in TypeNodes
    PROVE  /\ n = <<n[1], n[2]>> /\ n[1] \in DOMAIN Types
           /\ n[2] \in DOMAIN Types[n[1]] /\ n[2] \in Nat \ {0}
<1>1. n = <<n[1], n[2]>> /\ n[1] \in DOMAIN Types /\ n[2] \in DOMAIN Types[n[1]]
  BY TypeNodeIs
<1>2. ASSUME NEW t \in DOMAIN Types, NEW i \in DOMAIN Types[t]
      PROVE  i \in Nat \ {0}
  <2>1. DOMAIN Types[t] = 1 .. Len(Types[t]) /\ Len(Types[t]) \in Nat
    BY TypesAreTrees
  <2> QED
    BY <2>1
<1> QED
  BY <1>1, <1>2

LEMMA TypeNodesFinite ==
    ASSUME Reading, CountedTypes
    PROVE  IsFiniteSet(TypeNodes)
<1>1. IsFiniteSet(DOMAIN Types)
  BY FS_Interval DEF CountedTypes
<1>2. ASSUME NEW t \in DOMAIN Types
      PROVE  IsFiniteSet({t} \X DOMAIN Types[t])
  <2>1. IsFiniteSet(1 .. Len(Types[t]))
    BY TypesAreTrees, FS_Interval
  <2>2. IsFiniteSet(DOMAIN Types[t])
    BY <2>1, TypesAreTrees
  <2>3. IsFiniteSet({t})
    BY FS_Singleton
  <2> QED
    BY <2>2, <2>3, FS_Product
<1> DEFINE parts == {{t} \X DOMAIN Types[t] : t \in DOMAIN Types}
<1>3. IsFiniteSet(parts)
  <2> DEFINE f == [t \in DOMAIN Types |-> {t} \X DOMAIN Types[t]]
  <2>1. f \in Surjection(DOMAIN Types, parts)
    BY DEF Surjection
  <2> HIDE DEF f, parts
  <2> QED
    BY <1>1, <2>1, FS_Surjection
<1>4. \A S \in parts : IsFiniteSet(S)
  BY <1>2
<1>5. IsFiniteSet(UNION parts)
  <2> HIDE DEF parts
  <2> QED
    BY <1>3, <1>4, FS_UNION
<1> QED
  BY <1>5 DEF TypeNodes

\* What a ref leads to reaches less than the encoding it is in.
LEMMA ReachedLess ==
    ASSUME RefsExist, NoneCyclic, NEW t \in DOMAIN Types, NEW u \in RefersTo(Types, t),
           u \in DOMAIN Types
    PROVE  /\ Reached(Types, u) \subseteq Reached(Types, t) \ {t}
           /\ u \in Reached(Types, u)
<1>1. t \notin Reached(Types, u)
  BY DEF NoneCyclic, Cyclic
<1>2. u \in Reached(Types, u)
  BY DEF Reached
<1>3. ASSUME NEW S \in SUBSET DOMAIN Types, t \in S, ClosedUnderRefs(Types, S)
      PROVE  u \in S
  BY <1>3 DEF ClosedUnderRefs
<1>4. Reached(Types, u) \subseteq Reached(Types, t)
  BY <1>3 DEF Reached
<1> QED
  BY <1>1, <1>2, <1>4

VisitRank == [n \in TypeNodes |-> Cardinality(Visits(n[1], n[2]))]

\* The rank of a node is that of what is visited from it.
LEMMA RanksFall ==
    ASSUME Reading, CountedTypes, RefsExist, NoneCyclic
    PROVE  /\ VisitRank \in [TypeNodes -> 0 .. Cardinality(TypeNodes)]
           /\ Cardinality(TypeNodes) \in Nat
           /\ \A n \in TypeNodes :
                  /\ \A k \in DOMAIN Types[n[1]] :
                         k > n[2] => VisitRank[<<n[1], k>>] < VisitRank[n]
                  /\ \A u \in RefersTo(Types, n[1]) \cap DOMAIN Types :
                         VisitRank[<<u, 1>>] < VisitRank[n]
<1>1. IsFiniteSet(TypeNodes)
  BY TypeNodesFinite
<1>2. Cardinality(TypeNodes) \in Nat
  BY <1>1, FS_CardinalityType
<1>3. ASSUME NEW t, NEW i
      PROVE  /\ IsFiniteSet(Visits(t, i)) /\ Cardinality(Visits(t, i)) \in Nat
             /\ Cardinality(Visits(t, i)) <= Cardinality(TypeNodes)
  <2>1. Visits(t, i) \in SUBSET TypeNodes
    BY DEF Visits
  <2>2. IsFiniteSet(Visits(t, i)) /\ Cardinality(Visits(t, i)) <= Cardinality(TypeNodes)
    BY <1>1, <2>1, FS_Subset
  <2> QED
    BY <2>2, FS_CardinalityType
<1>4. ASSUME NEW n \in TypeNodes
      PROVE  VisitRank[n] \in 0 .. Cardinality(TypeNodes)
  <2>1. VisitRank[n] = Cardinality(Visits(n[1], n[2]))
    BY DEF VisitRank
  <2> QED
    BY <1>2, <1>3, <2>1
<1>5. VisitRank \in [TypeNodes -> 0 .. Cardinality(TypeNodes)]
  BY <1>4 DEF VisitRank
<1>6. ASSUME NEW n \in TypeNodes, NEW o \in TypeNodes,
             Visits(o[1], o[2]) \subseteq Visits(n[1], n[2]) \ {n}
      PROVE  VisitRank[o] < VisitRank[n]
  <2> DEFINE A == Visits(o[1], o[2])
             B == Visits(n[1], n[2])
  <2>1. n \in B
    <3>1. n[2] \in Nat
      BY TypeNodeShape
    <3>2. n[2] >= n[2]
      BY <3>1
    <3> QED
      BY <3>2 DEF Visits
  <2>2. VisitRank[o] = Cardinality(A) /\ VisitRank[n] = Cardinality(B)
    BY DEF VisitRank
  <2>3. /\ IsFiniteSet(B) /\ Cardinality(B) \in Nat /\ Cardinality(A) \in Nat
    BY <1>3
  <2> HIDE DEF A, B
  <2>4. A \in SUBSET B /\ A # B
    BY <1>6, <2>1 DEF A, B
  <2>5. Cardinality(A) <= Cardinality(B) /\ Cardinality(A) # Cardinality(B)
    BY <2>3, <2>4, FS_Subset
  <2> QED
    BY <2>2, <2>3, <2>5
<1>7. ASSUME NEW n \in TypeNodes, NEW k \in DOMAIN Types[n[1]], k > n[2]
      PROVE  VisitRank[<<n[1], k>>] < VisitRank[n]
  <2>1. n[1] \in DOMAIN Types /\ n[2] \in DOMAIN Types[n[1]] /\ n = <<n[1], n[2]>>
    BY TypeNodeIs
  <2>3. <<n[1], k>> \in TypeNodes
    BY <2>1, TypeNodeIs
  <2>2. k \in Int /\ n[2] \in Int
    <3>1. <<n[1], k>>[2] \in Nat
      BY <2>3, TypeNodeShape
    <3> QED
      BY <3>1, TypeNodeShape
  <2>4. Visits(n[1], k) \subseteq Visits(n[1], n[2]) \ {n}
    <3> SUFFICES ASSUME NEW o \in Visits(n[1], k)
                 PROVE  o \in Visits(n[1], n[2]) /\ o # n
      OBVIOUS
    <3>1. /\ o \in TypeNodes
          /\ \/ o[1] \in Reached(Types, n[1]) \ {n[1]}
             \/ o[1] = n[1] /\ o[2] >= k
      BY DEF Visits
    <3>2. o[2] \in Nat
      BY <3>1, TypeNodeShape
    <3> QED
      BY <1>7, <2>2, <3>1, <3>2 DEF Visits
  <2> QED
    BY <1>6, <2>3, <2>4
<1>8. ASSUME NEW n \in TypeNodes, NEW u \in RefersTo(Types, n[1]) \cap DOMAIN Types
      PROVE  VisitRank[<<u, 1>>] < VisitRank[n]
  <2>1. n[1] \in DOMAIN Types
    BY TypeNodeIs
  <2>2. Reached(Types, u) \subseteq Reached(Types, n[1]) \ {n[1]} /\ u \in Reached(Types, u)
    BY <2>1, ReachedLess
  <2>3. Visits(u, 1) \subseteq Visits(n[1], n[2]) \ {n}
    BY <2>2 DEF Visits
  <2>4. <<u, 1>> \in TypeNodes
    BY TypesAreTrees
  <2> QED
    BY <1>6, <2>3, <2>4
<1> QED
  BY <1>2, <1>5, <1>7, <1>8

-----------------------------------------------------------------------------
(* What is defined on the way to an encoding.                              *)

Firsts(f, t, i) ==
    [k \in DOMAIN Types[t] |->
        IF k \in ChildNodes(Types[t], i) THEN EmittedFirst(f, t, k) ELSE <<>>]

LEMMA EmittedIs ==
    ASSUME Reading, NEW t \in DOMAIN Types, NEW f, NEW i
    PROVE  Emitted(f, t, i) = Flat(Firsts(f, t, i), Len(Types[t]))
<1>1. DOMAIN Types[t] = 1 .. Len(Types[t])
  BY TypesAreTrees
<1> QED
  BY <1>1 DEF Emitted, Firsts, Flat

\* The node visited for an element of a composite, and what is put behind what
\* is defined on the way.
VisitedFor(t, k) ==
    IF Types[t][k].kind = "ref" THEN <<RefTarget(Types[t], k), 1>> ELSE <<t, k>>

Itself(t, k) ==
    IF Types[t][k].kind = "ref" \/ IsMangled("types", t, k) THEN <<VisitedFor(t, k)>>
    ELSE <<>>

LEMMA FirstIsConcat ==
    ASSUME NEW f, NEW t, NEW k, f[VisitedFor(t, k)] \in Seq(TypeNodes)
    PROVE  IsConcat(EmittedFirst(f, t, k), f[VisitedFor(t, k)], Itself(t, k))
<1>1. CASE Types[t][k].kind = "ref"
  <2> DEFINE u == <<RefTarget(Types[t], k), 1>>
             s == f[u]
  <2>1. VisitedFor(t, k) = u /\ Itself(t, k) = <<u>> /\ EmittedFirst(f, t, k) = Append(s, u)
    BY <1>1 DEF VisitedFor, Itself, EmittedFirst
  <2>2. s \in Seq(TypeNodes)
    BY <2>1
  <2> HIDE DEF u
  <2>3. Append(s, u) = s \o <<u>>
    <3> HIDE DEF s
    <3> QED
      BY <2>2
  <2> QED
    BY <2>1, <2>3, Zenon DEF IsConcat
<1>2. CASE Types[t][k].kind # "ref"
  <2>1. VisitedFor(t, k) = <<t, k>>
    BY <1>2 DEF VisitedFor
  <2>2. Itself(t, k) = IF IsMangled("types", t, k) THEN <<<<t, k>>>> ELSE <<>>
    BY <1>2, <2>1, Zenon DEF Itself
  <2> QED
    BY <1>2, <2>1, <2>2, Zenon DEF IsConcat, EmittedFirst
<1> QED
  BY <1>1, <1>2

LEMMA MangledNode ==
    ASSUME Reading, NamesRight, NEW kind \in Kinds, NEW t, NEW k, IsMangled(kind, t, k)
    PROVE  /\ t \in DOMAIN Trees(kind) /\ k \in DOMAIN Trees(kind)[t]
           /\ Trees(kind)[t][k].kind \in ClassKinds(kind)
           /\ Trees(kind)[t][k].kind \notin {"ref", "unknown"}
<1>1. <<kind, t, k>> \in ClassNodes("types") \cup ClassNodes("messages")
  BY DEF IsMangled, NamesRight
<1>2. <<kind, t, k>> \in ClassNodes(kind)
  BY <1>1, KindsApart
<1>3. /\ t \in DOMAIN Trees(kind) /\ k \in NodesOf(Trees(kind)[t], ClassKinds(kind))
  BY <1>2 DEF ClassNodes
<1> QED
  BY <1>3 DEF NodesOf, ClassKinds, EncodingKinds

\* The node visited comes after.
LEMMA VisitedAfter ==
    ASSUME Reading, CountedTypes, RefsExist, NoneCyclic, NEW n \in TypeNodes,
           NEW k \in ChildNodes(Types[n[1]], n[2])
    PROVE  /\ VisitedFor(n[1], k) \in TypeNodes
           /\ VisitRank[VisitedFor(n[1], k)] < VisitRank[n]
           /\ Types[VisitedFor(n[1], k)[1]][VisitedFor(n[1], k)[2]].kind # "ref"
<1>1. n[1] \in DOMAIN Types /\ n[2] \in DOMAIN Types[n[1]]
  BY TypeNodeIs
<1>2. k \in DOMAIN Types[n[1]] /\ Types[n[1]][k].up = n[2]
  BY DEF ChildNodes
<1>3. <<n[1], k>> \in TypeNodes
  BY <1>1, <1>2, TypeNodeIs
<1>4. k > n[2]
  <2>1. n[2] # 0
    BY TypeNodeShape
  <2> DEFINE tree == Types[n[1]]
  <2>2. /\ tree[1].up = 0 /\ DOMAIN tree = 1 .. Len(tree) /\ Len(tree) \in Nat
        /\ \A i \in 2 .. Len(tree) : tree[i].up \in 1 .. i - 1
    BY <1>1, TreeShape, TypesAreTrees
  <2>3. k \in DOMAIN tree /\ tree[k].up = n[2]
    BY <1>2
  <2> HIDE DEF tree
  <2>4. k \in 2 .. Len(tree)
    BY <2>1, <2>2, <2>3
  <2>5. tree[k].up \in 1 .. k - 1
    BY <2>2, <2>4
  <2> QED
    BY <2>3, <2>4, <2>5
<1>5. CASE Types[n[1]][k].kind = "ref"
  <2> DEFINE u == RefTarget(Types[n[1]], k)
  <2>1. u \in RefersTo(Types, n[1]) \cap DOMAIN Types
    BY <1>1, <1>2, <1>5 DEF RefsExist
  <2>2. VisitedFor(n[1], k) = <<u, 1>>
    BY <1>5 DEF VisitedFor
  <2> HIDE DEF u
  <2>3. <<u, 1>> \in TypeNodes /\ VisitRank[<<u, 1>>] < VisitRank[n]
    BY <2>1, TypesAreTrees, RanksFall
  <2>4. Types[u][1].kind # "ref"
    BY <2>1, NodesOfTypes DEF EncodingKinds
  <2> QED
    BY <2>2, <2>3, <2>4
<1>6. CASE Types[n[1]][k].kind # "ref"
  <2>1. VisitedFor(n[1], k) = <<n[1], k>>
    BY <1>6 DEF VisitedFor
  <2> QED
    BY <1>2, <1>3, <1>4, <1>6, <2>1, RanksFall
<1> QED
  BY <1>5, <1>6

\* Lists are appended to the list.
LEMMA FirstIsList ==
    ASSUME Reading, CountedTypes, RefsExist, NoneCyclic, NEW n \in TypeNodes, NEW f,
           \A o \in TypeNodes : VisitRank[o] < VisitRank[n] => f[o] \in Seq(TypeNodes)
    PROVE  /\ AreLists(Firsts(f, n[1], n[2]), Len(Types[n[1]]), TypeNodes)
           /\ Emitted(f, n[1], n[2]) \in Seq(TypeNodes)
<1> DEFINE t == n[1]
           N == Len(Types[t])
           firsts == Firsts(f, t, n[2])
<1>1. t \in DOMAIN Types /\ DOMAIN Types[t] = 1 .. N /\ N \in Nat
  BY TypeNodeShape, TypesAreTrees
<1>2. ASSUME NEW k \in 1 .. N
      PROVE  firsts[k] \in Seq(TypeNodes)
  <2>1. CASE k \in ChildNodes(Types[t], n[2])
    <3> DEFINE v == VisitedFor(t, k)
               r == EmittedFirst(f, t, k)
    <3>1. v \in TypeNodes /\ VisitRank[v] < VisitRank[n]
      BY <2>1, VisitedAfter
    <3>2. f[v] \in Seq(TypeNodes)
      BY <3>1
    <3>3. Itself(t, k) \in Seq(TypeNodes)
      BY <3>1 DEF Itself
    <3>4. IsConcat(r, f[v], Itself(t, k))
      BY <3>2, FirstIsConcat
    <3>5. firsts[k] = r
      BY <1>1, <2>1 DEF Firsts
    <3> HIDE DEF r, v, firsts
    <3> QED
      BY <3>2, <3>3, <3>4, <3>5, ConcatProperties DEF IsConcat
  <2>2. CASE k \notin ChildNodes(Types[t], n[2])
    <3>1. firsts[k] = <<>>
      BY <1>1, <2>2 DEF Firsts
    <3> QED
      BY <3>1
  <2> QED
    BY <2>1, <2>2
<1> HIDE DEF firsts
<1>3. AreLists(firsts, N, TypeNodes)
  BY <1>2 DEF AreLists
<1>4. N \in 0 .. N
  BY <1>1
<1>5. Flat(firsts, N) \in Seq(TypeNodes)
  BY <1>1, <1>3, <1>4, FlatOneByOne
<1> QED
  BY <1>1, <1>3, <1>5, EmittedIs DEF firsts

LEMMA EmittedForUnfolds ==
    ASSUME Reading, CountedTypes, RefsExist, NoneCyclic
    PROVE  \A n \in TypeNodes : /\ EmittedFor[n] = Emitted(EmittedFor, n[1], n[2])
                                /\ EmittedFor[n] \in Seq(TypeNodes)
<1> DEFINE S == TypeNodes
           V == Seq(TypeNodes)
           F == [f \in [S -> V] |-> [n \in S |-> Emitted(f, n[1], n[2])]]
           K == Cardinality(TypeNodes)
<1>1. VisitRank \in [S -> 0 .. K] /\ K \in Nat /\ <<>> \in V
  BY RanksFall
<1>2. F \in [[S -> V] -> [S -> V]]
  <2> SUFFICES ASSUME NEW f \in [S -> V], NEW n \in S
               PROVE  Emitted(f, n[1], n[2]) \in V
    OBVIOUS
  <2> QED
    BY FirstIsList
<1>3. ASSUME NEW f \in [S -> V], NEW g \in [S -> V], NEW n \in S,
             \A k \in S : VisitRank[k] < VisitRank[n] => f[k] = g[k]
      PROVE  F[f][n] = F[g][n]
  <2>1. F[f][n] = Emitted(f, n[1], n[2]) /\ F[g][n] = Emitted(g, n[1], n[2])
    OBVIOUS
  <2>2. ASSUME NEW k \in ChildNodes(Types[n[1]], n[2])
        PROVE  EmittedFirst(f, n[1], k) = EmittedFirst(g, n[1], k)
    <3>1. VisitedFor(n[1], k) \in S /\ VisitRank[VisitedFor(n[1], k)] < VisitRank[n]
      BY VisitedAfter
    <3>2. f[VisitedFor(n[1], k)] = g[VisitedFor(n[1], k)]
      BY <1>3, <3>1
    <3>3. f[VisitedFor(n[1], k)] \in V
      BY <3>1
    <3> HIDE DEF S, F
    <3>4. /\ IsConcat(EmittedFirst(f, n[1], k), f[VisitedFor(n[1], k)], Itself(n[1], k))
          /\ IsConcat(EmittedFirst(g, n[1], k), f[VisitedFor(n[1], k)], Itself(n[1], k))
      BY <3>2, <3>3, FirstIsConcat
    <3> QED
      BY <3>4, Zenon DEF IsConcat
  <2>3. Firsts(f, n[1], n[2]) = Firsts(g, n[1], n[2])
    <3> HIDE DEF S, F, V
    <3> QED
      BY <2>2 DEF Firsts
  <2>4. n[1] \in DOMAIN Types
    BY TypeNodeShape
  <2>5. Emitted(f, n[1], n[2]) = Emitted(g, n[1], n[2])
    BY <2>3, <2>4, EmittedIs
  <2> QED
    BY <2>1, <2>5
<1>4. PICK f \in [S -> V] : f = F[f]
  <2> HIDE DEF S, F, V, K
  <2>1. IsDefinition(F, S, V, VisitRank, K)
    BY <1>1, <1>2, <1>3 DEF IsDefinition
  <2>2. IsDefined(F, S, V)
    BY <2>1, DefinitionDefines
  <2> QED
    BY <2>2 DEF IsDefined
<1>5. f = [n \in TypeNodes |-> Emitted(f, n[1], n[2])]
  BY <1>4
<1> DEFINE h == EmittedFor
<1>6. h = [n \in TypeNodes |-> Emitted(h, n[1], n[2])]
  BY <1>5, Zenon DEF EmittedFor
<1> HIDE DEF h
<1>7. \A n \in TypeNodes : h[n] = Emitted(h, n[1], n[2])
  BY <1>6, Zenon
<1> DEFINE Bad == {VisitRank[n] : n \in {m \in TypeNodes : h[m] \notin Seq(TypeNodes)}}
<1>8. Bad = {}
  <2> SUFFICES ASSUME Bad # {}
               PROVE  FALSE
    OBVIOUS
  <2>1. Bad \in SUBSET Nat
    BY <1>1
  <2>2. PICK x \in Bad : \A y \in Bad : x <= y
    <3> HIDE DEF Bad
    <3> QED
      BY <2>1, LeastNatural
  <2>3. PICK n \in TypeNodes : h[n] \notin Seq(TypeNodes) /\ x = VisitRank[n]
    OBVIOUS
  <2>4. ASSUME NEW o \in TypeNodes, VisitRank[o] < VisitRank[n]
        PROVE  h[o] \in Seq(TypeNodes)
    <3>1. VisitRank[o] \in Nat /\ VisitRank[n] \in Nat
      BY <1>1
    <3>2. VisitRank[o] \notin Bad
      <4> HIDE DEF Bad
      <4>1. ~(x <= VisitRank[o])
        BY <2>3, <2>4, <3>1
      <4> QED
        BY <2>2, <4>1
    <3> QED
      BY <3>2
  <2>5. Emitted(h, n[1], n[2]) \in Seq(TypeNodes)
    BY <2>4, FirstIsList
  <2> QED
    BY <1>7, <2>3, <2>5
<1>9. \A n \in TypeNodes : h[n] \in Seq(TypeNodes)
  BY <1>8
<1> QED
  BY <1>7, <1>9 DEF h

LEMMA GivenNodes ==
    ASSUME NEW kind \in Kinds, NEW s
    PROVE  Given(kind, s) = ToSet(s) /\ \A x : Uses(kind, x) = Needs(kind, x)
<1>1. kind # "text"
  BY DEF Kinds
<1>2. \A x : Uses(kind, x) = Needs(kind, x) /\ Gives(kind, x) = {x}
  BY <1>1 DEF Uses, Gives
<1>3. Given(kind, s) = ToSet(s)
  BY <1>2 DEF Given, ToSet
<1> QED
  BY <1>2, <1>3

\* What is defined before the tag of a node has what its definition needs, in
\* an order in which whatever one of them needs comes first.
InOrder(n, s) ==
    /\ IsList(s) /\ Founded("types", s, {})
    /\ Types[n[1]][n[2]].kind # "ref" => Needs("types", n) \subseteq ToSet(s)
    /\ \A x \in ToSet(s) : ByItself("types", x[1], x[2])

\* The same of one element of a composite.
LEMMA FirstInOrder ==
    ASSUME Reading, NamesRight, CountedTypes, RefsExist, NoneCyclic, NEW n \in TypeNodes,
           NEW k \in ChildNodes(Types[n[1]], n[2]),
           NEW v, v = VisitedFor(n[1], k), InOrder(v, EmittedFor[v]),
           NEW s, s = EmittedFirst(EmittedFor, n[1], k)
    PROVE  /\ IsList(s) /\ Founded("types", s, {})
           /\ Needs("types", v) \subseteq ToSet(s)
           /\ Itself(n[1], k) # <<>> => v \in ToSet(s)
           /\ \A x \in ToSet(s) : ByItself("types", x[1], x[2])
<1> DEFINE before == EmittedFor[v]
           last == Itself(n[1], k)
<1>1. v \in TypeNodes /\ Types[v[1]][v[2]].kind # "ref"
  BY VisitedAfter
<1>2. before \in Seq(TypeNodes)
  BY <1>1, EmittedForUnfolds
<1>3. IsConcat(s, before, last)
  BY <1>2, FirstIsConcat
<1>4. /\ IsList(before) /\ Founded("types", before, {})
      /\ Needs("types", v) \subseteq ToSet(before)
      /\ \A x \in ToSet(before) : ByItself("types", x[1], x[2])
  BY <1>1 DEF InOrder
<1> HIDE DEF before
<1>5. "types" \in Kinds
  BY DEF Kinds
<1>6. Uses("types", v) \subseteq Given("types", before)
  BY <1>4, <1>5, GivenNodes
<1>7. CASE Types[n[1]][k].kind = "ref" \/ IsMangled("types", n[1], k)
  <2>1. last = <<v>>
    BY <1>7 DEF Itself
  <2>2. IsList(last) /\ Founded("types", last, {} \cup Given("types", before))
        /\ Given("types", last) = Gives("types", v)
    BY <1>6, <2>1, FoundedFew
  <2>3. Given("types", last) = {v}
    BY <2>2 DEF Gives
  <2>4. ByItself("types", v[1], v[2])
    BY <1>7 DEF VisitedFor, ByItself
  <2> HIDE DEF last
  <2>5. /\ IsList(s) /\ Founded("types", s, {})
        /\ Given("types", s) = Given("types", before) \cup {v}
    BY <1>3, <1>4, <2>2, <2>3, FoundedTwo
  <2>6. ToSet(s) = ToSet(before) \cup {v}
    BY <1>5, <2>5, GivenNodes
  <2> QED
    BY <1>4, <2>4, <2>5, <2>6
<1>8. CASE ~(Types[n[1]][k].kind = "ref" \/ IsMangled("types", n[1], k))
  <2>1. last = <<>>
    BY <1>8 DEF Itself
  <2>2. IsList(last) /\ Founded("types", last, {} \cup Given("types", before))
        /\ Given("types", last) = {}
    BY <2>1, FoundedFew
  <2>3. Itself(n[1], k) = <<>>
    BY <2>1
  <2> HIDE DEF last
  <2>4. /\ IsList(s) /\ Founded("types", s, {})
        /\ Given("types", s) = Given("types", before) \cup {}
    BY <1>3, <1>4, <2>2, FoundedTwo
  <2>5. ToSet(s) = ToSet(before)
    BY <1>5, <2>4, GivenNodes
  <2> QED
    BY <1>4, <2>3, <2>4, <2>5
<1> QED
  BY <1>7, <1>8

\* Where the needs of a definition come up.
LEMMA NeedsOfChild ==
    ASSUME Reading, NamesRight, NEW kind \in Kinds, NEW n, Standing(kind, n),
           NEW tree, tree = Trees(kind)[n[1]], tree[n[2]].kind # "ref",
           NEW x \in Needs(kind, n)
    PROVE  \E c \in ChildNodes(tree, n[2]) :
               \/ tree[c].kind = "ref" /\ x = <<RefTarget(tree, c), 1>>
               \/ x = <<n[1], c>> /\ IsMangled(kind, n[1], c)
               \/ /\ KindsInside(tree[c].kind) # {}
                  /\ x \in Needs(kind, <<n[1], c>>)
<1> DEFINE t == n[1]
           i == n[2]
<1>1. t \in DOMAIN Trees(kind) /\ i \in DOMAIN tree
  BY DEF Standing
<1>2. DOMAIN tree = 1 .. Len(tree) /\ Len(tree) \in Nat
  BY <1>1, TreeShape
<1>3. ASSUME NEW k \in Inside(kind, t, i), tree[k].kind = "ref",
             x = <<RefTarget(tree, k), 1>>
      PROVE  \E c \in ChildNodes(tree, i) :
                 \/ tree[c].kind = "ref" /\ x = <<RefTarget(tree, c), 1>>
                 \/ KindsInside(tree[c].kind) # {} /\ x \in Needs(kind, <<t, c>>)
  <2>1. k # i
    BY <1>3
  <2>2. PICK c \in ChildNodes(tree, i) : k \in Inside(kind, t, c)
    BY <1>1, <2>1, InsideChild
  <2>3. c \in DOMAIN tree
    BY <2>2 DEF ChildNodes
  <2>4. CASE KindsInside(tree[c].kind) = {}
    <3>1. k = c
      BY <1>1, <2>2, <2>3, <2>4, NothingInside
    <3> QED
      BY <1>3, <2>2, <3>1
  <2>5. CASE KindsInside(tree[c].kind) # {}
    <3>1. x \in Needs(kind, <<t, c>>)
      BY <1>3, <2>2 DEF Needs
    <3> QED
      BY <2>2, <2>5, <3>1
  <2> QED
    BY <2>4, <2>5
<1>4. ASSUME NEW k \in DOMAIN tree, k # i, tree[k].up \in Inside(kind, t, i),
             IsMangled(kind, t, k), x = <<t, k>>
      PROVE  \E c \in ChildNodes(tree, i) :
                 \/ x = <<t, c>> /\ IsMangled(kind, t, c)
                 \/ KindsInside(tree[c].kind) # {} /\ x \in Needs(kind, <<t, c>>)
  <2> DEFINE up == tree[k].up
  <2>1. up \in DOMAIN tree
    BY <1>4, InsideNodes
  <2>2. k \in 2 .. Len(tree)
    <3>1. k # 1
      BY <1>1, <1>2, <2>1, TreeShape
    <3> QED
      BY <1>2, <3>1
  <2>3. /\ up \in 1 .. k - 1
        /\ tree[k].kind \in KindsInside(tree[up].kind)
    <3>1. tree[k].kind # "unknown"
      BY <1>4, MangledNode
    <3> QED
      BY <1>1, <2>2, <3>1, TreeShape
  <2>4. CASE up = i
    <3>1. k \in ChildNodes(tree, i)
      BY <2>3, <2>4 DEF ChildNodes
    <3> QED
      BY <1>4, <3>1
  <2>5. CASE up # i
    <3>1. PICK c \in ChildNodes(tree, i) : up \in Inside(kind, t, c)
      BY <1>1, <1>4, <2>5, InsideChild
    <3>2. c \in DOMAIN tree
      BY <3>1 DEF ChildNodes
    <3>3. KindsInside(tree[c].kind) # {}
      <4>1. CASE up = c
        BY <2>3, <4>1
      <4>2. CASE up # c
        BY <1>1, <3>1, <3>2, <4>2, NothingInside
      <4> QED
        BY <4>1, <4>2
    <3>4. k # c
      <4>1. up = c \/ up > c
        BY <1>1, <2>1, <3>1, <3>2, InsideIs
      <4>2. c \in Int /\ up \in Int /\ k \in Int
        BY <1>2, <2>1, <3>2
      <4> QED
        BY <2>3, <4>1, <4>2
    <3>5. x \in Needs(kind, <<t, c>>)
      BY <1>4, <3>1, <3>4 DEF Needs
    <3> QED
      BY <3>1, <3>3, <3>5
  <2> QED
    BY <2>4, <2>5
<1>5. \/ \E k \in Inside(kind, t, i) : tree[k].kind = "ref" /\ x = <<RefTarget(tree, k), 1>>
      \/ \E k \in DOMAIN tree : /\ k # i /\ tree[k].up \in Inside(kind, t, i)
                                /\ IsMangled(kind, t, k) /\ x = <<t, k>>
  BY DEF Needs
<1> QED
  BY <1>3, <1>4, <1>5

\* If it is so for the nodes visited for them, it is so for elements.
LEMMA NodeInOrder ==
    ASSUME Reading, NamesRight, CountedTypes, RefsExist, NoneCyclic, NEW n \in TypeNodes,
           \A k \in ChildNodes(Types[n[1]], n[2]) :
               InOrder(VisitedFor(n[1], k), EmittedFor[VisitedFor(n[1], k)])
    PROVE  InOrder(n, EmittedFor[n])
<1> DEFINE t == n[1]
           i == n[2]
           tree == Types[t]
           N == Len(tree)
           firsts == Firsts(EmittedFor, t, i)
           s == EmittedFor[n]
<1>1. /\ t \in DOMAIN Types /\ DOMAIN tree = 1 .. N /\ N \in Nat /\ i \in DOMAIN tree
      /\ n = <<t, i>>
  BY TypeNodeShape, TypesAreTrees
<1>2. s = Flat(firsts, N)
  BY <1>1, EmittedForUnfolds, EmittedIs
<1>3. \A k \in 1 .. N :
          firsts[k] = IF k \in ChildNodes(tree, i) THEN EmittedFirst(EmittedFor, t, k)
                      ELSE <<>>
  BY <1>1 DEF Firsts
<1>4. "types" \in Kinds /\ Trees("types") = Types
  BY DEF Kinds, Trees
<1> HIDE DEF firsts, s, N
<1>5. ASSUME NEW k \in ChildNodes(tree, i)
      PROVE  /\ k \in 1 .. N
             /\ IsList(firsts[k]) /\ Founded("types", firsts[k], {})
             /\ Needs("types", VisitedFor(t, k)) \subseteq ToSet(firsts[k])
             /\ Itself(t, k) # <<>> => VisitedFor(t, k) \in ToSet(firsts[k])
             /\ \A x \in ToSet(firsts[k]) : ByItself("types", x[1], x[2])
  <2>1. k \in 1 .. N
    BY <1>1 DEF ChildNodes
  <2>2. firsts[k] = EmittedFirst(EmittedFor, t, k)
    BY <1>3, <2>1
  <2> QED
    BY <2>1, <2>2, FirstInOrder
<1>6. ASSUME NEW k \in 1 .. N
      PROVE  /\ IsList(firsts[k])
             /\ Founded("types", firsts[k], {} \cup GivenUpTo("types", firsts, k - 1))
             /\ \A x \in ToSet(firsts[k]) : ByItself("types", x[1], x[2])
  <2>1. CASE k \in ChildNodes(tree, i)
    BY <1>5, <2>1, FoundedMore
  <2>2. CASE k \notin ChildNodes(tree, i)
    <3>1. firsts[k] = <<>>
      BY <1>3, <2>2
    <3>2. ToSet(<<>>) = {}
      BY DEF ToSet
    <3> QED
      BY <3>1, <3>2, FoundedFew
  <2> QED
    BY <2>1, <2>2
<1>7. /\ IsList(s) /\ Founded("types", s, {})
      /\ Given("types", s) = GivenUpTo("types", firsts, N)
  BY <1>1, <1>2, <1>6, FoundedMany
<1>8. ToSet(s) = UNION {ToSet(firsts[k]) : k \in 1 .. N}
  BY <1>4, <1>7, GivenNodes DEF GivenUpTo
<1>9. \A x \in ToSet(s) : ByItself("types", x[1], x[2])
  BY <1>6, <1>8
<1>10. ASSUME tree[i].kind # "ref", NEW x \in Needs("types", n)
       PROVE  x \in ToSet(s)
  <2>1. Standing("types", n)
    BY <1>1, <1>4 DEF Standing
  <2>2. PICK c \in ChildNodes(tree, i) :
            \/ tree[c].kind = "ref" /\ x = <<RefTarget(tree, c), 1>>
            \/ x = <<t, c>> /\ IsMangled("types", t, c)
            \/ KindsInside(tree[c].kind) # {} /\ x \in Needs("types", <<t, c>>)
    BY <1>4, <1>10, <2>1, NeedsOfChild
  <2>3. x \in ToSet(firsts[c])
    <3>1. CASE tree[c].kind = "ref" /\ x = <<RefTarget(tree, c), 1>>
      <4>1. Itself(t, c) = <<x>> /\ VisitedFor(t, c) = x
        BY <3>1 DEF Itself, VisitedFor
      <4>2. <<x>> # <<>>
        OBVIOUS
      <4> QED
        BY <1>5, <4>1, <4>2
    <3>2. CASE x = <<t, c>> /\ IsMangled("types", t, c)
      <4>1. tree[c].kind # "ref"
        BY <1>4, <3>2, MangledNode
      <4>2. Itself(t, c) = <<x>> /\ VisitedFor(t, c) = x
        BY <3>2, <4>1 DEF Itself, VisitedFor
      <4>3. <<x>> # <<>>
        OBVIOUS
      <4> QED
        BY <1>5, <4>2, <4>3
    <3>3. CASE KindsInside(tree[c].kind) # {} /\ x \in Needs("types", <<t, c>>)
      <4>1. tree[c].kind # "ref"
        BY <3>3 DEF KindsInside
      <4>2. VisitedFor(t, c) = <<t, c>>
        BY <4>1 DEF VisitedFor
      <4> QED
        BY <1>5, <3>3, <4>2
    <3> QED
      BY <2>2, <3>1, <3>2, <3>3
  <2> QED
    BY <1>5, <1>8, <2>3
<1> QED
  BY <1>7, <1>9, <1>10 DEF InOrder, s

LEMMA EmittedInOrder ==
    ASSUME Reading, NamesRight, CountedTypes, RefsExist, NoneCyclic
    PROVE  \A n \in TypeNodes : InOrder(n, EmittedFor[n])
<1> DEFINE Bad == {VisitRank[n] : n \in {m \in TypeNodes : ~InOrder(m, EmittedFor[m])}}
<1> SUFFICES ASSUME Bad # {}
             PROVE  FALSE
  OBVIOUS
<1>1. VisitRank \in [TypeNodes -> 0 .. Cardinality(TypeNodes)] /\ Cardinality(TypeNodes) \in Nat
  BY RanksFall
<1>2. Bad \in SUBSET Nat
  BY <1>1
<1>3. PICK x \in Bad : \A y \in Bad : x <= y
  <2> HIDE DEF Bad
  <2> QED
    BY <1>2, LeastNatural
<1>4. PICK n \in TypeNodes : ~InOrder(n, EmittedFor[n]) /\ x = VisitRank[n]
  OBVIOUS
<1>5. ASSUME NEW k \in ChildNodes(Types[n[1]], n[2])
      PROVE  InOrder(VisitedFor(n[1], k), EmittedFor[VisitedFor(n[1], k)])
  <2> DEFINE v == VisitedFor(n[1], k)
  <2>1. v \in TypeNodes /\ VisitRank[v] < VisitRank[n]
    BY VisitedAfter
  <2> HIDE DEF v
  <2>2. VisitRank[v] \in Nat /\ VisitRank[n] \in Nat
    BY <1>1, <2>1
  <2>3. VisitRank[v] \notin Bad
    <3> HIDE DEF Bad
    <3>1. ~(x <= VisitRank[v])
      BY <1>4, <2>1, <2>2
    <3> QED
      BY <1>3, <3>1
  <2>4. InOrder(v, EmittedFor[v])
    BY <2>1, <2>3
  <2> QED
    BY <2>4 DEF v
<1> HIDE DEF Bad
<1> QED
  BY <1>4, <1>5, NodeInOrder

-----------------------------------------------------------------------------
(* Nothing is defined twice.                                               *)

LEMMA OnceFounded ==
    ASSUME NEW kind \in Kinds, NEW s, IsList(s), Founded(kind, s, {})
    PROVE  IsList(Once(s)) /\ Founded(kind, Once(s), {}) /\ ToSet(Once(s)) = ToSet(s)
<1> DEFINE N == Len(s)
           parts == [i \in DOMAIN s |->
                        IF \E j \in 1 .. i - 1 : s[j] = s[i] THEN <<>> ELSE <<s[i]>>]
<1>1. DOMAIN s = 1 .. N /\ N \in Nat
  BY ListDomain
<1>2. Once(s) = Flat(parts, N)
  BY <1>1 DEF Once, Flat
<1>3. \A i \in 1 .. N : parts[i] = IF \E j \in 1 .. i - 1 : s[j] = s[i] THEN <<>> ELSE <<s[i]>>
  BY <1>1
<1> HIDE DEF parts, N
<1>4. \A i \in 1 .. N : Given(kind, parts[i]) \subseteq {s[i]}
  <2> SUFFICES ASSUME NEW i \in 1 .. N
               PROVE  Given(kind, parts[i]) \subseteq {s[i]}
    OBVIOUS
  <2>1. Gives(kind, s[i]) = {s[i]}
    BY DEF Gives, Kinds
  <2> QED
    BY <1>3, <2>1, FoundedFew
<1>5. \A i \in 1 .. N : s[i] \in GivenUpTo(kind, parts, i)
  <2> SUFFICES ASSUME NEW i \in 1 .. N
               PROVE  s[i] \in GivenUpTo(kind, parts, i)
    OBVIOUS
  <2> DEFINE same == {j \in 1 .. i : s[j] = s[i]}
  <2>1. same \in SUBSET Nat /\ same # {}
    <3>1. i \in same /\ 1 .. i \subseteq Nat
      BY <1>1
    <3> QED
      BY <3>1
  <2>2. PICK j \in same : \A k \in same : j <= k
    <3> HIDE DEF same
    <3> QED
      BY <2>1, LeastNatural
  <2>3. j \in 1 .. i /\ j \in 1 .. N /\ s[j] = s[i]
    BY <1>1
  <2>4. ~\E k \in 1 .. j - 1 : s[k] = s[j]
    <3> SUFFICES ASSUME NEW k \in 1 .. j - 1, s[k] = s[j]
                 PROVE  FALSE
      OBVIOUS
    <3>1. k \in same /\ ~(j <= k)
      BY <2>3
    <3> HIDE DEF same
    <3> QED
      BY <2>2, <3>1
  <2>5. parts[j] = <<s[j]>>
    BY <1>3, <2>3, <2>4
  <2>6. Given(kind, parts[j]) = {s[j]}
    BY <2>5, FoundedFew DEF Gives, Kinds
  <2> QED
    BY <2>3, <2>6 DEF GivenUpTo
<1>6. ASSUME NEW i \in 1 .. N
      PROVE  /\ IsList(parts[i])
             /\ Founded(kind, parts[i], {} \cup GivenUpTo(kind, parts, i - 1))
  <2>1. CASE \E j \in 1 .. i - 1 : s[j] = s[i]
    <3>1. parts[i] = <<>>
      BY <1>3, <2>1
    <3> QED
      BY <3>1, FoundedFew
  <2>2. CASE ~\E j \in 1 .. i - 1 : s[j] = s[i]
    <3>1. parts[i] = <<s[i]>>
      BY <1>3, <2>2
    <3>2. ASSUME NEW x \in Uses(kind, s[i])
          PROVE  x \in GivenUpTo(kind, parts, i - 1)
      <4>1. PICK q \in 1 .. i - 1 : x = s[q]
        BY <1>1 DEF Founded, Gives, Kinds
      <4>2. q \in 1 .. N /\ 1 .. q \subseteq 1 .. i - 1
        BY <1>1
      <4>3. x \in GivenUpTo(kind, parts, q)
        BY <1>5, <4>1, <4>2
      <4> QED
        BY <4>2, <4>3 DEF GivenUpTo
    <3> QED
      BY <3>1, <3>2, FoundedFew
  <2> QED
    BY <2>1, <2>2
<1>7. /\ IsList(Flat(parts, N)) /\ Founded(kind, Flat(parts, N), {})
      /\ Given(kind, Flat(parts, N)) = GivenUpTo(kind, parts, N)
  BY <1>1, <1>6, FoundedMany
<1>8. GivenUpTo(kind, parts, N) = ToSet(s)
  <2>1. GivenUpTo(kind, parts, N) \subseteq ToSet(s)
    BY <1>1, <1>4 DEF GivenUpTo, ToSet
  <2>2. ASSUME NEW i \in 1 .. N
        PROVE  s[i] \in GivenUpTo(kind, parts, N)
    <3>1. s[i] \in GivenUpTo(kind, parts, i) /\ 1 .. i \subseteq 1 .. N
      BY <1>1, <1>5
    <3> QED
      BY <3>1 DEF GivenUpTo
  <2> QED
    BY <1>1, <2>1, <2>2 DEF ToSet
<1> QED
  BY <1>2, <1>7, <1>8, GivenNodes

\* Definitions of their own, in an order in which what they need comes first.
OrderedNodes(kind, s) ==
    /\ IsList(s) /\ Founded(kind, s, {})
    /\ \A x \in ToSet(s) : Standing(kind, x) /\ ByItself(kind, x[1], x[2])

LEMMA OrderedConcat ==
    ASSUME NEW kind \in Kinds, NEW r, NEW a, NEW b, IsConcat(r, a, b),
           OrderedNodes(kind, a), OrderedNodes(kind, b)
    PROVE  OrderedNodes(kind, r) /\ ToSet(r) = ToSet(a) \cup ToSet(b)
<1>1. Founded(kind, b, {} \cup Given(kind, a))
  BY FoundedMore DEF OrderedNodes
<1>2. /\ IsList(r) /\ Founded(kind, r, {})
      /\ Given(kind, r) = Given(kind, a) \cup Given(kind, b)
  BY <1>1, FoundedTwo DEF OrderedNodes
<1>3. ToSet(r) = ToSet(a) \cup ToSet(b)
  BY <1>2, GivenNodes
<1> QED
  BY <1>2, <1>3 DEF OrderedNodes

\* One more definition.
LEMMA OrderedLast ==
    ASSUME NEW kind \in Kinds, NEW r, NEW a, NEW x, IsConcat(r, a, <<x>>),
           OrderedNodes(kind, a), Needs(kind, x) \subseteq ToSet(a),
           Standing(kind, x), ByItself(kind, x[1], x[2])
    PROVE  OrderedNodes(kind, r) /\ ToSet(r) = ToSet(a) \cup {x}
<1>1. Uses(kind, x) \subseteq {} \cup Given(kind, a) /\ Gives(kind, x) = {x}
  BY GivenNodes DEF Gives, Kinds
<1>2. /\ IsList(<<x>>) /\ Founded(kind, <<x>>, {} \cup Given(kind, a))
      /\ Given(kind, <<x>>) = {x}
  BY <1>1, FoundedFew
<1>3. /\ IsList(r) /\ Founded(kind, r, {})
      /\ Given(kind, r) = Given(kind, a) \cup {x}
  BY <1>2, FoundedTwo DEF OrderedNodes
<1>4. ToSet(r) = ToSet(a) \cup {x}
  BY <1>3, GivenNodes
<1> QED
  BY <1>3, <1>4 DEF OrderedNodes

LEMMA WithEncodingOrdered ==
    ASSUME Reading, NamesRight, CountedTypes, RefsExist, NoneCyclic,
           NEW s, OrderedNodes("types", s), NEW t \in DOMAIN Types
    PROVE  OrderedNodes("types", WithEncoding(s, t))
<1> DEFINE n == <<t, 1>>
           e == EmittedFor[n]
           more == Append(e, n)
           all == s \o more
<1>1. "types" \in Kinds /\ Trees("types") = Types
  BY DEF Kinds, Trees
<1>2. n \in TypeNodes /\ Types[t][1].kind # "ref" /\ 1 \in DOMAIN Types[t]
  BY TypesAreTrees, NodesOfTypes DEF EncodingKinds
<1>3. InOrder(n, e) /\ e \in Seq(TypeNodes)
  BY <1>2, EmittedInOrder, EmittedForUnfolds
<1>4. Needs("types", n) \subseteq ToSet(e)
  BY <1>2, <1>3 DEF InOrder
<1>5. OrderedNodes("types", e)
  <2>1. \A x \in ToSet(e) : x \in TypeNodes
    BY <1>3 DEF ToSet
  <2>2. \A x \in ToSet(e) : Standing("types", x)
    BY <1>1, <2>1, TypeNodeIs DEF Standing
  <2> QED
    BY <1>3, <2>2 DEF InOrder, OrderedNodes
<1>6. Standing("types", n) /\ ByItself("types", n[1], n[2])
  BY <1>1, <1>2 DEF Standing, ByItself
<1>7. IsConcat(more, e, <<n>>)
  <2>1. more = e \o <<n>>
    <3> HIDE DEF e, n
    <3> QED
      BY <1>3
  <2> QED
    BY <2>1, Zenon DEF IsConcat
<1>8. WithEncoding(s, t) = Once(all)
  BY Zenon DEF WithEncoding
<1>9. IsConcat(all, s, more)
  BY Zenon DEF IsConcat
<1> HIDE DEF all, more, e, n
<1>10. OrderedNodes("types", more)
  BY <1>1, <1>4, <1>5, <1>6, <1>7, OrderedLast
<1>11. OrderedNodes("types", all)
  BY <1>1, <1>9, <1>10, OrderedConcat
<1>12. IsList(Once(all)) /\ Founded("types", Once(all), {}) /\ ToSet(Once(all)) = ToSet(all)
  BY <1>1, <1>11, OnceFounded DEF OrderedNodes
<1> QED
  BY <1>8, <1>11, <1>12 DEF OrderedNodes

-----------------------------------------------------------------------------
(* The mangled levels of messages.                                         *)

LevelsIn(m) ==
    LET After[i \in DOMAIN Messages[m]] ==
            FlattenSeq([k \in DOMAIN Messages[m] |->
                IF k \in ChildNodes(Messages[m], i) /\ Messages[m][k].kind = "group"
                THEN After[k] ELSE <<>>]) \o
            IF IsMangled("messages", m, i) THEN <<<<m, i>>>> ELSE <<>>
    IN  After

GroupsOf(m, f, i) ==
    [k \in DOMAIN Messages[m] |->
        IF k \in ChildNodes(Messages[m], i) /\ Messages[m][k].kind = "group"
        THEN f[k] ELSE <<>>]

ItselfOf(m, i) == IF IsMangled("messages", m, i) THEN <<<<m, i>>>> ELSE <<>>

LevelBody(m, f, i) == FlattenSeq(GroupsOf(m, f, i)) \o ItselfOf(m, i)

LEMMA MessagesAreTrees ==
    ASSUME Reading, NEW m \in DOMAIN Messages
    PROVE  /\ DOMAIN Messages[m] = 1 .. Len(Messages[m]) /\ Len(Messages[m]) \in Nat \ {0}
           /\ \A i \in 2 .. Len(Messages[m]) : Messages[m][i].up \in 1 .. i - 1
           /\ Messages[m][1].up = 0
           /\ \A i \in DOMAIN Messages[m] : Messages[m][i].kind \in LevelNodes
           /\ "messages" \in Kinds /\ Messages = Trees("messages")
<1>1. "messages" \in Kinds /\ Messages = Trees("messages")
  BY DEF Kinds, Trees
<1>2. Messages[m] \in LevelTrees
  BY DEF Reading
<1>3. \A i \in DOMAIN Messages[m] : Messages[m][i].kind \in LevelNodes
  BY <1>2 DEF LevelTrees, TreesOf
<1> QED
  BY <1>1, <1>3, TreeShape

LEMMA GroupsBehind ==
    ASSUME Reading, NEW m \in DOMAIN Messages, NEW i \in DOMAIN Messages[m],
           NEW k \in ChildNodes(Messages[m], i)
    PROVE  k \in DOMAIN Messages[m] /\ i < k
<1> DEFINE tree == Messages[m]
<1>1. /\ tree[1].up = 0 /\ DOMAIN tree = 1 .. Len(tree) /\ Len(tree) \in Nat
      /\ \A j \in 2 .. Len(tree) : tree[j].up \in 1 .. j - 1
  BY MessagesAreTrees
<1>2. k \in DOMAIN tree /\ tree[k].up = i
  BY DEF ChildNodes
<1> HIDE DEF tree
<1>3. k \in 2 .. Len(tree)
  BY <1>1, <1>2 DEF tree
<1>4. tree[k].up \in 1 .. k - 1
  BY <1>1, <1>3
<1> QED
  BY <1>1, <1>2, <1>3, <1>4 DEF tree

LEMMA LevelsUnfold ==
    ASSUME Reading, NEW m \in DOMAIN Messages
    PROVE  \A i \in DOMAIN Messages[m] : LevelsIn(m)[i] = LevelBody(m, LevelsIn(m), i)
<1> DEFINE tree == Messages[m]
           S == DOMAIN tree
           X == {m} \X S
           V == Seq(X)
           F == [f \in [S -> V] |-> [i \in S |-> LevelBody(m, f, i)]]
           N == Len(tree)
           rank == [i \in S |-> N - i]
<1>1. S = 1 .. N /\ N \in Nat
  BY MessagesAreTrees
<1>2. rank \in [S -> 0 .. N] /\ <<>> \in V
  BY <1>1
<1>3. F \in [[S -> V] -> [S -> V]]
  <2> SUFFICES ASSUME NEW f \in [S -> V], NEW i \in S
               PROVE  LevelBody(m, f, i) \in V
    OBVIOUS
  <2> DEFINE groups == GroupsOf(m, f, i)
             last == ItselfOf(m, i)
  <2>1. AreLists(groups, N, X)
    BY <1>1 DEF GroupsOf, AreLists
  <2>2. last \in V
    <3>1. <<m, i>> \in X
      OBVIOUS
    <3> HIDE DEF X
    <3> QED
      BY <3>1 DEF ItselfOf
  <2>3. FlattenSeq(groups) = Flat(groups, N)
    BY <1>1 DEF Flat, GroupsOf
  <2>4. N \in 0 .. N
    BY <1>1
  <2>5. LevelBody(m, f, i) = FlattenSeq(groups) \o last
    BY Zenon DEF LevelBody
  <2> HIDE DEF groups, last, S, N, F, rank, X
  <2>6. Flat(groups, N) \in V
    BY <1>1, <2>1, <2>4, FlatOneByOne
  <2> QED
    BY <2>2, <2>3, <2>5, <2>6, ConcatProperties
<1>4. ASSUME NEW f \in [S -> V], NEW g \in [S -> V], NEW i \in S,
             \A k \in S : rank[k] < rank[i] => f[k] = g[k]
      PROVE  F[f][i] = F[g][i]
  <2>1. F[f][i] = LevelBody(m, f, i) /\ F[g][i] = LevelBody(m, g, i)
    OBVIOUS
  <2>2. ASSUME NEW k \in ChildNodes(tree, i)
        PROVE  f[k] = g[k]
    <3>1. k \in S /\ i < k
      BY GroupsBehind
    <3>2. rank[k] < rank[i]
      BY <1>1, <3>1
    <3> QED
      BY <1>4, <3>1, <3>2
  <2>3. GroupsOf(m, f, i) = GroupsOf(m, g, i)
    <3> HIDE DEF S, F, V, rank
    <3> QED
      BY <2>2 DEF GroupsOf
  <2>4. LevelBody(m, f, i) = LevelBody(m, g, i)
    BY <2>3, Zenon DEF LevelBody
  <2> QED
    BY <2>1, <2>4
<1>5. PICK f \in [S -> V] : f = F[f]
  <2> HIDE DEF S, F, V, rank, N
  <2>1. IsDefinition(F, S, V, rank, N)
    BY <1>1, <1>2, <1>3, <1>4 DEF IsDefinition
  <2>2. IsDefined(F, S, V)
    BY <2>1, DefinitionDefines
  <2> QED
    BY <2>2 DEF IsDefined
<1>6. f = [i \in DOMAIN Messages[m] |-> LevelBody(m, f, i)]
  BY <1>5
<1> DEFINE h == LevelsIn(m)
<1>7. h = [i \in DOMAIN Messages[m] |-> LevelBody(m, h, i)]
  BY <1>6, Zenon DEF LevelsIn, LevelBody, GroupsOf, ItselfOf
<1> HIDE DEF h
<1> QED
  BY <1>7, Zenon DEF h

\* The definitions of what is mangled in a level and of the level itself.
LevelInOrder(m, i, s) ==
    /\ OrderedNodes("messages", s)
    /\ Needs("messages", <<m, i>>) \subseteq ToSet(s)
    /\ IsMangled("messages", m, i) => <<m, i>> \in ToSet(s)

LEMMA LevelAfterGroups ==
    ASSUME Reading, NamesRight, NEW m \in DOMAIN Messages, NEW i \in DOMAIN Messages[m],
           \A k \in ChildNodes(Messages[m], i) :
               Messages[m][k].kind = "group" => LevelInOrder(m, k, LevelsIn(m)[k])
    PROVE  LevelInOrder(m, i, LevelsIn(m)[i])
<1> DEFINE tree == Messages[m]
           N == Len(tree)
           f == LevelsIn(m)
           groups == GroupsOf(m, f, i)
           inner == Flat(groups, N)
           n == <<m, i>>
<1>1. /\ DOMAIN tree = 1 .. N /\ N \in Nat
      /\ "messages" \in Kinds /\ Trees("messages") = Messages
      /\ \A k \in DOMAIN tree : tree[k].kind \in LevelNodes
  BY MessagesAreTrees
<1>2. \A k \in 1 .. N :
          groups[k] = IF k \in ChildNodes(tree, i) /\ tree[k].kind = "group" THEN f[k]
                      ELSE <<>>
  BY <1>1 DEF GroupsOf
<1>3. IsConcat(f[i], inner, ItselfOf(m, i))
  <2>1. f[i] = LevelBody(m, f, i)
    BY LevelsUnfold
  <2>2. FlattenSeq(groups) = inner
    BY <1>1 DEF Flat, GroupsOf
  <2> QED
    BY <2>1, <2>2, Zenon DEF LevelBody, IsConcat
<1> HIDE DEF f, N, groups
<1>4. ASSUME NEW k \in 1 .. N
      PROVE  OrderedNodes("messages", groups[k])
  <2>1. CASE k \in ChildNodes(tree, i) /\ tree[k].kind = "group"
    BY <1>2, <2>1 DEF LevelInOrder, f
  <2>2. CASE ~(k \in ChildNodes(tree, i) /\ tree[k].kind = "group")
    <3>1. groups[k] = <<>>
      BY <1>2, <2>2
    <3>2. ToSet(<<>>) = {}
      BY DEF ToSet
    <3> QED
      BY <3>1, <3>2, FoundedFew DEF OrderedNodes
  <2> QED
    BY <2>1, <2>2
<1>5. /\ IsList(inner) /\ Founded("messages", inner, {})
      /\ Given("messages", inner) = GivenUpTo("messages", groups, N)
  <2>1. \A k \in 1 .. N :
            /\ IsList(groups[k])
            /\ Founded("messages", groups[k], {} \cup GivenUpTo("messages", groups, k - 1))
    BY <1>4, FoundedMore DEF OrderedNodes
  <2> QED
    BY <1>1, <2>1, FoundedMany
<1> HIDE DEF inner
<1>6. ToSet(inner) = UNION {ToSet(groups[k]) : k \in 1 .. N}
  BY <1>1, <1>5, GivenNodes DEF GivenUpTo
<1>7. OrderedNodes("messages", inner)
  BY <1>4, <1>5, <1>6 DEF OrderedNodes
<1>8. Standing("messages", n)
  BY <1>1 DEF Standing
<1>9. ASSUME NEW x \in Needs("messages", n)
      PROVE  x \in ToSet(inner)
  <2>1. tree[i].kind # "ref"
    BY <1>1 DEF LevelNodes, MemberKinds
  <2>2. PICK c \in ChildNodes(tree, i) :
            \/ tree[c].kind = "ref" /\ x = <<RefTarget(tree, c), 1>>
            \/ x = <<m, c>> /\ IsMangled("messages", m, c)
            \/ KindsInside(tree[c].kind) # {} /\ x \in Needs("messages", <<m, c>>)
    <3>1. /\ n[1] = m /\ n[2] = i /\ tree = Trees("messages")[n[1]]
          /\ tree[n[2]].kind # "ref"
      BY <1>1, <2>1
    <3> HIDE DEF n, tree
    <3>2. \E c \in ChildNodes(tree, n[2]) :
              \/ tree[c].kind = "ref" /\ x = <<RefTarget(tree, c), 1>>
              \/ x = <<n[1], c>> /\ IsMangled("messages", n[1], c)
              \/ KindsInside(tree[c].kind) # {} /\ x \in Needs("messages", <<n[1], c>>)
      BY <1>1, <1>8, <3>1, NeedsOfChild
    <3> QED
      BY <3>1, <3>2
  <2>3. /\ c \in DOMAIN tree /\ tree[c].kind \in KindsInside(tree[i].kind)
        /\ tree[c].kind \in LevelNodes /\ tree[i].kind \in LevelNodes
    BY <1>1 DEF ChildNodes
  <2>4. tree[c].kind \in MemberKinds
    BY <2>3 DEF LevelNodes, KindsInside, MemberKinds
  <2>5. tree[c].kind # "ref"
    BY <2>4 DEF MemberKinds
  <2>6. tree[c].kind = "group"
    <3>1. CASE IsMangled("messages", m, c)
      <4>1. tree[c].kind \in {"message", "group"}
        BY <1>1, <3>1, MangledNode DEF ClassKinds
      <4> QED
        BY <2>4, <4>1 DEF MemberKinds
    <3>2. CASE KindsInside(tree[c].kind) # {}
      BY <2>4, <3>2 DEF MemberKinds, KindsInside
    <3> QED
      BY <2>2, <2>5, <3>1, <3>2
  <2>7. LevelInOrder(m, c, f[c]) /\ groups[c] = f[c] /\ c \in 1 .. N
    BY <1>1, <1>2, <2>3, <2>6 DEF f
  <2>8. x \in ToSet(groups[c])
    BY <2>2, <2>5, <2>7 DEF LevelInOrder
  <2> QED
    BY <1>6, <2>7, <2>8
<1>10. CASE IsMangled("messages", m, i)
  <2>1. ItselfOf(m, i) = <<n>> /\ ByItself("messages", n[1], n[2])
    BY <1>10 DEF ItselfOf, ByItself
  <2> HIDE DEF n
  <2>2. IsConcat(f[i], inner, <<n>>)
    BY <1>3, <2>1
  <2>3. OrderedNodes("messages", f[i]) /\ ToSet(f[i]) = ToSet(inner) \cup {n}
    BY <1>1, <1>7, <1>8, <1>9, <2>1, <2>2, OrderedLast
  <2> QED
    BY <1>9, <2>3 DEF LevelInOrder, n, f
<1>11. CASE ~IsMangled("messages", m, i)
  <2>1. ItselfOf(m, i) = <<>>
    BY <1>11 DEF ItselfOf
  <2>2. IsConcat(f[i], inner, <<>>)
    BY <1>3, <2>1
  <2>3. OrderedNodes("messages", <<>>)
    <3>1. ToSet(<<>>) = {}
      BY DEF ToSet
    <3> QED
      BY <3>1, FoundedFew DEF OrderedNodes
  <2>4. OrderedNodes("messages", f[i]) /\ ToSet(inner) \subseteq ToSet(f[i])
    BY <1>1, <1>7, <2>2, <2>3, OrderedConcat
  <2> QED
    BY <1>9, <1>11, <2>4 DEF LevelInOrder, f
<1> QED
  BY <1>10, <1>11

LEMMA LevelsInOrder ==
    ASSUME Reading, NamesRight, NEW m \in DOMAIN Messages
    PROVE  LevelInOrder(m, 1, MangledLevels(m))
<1> DEFINE tree == Messages[m]
           N == Len(tree)
           Bad == {N - i : i \in {j \in DOMAIN tree : ~LevelInOrder(m, j, LevelsIn(m)[j])}}
<1>1. DOMAIN tree = 1 .. N /\ N \in Nat \ {0}
  BY MessagesAreTrees
<1>2. Bad = {}
  <2> SUFFICES ASSUME Bad # {}
               PROVE  FALSE
    OBVIOUS
  <2>1. Bad \in SUBSET Nat
    BY <1>1
  <2>2. PICK x \in Bad : \A y \in Bad : x <= y
    <3> HIDE DEF Bad
    <3> QED
      BY <2>1, LeastNatural
  <2>3. PICK i \in DOMAIN tree : x = N - i /\ ~LevelInOrder(m, i, LevelsIn(m)[i])
    OBVIOUS
  <2>4. ASSUME NEW k \in ChildNodes(tree, i), ~LevelInOrder(m, k, LevelsIn(m)[k])
        PROVE  FALSE
    <3>1. k \in DOMAIN tree /\ i < k
      BY GroupsBehind
    <3>2. N - k \in Bad
      BY <2>4, <3>1
    <3>3. ~(x <= N - k)
      BY <1>1, <2>3, <3>1
    <3> HIDE DEF Bad
    <3> QED
      BY <2>2, <3>2, <3>3
  <2> HIDE DEF Bad
  <2> QED
    BY <2>3, <2>4, LevelAfterGroups
<1>3. LevelInOrder(m, 1, LevelsIn(m)[1])
  <2>1. 1 \in DOMAIN tree
    BY <1>1
  <2> QED
    BY <1>2, <2>1
<1>4. MangledLevels(m) = LevelsIn(m)[1]
  BY Zenon DEF MangledLevels, LevelsIn
<1> QED
  BY <1>3, <1>4

-----------------------------------------------------------------------------
(* The tags.                                                               *)

BeforeTags == Unvisited \cup {"type names", "message names"}

\* Messages up to number n have the definitions in s that their tags need.
MessagesDefined(s, n) ==
    \A m \in DOMAIN Messages : m <= n =>
        /\ Needs("messages", <<m, 1>>) \subseteq ToSet(s)
        /\ IsMangled("messages", m, 1) => <<m, 1>> \in ToSet(s)

\* What the tags generator maintains.  (s is the text itself: what is said of
\* the definitions in it is about the schema and the names.)
TagsRight ==
    /\ CountedTypes
    /\ stage \in BeforeTags =>
           detailTypes = <<>> /\ detailMessages = <<>> /\ publicMessages = <<>>
    /\ stage \in {"message tags", "constants", "done"} => Untagged = {}
    /\ stage = "constants" => Len(publicMessages) = Len(Messages)
    /\ publicMessages \in Seq(DOMAIN Messages)
    /\ \A i \in DOMAIN publicMessages : publicMessages[i] = i
    /\ \E s : s = detailTypes /\ OrderedNodes("types", s)
    /\ \E s : /\ s = detailMessages /\ OrderedNodes("messages", s)
              /\ MessagesDefined(s, Len(publicMessages))

\* What is inside of a definition, in trees with names given to nodes.
InsideOf(trees, given, kind, t, i) ==
    LET tree == trees[t]
        f[k \in DOMAIN tree] ==
            \/ k = i
            \/ k > i /\ ~(<<kind, t, k>> \in DOMAIN given) /\ tree[k].up >= i /\ f[tree[k].up]
    IN  {k \in DOMAIN tree : f[k] /\ (k = i \/ tree[k].kind # "unknown")}

LEMMA KeepsDefinitions ==
    ASSUME UNCHANGED <<schema, mangled>>
    PROVE  /\ \A kind, t, k : ByItself(kind, t, k)' <=> ByItself(kind, t, k)
           /\ \A kind, x : /\ Standing(kind, x)' <=> Standing(kind, x)
                           /\ Needs(kind, x)' = Needs(kind, x)
           /\ \A kind, s : OrderedNodes(kind, s)' <=> OrderedNodes(kind, s)
           /\ \A s, n : MessagesDefined(s, n)' <=> MessagesDefined(s, n)
<1>1. \A kind : Trees(kind)' = Trees(kind)
  BY DEF Trees, Types, Messages
<1>2. \A kind, t, k : IsMangled(kind, t, k)' <=> IsMangled(kind, t, k)
  BY DEF IsMangled
<1>3. \A kind, t, k : ByItself(kind, t, k)' <=> ByItself(kind, t, k)
  BY <1>2 DEF ByItself
<1>4. \A kind, x : Standing(kind, x)' <=> Standing(kind, x)
  BY <1>1 DEF Standing
<1>5. ASSUME NEW kind, NEW t, NEW i
      PROVE  Inside(kind, t, i)' = Inside(kind, t, i)
  <2>1. Inside(kind, t, i) = InsideOf(Trees(kind), mangled, kind, t, i)
    BY Zenon DEF Inside, InsideOf, IsMangled
  <2>2. Inside(kind, t, i)' = InsideOf(Trees(kind)', mangled', kind, t, i)
    BY Zenon DEF Inside, InsideOf, IsMangled
  <2> QED
    BY <1>1, <2>1, <2>2
<1>6. \A tree, k : RefTarget(tree, k)' = RefTarget(tree, k)
  BY DEF RefTarget, Types
<1>7. \A kind, x : Needs(kind, x)' = Needs(kind, x)
  BY <1>1, <1>2, <1>5, <1>6 DEF Needs
<1>8. \A sort, x : Uses(sort, x)' = Uses(sort, x)
  BY <1>7 DEF Uses
<1>9. \A kind, s, K : Founded(kind, s, K)' <=> Founded(kind, s, K)
  BY <1>8 DEF Founded
<1>10. \A kind, s : OrderedNodes(kind, s)' <=> OrderedNodes(kind, s)
  BY <1>3, <1>4, <1>9 DEF OrderedNodes
<1>11. \A s, n : MessagesDefined(s, n)' <=> MessagesDefined(s, n)
  BY <1>2, <1>7 DEF MessagesDefined, Messages
<1> QED
  BY <1>3, <1>4, <1>7, <1>10, <1>11

-----------------------------------------------------------------------------
(* The generator's steps.                                                  *)

NoTags ==
    /\ stage \in BeforeTags \cup {"type tags"}
    /\ detailTypes = <<>> /\ detailMessages = <<>> /\ publicMessages = <<>>

LEMMA NoTagsRight == Reading /\ CountedTypes /\ NoTags => TagsRight
<1> SUFFICES ASSUME Reading, CountedTypes, NoTags
             PROVE  TagsRight
  OBVIOUS
<1>1. \A kind : OrderedNodes(kind, <<>>)
  <2>1. ToSet(<<>>) = {}
    BY DEF ToSet
  <2> QED
    BY <2>1, FoundedFew DEF OrderedNodes
<1>2. MessagesDefined(<<>>, 0)
  <2>1. \A m \in DOMAIN Messages : ~(m <= 0)
    BY DEF Reading
  <2> QED
    BY <2>1 DEF MessagesDefined
<1>3. /\ publicMessages = <<>> /\ Len(publicMessages) = 0 /\ DOMAIN publicMessages = {}
      /\ publicMessages \in Seq(DOMAIN Messages)
      /\ detailTypes = <<>> /\ detailMessages = <<>>
  <2>1. detailTypes = <<>> /\ detailMessages = <<>> /\ publicMessages = <<>>
    BY DEF NoTags
  <2>2. Len(<<>>) = 0 /\ DOMAIN <<>> = {} /\ <<>> \in Seq(DOMAIN Messages)
    OBVIOUS
  <2> QED
    BY <2>1, <2>2
<1>4. stage \notin {"message tags", "constants", "done"}
  BY DEF NoTags, BeforeTags, Unvisited
<1> QED
  BY <1>1, <1>2, <1>3, <1>4 DEF TagsRight

\* The parser decides on an order of the encodings when it has read them all.
LEMMA OrderCounts ==
    ASSUME Reading, HaveRead, EndSchema
    PROVE  CountedTypes'
<1>1. /\ parsers # <<>> /\ Len(parsers) = 1 /\ parsers \in Seq(ParserRecords)
  BY DEF EndSchema, AtEnd, Reading
<1>2. 1 \in DOMAIN parsers /\ Parser = parsers[1]
  BY <1>1 DEF Parser
<1> PICK S : S = Parser.types
  OBVIOUS
<1>3. IsFiniteSet(S)
  BY <1>2 DEF HaveRead, AllHaveRead, HasRead
<1> PICK n \in Nat : n = Cardinality(S)
  BY <1>3, FS_CardinalityType
<1>4. PICK order \in SetToSeqs(S) :
          schema' = [schema EXCEPT !.types = order, !.messages = Parser.messages]
  BY DEF EndSchema
<1>5. schema'.types = order
  BY <1>4 DEF Reading
<1>6. DOMAIN order = 1 .. n
  BY DEF SetToSeqs
<1> QED
  BY <1>5, <1>6 DEF CountedTypes, Types

LEMMA OthersKeepTypes ==
    ASSUME Reading, HaveRead, CountedTypes, [Next]_vars
    PROVE  CountedTypes'
<1>1. CASE EndSchema
  BY <1>1, OrderCounts
<1>2. CASE schema'.types = schema.types
  BY <1>2 DEF CountedTypes, Types
<1>3. CASE UNCHANGED vars
  BY <1>2, <1>3 DEF vars, parserVars
<1>4. CASE ParserNext
  <2>1. CASE OpenSchema
    <3>1. schema' = [schema EXCEPT !.header = input.files[input.main].header]
              \/ schema' = schema
      BY <2>1 DEF OpenSchema, Fail
    <3> QED
      BY <1>2, <3>1 DEF Reading
  <2>2. CASE ParseTypes \/ ParseMessage \/ ParseInclude \/ ParseUnknown \/ EndInclude
    BY <1>2, <2>2 DEF ParseTypes, ParseMessage, ParseInclude, ParseUnknown, EndInclude,
       Becomes, Fail
  <2> QED
    BY <1>1, <1>4, <2>1, <2>2 DEF ParserNext
<1>5. CASE RulesNext
  BY <1>2, <1>5 DEF RulesNext, ValidateType, TypesValid, ValidateMessageHeader,
     ValidateMessage, MessagesValid, ValidateCppNames, Fail, GoTo, parserVars
<1>6. CASE NamesNext
  BY <1>2, <1>6, NamesStep
<1>7. CASE TagsNext
  BY <1>2, <1>7 DEF TagsNext, TagType, TypesTagged, TagMessage, MessagesTagged, GoTo,
     parserVars
<1>8. CASE Compile
  BY <1>2, <1>8 DEF Compile, GoTo, Fail
<1>9. CASE Ended
  BY <1>3, <1>9 DEF Ended
<1> QED
  BY <1>3, <1>4, <1>5, <1>6, <1>7, <1>8, <1>9 DEF Next

\* No tags yet, and none in the step.
LEMMA StillNoTags ==
    ASSUME TagsRight, Reading', CountedTypes', UNCHANGED tagVars,
           stage \in BeforeTags, stage' \in BeforeTags \cup {"type tags"}
    PROVE  TagsRight'
<1>1. NoTags'
  BY DEF NoTags, TagsRight, tagVars
<1>2. Reading' /\ CountedTypes' /\ NoTags' => TagsRight'
  BY NoTagsRight, PTL
<1> QED
  BY <1>1, <1>2

\* What is right stays right while nothing is added.
LEMMA KeepsTags ==
    ASSUME TagsRight, CountedTypes', UNCHANGED <<schema, mangled, tagVars>>,
           \/ stage' = stage
           \/ stage = "type tags" /\ stage' = "message tags" /\ Untagged = {}
           \/ stage = "message tags" /\ stage' = "constants"
                  /\ Len(publicMessages) = Len(Messages)
           \/ stage = "constants" /\ stage' = "done"
    PROVE  TagsRight'
<1>1. /\ Types' = Types /\ Messages' = Messages
      /\ UNCHANGED <<detailTypes, detailMessages, publicMessages>>
  BY DEF Types, Messages, tagVars
<1>2. Untagged' = Untagged
  BY <1>1 DEF Untagged
<1>3. PICK s : s = detailTypes /\ OrderedNodes("types", s)
  BY DEF TagsRight
<1>4. PICK r : /\ r = detailMessages /\ OrderedNodes("messages", r)
               /\ MessagesDefined(r, Len(publicMessages))
  BY DEF TagsRight
<1> PICK n : n = Len(publicMessages)
  OBVIOUS
<1>5. OrderedNodes("types", s)' /\ OrderedNodes("messages", r)' /\ MessagesDefined(r, n)'
  BY <1>3, <1>4, KeepsDefinitions
<1>6. s = detailTypes' /\ r = detailMessages' /\ n = Len(publicMessages)'
  BY <1>1, <1>3, <1>4
<1>7. stage' \in BeforeTags => stage \in BeforeTags
  BY DEF BeforeTags, Unvisited
<1>8. stage' \in {"message tags", "constants", "done"} => Untagged = {}
  BY DEF TagsRight
<1>9. stage' = "constants" => Len(publicMessages) = Len(Messages)
  BY DEF TagsRight
<1>10. (\E t : t = detailTypes /\ OrderedNodes("types", t))'
  BY <1>5, <1>6
<1>11. (\E t : /\ t = detailMessages /\ OrderedNodes("messages", t)
               /\ MessagesDefined(t, Len(publicMessages)))'
  BY <1>5, <1>6
<1>12. /\ stage \in BeforeTags =>
              detailTypes = <<>> /\ detailMessages = <<>> /\ publicMessages = <<>>
       /\ publicMessages \in Seq(DOMAIN Messages)
       /\ \A i \in DOMAIN publicMessages : publicMessages[i] = i
  BY DEF TagsRight
<1>13. /\ (stage \in BeforeTags =>
               detailTypes = <<>> /\ detailMessages = <<>> /\ publicMessages = <<>>)'
       /\ (stage \in {"message tags", "constants", "done"} => Untagged = {})'
       /\ (stage = "constants" => Len(publicMessages) = Len(Messages))'
       /\ (publicMessages \in Seq(DOMAIN Messages))'
       /\ (\A i \in DOMAIN publicMessages : publicMessages[i] = i)'
  BY <1>1, <1>2, <1>7, <1>8, <1>9, <1>12 DEF BeforeTags, Unvisited
<1> QED
  BY <1>10, <1>11, <1>13 DEF TagsRight

\* The encoding that is next.
LEMMA NextEncoding ==
    ASSUME CountedTypes, Untagged # {}
    PROVE  (CHOOSE t \in Untagged : \A u \in Untagged : t <= u) \in DOMAIN Types
<1>1. Untagged \subseteq DOMAIN Types /\ Untagged \in SUBSET Nat
  BY DEF Untagged, CountedTypes
<1>2. \E t \in Untagged : \A u \in Untagged : t <= u
  BY <1>1, LeastNatural
<1> QED
  BY <1>1, <1>2

LEMMA TagTypeRight ==
    ASSUME Reading, NamesRight, Judged, TagsRight, CountedTypes',
           UNCHANGED <<schema, mangled>>, TagType
    PROVE  TagsRight'
<1>1. PICK t : t = CHOOSE u \in Untagged : \A v \in Untagged : u <= v
  OBVIOUS
<1>2. /\ detailTypes' = WithEncoding(detailTypes, t) /\ Untagged # {}
      /\ UNCHANGED <<detailMessages, publicMessages, stage>> /\ stage = "type tags"
  BY <1>1 DEF TagType, In, parserVars
<1>3. CountedTypes /\ t \in DOMAIN Types
  BY <1>1, <1>2, NextEncoding DEF TagsRight
<1>4. RefsExist /\ NoneCyclic
  BY <1>2, RightTypes DEF Judged
<1>5. PICK s : s = detailTypes /\ OrderedNodes("types", s)
  BY DEF TagsRight
<1>6. PICK q : q = WithEncoding(s, t) /\ OrderedNodes("types", q)
  BY <1>3, <1>4, <1>5, WithEncodingOrdered
<1>7. PICK r : /\ r = detailMessages /\ OrderedNodes("messages", r)
               /\ MessagesDefined(r, Len(publicMessages))
  BY DEF TagsRight
<1> PICK n : n = Len(publicMessages)
  OBVIOUS
<1>8. OrderedNodes("types", q)' /\ OrderedNodes("messages", r)' /\ MessagesDefined(r, n)'
  BY <1>6, <1>7, KeepsDefinitions
<1>9. q = detailTypes' /\ r = detailMessages' /\ n = Len(publicMessages)'
  BY <1>2, <1>5, <1>6, <1>7
<1>10. (\E u : u = detailTypes /\ OrderedNodes("types", u))'
  BY <1>8, <1>9
<1>11. (\E u : /\ u = detailMessages /\ OrderedNodes("messages", u)
               /\ MessagesDefined(u, Len(publicMessages)))'
  BY <1>8, <1>9
<1>12. /\ publicMessages \in Seq(DOMAIN Messages)
       /\ \A i \in DOMAIN publicMessages : publicMessages[i] = i
  BY DEF TagsRight
<1>13. (publicMessages \in Seq(DOMAIN Messages))'
       /\ (\A i \in DOMAIN publicMessages : publicMessages[i] = i)'
  BY <1>2, <1>12 DEF Messages
<1>14. stage' \notin BeforeTags \cup {"message tags", "constants", "done"}
  BY <1>2 DEF BeforeTags, Unvisited
<1> QED
  BY <1>10, <1>11, <1>13, <1>14 DEF TagsRight

LEMMA TagMessageRight ==
    ASSUME Reading, NamesRight, TagsRight, CountedTypes',
           UNCHANGED <<schema, mangled>>, TagMessage
    PROVE  TagsRight'
<1> PICK n : n = Len(publicMessages)
  OBVIOUS
<1> DEFINE m == n + 1
<1>1. /\ n < Len(Messages) /\ detailMessages' = detailMessages \o MangledLevels(m)
      /\ publicMessages' = Append(publicMessages, m)
      /\ UNCHANGED <<detailTypes, stage>> /\ stage = "message tags"
  BY DEF TagMessage, In, parserVars
<1>2. /\ publicMessages \in Seq(DOMAIN Messages) /\ Untagged = {}
      /\ \A i \in DOMAIN publicMessages : publicMessages[i] = i
  BY <1>1 DEF TagsRight
<1>3. n \in Nat /\ DOMAIN publicMessages = 1 .. n
  BY <1>2
<1>4. DOMAIN Messages = 1 .. Len(Messages) /\ Len(Messages) \in Nat
  BY DEF Reading
<1>5. m \in DOMAIN Messages
  <2> PICK L : L = Len(Messages)
    OBVIOUS
  <2>1. L \in Nat /\ n < L
    BY <1>1, <1>4
  <2>2. n + 1 \in 1 .. L
    BY <1>3, <2>1
  <2> QED
    BY <1>4, <2>2
<1>6. PICK s : s = detailTypes /\ OrderedNodes("types", s)
  BY DEF TagsRight
<1>7. PICK r : /\ r = detailMessages /\ OrderedNodes("messages", r)
               /\ MessagesDefined(r, n)
  BY DEF TagsRight
<1>8. PICK more : more = MangledLevels(m)
  OBVIOUS
<1>9. LevelInOrder(m, 1, more)
  BY <1>5, <1>8, LevelsInOrder
<1>10. PICK q : IsConcat(q, r, more)
  BY Zenon DEF IsConcat
<1>11. OrderedNodes("messages", q) /\ ToSet(q) = ToSet(r) \cup ToSet(more)
  BY <1>7, <1>9, <1>10, OrderedConcat DEF LevelInOrder, Kinds
<1>12. MessagesDefined(q, m)
  <2> SUFFICES ASSUME NEW k \in DOMAIN Messages, k <= m
               PROVE  /\ Needs("messages", <<k, 1>>) \subseteq ToSet(q)
                      /\ IsMangled("messages", k, 1) => <<k, 1>> \in ToSet(q)
    BY DEF MessagesDefined
  <2>1. CASE k <= n
    BY <1>7, <1>11, <2>1 DEF MessagesDefined
  <2>2. CASE ~(k <= n)
    <3>1. k = m
      BY <1>3, <1>4, <2>2
    <3> QED
      BY <1>9, <1>11, <3>1 DEF LevelInOrder
  <2> QED
    BY <2>1, <2>2
<1>13. OrderedNodes("types", s)' /\ OrderedNodes("messages", q)' /\ MessagesDefined(q, m)'
  BY <1>6, <1>11, <1>12, KeepsDefinitions
<1>14. q = detailMessages'
  BY <1>1, <1>7, <1>8, <1>10, Zenon DEF IsConcat
<1>15. /\ publicMessages' \in Seq(DOMAIN Messages) /\ Len(publicMessages') = m
       /\ \A i \in DOMAIN publicMessages' : publicMessages'[i] = i
  <2> PICK p : p = publicMessages
    OBVIOUS
  <2>1. p \in Seq(DOMAIN Messages) /\ Len(p) = n /\ \A i \in 1 .. n : p[i] = i
    BY <1>2, <1>3
  <2>2. /\ Append(p, m) \in Seq(DOMAIN Messages) /\ Len(Append(p, m)) = m
        /\ DOMAIN Append(p, m) = 1 .. m
        /\ \A i \in 1 .. n : Append(p, m)[i] = p[i]
        /\ Append(p, m)[m] = m
    <3> HIDE DEF m
    <3>1. m = Len(p) + 1
      BY <2>1 DEF m
    <3> QED
      BY <1>3, <1>5, <2>1, <3>1
  <2>3. \A i \in 1 .. m : i \in 1 .. n \/ i = m
    BY <1>3
  <2>4. \A i \in 1 .. m : Append(p, m)[i] = i
    <3> HIDE DEF m
    <3> QED
      BY <2>1, <2>2, <2>3
  <2>5. publicMessages' = Append(p, m)
    BY <1>1
  <2> HIDE DEF m
  <2> QED
    BY <2>2, <2>4, <2>5
<1>16. (\E u : u = detailTypes /\ OrderedNodes("types", u))'
  BY <1>1, <1>6, <1>13
<1>17. (\E u : /\ u = detailMessages /\ OrderedNodes("messages", u)
               /\ MessagesDefined(u, Len(publicMessages)))'
  BY <1>13, <1>14, <1>15
<1>18. Untagged' = {}
  BY <1>1, <1>2 DEF Untagged, Types
<1>19. stage' \notin BeforeTags \cup {"constants"}
  BY <1>1 DEF BeforeTags, Unvisited
<1>20. Messages' = Messages
  BY DEF Messages
<1> QED
  BY <1>15, <1>16, <1>17, <1>18, <1>19, <1>20 DEF TagsRight

LEMMA TagsStepRight ==
    ASSUME IInv, HaveRead, TagsRight, [Next]_vars
    PROVE  TagsRight'
<1>1. IInv' /\ Reading' /\ Reading /\ NamesRight /\ Judged
  BY NextIInv DEF IInv
<1>2. CountedTypes'
  BY <1>1, OthersKeepTypes DEF TagsRight
<1>3. CASE UNCHANGED vars
  BY <1>2, <1>3, KeepsTags DEF vars, parserVars, nameVars
<1>4. CASE ParserNext /\ UNCHANGED tagVars
  <2>1. stage = "parse" /\ stage' \in {"parse", "types"}
    BY <1>4 DEF ParserNext, OpenSchema, ParseTypes, ParseMessage, ParseInclude,
       ParseUnknown, EndInclude, EndSchema, At, AtEnd, In, Fail, Becomes
  <2> QED
    BY <1>1, <1>2, <1>4, <2>1, StillNoTags DEF BeforeTags, Unvisited
<1>5. CASE RulesNext /\ UNCHANGED tagVars
  <2>1. stage \in Unvisited /\ stage' \in Unvisited \cup {"type names"}
    BY <1>5 DEF RulesNext, ValidateType, TypesValid, ValidateMessageHeader,
       ValidateMessage, MessagesValid, ValidateCppNames, Fail, GoTo, In, parserVars,
       Unvisited
  <2> QED
    BY <1>1, <1>2, <1>5, <2>1, StillNoTags DEF BeforeTags
<1>6. CASE NamesNext /\ UNCHANGED tagVars
  BY <1>1, <1>2, <1>6, NamesStep, StillNoTags DEF BeforeTags
<1>7. CASE TagsNext /\ UNCHANGED nameVars
  <2>1. UNCHANGED <<schema, mangled>>
    BY <1>7 DEF TagsNext, TagType, TypesTagged, TagMessage, MessagesTagged, GoTo,
       parserVars, nameVars
  <2>2. CASE TagType
    BY <1>1, <1>2, <2>1, <2>2, TagTypeRight
  <2>3. CASE TagMessage
    BY <1>1, <1>2, <2>1, <2>3, TagMessageRight
  <2>4. CASE TypesTagged
    BY <1>2, <2>1, <2>4, KeepsTags DEF TypesTagged, In, GoTo
  <2>5. CASE MessagesTagged
    BY <1>2, <2>1, <2>5, KeepsTags DEF MessagesTagged, In, GoTo
  <2> QED
    BY <1>7, <2>2, <2>3, <2>4, <2>5 DEF TagsNext
<1>8. CASE Compile /\ UNCHANGED <<nameVars, tagVars>>
  <2>1. UNCHANGED <<schema, mangled>> /\ stage = "constants" /\ stage' \in {"constants", "done"}
    BY <1>8 DEF Compile, In, GoTo, Fail, nameVars
  <2> QED
    BY <1>2, <1>8, <2>1, KeepsTags
<1>9. CASE Ended
  BY <1>3, <1>9 DEF Ended
<1> QED
  BY <1>3, <1>4, <1>5, <1>6, <1>7, <1>8, <1>9 DEF Next

LEMMA TagsStart ==
    ASSUME Init
    PROVE  TagsRight
<1>1. stage = "parse" /\ Types = <<>> /\ Reading
  BY InitIInv DEF IInv, Init, ParserInit, NoSchema, Types
<1>2. CountedTypes
  <2>1. DOMAIN Types = 1 .. 0
    BY <1>1
  <2> QED
    BY <2>1 DEF CountedTypes
<1>3. NoTags
  BY <1>1 DEF NoTags, BeforeTags, Unvisited, Init, TagsInit
<1> QED
  BY <1>1, <1>2, <1>3, NoTagsRight

-----------------------------------------------------------------------------
(* The text.                                                               *)

\* The structs of the roots of encodings.
Roots == {ImplPath("types", t, 1) : t \in DOMAIN Types}

\* What the text is made of is right.
TextReady ==
    /\ ~TypesWrong /\ ~LevelsWrong
    /\ Untagged = {}
    /\ Len(publicMessages) = Len(Messages)
    /\ publicMessages \in Seq(DOMAIN Messages)
    /\ OrderedNodes("types", detailTypes) /\ OrderedNodes("messages", detailMessages)
    /\ MessagesDefined(detailMessages, Len(Messages))

\* The base of an element of an encoding is what the definition needs.
LEMMA TypeBases ==
    ASSUME Reading, RefsExist, NEW n, Standing("types", n), NEW K
    PROVE  BasesIn(K \cup Paths("types", Needs("types", n)), "types", n)
<1>1. Trees("types") = Types /\ "types" \in Kinds
  BY DEF Trees, Kinds
<1>2. n[1] \in DOMAIN Types
  BY <1>1 DEF Standing
<1> PICK tree : tree = Types[n[1]]
  OBVIOUS
<1>3. \A i \in DOMAIN tree : tree[i].kind \in EncodingNodes
  BY <1>2 DEF Reading, EncodingTrees, TreesOf
<1> SUFFICES ASSUME NEW k \in Inside("types", n[1], n[2]), Base(tree[k]) # None
             PROVE  Base(tree[k]) \in Paths("types", Needs("types", n))
  BY <1>1 DEF BasesIn
<1>4. k \in DOMAIN tree
  BY <1>1, InsideNodes
<1>5. tree[k].kind = "ref"
  BY <1>3, <1>4 DEF Base, EncodingNodes, EncodingKinds
<1>6. Base(tree[k]) = ImplPath("types", RefTarget(tree, k), 1)
  BY DEF Base, RefTarget
<1>7. <<RefTarget(tree, k), 1>> \in Needs("types", n)
  BY <1>1, <1>5 DEF Needs
<1> QED
  BY <1>6, <1>7 DEF Paths

\* The base of a field is an encoding.
LEMMA FieldBases ==
    ASSUME Reading, ~LevelsWrong, NEW n, Standing("messages", n)
    PROVE  BasesIn(Roots, "messages", n)
<1>1. Trees("messages") = Messages /\ n[1] \in DOMAIN Messages
  BY DEF Trees, Standing
<1> PICK tree : tree = Messages[n[1]]
  OBVIOUS
<1>2. \A i \in DOMAIN tree : tree[i].kind \in LevelNodes
  BY <1>1, MessagesAreTrees
<1> SUFFICES ASSUME NEW k \in Inside("messages", n[1], n[2]), Base(tree[k]) # None
             PROVE  Base(tree[k]) \in Roots
  BY <1>1 DEF BasesIn
<1>3. k \in DOMAIN tree
  BY <1>1, InsideNodes
<1>4. tree[k].kind = "field" /\ tree[k].type \notin Primitive
  BY <1>2, <1>3 DEF Base, LevelNodes, MemberKinds
<1>5. ~WrongField(tree[k])
  BY <1>1, <1>3, <1>4 DEF LevelsWrong, RightLevels, NodesOf
<1>6. Exists(tree[k].type)
  BY <1>4, <1>5 DEF WrongField
<1>7. Find(Types, tree[k].type) \in DOMAIN Types
  BY <1>6, WhereItIs
<1>8. Base(tree[k]) = ImplPath("types", Find(Types, tree[k].type), 1)
  BY DEF Base
<1> QED
  BY <1>7, <1>8 DEF Roots

LEMMA NodesOfList ==
    ASSUME NEW kind, NEW s, OrderedNodes(kind, s), NEW d \in DOMAIN s
    PROVE  Standing(kind, s[d]) /\ ByItself(kind, s[d][1], s[d][2])
BY DEF OrderedNodes, ToSet

\* The definitions of encodings, and of what is mangled in messages.
LEMMA TypesText ==
    ASSUME Reading, TextReady
    PROVE  /\ IsList(Definitions("types", detailTypes))
           /\ Founded("text", Definitions("types", detailTypes), {})
           /\ Roots \subseteq Given("text", Definitions("types", detailTypes))
<1>1. OrderedNodes("types", detailTypes) /\ RefsExist /\ "types" \in Kinds
  BY RightTypes DEF TextReady, Kinds
<1> PICK s : s = detailTypes
  OBVIOUS
<1>2. IsList(s) /\ Founded("types", s, {})
  BY <1>1 DEF OrderedNodes
<1>3. \A d \in DOMAIN s :
          /\ Standing("types", s[d]) /\ ByItself("types", s[d][1], s[d][2])
          /\ BasesIn({} \cup Paths("types", Needs("types", s[d])), "types", s[d])
  BY <1>1, NodesOfList, TypeBases
<1>4. /\ IsList(Definitions("types", s)) /\ Founded("text", Definitions("types", s), {})
      /\ Paths("types", ToSet(s)) \subseteq Given("text", Definitions("types", s))
  BY <1>1, <1>2, <1>3, DefinitionsFounded
<1>5. Roots \subseteq Paths("types", ToSet(s))
  <2> SUFFICES ASSUME NEW t \in DOMAIN Types
               PROVE  ImplPath("types", t, 1) \in Paths("types", ToSet(s))
    BY DEF Roots
  <2>1. <<t, 1>> \in ToSet(s)
    BY DEF TextReady, Untagged
  <2> QED
    BY <2>1 DEF Paths
<1> QED
  BY <1>4, <1>5

LEMMA LevelsText ==
    ASSUME Reading, TextReady
    PROVE  /\ IsList(Definitions("messages", detailMessages))
           /\ Founded("text", Definitions("messages", detailMessages), Roots)
           /\ Paths("messages", ToSet(detailMessages)) \subseteq
                  Given("text", Definitions("messages", detailMessages))
<1>1. OrderedNodes("messages", detailMessages) /\ "messages" \in Kinds /\ ~LevelsWrong
  BY DEF TextReady, Kinds
<1> PICK s : s = detailMessages
  OBVIOUS
<1>2. IsList(s) /\ Founded("messages", s, {})
  BY <1>1 DEF OrderedNodes
<1>3. ASSUME NEW d \in DOMAIN s
      PROVE  /\ Standing("messages", s[d]) /\ ByItself("messages", s[d][1], s[d][2])
             /\ BasesIn(Roots \cup Paths("messages", Needs("messages", s[d])),
                        "messages", s[d])
  <2>1. Standing("messages", s[d]) /\ ByItself("messages", s[d][1], s[d][2])
    BY <1>1, NodesOfList
  <2>2. BasesIn(Roots, "messages", s[d])
    BY <1>1, <2>1, FieldBases
  <2> QED
    BY <2>1, <2>2 DEF BasesIn
<1> QED
  BY <1>1, <1>2, <1>3, DefinitionsFounded

\* The structs types and messages.
ScopeOf(kind) ==
    IF tagName[kind] = None THEN <<>>
    ELSE <<Alias(<<Schema, <<kind>>>>, TagScope(kind))>>

OneScope(kind) == <<Struct(TagScope(kind), None)>> \o ScopeOf(kind)

LEMMA ScopeFounded ==
    ASSUME NEW kind
    PROVE  IsList(OneScope(kind)) /\ Founded("text", OneScope(kind), {})
<1> DEFINE head == <<Struct(TagScope(kind), None)>>
<1>1. Uses("text", Struct(TagScope(kind), None)) = {}
      /\ Gives("text", Struct(TagScope(kind), None)) = {TagScope(kind)}
  BY DEF Uses, Gives, Struct
<1>2. /\ IsList(head) /\ Founded("text", head, {})
      /\ Given("text", head) = {TagScope(kind)}
  BY <1>1, FoundedFew
<1>3. Uses("text", Alias(<<Schema, <<kind>>>>, TagScope(kind))) \subseteq {TagScope(kind)}
  BY DEF Uses, Alias
<1>4. IsList(ScopeOf(kind)) /\ Founded("text", ScopeOf(kind), {} \cup {TagScope(kind)})
  BY <1>3, FoundedFew DEF ScopeOf
<1>5. IsConcat(OneScope(kind), head, ScopeOf(kind))
  BY Zenon DEF IsConcat, OneScope
<1> HIDE DEF head
<1> QED
  BY <1>2, <1>4, <1>5, FoundedTwo

LEMMA ScopesFounded == IsList(Scopes) /\ Founded("text", Scopes, {})
<1>1. IsConcat(Scopes, OneScope("types"), OneScope("messages"))
  BY Zenon DEF IsConcat, Scopes, OneScope, ScopeOf
<1>2. Founded("text", OneScope("messages"), {} \cup Given("text", OneScope("types")))
  BY ScopeFounded, FoundedMore
<1> QED
  BY <1>1, <1>2, ScopeFounded, FoundedTwo

\* What is public.
RootsText ==
    FlattenSeq([d \in DOMAIN detailTypes |->
        IF detailTypes[d][2] = 1 THEN <<RootAlias("types", detailTypes[d][1])>>
        ELSE <<>>])

MessagesText ==
    FlattenSeq([i \in DOMAIN publicMessages |->
        IF IsMangled("messages", publicMessages[i], 1)
        THEN <<RootAlias("messages", publicMessages[i])>>
        ELSE Definition("messages", <<publicMessages[i], 1>>)])

LEMMA RootsFounded ==
    ASSUME Reading, TextReady
    PROVE  IsList(RootsText) /\ Founded("text", RootsText, Roots)
<1> PICK s : s = detailTypes
  OBVIOUS
<1> DEFINE N == Len(s)
           text == [d \in DOMAIN s |->
                       IF s[d][2] = 1 THEN <<RootAlias("types", s[d][1])>> ELSE <<>>]
<1>1. OrderedNodes("types", s) /\ N \in Nat /\ DOMAIN s = 1 .. N
  BY ListDomain DEF TextReady, OrderedNodes
<1>2. RootsText = Flat(text, N)
  BY <1>1 DEF RootsText, Flat
<1>3. ASSUME NEW d \in 1 .. N
      PROVE  IsList(text[d]) /\ Founded("text", text[d], Roots)
  <2>1. s[d][1] \in DOMAIN Types
    BY <1>1, NodesOfList DEF Standing, Trees
  <2>2. ImplPath("types", s[d][1], 1) \in Roots
    BY <2>1 DEF Roots
  <2>3. Uses("text", RootAlias("types", s[d][1])) \subseteq Roots
    BY <2>2 DEF Uses, RootAlias, Alias
  <2>4. text[d] = IF s[d][2] = 1 THEN <<RootAlias("types", s[d][1])>> ELSE <<>>
    BY <1>1
  <2> HIDE DEF text
  <2> QED
    BY <2>3, <2>4, FoundedFew
<1> HIDE DEF text
<1>4. \A d \in 1 .. N :
          IsList(text[d]) /\ Founded("text", text[d], Roots \cup GivenUpTo("text", text, d - 1))
  BY <1>3, FoundedMore
<1> QED
  BY <1>1, <1>2, <1>4, FoundedMany

LEMMA MessagesFounded ==
    ASSUME Reading, TextReady
    PROVE  /\ IsList(MessagesText)
           /\ Founded("text", MessagesText,
                      Roots \cup Paths("messages", ToSet(detailMessages)))
<1> PICK s : s = publicMessages
  OBVIOUS
<1> DEFINE N == Len(s)
           K == Roots \cup Paths("messages", ToSet(detailMessages))
           text == [i \in DOMAIN s |->
                       IF IsMangled("messages", s[i], 1)
                       THEN <<RootAlias("messages", s[i])>>
                       ELSE Definition("messages", <<s[i], 1>>)]
<1>1. s \in Seq(DOMAIN Messages) /\ N \in Nat /\ DOMAIN s = 1 .. N
  BY DEF TextReady
<1>2. MessagesText = Flat(text, N)
  BY <1>1 DEF MessagesText, Flat
<1>3. ASSUME NEW i \in 1 .. N
      PROVE  IsList(text[i]) /\ Founded("text", text[i], K)
  <2> PICK m : m = s[i]
    OBVIOUS
  <2>1. m \in DOMAIN Messages /\ m <= Len(Messages)
    BY <1>1 DEF Reading
  <2>2. /\ Needs("messages", <<m, 1>>) \subseteq ToSet(detailMessages)
        /\ IsMangled("messages", m, 1) => <<m, 1>> \in ToSet(detailMessages)
    BY <2>1 DEF TextReady, MessagesDefined
  <2>3. text[i] = IF IsMangled("messages", m, 1) THEN <<RootAlias("messages", m)>>
                  ELSE Definition("messages", <<m, 1>>)
    BY <1>1
  <2> HIDE DEF text
  <2>4. CASE IsMangled("messages", m, 1)
    <3>1. ImplPath("messages", m, 1) \in K
      BY <2>2, <2>4 DEF Paths
    <3>2. Uses("text", RootAlias("messages", m)) \subseteq K
      BY <3>1 DEF Uses, RootAlias, Alias
    <3> QED
      BY <2>3, <2>4, <3>2, FoundedFew
  <2>5. CASE ~IsMangled("messages", m, 1)
    <3> PICK n : n = <<m, 1>>
      OBVIOUS
    <3>1. Standing("messages", n) /\ "messages" \in Kinds
      BY <2>1, MessagesAreTrees DEF Standing
    <3>2. BasesIn(Roots, "messages", n)
      BY <3>1, FieldBases DEF TextReady
    <3>3. BasesIn(K, "messages", n) /\ Paths("messages", Needs("messages", n)) \subseteq K
      BY <2>2, <3>2 DEF BasesIn, Paths
    <3> HIDE DEF K
    <3>4. IsList(Definition("messages", n)) /\ Founded("text", Definition("messages", n), K)
      BY <3>1, <3>3, DefinitionFounded
    <3> QED
      BY <2>3, <2>5, <3>4
  <2> QED
    BY <2>4, <2>5
<1> HIDE DEF text, K
<1>4. \A i \in 1 .. N :
          IsList(text[i]) /\ Founded("text", text[i], K \cup GivenUpTo("text", text, i - 1))
  BY <1>3, FoundedMore
<1>5. IsList(Flat(text, N)) /\ Founded("text", Flat(text, N), K)
  BY <1>1, <1>4, FoundedMany
<1> QED
  BY <1>2, <1>5 DEF K

\* Everything in the text has what it needs before it.
LEMMA TextFounded ==
    ASSUME Reading, TextReady
    PROVE  Founded("text", Text, {})
<1> PICK types : types = Definitions("types", detailTypes)
  OBVIOUS
<1> PICK levels : levels = Definitions("messages", detailMessages)
  OBVIOUS
<1> PICK both : IsConcat(both, types, levels)
  BY Zenon DEF IsConcat
<1> PICK detail : IsConcat(detail, both, Scopes)
  BY Zenon DEF IsConcat
<1> PICK public : IsConcat(public, RootsText, MessagesText)
  BY Zenon DEF IsConcat
<1>1. /\ IsList(types) /\ Founded("text", types, {})
      /\ Roots \subseteq Given("text", types)
  BY TypesText
<1>2. /\ IsList(levels) /\ Founded("text", levels, Roots)
      /\ Paths("messages", ToSet(detailMessages)) \subseteq Given("text", levels)
  BY LevelsText
<1>3. /\ IsList(both) /\ Founded("text", both, {})
      /\ Given("text", both) = Given("text", types) \cup Given("text", levels)
  <2>1. Founded("text", levels, {} \cup Given("text", types))
    BY <1>1, <1>2, FoundedMore
  <2> QED
    BY <1>1, <1>2, <2>1, FoundedTwo
<1>4. /\ IsList(detail) /\ Founded("text", detail, {})
      /\ Given("text", both) \subseteq Given("text", detail)
  <2>1. IsList(Scopes) /\ Founded("text", Scopes, {} \cup Given("text", both))
    BY ScopesFounded, FoundedMore
  <2>2. /\ IsList(detail) /\ Founded("text", detail, {})
        /\ Given("text", detail) = Given("text", both) \cup Given("text", Scopes)
    BY <1>3, <2>1, FoundedTwo
  <2> QED
    BY <2>2
<1> PICK K : K = Roots \cup Paths("messages", ToSet(detailMessages))
  OBVIOUS
<1>5. IsList(public) /\ Founded("text", public, K)
  <2>1. IsList(RootsText) /\ Founded("text", RootsText, K)
    BY RootsFounded, FoundedMore
  <2>2. IsList(MessagesText) /\ Founded("text", MessagesText, K \cup Given("text", RootsText))
    BY MessagesFounded, FoundedMore
  <2> QED
    BY <2>1, <2>2, FoundedTwo
<1>6. Founded("text", public, {} \cup Given("text", detail))
  <2>1. K \subseteq {} \cup Given("text", detail)
    BY <1>1, <1>2, <1>3, <1>4
  <2> QED
    BY <1>5, <2>1, FoundedMore
<1>7. IsConcat(Text, detail, public)
  <2>1. PublicText = public
    BY Zenon DEF IsConcat, PublicText, RootsText, MessagesText
  <2>2. Text = detail \o public
    BY <2>1, Zenon DEF IsConcat, Text
  <2> QED
    BY <2>2, Zenon DEF IsConcat
<1> QED
  BY <1>4, <1>5, <1>6, <1>7, FoundedTwo

LEMMA RightTagsInOrder ==
    ASSUME IInv, TagsRight
    PROVE  TagsDefinedBeforeUse
<1> SUFFICES ASSUME stage = "constants"
             PROVE  TagsDefinedBeforeUse
  BY DEF TagsDefinedBeforeUse, Tagged
<1>1. Reading /\ ~TypesWrong /\ ~LevelsWrong
  BY DEF IInv, Judged
<1>2. TextReady
  <2>1. PICK r : /\ r = detailMessages /\ OrderedNodes("messages", r)
                 /\ MessagesDefined(r, Len(publicMessages))
    BY DEF TagsRight
  <2>2. OrderedNodes("types", detailTypes)
    BY DEF TagsRight
  <2> QED
    BY <1>1, <2>1, <2>2 DEF TagsRight, TextReady
<1>3. Founded("text", Text, {})
  BY <1>1, <1>2, TextFounded
<1> PICK text : text = Text
  OBVIOUS
<1>4. ASSUME NEW p \in DOMAIN text, NEW base \in {text[p].base, text[p].target} \ {None}
      PROVE  \E q \in 1 .. p - 1 : text[q].path = base /\ text[q].target = None
  <2>1. base \in Uses("text", text[p])
    BY DEF Uses
  <2>2. PICK q \in 1 .. p - 1 : base \in Gives("text", text[q])
    BY <1>3, <2>1 DEF Founded
  <2>3. text[q].path = base /\ text[q].target = None
    BY <2>2 DEF Gives
  <2> QED
    BY <2>3
<1> QED
  BY <1>4 DEF TagsDefinedBeforeUse

-----------------------------------------------------------------------------
\* The validators' verdict is about the schema alone: what they remember of
\* encodings and headers already validated makes no difference, and neither
\* does the order in which types are iterated over.
\* (encoding_processing_states, validated_group_headers, validated_data_headers)
THEOREM VerdictStands == Spec => []VerdictIgnoresOrder
<1>1. IInv => VerdictIgnoresOrder
  BY JudgedIsVerdict DEF IInv
<1> QED
  BY <1>1, Inductive, PTL

\* No schema for which names have been found ends the generators with an error,
\* but for one whose numInGroup is a ref.
\* (throw_error of make_string_constant, std::get in
\* get_num_in_group_underlying_type)
THEOREM ErrorsComeFirst == Spec => []ErrorsBeforeOutput
<1>1. IInv => ErrorsBeforeOutput
  BY DEF IInv
<1> QED
  BY <1>1, Inductive, PTL

\* In the code generated for any accepted schema no two classes of a namespace
\* have the same name, and none has a member of its own name.
\* (names_generator: mangled_type_names, mangled_message_names and the names of
\* members, which are all that is compared)
THEOREM NamesDistinct == Spec => []ClassNamesDistinct
<1>1. IInv => ClassNamesDistinct
  BY ClassesApart DEF IInv, Visiting, ClassNamesDistinct, Named, Unvisited
<1> QED
  BY <1>1, Inductive, PTL

\* Whatever has a mangled name could not have had its own.
\* ("keeping non-mangled (if possible) names", names_generator.hpp)
THEOREM PossibleNamesKept == Spec => []NamesKeptIfPossible
<1>1. IInv => NamesKeptIfPossible
  <2> SUFFICES ASSUME IInv, NEW n \in DOMAIN mangled
               PROVE  (IF NodeOf(n).kind = "group"
                       THEN {NameOf(n), EntryName(NameOf(n))} ELSE {NameOf(n)}) \cap
                          (MembersIn(n) \cup
                           {c.name : c \in {d \in DetailClasses(n[1]) : d.node # n}}) # {}
    BY DEF NamesKeptIfPossible
  <2> QED
    BY SomethingInTheWay DEF IInv, Takes
<1> QED
  BY <1>1, Inductive, PTL

\* The constants generated for a schema that has passed the validators have
\* values their types can hold, with the two exceptions of the code.
\* (get_const_value, make_const_field_accessor, get_null_value)
THEOREM ConstantsRight == Spec => []ConstantsHaveValues
<1>1. IInv => ConstantsHaveValues
  BY GoodIsInvariant DEF IInv
<1> QED
  BY <1>1, Inductive, PTL

\* Whatever files it is divided into, a schema is read as the text that they
\* make with every include replaced by the file it names: the encodings and the
\* messages are those of that text, the latter in its order, and sbeppc fails
\* while it reads if and only if something is wrong or defined twice in it.
\* (schema_parser::parse_include, merge_types, merge_messages)
THEOREM IncludesTextual == Spec => []IncludesAreTextual
<1>1. Init => HaveRead /\ IncludesAreTextual
  BY TextStart
<1>2. IInv /\ HaveRead /\ IncludesAreTextual /\ [Next]_vars
          => HaveRead' /\ IncludesAreTextual'
  BY NextReads DEF IInv
<1> QED
  BY <1>1, <1>2, Inductive, PTL DEF Spec

\* In the tags' header, whatever a tag inherits from or is an alias of has been
\* defined above it, in any order of the encodings and with any of the names
\* mangled: the public encodings a ref leads to come before the composite it is
\* in, and the tags of groups with mangled names before those of their levels.
\* (handle_public_encoding, make_composite_element_tags, make_group_tags)
THEOREM TagsBeforeUse == Spec => []TagsDefinedBeforeUse
<1> DEFINE TInv == HaveRead /\ IncludesAreTextual /\ TagsRight
<1>1. Init => TInv
  <2> SUFFICES ASSUME Init
               PROVE  TInv
    OBVIOUS
  <2> QED
    BY TextStart, TagsStart
<1>2. IInv /\ TInv /\ [Next]_vars => TInv'
  BY NextReads, TagsStepRight DEF IInv
<1>3. IInv /\ TInv => TagsDefinedBeforeUse
  BY RightTagsInOrder
<1> HIDE DEF TInv
<1> QED
  BY <1>1, <1>2, <1>3, Inductive, PTL DEF Spec
=============================================================================
