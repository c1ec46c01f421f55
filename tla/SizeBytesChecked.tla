-------------------------- MODULE SizeBytesChecked --------------------------
(***************************************************************************)
(* size_bytes_checked(view, size): visits the members of a message or a    *)
(* group with a cursor and subtracts the bytes of every header, block and  *)
(* data member from size until the view ends or size is used up.           *)
(*                                                                         *)
(* The wire says how many entries a group has and how long blocks and data *)
(* are; here it is given by the message instance, which may be longer than *)
(* size.  A block may also be shorter than the fields of the schema: the   *)
(* message comes from an older version of the schema.                      *)
(***************************************************************************)
EXTENDS MessageLayout, SequencesExt

CONSTANTS
    Messages,   \* the instances a view may be on
    Limits,     \* values of size
    Builds      \* values of SBEPP_SIZE_CHECKS_ENABLED

\* How far a node is below the message.
Depths(m) ==
    LET depth[n \in m.nodes] ==
            IF n = m.root THEN 0 ELSE depth[m.parent[n]] + 1
    IN  depth

\* There are finitely many nodes, and all of them are below the message.
IsRooted(m) ==
    /\ IsFiniteSet(m.nodes)
    /\ \A n \in m.nodes : Depths(m)[n] \in 0 .. Cardinality(m.nodes)
    /\ \A n \in m.nodes \ {m.root} : Depths(m)[n] = Depths(m)[m.parent[n]] + 1

IsWireMessage(m) ==
    /\ IsTree(m)
    /\ IsRooted(m)
    /\ HasSizes(m)
    /\ FieldsFollow(m)
    /\ CursorPassesBlocks(m)
    /\ \A n \in m.nodes \ Levels(m) : m.fields[n] = <<>>
    /\ \A n \in m.nodes : m.kind[n] = "group" => m.hdr[n] > 0
    /\ \A n \in m.nodes : \A j, k \in DOMAIN m.kids[n] :
           m.kind[n] = "group" => m.block[m.kids[n][j]] = m.block[m.kids[n][k]]

ASSUME MessagesAssumption == \A m \in Messages : IsWireMessage(m)
ASSUME LimitsAssumption == Limits \subseteq Nat
ASSUME BuildsAssumption == Builds \subseteq BOOLEAN

VARIABLES
    msg, view, limit,     \* the arguments: the view is a node of msg
    checked,              \* size checks are on and the view ends after limit
                          \* bytes: a read past them fails an assertion
    phase,                \* "start", "visit", "stop" (the visitor returns
                          \* true all the way up), "done", "assert"
    at, next,             \* the level or group whose children are visited
    ptr,                  \* the cursor
    size, valid,          \* the visitor's members
    groupBlockLength,
    saved                 \* prev_block_length of each on_group being executed

args    == <<msg, view, limit, checked>>
visitor == <<size, valid, groupBlockLength, saved>>
vars    == <<args, phase, at, next, ptr, visitor>>

-----------------------------------------------------------------------------
Larger(a, b) == IF a < b THEN b ELSE a

Views(m) == {n \in m.nodes : m.kind[n] \in {"message", "group"}}

\* Mutant: the header is not counted.
BugLimitEnd == Level(msg, view) + limit - 2 * msg.hdr[view]

\* Bytes of the buffer the caller has vouched for.
LimitEnd == msg.addr[view] + limit

\* blockLength in the header of a group.
EntryBlock(g) ==
    IF msg.kids[g] = <<>> THEN 0 ELSE msg.block[msg.kids[g][1]]

\* Reading the bytes up to p.
CanRead(p) == checked => p <= LimitEnd

FailCheck ==
    /\ phase' = "assert"
    /\ UNCHANGED <<args, at, next, ptr, visitor>>

\* validate_and_subtract.
Fits(n) == size >= n

Subtract(n) ==
    /\ size'  = IF Fits(n) THEN size - n ELSE size
    /\ valid' = Fits(n)

Init ==
    /\ msg \in Messages
    /\ view \in Views(msg)
    /\ limit \in Limits
    /\ checked \in Builds
    /\ phase = "start"
    /\ at = view /\ next = 1
    /\ ptr = 0
    /\ size = limit /\ valid = TRUE
    /\ groupBlockLength = 0
    /\ saved = [n \in msg.nodes |-> 0]

-----------------------------------------------------------------------------
\* init_cursor skips the header, which has to be there.  How long the header is
\* get_header_size asks get_header, which has a check of its own.
TooShortForHeader ==
    /\ phase = "start"
    /\ limit < msg.hdr[view]
    /\ \/ /\ ~CanRead(Level(msg, view))
          /\ FailCheck
       \/ /\ CanRead(Level(msg, view))
          /\ phase' = "done"
          /\ valid' = FALSE
          /\ UNCHANGED <<args, at, next, ptr, size, groupBlockLength, saved>>

\* on_message: the header, then the block.
OnMessage ==
    /\ phase = "start"
    /\ msg.kind[view] = "message"
    /\ limit >= msg.hdr[view]
    /\ ptr' = Level(msg, view)
    /\ LET rest == size - msg.hdr[view]
       IN  \/ /\ rest >= msg.block[view]
              /\ size' = rest - msg.block[view]
              /\ phase' = "visit"
              /\ UNCHANGED valid
           \/ /\ rest < msg.block[view]
              /\ size' = rest
              /\ valid' = FALSE
              /\ phase' = "done"
    /\ UNCHANGED <<args, at, next, groupBlockLength, saved>>

\* Mutant: the block length of the enclosing group is not saved.
BugBeginGroup(g) ==
    /\ saved' = saved
    /\ groupBlockLength' = EntryBlock(g)

\* on_group after its header is known to be in the buffer.
BeginGroup(g) ==
    /\ saved' = [saved EXCEPT ![g] = groupBlockLength]
    /\ groupBlockLength' = EntryBlock(g)

\* The view is a group itself.
OnViewedGroup ==
    /\ phase = "start"
    /\ msg.kind[view] = "group"
    /\ limit >= msg.hdr[view]
    /\ ptr' = Level(msg, view)
    /\ size' = size - msg.hdr[view]
    /\ BeginGroup(view)
    /\ phase' = "visit"
    /\ UNCHANGED <<args, at, next, valid>>

-----------------------------------------------------------------------------
(* Children of a message or an entry, in schema order.                     *)

InLevel == phase = "visit" /\ msg.kind[at] \in LevelKinds

NextKid == msg.kids[at][next - FieldCount(msg, at)]

\* on_field ignores the value, but the accessor has read it.
VisitField ==
    /\ InLevel
    /\ next \in DOMAIN msg.fields[at]
    /\ LET f == msg.fields[at][next]
       IN  \/ /\ ~CanRead(ptr + f.rel + f.size)
              /\ FailCheck
           \/ /\ CanRead(ptr + f.rel + f.size)
              /\ ptr' = IF next = FieldCount(msg, at) THEN BlockEnd(msg, at)
                        ELSE ptr + f.rel + f.size
              /\ next' = next + 1
              /\ UNCHANGED <<args, phase, at, visitor>>

AtKid(kind) ==
    /\ InLevel
    /\ next > FieldCount(msg, at)
    /\ next <= FieldCount(msg, at) + KidCount(msg, at)
    /\ msg.kind[NextKid] = kind

\* Where the cursor finds the next group or data member.
KidAddress ==
    IF next = FieldCount(msg, at) + 1 THEN BlockEnd(msg, at) ELSE ptr

\* The accessor moves the cursor over the header and asks get_header for that;
\* only then on_group subtracts.
OnGroup ==
    /\ AtKid("group")
    /\ LET headerEnd == KidAddress + msg.hdr[NextKid]
       IN  \/ /\ ~CanRead(headerEnd)
              /\ FailCheck
           \/ /\ CanRead(headerEnd)
              /\ ptr' = headerEnd
              /\ Subtract(msg.hdr[NextKid])
              /\ \/ /\ Fits(msg.hdr[NextKid])
                    /\ BeginGroup(NextKid)
                    /\ at' = NextKid
                    /\ next' = 1
                    /\ UNCHANGED phase
                 \/ /\ ~Fits(msg.hdr[NextKid])
                    /\ phase' = "stop"
                    /\ UNCHANGED <<at, next, groupBlockLength, saved>>
              /\ UNCHANGED args

\* Mutant: the length prefix is not counted.
BugDataBytes(d) == msg.block[d]

DataBytes(d) == msg.size[d]

\* The accessor moves the cursor over the data member and reads its length
\* for that; only then on_data subtracts.
OnData ==
    /\ AtKid("data")
    /\ LET lengthEnd == KidAddress + msg.hdr[NextKid]
       IN  \/ /\ ~CanRead(lengthEnd)
              /\ FailCheck
           \/ /\ CanRead(lengthEnd)
              /\ ptr' = KidAddress + msg.size[NextKid]
              /\ Subtract(DataBytes(NextKid))
              /\ next' = next + 1
              /\ phase' = IF Fits(DataBytes(NextKid)) THEN "visit" ELSE "stop"
              /\ UNCHANGED <<args, at, groupBlockLength, saved>>

-----------------------------------------------------------------------------
(* Entries of a group.                                                     *)

\* Mutant: nothing takes the cursor over an entry without members.
BugEntrySkip(e) == 0

\* What dereferencing the iterator adds to the cursor.
EntrySkip(e) == IF IsEmptyLevel(msg, e) THEN msg.block[e] ELSE 0

\* on_entry subtracts the block length of the group.
OnEntry ==
    /\ phase = "visit"
    /\ msg.kind[at] = "group"
    /\ next \in DOMAIN msg.kids[at]
    /\ LET e == msg.kids[at][next]
       IN  \/ /\ ~CanRead(ptr + EntrySkip(e))
              /\ FailCheck
           \/ /\ CanRead(ptr + EntrySkip(e))
              /\ ptr' = ptr + EntrySkip(e)
              /\ Subtract(groupBlockLength)
              /\ \/ /\ Fits(groupBlockLength)
                    /\ at' = e
                    /\ next' = 1
                    /\ UNCHANGED phase
                 \/ /\ ~Fits(groupBlockLength)
                    /\ phase' = "stop"
                    /\ UNCHANGED <<at, next>>
              /\ UNCHANGED <<args, groupBlockLength, saved>>

\* Mutant: the iterator is not advanced.
BugNextEntry == msg.index[at]

\* The position of the iterator after ++.
NextEntry == msg.index[at] + 1

EntryVisited ==
    /\ InLevel
    /\ msg.kind[at] = "entry"
    /\ next = FieldCount(msg, at) + KidCount(msg, at) + 1
    /\ at' = msg.parent[at]
    /\ next' = NextEntry
    /\ UNCHANGED <<args, phase, ptr, visitor>>

\* on_group returns: the block length of the enclosing group is back.
GroupVisited ==
    /\ phase = "visit"
    /\ msg.kind[at] = "group"
    /\ next = KidCount(msg, at) + 1
    /\ groupBlockLength' = saved[at]
    /\ IF at = view
       THEN phase' = "done" /\ UNCHANGED <<at, next>>
       ELSE /\ at' = msg.parent[at]
            /\ next' = FieldCount(msg, msg.parent[at]) + msg.index[at] + 1
            /\ UNCHANGED phase
    /\ UNCHANGED <<args, ptr, size, valid, saved>>

MessageVisited ==
    /\ InLevel
    /\ msg.kind[at] = "message"
    /\ next = FieldCount(msg, at) + KidCount(msg, at) + 1
    /\ phase' = "done"
    /\ UNCHANGED <<args, at, next, ptr, visitor>>

\* A visitor function has returned true: so does every one that called it.
Unwind ==
    /\ phase = "stop"
    /\ IF msg.kind[at] = "group" THEN groupBlockLength' = saved[at]
                                 ELSE UNCHANGED groupBlockLength
    /\ IF at = view THEN phase' = "done" /\ UNCHANGED at
                    ELSE at' = msg.parent[at] /\ UNCHANGED phase
    /\ UNCHANGED <<args, next, ptr, size, valid, saved>>

-----------------------------------------------------------------------------
Next ==
    \/ TooShortForHeader
    \/ OnMessage
    \/ OnViewedGroup
    \/ VisitField
    \/ OnGroup
    \/ OnData
    \/ OnEntry
    \/ EntryVisited
    \/ GroupVisited
    \/ MessageVisited
    \/ Unwind

\* One thread executes the function to its end.
Spec == Init /\ [][Next]_vars /\ WF_vars(Next)

-----------------------------------------------------------------------------
TypeOK ==
    /\ msg \in Messages /\ view \in Views(msg) /\ limit \in Limits /\ checked \in Builds
    /\ phase \in {"start", "visit", "stop", "done", "assert"}
    /\ at \in msg.nodes /\ msg.kind[at] # "data"
    /\ next \in 1 .. FieldCount(msg, at) + KidCount(msg, at) + 1
                \/ phase \in {"stop", "done"}
    /\ ptr \in Nat
    /\ size \in 0 .. limit /\ valid \in BOOLEAN
    /\ groupBlockLength \in Nat
    /\ saved \in [msg.nodes -> Nat]

\* The function answers for every buffer size whether the view fits and how
\* long it is, exactly as size_bytes would.
ResultIsExact ==
    phase = "done" =>
        /\ valid <=> msg.size[view] <= limit
        /\ valid => limit - size = msg.size[view]

\* Where the part of the view that has been subtracted so far ends.
Counted ==
    IF msg.kind[at] = "group" THEN KidStart(msg, at, next)
    ELSE IF next <= FieldCount(msg, at) THEN BlockEnd(msg, at)
    ELSE KidStart(msg, at, next - FieldCount(msg, at))

\* However deep groups are nested, an entry is measured by the blockLength of
\* its own group, and leaving a group brings back that of the enclosing one.
EntriesMeasuredByOwnGroup ==
    /\ phase = "visit" /\ msg.kind[at] = "group"
           => groupBlockLength = EntryBlock(at)
    /\ phase = "done" => groupBlockLength = 0

\* Where the cursor is in front of the next member of a level.  The accessor of
\* a group or data member that is the first member of all sets it, wherever it
\* was.
CursorInLevel ==
    IF next <= FieldCount(msg, at)
    THEN ptr = Level(msg, at) + FieldEnd(msg, at, next - 1)
    ELSE (next = 1 /\ KidCount(msg, at) > 0) \/ ptr = Counted

\* At every point of the visit exactly the bytes in front of the next child
\* have been subtracted, each of them once, and the cursor is where the next
\* member, field or entry is read: they are found where they are.
CursorStaysWithCount ==
    phase = "visit" =>
        /\ limit - size = Counted - msg.addr[view]
        /\ IF msg.kind[at] = "group" THEN ptr = Counted ELSE CursorInLevel

\* The function returns, whatever the headers in the buffer say.
Terminates == <>(phase \in {"done", "assert"})

\* A view that lies in the buffer as a whole is answered in a build with size
\* checks, too: wherever the visit is when it has read up to the buffer's last
\* byte, no accessor it calls looks further.  Except in a message of an older
\* version of the schema: the visit reads fields that its blocks do not have.
CompleteViewsAnswered ==
    /\ limit >= msg.size[view]
    /\ \A l \in Levels(msg) : FieldEnd(msg, l, FieldCount(msg, l)) <= msg.block[l]
    => phase # "assert"

-----------------------------------------------------------------------------
(* The visit as such.                                                      *)

\* The fields of node n of message m from the i-th on, as pairs.
FieldsFrom(m, n, i) ==
    [j \in 1 .. FieldCount(m, n) - i + 1 |-> <<n, i + j - 1>>]

\* Its groups and data members, or its entries, each with what is below it.
KidsFrom(m, below, n, i) ==
    LET kids == SubSeq(m.kids[n], i, KidCount(m, n))
    IN  FlattenSeq([k \in DOMAIN kids |-> <<kids[k]>> \o below[kids[k]]])

\* Both, counted together.
MembersFrom(m, below, n, i) ==
    FieldsFrom(m, n, i) \o KidsFrom(m, below, n, Larger(1, i - FieldCount(m, n)))

\* All that is visited below a node.
Below(m) ==
    LET below[n \in m.nodes] == MembersFrom(m, below, n, 1)
    IN  below

\* All that is visited behind a node, until the view v ends.
Behind(m, v) ==
    LET below == Below(m)
        behind[n \in m.nodes] ==
            IF n \in {v, m.root} THEN <<>>
            ELSE LET p == m.parent[n]
                 IN  MembersFrom(m, below, p, FieldCount(m, p) + m.index[n] + 1)
                         \o behind[p]
    IN  behind

\* All that is visited from the i-th member of n on.
VisitsFrom(n, i) == MembersFrom(msg, Below(msg), n, i) \o Behind(msg, view)[n]

Visit == INSTANCE Visit WITH
    left  <- IF phase \in {"start", "visit"}
             THEN VisitsFrom(at, next) ELSE <<>>,
    ended <- phase \in {"stop", "done", "assert"}

\* Generated visit_children and the visitor's own calls of it visit every
\* member of the view once, in schema order, entries in the order they have
\* in the buffer, until the visitor stops the visit or all are visited.
VisitsInSchemaOrder == Visit!Spec
=============================================================================
