------------------------------- MODULE Cursor -------------------------------
(***************************************************************************)
(* sbepp::cursor and its wrappers over one message of a checked build      *)
(* (SBEPP_ASSERT and SBEPP_SIZE_CHECK are enabled; a failed one stops the  *)
(* program).                                                               *)
(*                                                                         *)
(* A cursor is one pointer.  A generated accessor knows two offsets of its *)
(* field: from the view's address and from the end of the previous field.  *)
(* Nothing records which member the cursor stands before; the client has   *)
(* to call the accessors in schema order.  The variables at and next say   *)
(* where that order has brought the client, the code has only ptr.         *)
(*                                                                         *)
(* The one call that asserts nothing about the cursor is the dereference   *)
(* of a cursor_range's iterator: it makes an entry view wherever the       *)
(* cursor is.  A view made where its entry is not is a stray; what its     *)
(* accessors find in the buffer belongs to other members.                  *)
(*                                                                         *)
(* Spec is a client that calls any accessor of any view at any time, of a  *)
(* stray too; InOrder are the calls that the documented order allows,      *)
(* InOrderSpec a client that makes no others.                              *)
(***************************************************************************)
EXTENDS MessageLayout

CONSTANTS
    Messages,   \* the message instances a behaviour may read
    Beyond      \* bound: how far behind the message the cursor may get

ASSUME MessagesAssumption == \A m \in Messages : IsMessage(m)
ASSUME BeyondAssumption == Beyond \in Nat

VARIABLES
    msg,     \* the message in the buffer
    ptr,     \* cursor::ptr
    at,      \* the level or group the client is in
    next,    \* the member of at (the entry of a group) that comes next
    stray,   \* "none"; "held": the client has a stray; "leads": making or
             \* using one was the last thing done with the cursor
    status   \* "ok" or "assert" (an assertion failed)

vars == <<msg, ptr, at, next, stray, status>>

Astray == stray = "leads"

-----------------------------------------------------------------------------
(* The five ways to pass a cursor to an accessor.                          *)

Ops           == {"plain", "init", "dont_move", "init_dont_move", "skip"}
MovingOps     == {"plain", "init", "skip"}
FromCursorOps == {"plain", "dont_move", "skip"}   \* they trust the cursor
InitOps       == {"init", "init_dont_move"}       \* they overwrite it

\* Mutant: end() of a cursor_range is its last entry.
BugLastEntry(n) ==
    IF msg.kind[n] = "group" THEN KidCount(msg, n)
    ELSE FieldCount(msg, n) + KidCount(msg, n) + 1

\* Position after the last member of a level, or the last entry of a group.
Last(n) ==
    IF msg.kind[n] = "group" THEN KidCount(msg, n) + 1
    ELSE FieldCount(msg, n) + KidCount(msg, n) + 1

Stop ==
    /\ status' = "assert"
    /\ UNCHANGED <<msg, ptr, at, next, stray>>

\* A call of a view of the message returns.
Go(p, n, k) ==
    /\ ptr' = p
    /\ at' = n
    /\ next' = k
    /\ stray' = IF Astray THEN "held" ELSE stray
    /\ UNCHANGED <<msg, status>>

\* The client leaves an entry or a group.  The cursor is not touched.
StepOut(n, k) ==
    /\ at' = n
    /\ next' = k
    /\ UNCHANGED <<msg, ptr, stray, status>>

-----------------------------------------------------------------------------
(* Fields.                                                                 *)

\* The address an accessor of field i of level l reads, and where the field is.
FieldRead(l, i, op) ==
    IF op \in FromCursorOps THEN ptr + msg.fields[l][i].rel
    ELSE msg.addr[l] + msg.fields[l][i].abs

FieldAddr(l, i) == msg.addr[l] + msg.fields[l][i].abs

\* Mutant: the last field moves the cursor like any other.
BugFieldLeavesBlockTail(l, i, op) ==
    IF op \notin MovingOps THEN FieldRead(l, i, op) - msg.fields[l][i].rel
    ELSE FieldRead(l, i, op) + msg.fields[l][i].size

\* The cursor after the call: the last field takes it over the whole block,
\* which may be longer than the schema's, the others to their own end.
FieldLeaves(l, i, op) ==
    IF op \notin MovingOps THEN FieldRead(l, i, op) - msg.fields[l][i].rel
    ELSE IF i = FieldCount(msg, l) THEN BlockEnd(msg, l)
    ELSE FieldRead(l, i, op) + msg.fields[l][i].size

\* Mutant: "Wrong cursor value" is not asserted.
BugFieldUnasserted(l, i, op) ==
    FieldRead(l, i, op) + msg.fields[l][i].size <= msg.end

FieldChecks(l, i, op) ==
    /\ FieldRead(l, i, op) = FieldAddr(l, i)
    /\ FieldRead(l, i, op) + msg.fields[l][i].size <= msg.end

CallField(l, i, op) ==
    /\ status = "ok"
    /\ i \in DOMAIN msg.fields[l]
    /\ \/ /\ ~FieldChecks(l, i, op)
          /\ Stop
       \/ /\ FieldChecks(l, i, op)
          /\ Go(FieldLeaves(l, i, op), l, IF op \in MovingOps THEN i + 1 ELSE i)

-----------------------------------------------------------------------------
(* Groups and data members.  The first of a level never looks at the       *)
(* cursor.                                                                 *)

KidRead(l, j, op) ==
    IF j = 1 THEN BlockEnd(msg, l)
    ELSE IF op \in FromCursorOps THEN ptr
    ELSE msg.addr[msg.kids[l][j]]

\* A group is left at the end of its dimension, where its entries begin,
\* unless it is skipped; data is always passed whole.
KidLeaves(l, j, op) ==
    LET k == msg.kids[l][j]
    IN  IF op \notin MovingOps THEN KidRead(l, j, op)
        ELSE IF op = "skip" \/ msg.kind[k] = "data"
             THEN KidRead(l, j, op) + msg.size[k]
        ELSE KidRead(l, j, op) + msg.hdr[k]

\* Mutant: "Wrong cursor value" is not asserted.
BugKidUnasserted(l, j, op) ==
    KidRead(l, j, op) + msg.hdr[msg.kids[l][j]] <= msg.end

KidChecks(l, j, op) ==
    /\ j # 1 => KidRead(l, j, op) = msg.addr[msg.kids[l][j]]
    /\ KidRead(l, j, op) + msg.hdr[msg.kids[l][j]] <= msg.end

CallKid(l, j, op) ==
    LET k      == msg.kids[l][j]
        before == FieldCount(msg, l) + j
    IN  /\ status = "ok"
        /\ j \in DOMAIN msg.kids[l]
        /\ \/ /\ ~KidChecks(l, j, op)
              /\ Stop
           \/ /\ KidChecks(l, j, op)
              /\ \/ /\ op \notin MovingOps
                    /\ Go(KidLeaves(l, j, op), l, before)
                 \/ /\ op \in MovingOps
                    /\ op = "skip" \/ msg.kind[k] = "data"
                    /\ Go(KidLeaves(l, j, op), l, before + 1)
                 \/ /\ op \in MovingOps \ {"skip"}
                    /\ msg.kind[k] = "group"
                    /\ Go(KidLeaves(l, j, op), k, 1)

-----------------------------------------------------------------------------
(* Iterating a cursor_range.  Dereferencing builds the entry wherever the  *)
(* cursor is; only the constructor made for entries without members moves  *)
(* it.  Incrementing changes the index alone.                              *)

\* Mutant: entries without members get no constructor of their own.
BugEntryStays(e) == ptr

EntryLeaves(e) == IF IsEmptyLevel(msg, e) THEN ptr + msg.block[e] ELSE ptr

\* The distance to the end is cast to an unsigned type: a cursor behind the
\* end passes.
EntryChecks(e) ==
    IsEmptyLevel(msg, e) => ptr > msg.end \/ ptr + msg.block[e] <= msg.end

\* *it, for the iterator at the i-th entry, whatever was done before.
EnterEntry(g, i) ==
    LET e == msg.kids[g][i]
    IN  /\ status = "ok"
        /\ i \in DOMAIN msg.kids[g]
        /\ \/ /\ ~EntryChecks(e)
              /\ Stop
           \/ /\ EntryChecks(e)
              /\ ptr = msg.addr[e]
              /\ Go(EntryLeaves(e), e, 1)
           \/ /\ EntryChecks(e)
              /\ ptr # msg.addr[e]
              /\ EntryLeaves(e) <= msg.end + Beyond
              /\ ptr' = EntryLeaves(e)
              /\ at' = e
              /\ next' = 1
              /\ stray' = "leads"
              /\ UNCHANGED <<msg, status>>

\* An accessor of a stray, or of a view that one returned: its offsets,
\* lengths and counts are whatever bytes are there.
CallStray ==
    /\ status = "ok"
    /\ stray # "none"
    /\ \/ Stop
       \/ /\ ptr' \in 0 .. msg.end + Beyond
          /\ stray' = "leads"
          /\ UNCHANGED <<msg, at, next, status>>

\* The client has passed all members of an entry: ++it.
NextEntry ==
    /\ status = "ok"
    /\ ~Astray
    /\ msg.kind[at] = "entry"
    /\ next = Last(at)
    /\ StepOut(msg.parent[at], msg.index[at] + 1)

\* it == end(): on to the member after the group.
LeaveGroup ==
    /\ status = "ok"
    /\ ~Astray
    /\ msg.kind[at] = "group"
    /\ next = Last(at)
    /\ LET l == msg.parent[at]
       IN  StepOut(l, FieldCount(msg, l) + msg.index[at] + 1)

\* init_cursor(view): right behind the view's header, if it has one.  Leaving
\* out entries without members: nothing would take the cursor over them.
InitCursor(n) ==
    /\ status = "ok"
    /\ msg.kind[n] # "data"
    /\ msg.kind[n] = "entry" => ~IsEmptyLevel(msg, n)
    /\ Go(Level(msg, n), n, 1)

-----------------------------------------------------------------------------
Init ==
    /\ msg \in Messages
    /\ ptr = Level(msg, msg.root)
    /\ at = msg.root
    /\ next = 1
    /\ stray = "none"
    /\ status = "ok"

\* The documented order: a member is accessed when it comes next; init and
\* init_dont_move may be used at any time on any view, and so may the first
\* group or data member of a level.
ComesNext(n, k) == at = n /\ next = k /\ ~Astray

InOrderField(l, i, op) == op \in InitOps \/ ComesNext(l, i)

InOrderKid(l, j, op) ==
    \/ op \in InitOps
    \/ j = 1
    \/ ComesNext(l, FieldCount(msg, l) + j)

InOrder ==
    \/ \E l \in Levels(msg), op \in Ops :
           \/ \E i \in DOMAIN msg.fields[l] :
                  InOrderField(l, i, op) /\ CallField(l, i, op)
           \/ \E j \in DOMAIN msg.kids[l] :
                  InOrderKid(l, j, op) /\ CallKid(l, j, op)
    \/ msg.kind[at] = "group" /\ ~Astray /\ EnterEntry(at, next)
    \/ NextEntry
    \/ LeaveGroup
    \/ \E n \in msg.nodes : InitCursor(n)

InOrderSpec == Init /\ [][InOrder]_vars

Next ==
    \/ \E l \in Levels(msg), op \in Ops :
           \/ \E i \in DOMAIN msg.fields[l] : CallField(l, i, op)
           \/ \E j \in DOMAIN msg.kids[l] : CallKid(l, j, op)
    \/ \E g \in {n \in msg.nodes : msg.kind[n] = "group"} :
           \E i \in DOMAIN msg.kids[g] : EnterEntry(g, i)
    \/ CallStray
    \/ NextEntry
    \/ LeaveGroup
    \/ \E n \in msg.nodes : InitCursor(n)

Spec == Init /\ [][Next]_vars

-----------------------------------------------------------------------------
TypeOK ==
    /\ msg \in Messages
    /\ ptr \in Int
    /\ at \in msg.nodes
    /\ msg.kind[at] # "data"
    /\ next \in 1 .. Last(at)
    /\ stray \in {"none", "held", "leads"}
    /\ status \in {"ok", "assert"}

\* Where the cursor has to be when the k-th member of n comes next: at the
\* end of the field before it, at the start of the group or data member, or
\* at the start of the entry.  Before the first group or data member of a
\* level without fields it may still be at the start of the block.
StandsBefore(m, n, k, p) ==
    \/ /\ m.kind[n] = "group"
       /\ p = KidStart(m, n, k)
    \/ /\ m.kind[n] \in LevelKinds
       /\ k <= FieldCount(m, n)
       /\ p = Level(m, n) + FieldEnd(m, n, k - 1)
    \/ /\ m.kind[n] \in LevelKinds
       /\ k > FieldCount(m, n)
       /\ p = KidStart(m, n, k - FieldCount(m, n))
    \/ /\ m.kind[n] \in LevelKinds
       /\ k = 1 /\ m.fields[n] = <<>> /\ m.kids[n] # <<>>
       /\ p = Level(m, n)

\* However the client got where it is, through plain calls, skips, entries,
\* a re-initialised cursor, or strays before: a call of a view of the message
\* that returns leaves the cursor exactly at the member that comes next, which
\* is doc/representation.md's rules for moving a cursor, all at once.  "Wrong
\* cursor value" catches every such call out of order, and every such call
\* with a cursor that a stray has left somewhere.  What nothing catches is a
\* dereference out of place and the calls on the stray it makes: between them
\* and the next call on a view of the message, the cursor may be anywhere.
CursorFollowsClient == ~Astray => StandsBefore(msg, at, next, ptr)

\* From wherever the client has got by calls in any order, the calls that the
\* documented order allows fail neither "Wrong cursor value" nor a size check
\* in a buffer that holds the message.
InOrderNeverAsserts == [][status' = "assert" => ~InOrder]_vars

\* "cursor-based and normal accessors return the same objects": an entry of a
\* cursor_range iterated in order is the entry that random access finds, so
\* that only a dereference out of order makes a stray.
CursorAndNormalEntriesAgree == [][Astray' => ~InOrder]_vars

\* Once the client has passed the last member of a message, size_bytes(m, c)
\* is what size_bytes(m) computes from the whole tree.
SizeFromCursor ==
    at = msg.root /\ next = Last(at) /\ ~Astray
        => ptr - msg.addr[msg.root] = msg.size[msg.root]
=============================================================================
