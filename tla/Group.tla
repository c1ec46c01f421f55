------------------------------- MODULE Group -------------------------------
(***************************************************************************)
(* flat_group_base and nested_group_base with their iterators and cursor   *)
(* ranges, in the arithmetic of the C++ types that the schema gives to     *)
(* numInGroup and blockLength, with their assertions and size checks.  A   *)
(* program calls their members; a call is one step that makes it and one   *)
(* that executes it, or several if there is a loop in it.                  *)
(*                                                                         *)
(* Addresses count from the start of the group and wrap around as pointers *)
(* do.  Signed overflow does not occur: no group has 2^(IntBits - 1) bytes.*)
(***************************************************************************)
EXTENDS Integers, Sequences

CONSTANTS
    IntBits, PtrBits,  \* widths of int and of pointers
    Dims,        \* group types: [index, block, flat], the widths of
                 \* numInGroup and blockLength, and whether entries have
                 \* neither groups nor data
    HeaderSize,  \* size of the dimension composite
    MaxCount,    \* bound on the number of entries
    MaxBlock,    \* bound on blockLength
    MaxExtra,    \* bound on what an entry of a nested group has behind it
    Rooms,       \* where the view of the group may end
    Liberties    \* what the program allows itself, see MayCall: "far",
                 \* "backward"

\* 2 to the power of bits.
TwoTo(bits) ==
    LET Power[k \in 0 .. bits] == IF k = 0 THEN 1 ELSE 2 * Power[k - 1]
    IN  Power[bits]

ASSUME WidthsAssumption ==
    IntBits \in Nat \ {0} /\ PtrBits \in Nat /\ IntBits < PtrBits
ASSUME BoundsAssumption == {HeaderSize, MaxCount, MaxBlock, MaxExtra} \subseteq Nat
ASSUME RoomsAssumption == Rooms \subseteq 0 .. TwoTo(PtrBits) - 1
ASSUME NoOverflowAssumption ==
    HeaderSize + MaxCount * (MaxBlock + MaxExtra) < TwoTo(IntBits - 1)
ASSUME DimsAssumption ==
    \A d \in Dims :
        /\ d.index \in Nat \ {0} /\ d.block \in Nat \ {0} /\ d.flat \in BOOLEAN
        /\ MaxCount < TwoTo(d.index) /\ MaxBlock < TwoTo(d.block)

VARIABLES
    dim,     \* one of Dims
    room,    \* where the view of the group ends
    block,   \* blockLength on the wire
    sizes,   \* the entries' sizes; their number is numInGroup on the wire
    kind,    \* the iterator: "none", "random_access", "forward", "cursor"
    ptr,     \* its pointer, or the cursor's
    index,   \* its index
    last,    \* the index of the end of the cursor range
    call,    \* the member called, with its arguments
    walk,    \* the loop of size_bytes(): its iterator and its sum
    answer,  \* what the last one has returned; 0 is nothing
    status   \* "idle", "busy", "failed"

group    == <<dim, room, block, sizes>>
iterator == <<kind, ptr, index, last>>
vars     == <<group, iterator, call, walk, answer, status>>

Count == Len(sizes)

Entries ==
    UNION {[1 .. n -> 0 .. MaxBlock + MaxExtra] : n \in 0 .. MaxCount}

Promise ==
    INSTANCE EntrySequence WITH nested <- ~dim.flat,
                                pos <- IF kind = "none" THEN -1 ELSE index

-----------------------------------------------------------------------------
(* C++ integers.                                                           *)

Type(bits, signed) == [bits |-> bits, signed |-> signed]

SizeType       == Type(dim.index, FALSE)
DifferenceType == Type(dim.index, TRUE)
BlockType      == Type(dim.block, FALSE)
Pointer        == Type(PtrBits, FALSE)

\* What is left of x in a variable of type t.
As(x, t) ==
    LET r == x % TwoTo(t.bits)
    IN  IF t.signed /\ r >= TwoTo(t.bits - 1) THEN r - TwoTo(t.bits) ELSE r

Promoted(t) == IF t.bits < IntBits THEN Type(IntBits, TRUE) ELSE t

\* The usual arithmetic conversions.
Common(t, u) ==
    LET p == Promoted(t)
        q == Promoted(u)
    IN  IF p.bits = q.bits THEN Type(p.bits, p.signed /\ q.signed)
        ELSE IF p.bits > q.bits THEN p ELSE q

\* n * block_length for an n of type t, added to a pointer or a std::size_t.
PlusEntries(address, n, t) ==
    As(address + As(n * block, Common(t, BlockType)), Pointer)

-----------------------------------------------------------------------------
(* Calls.                                                                  *)

Is(x, t) == As(x, t) = x

Args(op) ==
    CASE op \in {"plus", "minus", "at"} ->
             {n \in -MaxCount .. MaxCount : Is(n, DifferenceType)} \X {0}
      [] op \in {"resize", "subscript"} -> (0 .. MaxCount) \X {0}
      [] op = "subrange"                -> (0 .. MaxCount) \X (0 .. MaxCount)
      [] OTHER                          -> {<<0, 0>>}

\* By how many entries a call moves an iterator.
Step(op, n) ==
    CASE op \in {"plus", "at"}     -> n
      [] op = "minus"              -> -n
      [] op \in {"next", "read"}   -> 1
      [] op = "previous"           -> -1
      [] OTHER                     -> 0

OnGroup    == {"begin", "front", "size_bytes", "resize", "range", "subrange"}
OnFlat     == {"end", "subscript", "back"}
OnRandom   == {"next", "previous", "plus", "minus", "get", "at", "distance"}
OnForward  == {"next", "get"}
OnCursor   == {"read"}

\* The members the program may call now.
Members ==
    OnGroup \cup (IF dim.flat THEN OnFlat ELSE {})
    \cup (CASE kind = "random_access" -> OnRandom
            [] kind = "forward"       -> OnForward
            [] kind = "cursor"        -> OnCursor
            [] kind = "none"          -> {})

\* A position that difference_type has no value for.
Far(op, n) ==
    \/ op = "subscript" /\ ~Is(n, DifferenceType)
    \/ op = "minus" /\ ~Is(-n, DifferenceType)
    \/ op = "distance" /\ ~Is(index, DifferenceType)

\* A negative difference becomes an unsigned int.
Backward(op, n) ==
    /\ op \in {"plus", "minus", "at"} /\ Step(op, n) < 0
    /\ LET t == Common(DifferenceType, BlockType)
       IN  ~t.signed /\ t.bits < PtrBits

\* Iterators stay in the group, and are not dereferenced at its end.  The
\* cursor of a range is where the first entry is.
MayCall(op, n, m) ==
    /\ op \in {"next", "previous", "plus", "minus"} =>
           index + Step(op, n) \in 0 .. Count
    /\ op \in {"get", "at"} => index + Step(op, n) \in 0 .. Count - 1
    /\ op = "read" => index # last
    /\ op = "subrange" => \/ n = 0
                          \/ kind = "cursor" /\ n = index
    /\ "far" \notin Liberties => ~Far(op, n)
    /\ "backward" \notin Liberties => ~Backward(op, n)

Invoke ==
    /\ status = "idle"
    /\ \E op \in Members : \E a \in Args(op) :
           /\ MayCall(op, a[1], a[2])
           /\ call' = [op |-> op, n |-> a[1], m |-> a[2]]
    /\ status' = "busy"
    /\ UNCHANGED <<group, iterator, walk, answer>>

Called(op) == status = "busy" /\ call.op = op

NoWalk == [ptr |-> 0, index |-> -1, size |-> 0]

Done(value) ==
    /\ answer' = value
    /\ call' = Promise!NoCall
    /\ walk' = NoWalk
    /\ status' = "idle"

Fail ==
    /\ status' = "failed"
    /\ UNCHANGED <<group, iterator, call, walk, answer>>

-----------------------------------------------------------------------------
(* Groups.                                                                 *)

\* Mutant: the last byte of the view is not to be used.
BugHasRoom(p, n) == n < As(room - p, Pointer)

\* The size check of n bytes at p.  The difference to the end is made
\* unsigned: behind the end there seems to be room for anything.
HasRoom(p, n) == n <= As(room - p, Pointer)

\* Every member of a group reads its header, after a size check.
TruncatedHeader ==
    /\ status = "busy" /\ call.op \in OnGroup \cup OnFlat
    /\ ~HasRoom(0, HeaderSize)
    /\ Fail

CalledWithHeader(op) == Called(op) /\ HasRoom(0, HeaderSize)

\* size_bytes() of a flat group.
SizeBytes ==
    As(HeaderSize + As(Count * block, Common(SizeType, BlockType)), Pointer)

FlatSizeBytes ==
    /\ CalledWithHeader("size_bytes") /\ dim.flat
    /\ Done(SizeBytes)
    /\ UNCHANGED <<group, iterator>>

\* size_bytes() of a nested group goes from begin() to end().
StartWalk ==
    /\ CalledWithHeader("size_bytes") /\ ~dim.flat /\ walk = NoWalk
    /\ walk' = [ptr |-> HeaderSize, index |-> 0, size |-> HeaderSize]
    /\ UNCHANGED <<group, iterator, call, answer, status>>

\* It adds the size of an entry and increments, with the check in operator++.
\* The entry's own size_bytes() checks the headers in it, with the same result:
\* what does not fit ends the program.
WalkOver ==
    /\ status = "busy" /\ walk # NoWalk /\ walk.index # Count
    /\ LET n == sizes[walk.index + 1]
       IN  \/ ~HasRoom(walk.ptr, n) /\ Fail
           \/ /\ HasRoom(walk.ptr, n)
              /\ walk' = [ptr   |-> As(walk.ptr + n, Pointer),
                           index |-> As(walk.index + 1, SizeType),
                           size  |-> As(walk.size + n, Pointer)]
              /\ UNCHANGED <<group, iterator, call, answer, status>>

NestedSizeBytes ==
    /\ status = "busy" /\ walk # NoWalk /\ walk.index = Count
    /\ Done(walk.size)
    /\ UNCHANGED <<group, iterator>>

\* resize(), clear(), and fill_group_header, which sets blockLength as well.
\* The entries of a nested group are what its members make of them.
Resize ==
    /\ CalledWithHeader("resize")
    /\ block' \in {block, MaxBlock}
    /\ sizes' \in [1 .. call.n -> IF dim.flat THEN {block'}
                                  ELSE block' .. block' + MaxExtra]
    /\ kind' = "none" /\ ptr' = 0 /\ index' = 0 /\ last' = 0
    /\ Done(0)
    /\ UNCHANGED <<dim, room>>

\* end() of a nested group has no pointer: it is there to be compared.
Begin ==
    /\ CalledWithHeader("begin")
    /\ kind' = IF dim.flat THEN "random_access" ELSE "forward"
    /\ ptr' = HeaderSize
    /\ index' = 0 /\ last' = 0
    /\ Done(0)
    /\ UNCHANGED group

End ==
    /\ CalledWithHeader("end")
    /\ kind' = "random_access"
    /\ ptr' = SizeBytes
    /\ index' = Count /\ last' = 0
    /\ Done(0)
    /\ UNCHANGED group

\* Mutant: an index of size() passes.
BugHasEntry(pos) == pos <= Count

HasEntry(pos) == pos < Count

\* pos becomes a difference_type, the argument of operator+.
Subscript ==
    /\ CalledWithHeader("subscript")
    /\ \/ ~HasEntry(call.n) /\ Fail
       \/ /\ HasEntry(call.n)
          /\ Done(PlusEntries(HeaderSize, As(call.n, DifferenceType),
                              DifferenceType))
          /\ UNCHANGED <<group, iterator>>

Front ==
    /\ CalledWithHeader("front")
    /\ \/ ~HasEntry(0) /\ Fail
       \/ HasEntry(0) /\ Done(HeaderSize) /\ UNCHANGED <<group, iterator>>

Back ==
    /\ CalledWithHeader("back")
    /\ \/ ~HasEntry(0) /\ Fail
       \/ /\ HasEntry(0)
          /\ Done(As(SizeBytes - block, Pointer))
          /\ UNCHANGED <<group, iterator>>

-----------------------------------------------------------------------------
(* Iterators.                                                              *)

\* size_bytes() of the entry at ptr.
EntrySize == IF dim.flat THEN block ELSE sizes[index + 1]

\* Mutant: the size check knows nothing of groups and data of the entry.
BugIncrement ==
    /\ Called("next")
    /\ \/ ~HasRoom(ptr, block) /\ Fail
       \/ /\ HasRoom(ptr, block)
          /\ ptr' = As(ptr + block, Pointer)
          /\ index' = As(index + 1, SizeType)
          /\ Done(0)
          /\ UNCHANGED <<group, kind, last>>

Increment ==
    /\ Called("next")
    /\ \/ ~HasRoom(ptr, EntrySize) /\ Fail
       \/ /\ HasRoom(ptr, EntrySize)
          /\ ptr' = As(ptr + EntrySize, Pointer)
          /\ index' = As(index + 1, SizeType)
          /\ Done(0)
          /\ UNCHANGED <<group, kind, last>>

Decrement ==
    /\ Called("previous")
    /\ ptr' = As(ptr - block, Pointer)
    /\ index' = As(index - 1, SizeType)
    /\ Done(0)
    /\ UNCHANGED <<group, kind, last>>

\* operator+=, to which operator-= passes -n.
Advance ==
    /\ Called("plus") \/ Called("minus")
    /\ LET n == As(Step(call.op, call.n), DifferenceType)
       IN  /\ ptr' = PlusEntries(ptr, n, DifferenceType)
           /\ index' = As(index + n, SizeType)
    /\ Done(0)
    /\ UNCHANGED <<group, kind, last>>

Dereference ==
    /\ Called("get")
    /\ Done(ptr)
    /\ UNCHANGED <<group, iterator>>

DereferenceAt ==
    /\ Called("at")
    /\ Done(PlusEntries(ptr, call.n, DifferenceType))
    /\ UNCHANGED <<group, iterator>>

\* it - begin().
Distance ==
    /\ Called("distance")
    /\ Done(As(index - 0, DifferenceType))
    /\ UNCHANGED <<group, iterator>>

-----------------------------------------------------------------------------
(* Cursor ranges.  The program has taken the cursor from the accessor of   *)
(* the group, or uses the one that has read the entries before pos.        *)

StartRange(pos, n) ==
    /\ kind' = "cursor"
    /\ ptr' = IF pos = 0 THEN HeaderSize ELSE ptr
    /\ index' = pos
    /\ last' = As(pos + n, SizeType)
    /\ Done(0)
    /\ UNCHANGED group

CursorRange ==
    /\ CalledWithHeader("range")
    /\ StartRange(0, Count)

\* Mutant: all entries of the group are taken for the rest of it.
BugFitsRange(pos, n) == HasEntry(pos) /\ n <= Count

FitsRange(pos, n) == HasEntry(pos) /\ n <= Count - pos

CursorSubrange ==
    /\ CalledWithHeader("subrange")
    /\ \/ ~FitsRange(call.n, call.m) /\ Fail
       \/ FitsRange(call.n, call.m) /\ StartRange(call.n, call.m)

\* The program reads the whole entry with the cursor and increments.  Of an
\* entry that the view cuts off the accessors may fail, one of what is missing
\* or behind it, or pass: skipped ones and the rest of a block are not checked.
ReadEntry ==
    /\ Called("read")
    /\ \/ ptr + EntrySize > room /\ Fail
       \/ /\ ptr' = As(ptr + EntrySize, Pointer)
          /\ index' = As(index + 1, SizeType)
          /\ Done(0)
          /\ UNCHANGED <<group, kind, last>>

-----------------------------------------------------------------------------
Init ==
    /\ dim \in Dims
    /\ room \in Rooms
    /\ block \in 0 .. MaxBlock
    /\ sizes \in UNION {[1 .. n -> IF dim.flat THEN {block}
                                   ELSE block .. block + MaxExtra] :
                            n \in 0 .. MaxCount}
    /\ kind = "none" /\ ptr = 0 /\ index = 0 /\ last = 0
    /\ call = Promise!NoCall /\ walk = NoWalk
    /\ answer = 0
    /\ status = "idle"

Executes ==
    \/ TruncatedHeader
    \/ FlatSizeBytes \/ StartWalk \/ WalkOver \/ NestedSizeBytes \/ Resize \/ Begin \/ End \/ Subscript \/ Front \/ Back
    \/ Increment \/ Decrement \/ Advance
    \/ Dereference \/ DereferenceAt \/ Distance
    \/ CursorRange \/ CursorSubrange \/ ReadEntry

Next == Invoke \/ Executes

\* A call is executed to its end; nobody has to make one.
Spec == Init /\ [][Next]_vars /\ WF_vars(Executes)

-----------------------------------------------------------------------------
TypeOK ==
    /\ dim \in Dims /\ room \in Rooms
    /\ block \in 0 .. MaxBlock
    /\ sizes \in Entries
    /\ kind \in {"none", "random_access", "forward", "cursor"}
    /\ ptr \in 0 .. TwoTo(PtrBits) - 1
    /\ index \in 0 .. TwoTo(dim.index) - 1
    /\ last \in 0 .. TwoTo(dim.index) - 1
    /\ answer \in Int
    /\ status \in {"idle", "busy", "failed"}

\* Pointer and index of an iterator, which move apart from each other, are of
\* the same entry, so that iterators that compare equal give the same entry,
\* and a cursor range gives the entries it was made for and no others.  The sum
\* of the loop in size_bytes() leads to where its iterator is.
IteratorAtEntry ==
    /\ kind # "none" =>
           index \in 0 .. Count /\ ptr = Promise!EntryAt(sizes, index)
    /\ kind = "cursor" => index <= last /\ last <= Count
    /\ walk # NoWalk =>
           /\ walk.index \in 0 .. Count
           /\ walk.ptr = Promise!EntryAt(sizes, walk.index)
           /\ walk.size = walk.ptr

\* Members do what is promised whatever the types of numInGroup and
\* blockLength: find the entries, and fail their assertions and size checks when
\* they should.  The loop of size_bytes() ends, at the end of the last entry.
ImplementsEntries == Promise!Spec
=============================================================================
