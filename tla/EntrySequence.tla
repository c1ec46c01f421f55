--------------------------- MODULE EntrySequence ---------------------------
(***************************************************************************)
(* What a group promises: entries one after the other behind the group's   *)
(* header, in front of and between which an iterator moves, and failures   *)
(* where the view of the group ends.  Entries, differences and sizes are   *)
(* numbers without a width; addresses count from the start of the group.   *)
(***************************************************************************)
EXTENDS Integers, Sequences

CONSTANTS
    HeaderSize,  \* size of the dimension composite
    Rooms,       \* where the view of the group may end
    Entries      \* sequences of sizes the group's entries may have

VARIABLES
    nested,  \* whether entries have to be visited for the size of the group
    room,    \* where the view of the group ends
    sizes,   \* of every entry
    pos,     \* the iterator: an index, Nowhere if there is none
    call,    \* the member function called and its arguments
    answer,  \* what the last one has returned; 0 is nothing
    status   \* "idle", "busy", "failed"

vars == <<nested, room, sizes, pos, call, answer, status>>

Nowhere == -1

NoCall == [op |-> "none", n |-> 0, m |-> 0]

Count == Len(sizes)

\* The address of the entry with index i, where the group ends for the last.
EntryAt(s, i) ==
    LET At[k \in 0 .. i] ==
            IF k = 0 THEN HeaderSize ELSE At[k - 1] + s[k]
    IN  At[i]

-----------------------------------------------------------------------------
OfGroup ==
    {"begin", "end", "front", "back", "subscript", "size_bytes", "resize",
     "range", "subrange"}

\* Preconditions that a member function asserts, and that what it visits is in
\* the view: the header, the entry an iterator leaves, all of a nested group.
\* An iterator that is already behind the view's end is not stopped.
Passes(c) ==
    /\ c.op \in OfGroup => HeaderSize <= room
    /\ CASE c.op = "subscript"         -> c.n < Count
         [] c.op \in {"front", "back"} -> Count > 0
         [] c.op = "subrange"          -> c.n < Count /\ c.m <= Count - c.n
         [] c.op = "size_bytes"        -> nested => EntryAt(sizes, Count) <= room
         [] c.op = "next"              -> \/ EntryAt(sizes, pos + 1) <= room
                                          \/ EntryAt(sizes, pos) > room
         [] OTHER                      -> TRUE

\* Reading an entry that is not all in the view may fail, by what is read of it.
MayFail(c) == c.op = "read" /\ EntryAt(sizes, pos + 1) > room

\* Where the iterator is after a call.
Moved(c) ==
    CASE c.op = "begin"    -> 0
      [] c.op = "end"      -> Count
      [] c.op \in {"next", "read"} -> pos + 1
      [] c.op = "previous" -> pos - 1
      [] c.op = "plus"     -> pos + c.n
      [] c.op = "minus"    -> pos - c.n
      [] c.op \in {"range", "subrange"} -> c.n
      [] c.op = "resize"   -> Nowhere
      [] OTHER             -> pos

\* What a call returns: entries as their addresses.
Told(c) ==
    CASE c.op = "get"       -> EntryAt(sizes, pos)
      [] c.op = "at"        -> EntryAt(sizes, pos + c.n)
      [] c.op = "subscript" -> EntryAt(sizes, c.n)
      [] c.op = "front"     -> EntryAt(sizes, 0)
      [] c.op = "back"      -> EntryAt(sizes, Count - 1)
      [] c.op = "distance"  -> pos
      [] c.op = "size_bytes" -> EntryAt(sizes, Count)
      [] OTHER              -> 0

Init ==
    /\ nested \in BOOLEAN
    /\ room \in Rooms
    /\ sizes \in Entries
    /\ pos = Nowhere
    /\ call = NoCall
    /\ answer = 0
    /\ status = "idle"

Invoke ==
    /\ status = "idle"
    /\ call' # NoCall
    /\ status' = "busy"
    /\ UNCHANGED <<nested, room, sizes, pos, answer>>

Answer ==
    /\ status = "busy"
    /\ Passes(call)
    /\ IF call.op = "resize"
       THEN sizes' \in Entries /\ Len(sizes') = call.n
       ELSE sizes' = sizes
    /\ pos' = Moved(call)
    /\ answer' = Told(call)
    /\ call' = NoCall
    /\ status' = "idle"
    /\ UNCHANGED <<nested, room>>

Fail ==
    /\ status = "busy"
    /\ ~Passes(call) \/ MayFail(call)
    /\ status' = "failed"
    /\ UNCHANGED <<nested, room, sizes, pos, call, answer>>

Next == Invoke \/ Answer \/ Fail

\* A call that has been made returns or fails; nobody has to make one.
Spec == Init /\ [][Next]_vars /\ WF_vars(Answer \/ Fail)
=============================================================================
