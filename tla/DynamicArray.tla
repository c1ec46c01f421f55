---------------------------- MODULE DynamicArray ----------------------------
(***************************************************************************)
(* dynamic_array_ref: a data member in a buffer, a length prefix followed  *)
(* by elements.  Every modifying operation moves elements within the       *)
(* buffer, writes elements and sets the length, in an order of its own.    *)
(* The loops of std::copy, copy_backward and fill_n are run element by     *)
(* element.  The build has assertions and size checks.                     *)
(*                                                                         *)
(* The buffer behind the view's end is not modelled: writes to it have no  *)
(* effect.                                                                 *)
(***************************************************************************)
EXTENDS Integers, Sequences

CONSTANTS
    Value, Inputs, MaxSize, Room,
    Modulus,  \* 2^w values of the length prefix's type, size_type
    Client    \* "any": passes any iterators, into the array or not;
              \* "not_to_end": but erases no range that ends at end()

ASSUME InputsAssumption == Inputs \subseteq Seq(Value)
ASSUME SizesAssumption ==
    /\ Room \in Nat /\ MaxSize \in Nat /\ Modulus \in Nat
    /\ MaxSize < Modulus
ASSUME ClientAssumption == Client \in {"any", "not_to_end"}

VARIABLES
    mem, len,    \* the elements' memory up to the view's end, the prefix
    call,        \* the call being executed
    pc,
    move,        \* the range copied and where to
    put,         \* the values written and where
    final,       \* the new size if it is set last, or -1
    k,           \* iterations of the current loop
    taken,       \* elements taken from an input iterator
    old, oldLen  \* history: mem and len when the last call returned

buffer == <<mem, len>>
loop   == <<move, put, final, k>>
vars   == <<buffer, call, pc, loop, taken, old, oldLen>>

Elements(m, n) == [i \in 1 .. n |-> m[i]]

Container == INSTANCE DataContainer WITH
    content <- Elements(old, oldLen),
    status  <- IF pc \in {"idle", "failed"} THEN pc ELSE "busy"

-----------------------------------------------------------------------------
\* A size computed as an int and passed as a size_type.
Narrow(n) == n % Modulus

\* Mutant: the size check is off by one.
BugTight(n) == n < Room

\* SBEPP_SIZE_CHECK of the prefix and n elements.
Fits(n) == n <= Room

NoMove == [from |-> 0, to |-> 0, count |-> 0, backward |-> FALSE]
NoPut  == [at |-> 0, values |-> <<>>]

Fail ==
    /\ pc' = "failed"
    /\ UNCHANGED <<buffer, call, loop, taken, old, oldLen>>

\* Sets the size to n, then copies mv, writes pt and sets the size to fin.
Resize(n, mv, pt, fin) ==
    \/ /\ ~Fits(n)
       /\ Fail
    \/ /\ Fits(n)
       /\ len' = n
       /\ move' = mv /\ put' = pt /\ final' = fin
       /\ k' = 0
       /\ pc' = "move"
       /\ UNCHANGED <<mem, call, taken, old, oldLen>>

\* Copies mv, writes pt and sets the size to n.
ResizeLast(mv, pt, n) == Resize(len, mv, pt, n)

Init ==
    /\ mem \in [1 .. Room -> Value]
    /\ len \in 0 .. Room /\ len < Modulus
    /\ call = Container!NoCall
    /\ pc = "idle"
    /\ move = NoMove /\ put = NoPut /\ final = -1
    /\ k = 0 /\ taken = 0
    /\ old = mem /\ oldLen = len

-----------------------------------------------------------------------------
(* Calls and their first steps.                                            *)

MayCall(c) ==
    /\ Container!Sensible(c, Elements(mem, len))
    /\ Client = "not_to_end" => ~(c.op = "erase_range" /\ c.last = len)

Invoke ==
    /\ pc = "idle"
    /\ \E c \in Container!Calls :
           /\ MayCall(c)
           /\ call' = c
    /\ pc' = "begin"
    /\ UNCHANGED <<buffer, loop, taken, old, oldLen>>

Begin(ops) == pc = "begin" /\ call.op \in ops

\* resize(count), resize(count, value).
BeginResize ==
    /\ Begin({"resize"})
    /\ Resize(call.first, NoMove,
              [at |-> len,
               values |-> [i \in 1 .. call.first - len |-> call.values[1]]], -1)

\* resize(count, default_init), clear().
BeginResizeDefault ==
    /\ Begin({"resize_default"})
    /\ Resize(call.first, NoMove, NoPut, -1)

PushBack ==
    /\ Begin({"push_back"})
    /\ Resize(Narrow(len + 1), NoMove,
              [at |-> len, values |-> call.values], -1)

PopBack ==
    /\ Begin({"pop_back"})
    /\ \/ len = 0 /\ Fail
       \/ len # 0 /\ Resize(Narrow(len - 1), NoMove, NoPut, -1)

\* Mutant: the element at the end is left behind.
BugEraseMove(first, last) ==
    [from |-> last, to |-> first, count |-> len - last - 1, backward |-> FALSE]

EraseMove(first, last) ==
    [from |-> last, to |-> first, count |-> len - last, backward |-> FALSE]

\* Mutant: end() is taken for an element.
BugHasElementAt(i) == i <= len

HasElementAt(i) == i < len

EraseAt ==
    /\ Begin({"erase"})
    /\ \/ ~HasElementAt(call.first) /\ Fail
       \/ /\ HasElementAt(call.first)
          /\ ResizeLast(EraseMove(call.first, call.first + 1), NoPut,
                        Narrow(len - 1))

EraseRange ==
    /\ Begin({"erase_range"})
    /\ \/ ~HasElementAt(call.last) /\ Fail
       \/ /\ HasElementAt(call.last)
          /\ ResizeLast(EraseMove(call.first, call.last), NoPut,
                        Narrow(len - (call.last - call.first)))

\* Mutant: old_end is read after the array has been resized.
BugInsertMove(pos, n) ==
    [from |-> pos, to |-> pos + n, count |-> len + n - pos, backward |-> TRUE]

InsertMove(pos, n) ==
    [from |-> pos, to |-> pos + n, count |-> len - pos, backward |-> TRUE]

\* insert() of values at offset pos.
InsertValues(pos, values) ==
    \/ pos > len /\ Fail
    \/ /\ pos <= len
       /\ Resize(Narrow(len + Len(values)), InsertMove(pos, Len(values)),
                 [at |-> pos, values |-> values], -1)

\* insert() of a value, of copies of one, of a forward range or a list.
Insert ==
    /\ Begin({"insert"})
    /\ InsertValues(call.first, call.values)

\* insert() of an input range: its next element, if any, is inserted alone.
InsertInput ==
    /\ Begin({"insert_input"})
    /\ \/ call.first > len /\ Fail
       \/ /\ taken < Len(call.values)
          /\ InsertValues(call.first + taken, <<call.values[taken + 1]>>)
       \/ /\ taken = Len(call.values) /\ call.first <= len
          /\ ResizeLast(NoMove, NoPut, -1)

\* assign(count, value), assign_string().
AssignFill ==
    /\ Begin({"assign_fill"})
    /\ Resize(Narrow(Len(call.values)), NoMove,
              [at |-> 0, values |-> call.values], -1)

\* assign(first, last), assign_range(): nothing is checked before the copy.
AssignCopy ==
    /\ Begin({"assign_copy"})
    /\ ResizeLast(NoMove, [at |-> 0, values |-> call.values],
                  Narrow(Len(call.values)))

\* assign() of a list checks its size first.
AssignList ==
    /\ Begin({"assign_list"})
    /\ \/ ~Fits(Len(call.values)) /\ Fail
       \/ /\ Fits(Len(call.values))
          /\ ResizeLast(NoMove, [at |-> 0, values |-> call.values],
                        Narrow(Len(call.values)))

-----------------------------------------------------------------------------
(* The loops.                                                              *)

\* Mutant: std::copy where the ranges overlap the other way.
BugMoveIndex == k + 1

\* copy_backward starts at the end.
MoveIndex == IF move.backward THEN move.count - k ELSE k + 1

MoveElement ==
    /\ pc = "move"
    /\ k < move.count
    /\ mem' = [mem EXCEPT ![move.to + MoveIndex] = mem[move.from + MoveIndex]]
    /\ k' = k + 1
    /\ UNCHANGED <<len, call, pc, move, put, final, taken, old, oldLen>>

MoveDone ==
    /\ pc = "move"
    /\ k = move.count
    /\ pc' = "put"
    /\ k' = 0
    /\ UNCHANGED <<buffer, call, move, put, final, taken, old, oldLen>>

\* Elements are written by operator[], which asserts, or through iterators.
Asserted(i) == call.op \in {"resize", "push_back"} => i <= len

PutValue ==
    /\ pc = "put"
    /\ k < Len(put.values)
    /\ LET i == put.at + k + 1
       IN  \/ ~Asserted(i) /\ Fail
           \/ /\ Asserted(i)
              /\ mem' = IF i \in 1 .. Room
                        THEN [mem EXCEPT ![i] = put.values[k + 1]] ELSE mem
              /\ k' = k + 1
              /\ UNCHANGED <<len, call, pc, move, put, final, taken, old,
                             oldLen>>

PutDone == pc = "put" /\ k = Len(put.values)

\* The next element of the input range.
TakeNext ==
    /\ PutDone
    /\ call.op = "insert_input"
    /\ taken < Len(call.values)
    /\ taken' = taken + 1
    /\ pc' = "begin"
    /\ UNCHANGED <<buffer, call, loop, old, oldLen>>

\* The call returns, with the array it has left as the new old one.
Return ==
    /\ PutDone
    /\ call.op = "insert_input" => taken = Len(call.values)
    /\ \/ final >= 0 /\ ~Fits(final) /\ Fail
       \/ /\ final >= 0 => Fits(final)
          /\ len' = IF final >= 0 THEN final ELSE len
          /\ pc' = "idle"
          /\ call' = Container!NoCall
          /\ move' = NoMove /\ put' = NoPut /\ final' = -1
          /\ k' = 0 /\ taken' = 0
          /\ old' = mem /\ oldLen' = len'
          /\ UNCHANGED mem

-----------------------------------------------------------------------------
Begins ==
    \/ BeginResize \/ BeginResizeDefault
    \/ PushBack \/ PopBack
    \/ EraseAt \/ EraseRange
    \/ Insert \/ InsertInput
    \/ AssignFill \/ AssignCopy \/ AssignList

Loops == MoveElement \/ MoveDone \/ PutValue \/ TakeNext \/ Return

Next == Invoke \/ Begins \/ Loops

\* The thread that made a call executes it; nobody has to make one.
Spec == Init /\ [][Next]_vars /\ WF_vars(Begins \/ Loops)

-----------------------------------------------------------------------------
TypeOK ==
    /\ mem \in [1 .. Room -> Value]
    /\ len \in 0 .. Room /\ len < Modulus
    /\ call \in Container!Calls \cup {Container!NoCall}
    /\ pc \in {"idle", "begin", "move", "put", "failed"}
    /\ move \in [from : 0 .. Room, to : 0 .. Room, count : 0 .. Room,
                 backward : BOOLEAN]
    /\ put.at \in 0 .. Room /\ put.values \in Seq(Value)
    /\ final \in -1 .. Modulus - 1
    /\ k \in Nat /\ taken \in Nat
    /\ old \in [1 .. Room -> Value]
    /\ oldLen \in 0 .. Room

\* Seen by its caller every operation does to the sequence what the container
\* interface says, whatever order it moves and writes elements in; it fails
\* exactly if the result does not fit or an iterator is not into the array,
\* and every call ends.
ImplementsContainer == Container!Spec

\* An operation leaves the bytes behind the longer one of the old and the new
\* array alone: they belong to the data members that follow.
FollowingBytesKept ==
    [][\A i \in 1 .. Room :
           i > oldLen /\ i > oldLen' => old'[i] = old[i]]_vars

\* A call with an iterator outside of the array fails an assertion before it
\* changes anything; a legal one whose result has room fails none.
AssertsMisuseFirst ==
    \/ pc \in {"idle", "begin"}
    \/ IF Container!InArray(call, Elements(old, oldLen))
       THEN pc = "failed" =>
                \A s \in Container!Promised(call, Elements(old, oldLen)) :
                    Len(s) > Room
       ELSE pc = "failed" /\ mem = old /\ len = oldLen
=============================================================================
