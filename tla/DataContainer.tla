---------------------------- MODULE DataContainer ----------------------------
(***************************************************************************)
(* What dynamic_array_ref promises: a data member is a sequence of values  *)
(* that can be resized, and has elements inserted, erased and replaced, as *)
(* with a std::vector, as long as the result has room in the buffer.  A    *)
(* call that does not fit, or whose iterators are not into the array,      *)
(* fails an assertion and is the last one.                                 *)
(***************************************************************************)
EXTENDS Integers, Sequences

CONSTANTS
    Value,    \* elements
    Inputs,   \* sequences of elements a client passes
    MaxSize,  \* max_size()
    Room      \* elements that fit between the length prefix and the view's end

VARIABLES content, call, status

vars == <<content, call, status>>

-----------------------------------------------------------------------------
(* Calls.  first and last are offsets from begin(), or a new size.         *)

Calls ==
    [op     : {"resize", "resize_default", "push_back", "pop_back", "erase",
               "erase_range", "insert", "insert_input", "assign_fill",
               "assign_copy", "assign_list"},
     first  : 0 .. MaxSize,
     last   : 0 .. MaxSize,
     values : Inputs]

NoCall == [op |-> "none", first |-> 0, last |-> 0, values |-> <<>>]

AtFront(c)  == c.first = 0 /\ c.last = 0
NoValues(c) == c.values = <<>>

\* Calls as they can be written: a range is not reversed and the result is no
\* longer than max_size().
Sensible(c, s) ==
    \/ c.op = "resize" /\ c.last = 0 /\ Len(c.values) = 1
    \/ c.op = "resize_default" /\ c.last = 0 /\ NoValues(c)
    \/ c.op = "push_back" /\ AtFront(c) /\ Len(c.values) = 1
           /\ Len(s) < MaxSize
    \/ c.op = "pop_back" /\ AtFront(c) /\ NoValues(c)
    \/ c.op = "erase" /\ c.last = 0 /\ NoValues(c)
    \/ c.op = "erase_range" /\ c.first <= c.last /\ NoValues(c)
    \/ c.op \in {"insert", "insert_input"} /\ c.last = 0
           /\ Len(s) + Len(c.values) <= MaxSize
    \/ c.op \in {"assign_fill", "assign_copy", "assign_list"} /\ AtFront(c)
           /\ Len(c.values) <= MaxSize

\* Iterators are into the array, and there is an element to remove.
InArray(c, s) ==
    /\ c.op = "pop_back" => s # <<>>
    /\ c.op = "erase" => c.first < Len(s)
    /\ c.op = "erase_range" => c.last <= Len(s)
    /\ c.op \in {"insert", "insert_input"} => c.first <= Len(s)

\* s with the elements from offset i up to offset j replaced by t.
Spliced(s, i, j, t) ==
    [x \in 1 .. Len(s) - (j - i) + Len(t) |->
        IF x <= i THEN s[x]
        ELSE IF x <= i + Len(t) THEN t[x - i]
        ELSE s[x - Len(t) + (j - i)]]

Copies(n, v) == [x \in 1 .. n |-> v]

\* s with n elements, the new ones being those of t.
Resized(s, n, t) ==
    IF n <= Len(s) THEN Spliced(s, n, Len(s), <<>>)
                   ELSE Spliced(s, Len(s), Len(s), t)

\* The contents a call may leave.  Default-initialized elements may be any.
Promised(c, s) ==
    CASE c.op = "resize" ->
             {Resized(s, c.first, Copies(c.first - Len(s), c.values[1]))}
      [] c.op = "resize_default" ->
             {Resized(s, c.first, t) : t \in [1 .. c.first - Len(s) -> Value]}
      [] c.op = "push_back" -> {Spliced(s, Len(s), Len(s), c.values)}
      [] c.op = "pop_back"  -> {Spliced(s, Len(s) - 1, Len(s), <<>>)}
      [] c.op = "erase"     -> {Spliced(s, c.first, c.first + 1, <<>>)}
      [] c.op = "erase_range" -> {Spliced(s, c.first, c.last, <<>>)}
      [] c.op \in {"insert", "insert_input"} ->
             {Spliced(s, c.first, c.first, c.values)}
      [] c.op \in {"assign_fill", "assign_copy", "assign_list"} -> {c.values}

-----------------------------------------------------------------------------
Init ==
    /\ content \in UNION {[1 .. n -> Value] : n \in 0 .. Room}
    /\ call = NoCall
    /\ status = "idle"

Invoke ==
    /\ status = "idle"
    /\ \E c \in Calls :
           /\ Sensible(c, content)
           /\ call' = c
    /\ status' = "busy"
    /\ UNCHANGED content

Answer ==
    /\ status = "busy"
    /\ InArray(call, content)
    /\ content' \in Promised(call, content)
    /\ Len(content') <= Room
    /\ call' = NoCall
    /\ status' = "idle"

Fail ==
    /\ status = "busy"
    /\ InArray(call, content) =>
           \A s \in Promised(call, content) : Len(s) > Room
    /\ status' = "failed"
    /\ UNCHANGED <<content, call>>

Next == Invoke \/ Answer \/ Fail

\* A call that has been made returns or fails; nobody has to make one.
Spec == Init /\ [][Next]_vars /\ WF_vars(Answer \/ Fail)
=============================================================================
