----------------------------- MODULE FieldStore -----------------------------
(***************************************************************************)
(* What the accessors of a block promise: its members are variables of     *)
(* their own.  A number is read as it was written and compared as a value  *)
(* that may be null; a set is a set of choices, changed in a copy of it; a *)
(* fixed-size array is a sequence that strings are assigned to.            *)
(***************************************************************************)
EXTENDS Integers, Sequences

CONSTANTS
    Numbers,             \* members read and written as numbers
    Number,              \* their values
    Null,                \* the value that stands for none
    MinValue, MaxValue,  \* the range that in_range() checks
    Choice,              \* the choices of the set
    Arrays,              \* array members
    Element, Nul,        \* elements, and the one that ends a string
    Strings              \* what clients assign

VARIABLES
    numbers, arrays,  \* the values of the members
    choices,          \* the set as it is in the message
    held,             \* the copy of the set that the client holds
    answer,           \* the last call and its result
    status            \* "running", or "failed" after a failed assertion

members == <<numbers, arrays, choices>>
vars    == <<members, held, answer, status>>

-----------------------------------------------------------------------------
(* Optional values: null is before every other.                            *)

Order(u, v) ==
    IF u = v THEN "equal"
    ELSE IF u = Null \/ (v # Null /\ u < v) THEN "less"
    ELSE "greater"

\* What ==, <, <=, > and >= say of values in this order.
Operators(order) ==
    <<order = "equal", order = "less", order \in {"less", "equal"},
      order = "greater", order \in {"greater", "equal"}>>

(* Strings.                                                                *)

Modes == {"none", "single", "all"}

\* The array f after s was assigned to its first elements.
Assigned(f, s, mode) ==
    [i \in 1 .. Len(f) |->
        IF i <= Len(s) THEN s[i]
        ELSE IF mode = "all" \/ (mode = "single" /\ i = Len(s) + 1) THEN Nul
        ELSE f[i]]

\* How many elements are before the first null, and up to the last other.
StrLen(f)  == CHOOSE n \in 0 .. Len(f) :
                 /\ \A i \in 1 .. n : f[i] # Nul
                 /\ n < Len(f) => f[n + 1] = Nul
StrLenR(f) == CHOOSE n \in 0 .. Len(f) :
                 /\ \A i \in n + 1 .. Len(f) : f[i] = Nul
                 /\ n > 0 => f[n] # Nul

-----------------------------------------------------------------------------
Answers(call, value) ==
    /\ answer' = <<call, value>>
    /\ UNCHANGED <<members, held, status>>

ReadNumber ==
    \E m \in Numbers :
        \/ Answers("get", numbers[m])
        \/ Answers("has_value", numbers[m] # Null)
        \/ Answers("in_range", numbers[m] \in MinValue .. MaxValue)
        \/ \E v \in Number :
               \/ Answers("value_or", IF numbers[m] = Null THEN v ELSE numbers[m])
               \/ Answers("compare", Order(numbers[m], v))
               \/ Answers("operators", Operators(Order(numbers[m], v)))

WriteNumber ==
    \E m \in Numbers, v \in Number :
        /\ numbers' = [numbers EXCEPT ![m] = v]
        /\ answer' = <<"set", v>>
        /\ UNCHANGED <<arrays, choices, held, status>>

UseSet ==
    \/ \E h \in {choices, {}} :
           /\ held' = h
           /\ answer' = <<"copy", h>>
           /\ UNCHANGED <<members, status>>
    \/ \E n \in Choice : \E h \in {held \cup {n}, held \ {n}} :
           /\ held' = h
           /\ answer' = <<"choose", n>>
           /\ UNCHANGED <<members, status>>
    \/ /\ choices' = held
       /\ answer' = <<"store", held>>
       /\ UNCHANGED <<numbers, arrays, held, status>>
    \/ Answers("visit", held \cap Choice)

ReadArray ==
    \E a \in Arrays :
        \/ \E i \in 1 .. Len(arrays[a]) : Answers("element", arrays[a][i])
        \/ Answers("strlen", StrLen(arrays[a]))
        \/ Answers("strlen_r", StrLenR(arrays[a]))

\* Every assignment answers with the end of what it assigned.
AssignArray ==
    \E a \in Arrays, s \in Strings, mode \in Modes :
        /\ Len(s) <= Len(arrays[a])
        /\ arrays' = [arrays EXCEPT ![a] = Assigned(@, s, mode)]
        /\ answer' = <<"assign", Len(s)>>
        /\ UNCHANGED <<numbers, choices, held, status>>

SetElement ==
    \E a \in Arrays, v \in Element :
        /\ \E i \in 1 .. Len(arrays[a]) : arrays' = [arrays EXCEPT ![a][i] = v]
        /\ answer' = <<"put", v>>
        /\ UNCHANGED <<numbers, choices, held, status>>

\* A call that does not fit fails.  If a range is too long for its array the
\* members behind it are overwritten first.
Fail ==
    /\ status' = "failed"
    /\ answer'[1] = "failed"
    /\ UNCHANGED held
    /\ \/ UNCHANGED members
       \/ \E a \in Arrays, s \in Strings :
              /\ Len(s) > Len(arrays[a])
              /\ arrays'[a] = Assigned(arrays[a], s, "none")

Next ==
    /\ status = "running"
    /\ \/ ReadNumber \/ WriteNumber \/ UseSet
       \/ ReadArray \/ AssignArray \/ SetElement
       \/ Fail

Init ==
    /\ held = {}
    /\ answer = <<"none", 0>>
    /\ status = "running"

Spec == Init /\ [][Next]_vars
=============================================================================
