---------------------------- MODULE MessageFields ----------------------------
(***************************************************************************)
(* The members of a block that have a fixed size, as accessors read and    *)
(* write them in the bytes of a buffer: numbers in the schema's byte order *)
(* whatever that of the host is, a set through a copy that the client      *)
(* holds, and arrays, whose elements are bytes.                            *)
(*                                                                         *)
(* A byte or a value is the set of its bits that are 1.  The build has     *)
(* assertions and size checks.                                             *)
(***************************************************************************)
EXTENDS Integers, Sequences, FiniteSetsExt

CONSTANTS
    ByteBits, IntBits,   \* bits of a byte and of an int
    SchemaOrder,         \* endian of the schema
    Hosts,               \* endian::native of the builds looked at
    Numbers, Arrays, Set,   \* members: numbers, arrays and one set
    Offset, Width,       \* of each member, in bytes
    BufferSize,          \* bytes of the buffer
    ViewSizes,           \* of the views given to it
    Inputs,              \* numbers written and compared with
    Null, MinValue, MaxValue,   \* of the numbers
    NullIsNaN,           \* the type is float or double and its null is NaN
    Choice,              \* indices of the set's choices
    Strings              \* sequences of bytes assigned to arrays

Bits(n) == 0 .. n * ByteBits - 1

\* x >> n, for x that is not negative.
ShiftRight(x, n) ==
    LET Rest[k \in Nat] == IF k = 0 THEN x ELSE Rest[k - 1] \div 2
    IN  Rest[n]

\* The bits that are 1 of a number of n bytes, and the number they are, bit
\* by bit from the most significant one.
Val(x, n) == {i \in Bits(n) : ShiftRight(x, i) % 2 = 1}

Num(v, n) ==
    LET top == n * ByteBits
        Upper[k \in Nat] ==
            IF k = 0 THEN 0 ELSE 2 * Upper[k - 1] + IF top - k \in v THEN 1 ELSE 0
    IN  Upper[top]

\* What the type of member m holds.
Holds(m, x) == x \in Nat /\ ShiftRight(x, Width[m] * ByteBits) = 0

Endian  == {"little", "big"}
Members == Numbers \cup Arrays \cup {Set}
Byte    == SUBSET (0 .. ByteBits - 1)
Nul     == {}

ASSUME OrderAssumption == SchemaOrder \in Endian /\ Hosts \subseteq Endian
ASSUME BitsAssumption == ByteBits \in Nat \ {0} /\ IntBits \in Nat \ {0}
ASSUME BuffersAssumption == BufferSize \in Nat /\ ViewSizes \subseteq Nat
ASSUME MembersAssumption ==
    /\ Numbers \cap Arrays = {} /\ Set \notin Numbers \cup Arrays
    /\ Offset \in [Members -> Nat] /\ Width \in [Members -> Nat \ {0}]
    /\ \A m \in Members : Offset[m] + Width[m] <= BufferSize
    /\ \A m, n \in Members : m # n => \/ Offset[m] + Width[m] <= Offset[n]
                                      \/ Offset[n] + Width[n] <= Offset[m]
ASSUME InputsAssumption == \A m \in Numbers, x \in Inputs : Holds(m, x)
ASSUME RangeAssumption == {Null, MinValue, MaxValue} \subseteq Int
ASSUME StringsAssumption == Strings \subseteq Seq(Byte)
ASSUME ChoiceAssumption == Choice \subseteq 0 .. Width[Set] * ByteBits - 1

VARIABLES
    bytes,   \* the buffer
    size,    \* of the view
    native, bitCast,  \* the build: byte order, SBEPP_HAS_BITCAST
    held,    \* the underlying value of the client's copy of the set
    answer,  \* the last call and its result
    status

build == <<size, native, bitCast>>
vars  == <<bytes, build, held, answer, status>>

-----------------------------------------------------------------------------
(* Primitive values.                                                       *)

\* The bits of v that are in its byte k, the least significant one being 0.
ByteOf(v, k) == {b \in 0 .. ByteBits - 1 : k * ByteBits + b \in v}

\* Memory as a value of n bytes, and a value as memory, on this host.
HostPlace(i, n) == IF native = "little" THEN i ELSE n - 1 - i

FromMemory(cells, n) ==
    {i \in Bits(n) : i % ByteBits \in cells[HostPlace(i \div ByteBits, n)]}

ToMemory(v, n) == [i \in 0 .. n - 1 |-> ByteOf(v, HostPlace(i, n))]

Reversed(cells, n) == [i \in 0 .. n - 1 |-> cells[n - 1 - i]]

\* Every byte of v masked and shifted to where it belongs.
Byteswap(v, n) ==
    UNION {{i + (n - 1 - 2 * k) * ByteBits : i \in v \cap (Bits(k + 1) \ Bits(k))} :
           k \in 0 .. n - 1}

GetPrimitive(cells, n) ==
    IF bitCast
    THEN FromMemory(IF SchemaOrder = native THEN cells ELSE Reversed(cells, n), n)
    ELSE IF SchemaOrder = native
         THEN FromMemory(cells, n) ELSE Byteswap(FromMemory(cells, n), n)

\* Mutant: without bit_cast values are written in the host's byte order.
BugPrimitiveBytes(v, n) ==
    IF bitCast /\ SchemaOrder # native
    THEN Reversed(ToMemory(v, n), n) ELSE ToMemory(v, n)

PrimitiveBytes(v, n) ==
    IF bitCast
    THEN IF SchemaOrder = native
         THEN ToMemory(v, n) ELSE Reversed(ToMemory(v, n), n)
    ELSE ToMemory(IF SchemaOrder # native THEN Byteswap(v, n) ELSE v, n)

-----------------------------------------------------------------------------
(* Optional numbers.                                                       *)

IsNull(n) == n = Null

\* val != null_value(), which is true for every val if null_value() is NaN.
HasValue(n) == NullIsNaN \/ ~IsNull(n)

ValueOr(n, default) == IF HasValue(n) THEN n ELSE default

InRange(n) == MinValue <= n /\ n <= MaxValue

Less(u, v)         == HasValue(v) /\ (~HasValue(u) \/ u < v)
LessOrEqual(u, v)  == ~HasValue(u) \/ (HasValue(v) /\ u <= v)
Greater(u, v)      == HasValue(u) /\ (~HasValue(v) \/ u > v)
GreaterOrEqual(u, v) == ~HasValue(v) \/ (HasValue(u) /\ u >= v)
Equal(u, v)        == u = v

\* operator<=>: the values if there are two, or whether there are any.
ThreeWay(u, v) ==
    LET Compared(x, y) == IF x < y THEN "less"
                          ELSE IF x > y THEN "greater" ELSE "equal"
        AsNumber(b) == IF b THEN 1 ELSE 0
    IN  IF HasValue(u) /\ HasValue(v) THEN Compared(u, v)
        ELSE Compared(AsNumber(HasValue(u)), AsNumber(HasValue(v)))

-----------------------------------------------------------------------------
(* Sets: operations on the underlying value, of Width[Set] bytes, and an   *)
(* int.                                                                    *)

SetBits == Bits(Width[Set])
Ints    == 0 .. IntBits - 1

\* An int as an operand: a wider value has it sign-extended.
Extended(x) ==
    IF IntBits - 1 \in x THEN x \cup {i \in SetBits : i >= IntBits} ELSE x

\* 1 << n and b << n as ints: undefined if n is not less than an int's width.
Shifted(b, n) ==
    IF n < IntBits THEN {IF b THEN {n} ELSE {}} ELSE SUBSET Ints

GetBit(v, n) == {v \cap Extended(x) # {} : x \in Shifted(TRUE, n)}

SetBit(v, n, b) ==
    UNION {{((v \cap Extended(Ints \ x)) \cup Extended(y)) \cap SetBits :
               x \in Shifted(TRUE, n)} : y \in Shifted(b, n)}

-----------------------------------------------------------------------------
(* Calls.                                                                  *)

Init ==
    /\ bytes = [p \in 0 .. BufferSize - 1 |-> {}]
    /\ size \in ViewSizes
    /\ native \in Hosts
    /\ bitCast \in BOOLEAN
    /\ held = {}
    /\ answer = <<"none", 0>>
    /\ status = "running"

\* Mutants: only the offset is checked; the last byte cannot be used.
BugFits(m)  == Offset[m] <= size
BugTight(m) == Offset[m] + Width[m] < size

\* SBEPP_SIZE_CHECK of member m.
Fits(m) == Offset[m] + Width[m] <= size

\* A failed assertion ends the program: member m has no room for needed bytes.
Fail(m, needed) ==
    /\ status' = "failed"
    /\ answer' = <<"failed", m, needed>>
    /\ UNCHANGED <<build, held>>

Answer(call, value) ==
    /\ answer' = <<call, value>>
    /\ UNCHANGED <<build, status>>

CellsOf(m) == [i \in 0 .. Width[m] - 1 |-> bytes[Offset[m] + i]]

\* bytes with cells, n of them, copied to offset at.
Overwritten(at, cells, n) ==
    [p \in DOMAIN bytes |->
        IF p - at \in 0 .. n - 1 THEN cells[p - at] ELSE bytes[p]]

Get(m)    == GetPrimitive(CellsOf(m), Width[m])
Put(m, v) == Overwritten(Offset[m], PrimitiveBytes(v, Width[m]), Width[m])

\* Whatever is asked of member m, it has to be within the view.
TooShort ==
    /\ \E m \in Members : ~Fits(m) /\ Fail(m, Width[m])
    /\ UNCHANGED bytes

\* The getter of a number, and what clients ask of the object it returns.
ReadNumber ==
    \E m \in Numbers :
        /\ Fits(m)
        /\ LET u == Num(Get(m), Width[m]) IN
           \/ Answer("get", u)
           \/ Answer("has_value", HasValue(u))
           \/ \E v \in Inputs : Answer("value_or", ValueOr(u, v))
           \/ Answer("in_range", InRange(u))
           \/ \E v \in Inputs : Answer("compare", ThreeWay(u, v))
           \/ \E v \in Inputs :
                  Answer("operators",
                         <<Equal(u, v), Less(u, v), LessOrEqual(u, v),
                           Greater(u, v), GreaterOrEqual(u, v)>>)
        /\ UNCHANGED <<bytes, held>>

WriteNumber ==
    \E m \in Numbers, v \in Inputs :
        /\ Fits(m)
        /\ bytes' = Put(m, Val(v, Width[m]))
        /\ Answer("set", v)
        /\ UNCHANGED held

\* The client's copy of the set is what the getter returns, or a new one.
CopySet ==
    /\ \/ Fits(Set) /\ held' = Get(Set)
       \/ held' = {}
    /\ Answer("copy", held')
    /\ UNCHANGED bytes

Choose(n, b) ==
    /\ held' \in SetBit(held, n, b)
    /\ Answer("choose", n)
    /\ UNCHANGED bytes

StoreSet ==
    /\ Fits(Set)
    /\ bytes' = Put(Set, held)
    /\ Answer("store", held)
    /\ UNCHANGED held

VisitSet ==
    /\ \E seen \in SUBSET Choice :
           /\ \A n \in Choice : (n \in seen) \in GetBit(held, n)
           /\ Answer("visit", seen)
    /\ UNCHANGED <<bytes, held>>

\* operator[], front() and back().
ReadElement ==
    \E a \in Arrays : \E pos \in 0 .. Width[a] :
        /\ Fits(a)
        /\ \/ pos < Width[a] /\ Answer("element", bytes[Offset[a] + pos])
           \/ pos >= Width[a] /\ Fail(a, pos + 1)
        /\ UNCHANGED <<bytes, held>>

WriteElement ==
    \E a \in Arrays, v \in Byte : \E pos \in 0 .. Width[a] - 1 :
        /\ Fits(a)
        /\ bytes' = [bytes EXCEPT ![Offset[a] + pos] = v]
        /\ Answer("put", v)
        /\ UNCHANGED held

\* strlen() at run time: the place memchr() finds, or size().
StrLen(a) ==
    LET nulls == {i \in 0 .. Width[a] - 1 : bytes[Offset[a] + i] = Nul}
    IN  IF nulls = {} THEN Width[a] ELSE Min(nulls)

\* strlen() in a constant expression goes on behind the array up to a null.
\* Clients are taken to ask for it only if the array has one.
StrLenConstant(a) ==
    Min({i \in 0 .. BufferSize - 1 - Offset[a] : bytes[Offset[a] + i] = Nul})

HasNull(a) == \E i \in 0 .. Width[a] - 1 : bytes[Offset[a] + i] = Nul

\* strlen_r(): from rend(), what is before the last element that is not null.
StrLenR(a) ==
    Max({0} \cup {i \in 1 .. Width[a] : bytes[Offset[a] + i - 1] # Nul})

MeasureString ==
    \E a \in Arrays :
        /\ Fits(a)
        /\ \/ Answer("strlen", StrLen(a))
           \/ HasNull(a) /\ Answer("strlen", StrLenConstant(a))
           \/ Answer("strlen_r", StrLenR(a))
        /\ UNCHANGED <<bytes, held>>

\* The elements set to null by pad() after n were written.
Padded(a, n, mode) ==
    IF mode = "all" THEN n .. Width[a] - 1
    ELSE IF mode = "single" /\ n # Width[a] THEN {n} ELSE {}

\* The elements of s copied to array a, and null elements after them.
Assign(a, s, mode) ==
    LET copied == Overwritten(Offset[a], [i \in 0 .. Len(s) - 1 |-> s[i + 1]], Len(s))
    IN  [p \in DOMAIN bytes |->
            IF p - Offset[a] \in Padded(a, Len(s), mode) THEN Nul ELSE copied[p]]

\* assign_string() of a null-terminated string, assign() of a list or of a
\* count, and fill(), which know how long s is before they copy it.
AssignMeasured(a, s, mode) ==
    /\ \/ /\ Len(s) <= Width[a]
          /\ bytes' = Assign(a, s, mode)
          /\ Answer("assign", Len(s))
       \/ /\ Len(s) > Width[a]
          /\ Fail(a, Len(s))
          /\ UNCHANGED bytes
    /\ UNCHANGED held

\* assign_string() and assign_range() of a range, and assign() of iterators:
\* elements are copied before the end of the copy is compared with end().
AssignRange(a, s, mode) ==
    /\ \/ /\ Len(s) <= Width[a]
          /\ bytes' = Assign(a, s, mode)
          /\ Answer("assign", Len(s))
       \/ /\ Len(s) > Width[a]
          /\ bytes' = Assign(a, s, "none")
          /\ Fail(a, Len(s))
    /\ UNCHANGED held

Terminated(s) == \A i \in DOMAIN s : s[i] # Nul

AssignArray ==
    \E a \in Arrays, s \in Strings, mode \in {"none", "single", "all"} :
        /\ Fits(a)
        /\ \/ (Terminated(s) \/ mode = "none") /\ AssignMeasured(a, s, mode)
           \/ AssignRange(a, s, mode)

Next ==
    /\ status = "running"
    /\ \/ TooShort
       \/ ReadNumber \/ WriteNumber
       \/ CopySet \/ StoreSet \/ VisitSet
       \/ \E n \in Choice, b \in BOOLEAN : Choose(n, b)
       \/ ReadElement \/ WriteElement \/ MeasureString
       \/ AssignArray

Spec == Init /\ [][Next]_vars

-----------------------------------------------------------------------------
(* Properties.                                                             *)

\* The buffer holds bytes, the client's copy of the set has its width.
TypeOK ==
    /\ bytes \in [0 .. BufferSize - 1 -> Byte]
    /\ size \in ViewSizes /\ native \in Hosts /\ bitCast \in BOOLEAN
    /\ held \subseteq SetBits
    /\ status \in {"running", "failed"}

\* The value of member m as the schema defines it, on whichever host.
WireValue(m) ==
    {i \in Bits(Width[m]) :
        LET k == i \div ByteBits
            p == IF SchemaOrder = "little" THEN k ELSE Width[m] - 1 - k
        IN  i % ByteBits \in bytes[Offset[m] + p]}

StoredNumbers == [m \in Numbers |-> Num(WireValue(m), Width[m])]
StoredArrays ==
    [a \in Arrays |-> [i \in 1 .. Width[a] |-> bytes[Offset[a] + i - 1]]]
StoredSet == WireValue(Set)

Store == INSTANCE FieldStore WITH
    Number  <- Inputs,
    Element <- Byte,
    numbers <- StoredNumbers,
    arrays  <- StoredArrays,
    choices <- StoredSet

\* Byte order, padding, the bit operations of sets, the null value of numbers
\* and offsets together keep members as variables of their own: whatever
\* is written to one is what is read from it, on every host and in both
\* implementations of primitive access, and no write reaches another.
MembersAreVariables == Store!Spec

\* Assertions fail when they have to, and only then: until one fails, no byte
\* behind the view's end and none between members is written, whatever is
\* assigned; and one fails only for a member that is not all in the view, for
\* an index behind its end or for more elements than it has.
\* (SBEPP_SIZE_CHECK, the assertions of static_array_ref, pad())
AssertsGuardMembers ==
    IF status = "running"
    THEN \A p \in DOMAIN bytes :
             \/ bytes[p] = {}
             \/ p < size /\ \E m \in Members :
                                p \in Offset[m] .. Offset[m] + Width[m] - 1
    ELSE LET m == answer[2]
         IN  Offset[m] + Width[m] > size \/ answer[3] > Width[m]

\* An object that holds its null value has no value.
NullHasNoValue ==
    (answer[1] = "has_value" /\ answer[2]) =>
        \E m \in Numbers : Num(WireValue(m), Width[m]) # Null

\* A choice changed to b is b, and the others are what they were.
ChoicesIndependent ==
    [][\A n \in Choice, b \in BOOLEAN : Choose(n, b) =>
          held' = IF b THEN held \cup {n} ELSE held \ {n}]_vars
=============================================================================
