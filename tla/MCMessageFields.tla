-------------------------- MODULE MCMessageFields --------------------------
(***************************************************************************)
(* A block with a number of four bytes, a gap, an array that is followed   *)
(* by a set as wide as an int, and views that end behind and within it.    *)
(***************************************************************************)
EXTENDS MessageFields, TLC

FieldOffset == "number" :> 0 @@ "array" :> 5 @@ "set" :> 8
FieldWidth  == "number" :> 4 @@ "array" :> 3 @@ "set" :> 2

AllChoices == Bits(Width["set"])

\* Null-terminated ones, ones with a null, one that is too long.
SomeStrings ==
    {<<>>, <<{0}>>, <<{0}, {0}>>, <<{}, {0}>>, <<{0}, {}, {0}>>,
     <<{0}, {0}, {0}>>, <<{0}, {0}, {0}, {0}>>}

\* All but the answer, which no call depends on.
StateOfBlock ==
    <<bytes, build, held, status, IF status = "failed" THEN answer ELSE <<>> >>

\* A block with a set that is twice as wide as an int, one of whose choices is
\* the sign bit of an int, and little else.
WideOffset == "number" :> 0 @@ "array" :> 1 @@ "set" :> 2
WideWidth  == "number" :> 1 @@ "array" :> 1 @@ "set" :> 8
WideChoices == {0, IntBits - 1}
=============================================================================
