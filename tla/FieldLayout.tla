---------------------------- MODULE FieldLayout ----------------------------
(***************************************************************************)
(* sbeppc gives every field of a level (a message, a group entry or a      *)
(* composite) its offset, twice: sbe_schema_validator walks the fields,    *)
(* checks custom offsets and the custom blockLength and stores the offset  *)
(* used by normal accessors; messages_compiler walks them again and        *)
(* computes the offsets of the cursor accessors from scratch.              *)
(*                                                                         *)
(* All offsets are unsigned and wrap around at OffsetLimit (2^64).         *)
(***************************************************************************)
EXTENDS Integers, Sequences

CONSTANTS
    OffsetLimit,  \* one more than the greatest offset_t
    Schemas       \* the levels a schema may have; see IsLevel

(***************************************************************************)
(* A level: its kind, the size of the header in front of its block (0 for  *)
(* entries and composites), the custom blockLength if it has one, and its  *)
(* fields: the encoded size, the custom offset if given, constness.        *)
(***************************************************************************)
Numbers == 0 .. OffsetLimit - 1

Fields == [size : Numbers, custom : BOOLEAN, offset : Numbers,
           constant : BOOLEAN]

IsLevel(s) ==
    /\ s.kind \in {"message", "entry", "composite"}
    /\ s.header \in Numbers
    /\ s.kind # "message" => s.header = 0
    /\ s.hasBlockLength \in BOOLEAN
    /\ s.kind = "composite" => ~s.hasBlockLength
    /\ s.blockLength \in Numbers
    /\ s.fields \in Seq(Fields)

ASSUME OffsetLimitAssumption == OffsetLimit \in Nat \ {0}
ASSUME SchemasAssumption == \A s \in Schemas : IsLevel(s)

VARIABLES
    schema,   \* the level being processed
    phase,    \* "validate", "compile", "done"; "rejected": the validator
              \* reported the level
    i,        \* the field the current loop is at
    offset,   \* that loop's running offset
    placed,   \* field_context::level_offset or offset_in_composite
    block,    \* actual_block_length, or the composite's size
    normal,   \* offset in the normal accessor
    cursor,   \* offsets in the cursor accessor: relative, absolute, last
    before,   \* history: the validator's running offset before each field
    wrapped   \* history: some addition exceeded offset_t

vars == <<schema, phase, i, offset, placed, block, normal, cursor, before,
          wrapped>>

-----------------------------------------------------------------------------
Field(k)      == schema.fields[k]
Indices       == DOMAIN schema.fields
Located       == {k \in Indices : ~Field(k).constant}
IsLast(k)     == \A j \in Located : j <= k

\* Mutant: offsets are kept in a wider type than offset_t.
BugAddWide(a, b) == a + b

Add(a, b)      == (a + b) % OffsetLimit
Subtract(a, b) == (a - b) % OffsetLimit

\* Mutant: a custom offset may lie one byte below the running offset.
BugTooLow(k) == Field(k).custom /\ Field(k).offset + 1 < offset

\* "custom offset is less than minimum possible"
TooLow(k) == Field(k).custom /\ Field(k).offset < offset

\* Where field k goes.
Start(k) == IF Field(k).custom THEN Field(k).offset ELSE offset

Init ==
    /\ schema \in Schemas
    /\ phase = "validate"
    /\ i = 1
    /\ offset = 0
    /\ placed = [k \in Indices |-> 0]
    /\ block = 0
    /\ normal = [k \in Indices |-> 0]
    /\ cursor = [k \in Indices |-> [rel |-> 0, abs |-> 0, last |-> FALSE]]
    /\ before = [k \in 1 .. Len(schema.fields) + 1 |-> 0]
    /\ wrapped = FALSE

-----------------------------------------------------------------------------
(* The validator.                                                          *)

Untouched == UNCHANGED <<schema, block, normal, cursor>>

\* Constant fields are not in the block.
PassConstant ==
    /\ phase = "validate"
    /\ i \in Indices
    /\ Field(i).constant
    /\ i' = i + 1
    /\ before' = [before EXCEPT ![i + 1] = offset]
    /\ UNCHANGED <<phase, offset, placed, wrapped>>
    /\ Untouched

RejectOffset ==
    /\ phase = "validate"
    /\ i \in Located
    /\ TooLow(i)
    /\ phase' = "rejected"
    /\ UNCHANGED <<i, offset, placed, before, wrapped>>
    /\ Untouched

Place ==
    /\ phase = "validate"
    /\ i \in Located
    /\ ~TooLow(i)
    /\ placed' = [placed EXCEPT ![i] = Start(i)]
    /\ offset' = Add(Start(i), Field(i).size)
    /\ wrapped' = (wrapped \/ Start(i) + Field(i).size >= OffsetLimit)
    /\ before' = [before EXCEPT ![i + 1] = offset']
    /\ i' = i + 1
    /\ UNCHANGED phase
    /\ Untouched

\* Mutant: the custom blockLength is taken as it is.
BugBlockTooShort == FALSE

\* "custom `blockLength` is less than minimum possible"
BlockTooShort == schema.hasBlockLength /\ schema.blockLength < offset

FinishValidation ==
    /\ phase = "validate"
    /\ i \notin Indices
    /\ \/ /\ BlockTooShort
          /\ phase' = "rejected"
          /\ UNCHANGED <<block, i, offset>>
       \/ /\ ~BlockTooShort
          /\ block' = IF schema.hasBlockLength THEN schema.blockLength
                                               ELSE offset
          /\ phase' = "compile"
          /\ i' = 1
          /\ offset' = 0
    /\ UNCHANGED <<schema, placed, normal, cursor, before, wrapped>>

-----------------------------------------------------------------------------
(* The compiler.  Normal accessors take the offset the validator stored.   *)
(* Composites have no cursor accessors.                                    *)

Kept == UNCHANGED <<schema, placed, block, before, wrapped>>

\* Mutant: the compiler does not leave constant fields out of its walk.
BugWalkConstant ==
    /\ phase = "compile"
    /\ i \in Indices
    /\ Field(i).constant
    /\ i' = i + 1
    /\ offset' = Add(offset, Field(i).size)
    /\ UNCHANGED <<phase, normal, cursor>>
    /\ Kept

PassConstantAgain ==
    /\ phase = "compile"
    /\ i \in Indices
    /\ Field(i).constant
    /\ i' = i + 1
    /\ UNCHANGED <<phase, offset, normal, cursor>>
    /\ Kept

\* get_valid_offset throws, and the compiler ends here.
Throws ==
    /\ phase = "compile"
    /\ schema.kind # "composite"
    /\ i \in Located
    /\ TooLow(i)

\* Mutant: the relative offset is taken from the start of the block.
BugCursorOffsets(k) ==
    [rel  |-> Subtract(Start(k), 0),
     abs  |-> Add(Start(k), schema.header),
     last |-> IsLast(k)]

CursorOffsets(k) ==
    [rel  |-> Subtract(Start(k), offset),
     abs  |-> Add(Start(k), schema.header),
     last |-> IsLast(k)]

\* Mutant: the running offset stops at the start of the field.
BugEmit ==
    /\ phase = "compile"
    /\ schema.kind # "composite"
    /\ i \in Located
    /\ ~Throws
    /\ normal' = [normal EXCEPT ![i] = Add(placed[i], schema.header)]
    /\ cursor' = [cursor EXCEPT ![i] = CursorOffsets(i)]
    /\ offset' = Start(i)
    /\ i' = i + 1
    /\ UNCHANGED phase
    /\ Kept

Emit ==
    /\ phase = "compile"
    /\ schema.kind # "composite"
    /\ i \in Located
    /\ ~Throws
    /\ normal' = [normal EXCEPT ![i] = Add(placed[i], schema.header)]
    /\ cursor' = [cursor EXCEPT ![i] = CursorOffsets(i)]
    /\ offset' = Add(Start(i), Field(i).size)
    /\ i' = i + 1
    /\ UNCHANGED phase
    /\ Kept

EmitElement ==
    /\ phase = "compile"
    /\ schema.kind = "composite"
    /\ i \in Located
    /\ normal' = [normal EXCEPT ![i] = placed[i]]
    /\ i' = i + 1
    /\ UNCHANGED <<phase, offset, cursor>>
    /\ Kept

FinishCompilation ==
    /\ phase = "compile"
    /\ i \notin Indices
    /\ phase' = "done"
    /\ UNCHANGED <<i, offset, normal, cursor>>
    /\ Kept

Next ==
    \/ PassConstant
    \/ RejectOffset
    \/ Place
    \/ FinishValidation
    \/ PassConstantAgain
    \/ Emit
    \/ EmitElement
    \/ FinishCompilation

Spec == Init /\ [][Next]_vars

-----------------------------------------------------------------------------
CursorAccessors == [rel : Numbers, abs : Numbers, last : BOOLEAN]

TypeOK ==
    /\ schema \in Schemas
    /\ phase \in {"validate", "compile", "done", "rejected"}
    /\ i \in 1 .. Len(schema.fields) + 1
    /\ offset \in Numbers
    /\ placed \in [Indices -> Numbers]
    /\ block \in Numbers
    /\ normal \in [Indices -> Numbers]
    /\ cursor \in [Indices -> CursorAccessors]
    /\ before \in [1 .. Len(schema.fields) + 1 -> Numbers]
    /\ wrapped \in BOOLEAN

Accepted == phase \in {"compile", "done"}

\* The fields of an accepted level follow one another without overlap and
\* lie inside the block, whatever custom offsets and blockLength the schema
\* gives, unless an offset has wrapped around.
FieldsFillBlockInOrder ==
    Accepted /\ ~wrapped =>
        /\ \A k \in Located : placed[k] + Field(k).size <= block
        /\ \A j, k \in Located :
               j < k => placed[j] + Field(j).size <= placed[k]

\* Every offset that the validator has accepted is accepted again by the
\* compiler: the two walks never disagree on what is too low, not even when
\* offsets have wrapped around.
CompilerNeverThrows == ~Throws

\* "cursor-based and normal accessors return the same objects": the offset
\* that the cursor accessor asserts is the one the normal accessor uses.
CursorOffsetsAgree ==
    schema.kind # "composite" =>
        \A k \in Located :
            phase = "done" \/ (phase = "compile" /\ k < i)
                => cursor[k].abs = normal[k]

\* The end, from the start of the view, of the field before k: where the
\* cursor stands when field k comes next.
PreviousEnd(k) ==
    LET js == {j \in Located : j < k}
    IN  IF js = {} THEN schema.header
        ELSE LET j == CHOOSE n \in js : \A l \in js : l <= n
             IN  cursor[j].abs + Field(j).size

\* Adding the relative offset of a cursor accessor to the end of the field
\* before it gives the absolute offset, so that a cursor moved from field to
\* field never trips "Wrong cursor value"; only the last field of the level
\* is marked as the last.
CursorOffsetsChain ==
    phase = "done" /\ schema.kind # "composite" =>
        \A k \in Located :
            /\ Add(PreviousEnd(k), cursor[k].rel) = cursor[k].abs
            /\ cursor[k].last <=> \A j \in Located : j <= k

\* What a schema author means by a level being valid: the fields can be put
\* into the block in their order, custom offsets where they say.
HasLayout(s) ==
    LET F == {k \in DOMAIN s.fields : ~s.fields[k].constant}
    IN  \E at \in [F -> Numbers] :
            /\ \A k \in F :
                   /\ s.fields[k].custom => at[k] = s.fields[k].offset
                   /\ s.hasBlockLength =>
                          at[k] + s.fields[k].size <= s.blockLength
            /\ \A j, k \in F :
                   j < k => at[j] + s.fields[j].size <= at[k]

\* A level is reported exactly if no layout exists; wrapping aside.
RejectsExactly ==
    /\ phase = "rejected" => wrapped \/ ~HasLayout(schema)
    /\ Accepted => wrapped \/ HasLayout(schema)
=============================================================================
