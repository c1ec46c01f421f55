--------------------------- MODULE MCFieldLayout ---------------------------
(***************************************************************************)
(* FieldLayout on every level of up to three fields with sizes 0..2 and    *)
(* custom offsets around the places where a check changes its mind, with   *)
(* offsets that wrap around at 8.                                          *)
(***************************************************************************)
EXTENDS FieldLayout

Located1(sizes, offsets) ==
    {[size |-> s, custom |-> c, offset |-> o, constant |-> FALSE] :
        s \in sizes, c \in {TRUE}, o \in offsets} \cup
    {[size |-> s, custom |-> FALSE, offset |-> 0, constant |-> FALSE] :
        s \in sizes}

Constant1 == [size |-> 2, custom |-> TRUE, offset |-> 0, constant |-> TRUE]

AField == Located1({0, 1, 2}, {0, 1, 2, 3, 7}) \cup {Constant1}
FewFields == Located1({0, 2}, {0, 3, 6}) \cup {Constant1}

FieldSeqs ==
    {<<>>} \cup {<<f>> : f \in AField} \cup {<<f, g>> : f, g \in AField}
    \cup {<<f, g, h>> : f, g, h \in FewFields}

Blocks == {[kind |-> "message", header |-> 1, has |-> FALSE, len |-> 0],
           [kind |-> "message", header |-> 1, has |-> TRUE,  len |-> 4],
           [kind |-> "entry",   header |-> 0, has |-> TRUE,  len |-> 2],
           [kind |-> "composite", header |-> 0, has |-> FALSE, len |-> 0]}

AllLevels ==
    {[kind |-> b.kind, header |-> b.header, hasBlockLength |-> b.has,
      blockLength |-> b.len, fields |-> fs] : b \in Blocks, fs \in FieldSeqs}
=============================================================================
