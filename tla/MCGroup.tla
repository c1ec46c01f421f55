------------------------------ MODULE MCGroup ------------------------------
(***************************************************************************)
(* Group with an int of six bits and pointers of ten, so that numInGroup   *)
(* and blockLength may be narrower than int, as wide as an int, and as     *)
(* wide as a pointer; five entries are more than half of what three bits   *)
(* count.                                                                  *)
(***************************************************************************)
EXTENDS Group

Flat == [flat : {TRUE}, index : {3}, block : {3, 6, 10}]
        \cup [flat : {TRUE}, index : {6}, block : {6}]
        \cup [flat : {TRUE}, index : {10}, block : {3, 10}]

Nested == [flat : {FALSE}, index : {3}, block : {3}]

AllDims == Flat \cup Nested
=============================================================================
