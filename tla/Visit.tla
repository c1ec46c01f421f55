------------------------------- MODULE Visit -------------------------------
(***************************************************************************)
(* What visit and visit_children promise: the visitor is called for the    *)
(* members of a view, one after the other in an order that is known before *)
(* the visit, until a call returns true or no member is left.              *)
(***************************************************************************)
EXTENDS Sequences

VARIABLES
    left,  \* the members that have not been visited, in the order of the visit
    ended  \* the visit is over

vars == <<left, ended>>

Init == ended = FALSE

\* The next member is visited, by a visitor that wants to go on.
VisitNext ==
    /\ left # <<>>
    /\ left' = Tail(left)
    /\ UNCHANGED ended

\* The visitor has returned true, or does not visit children at all.
Stop ==
    /\ left' = <<>>
    /\ ended' = TRUE

Next == ~ended /\ (VisitNext \/ Stop)

Spec == Init /\ [][Next]_vars /\ WF_vars(Next)
=============================================================================
