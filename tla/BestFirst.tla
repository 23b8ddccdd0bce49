------------------------------ MODULE BestFirst ------------------------------
(***************************************************************************)
(* What match_patches of src/src/explore.rs is after: a one-to-one match   *)
(* of two sets of classes that grows by a pair that is the best there is   *)
(* for both of its classes, until one set is used up.  In which order such *)
(* pairs come, and which of several equal ones, is left open.              *)
(***************************************************************************)
EXTENDS Integers

CONSTANTS
  Target, Reference    \* the classes of either patch

VARIABLES
  score,     \* similarity of a target class and a reference class
  matched    \* a set of pairs

vars == <<score, matched>>

Pairs == Target \X Reference
Free(p) == \A q \in matched : p[1] # q[1] /\ p[2] # q[2]
Rivals(p) == {q \in Pairs : Free(q) /\ (q[1] = p[1] \/ q[2] = p[2])}

Init == matched = {}

\* No free class is more like one of the two than the other is.
Match(p) ==
  /\ Free(p) /\ matched' = matched \cup {p}
  /\ \A q \in Rivals(p) : score[q] <= score[p]
  /\ UNCHANGED score

Next == \E p \in Pairs : Match(p)

Spec == Init /\ [][Next]_vars
=============================================================================
