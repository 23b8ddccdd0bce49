------------------------------ MODULE PatchMatch ------------------------------
(***************************************************************************)
(* match_patches of src/src/explore.rs: a patch's packet classes paired    *)
(* with those of another by how alike they look, the most alike first.     *)
(* The classes are numbers, in the order pool() gives them, and how alike  *)
(* two of them are, in hundredths, is anything at all.                     *)
(***************************************************************************)
EXTENDS Integers, FiniteSetsExt

CONSTANTS
  Target, Reference,   \* the classes of either patch
  Scores,              \* the similarities there are, of 0..100
  CONFIDENT_SCORE, CONFIDENT_MARGIN

ASSUME PatchAssumption ==
  /\ Target \subseteq Nat /\ Reference \subseteq Nat
  /\ Scores \subseteq 0 .. 100
  /\ CONFIDENT_SCORE \in 0 .. 100 /\ CONFIDENT_MARGIN \in 1 .. 100

VARIABLES
  score,      \* similarity, per pair of classes
  rest,       \* the pairs the loop has yet to come to
  taken_t, taken_r,
  matches     \* the Match records

patchPart == <<score, rest, taken_t, taken_r, matches>>

AllPairs == Target \X Reference

PatchStart == rest = AllPairs /\ taken_t = {} /\ taken_r = {} /\ matches = {}

PatchInit == score \in [AllPairs -> Scores] /\ PatchStart

\* sort_by is stable: pairs of the same score stay in the order they were made.
Earlier(p, q) == p[1] < q[1] \/ (p[1] = q[1] /\ p[2] < q[2])
Before(p, q)  == score[p] > score[q] \/ (score[p] = score[q] /\ Earlier(p, q))

FirstPair == CHOOSE p \in rest : \A q \in rest \ {p} : Before(p, q)

\* best_two: the best score of a target class and the best but one, equal if two
\* references share the best; 0 stands for a second there is not.
BestOf(t) == Max({score[<<t, r>>] : r \in Reference})

Mutant_SecondOf(t) == Max({0} \cup ({score[<<t, r>>] : r \in Reference} \ {BestOf(t)}))

SecondOf(t) ==
  LET best == CHOOSE r \in Reference : score[<<t, r>>] = BestOf(t)
  IN  Max({0} \cup {score[<<t, r>>] : r \in Reference \ {best}})

MatchOf(p) ==
  LET margin == BestOf(p[1]) - SecondOf(p[1]) IN
  [netid |-> p[1], reference |-> p[2], score |-> score[p], margin |-> margin,
   confident |-> /\ score[p] >= CONFIDENT_SCORE /\ margin >= CONFIDENT_MARGIN
                 /\ score[p] = BestOf(p[1])]

\* The target class is matched already.
TargetTaken == FirstPair[1] \in taken_t /\ UNCHANGED <<taken_t, taken_r, matches>>

Mutant_ReferenceTaken ==
  /\ FirstPair[1] \notin taken_t /\ FirstPair[2] \in taken_r
  /\ taken_t' = taken_t \cup {FirstPair[1]}
  /\ UNCHANGED <<taken_r, matches>>

\* The reference class is: the target class is given back.
ReferenceTaken ==
  /\ FirstPair[1] \notin taken_t /\ FirstPair[2] \in taken_r
  /\ UNCHANGED <<taken_t, taken_r, matches>>

MatchPair ==
  /\ FirstPair[1] \notin taken_t /\ FirstPair[2] \notin taken_r
  /\ taken_t' = taken_t \cup {FirstPair[1]} /\ taken_r' = taken_r \cup {FirstPair[2]}
  /\ matches' = matches \cup {MatchOf(FirstPair)}

PatchNext ==
  /\ rest # {} /\ rest' = rest \ {FirstPair} /\ UNCHANGED score
  /\ TargetTaken \/ ReferenceTaken \/ MatchPair

PatchSpec == PatchInit /\ [][PatchNext]_patchPart

-----------------------------------------------------------------------------
Abstract == INSTANCE BestFirst WITH matched <- {<<m.netid, m.reference>> : m \in matches}

\* Walking one sorted list of all pairs matches, each time, two classes neither
\* of which has a free class more like it: no early pair takes a class from a
\* later one that needed it more (explore.rs:470-472).
ImplementsBestFirst == Abstract!Spec

Alike(k, l) == \A t \in Target : score[<<t, k>>] = score[<<t, l>>]

\* A confident match has no runner-up within the margin, whether or not that
\* one was still free, and two references that look the same make every match
\* with either unconfident (explore.rs:483-499).
ConfidentIsAlone ==
  \A m \in matches : m.confident => \A r \in Reference \ {m.reference} :
    m.score - score[<<m.netid, r>>] >= CONFIDENT_MARGIN /\ ~ Alike(r, m.reference)
=============================================================================
