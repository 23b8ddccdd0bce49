------------------------------ MODULE Visibility ------------------------------
(***************************************************************************)
(* solve_visibility of src/src/explore.rs: which of a replay's classes     *)
(* tell that a champion comes into the other team's view or leaves it, and *)
(* what their payloads mean, from the blocks alone.                        *)
(*                                                                         *)
(* The server is not in src/.  It tells of every object that comes into    *)
(* view and of some that leave it, in a payload of one meaning per class;  *)
(* classes of other packets carry what they like.                          *)
(***************************************************************************)
EXTENDS Integers, FiniteSetsExt

CONSTANTS
  Order, Chaos,   \* the champions, by team
  Objects,        \* what else comes into view
  Enter, Leave,   \* the two classes
  Others,         \* other classes of the same outer form
  Payloads,
  MIN_LABELLED,   \* MIN_LABELLED
  MaxBlocks       \* bound: blocks

Champions == Order \cup Chaos
Classes == {Enter, Leave} \cup Others
Teams == {"order", "chaos"}

ASSUME VisibilityAssumption ==
  /\ Order \cap Chaos = {} /\ Champions \cap Objects = {}
  /\ Enter # Leave /\ {Enter, Leave} \cap Others = {}
  /\ Cardinality(Payloads) >= 2
  /\ MIN_LABELLED \in Nat /\ MaxBlocks \in Nat

VARIABLES
  meaning,       \* per class of the pair, the payload that stands for each team
  in_view,       \* the champions and objects in the other team's view
  blocks,        \* per class, f.netids[n].blocks
  params,        \* per class, f.netids[n].params: what its blocks have named
  votes,         \* per class, payload and team
  solved,        \* whether the walk over the replay is over
  out            \* the Solved records, {} before

visibilityPart == <<meaning, in_view, blocks, params, votes, solved, out>>

\* The team that gains or loses sight of the champion.
Other(c) == IF c \in Order THEN "chaos" ELSE "order"

Meanings == {m \in [Teams -> Payloads] : m["order"] # m["chaos"]}

VisibilityStart ==
  /\ in_view = {}
  /\ blocks = [n \in Classes |-> 0] /\ params = [n \in Classes |-> {}]
  /\ votes = [n \in Classes |-> [p \in Payloads |-> [t \in Teams |-> 0]]]
  /\ solved = FALSE /\ out = {}

VisibilityInit == meaning \in [{Enter, Leave} -> Meanings] /\ VisibilityStart

-----------------------------------------------------------------------------
(* The traffic, counted                                                    *)

\* A block of class n with payload p for object o.
Block(n, p, o) ==
  /\ ~ solved
  /\ blocks' = [blocks EXCEPT ![n] = @ + 1]
  /\ params' = [params EXCEPT ![n] = @ \cup {o}]
  /\ votes' = IF o \in Champions THEN [votes EXCEPT ![n][p][Other(o)] = @ + 1] ELSE votes
  /\ UNCHANGED <<meaning, solved, out>>

Watcher(o) == IF o \in Champions THEN {Other(o)} ELSE Teams

ComesIntoView(o) ==
  /\ o \notin in_view
  /\ \E t \in Watcher(o) : Block(Enter, meaning[Enter][t], o)
  /\ in_view' = in_view \cup {o}

LeavesView(o) ==
  /\ o \in in_view
  /\ \E t \in Watcher(o) : Block(Leave, meaning[Leave][t], o)
  /\ in_view' = in_view \ {o}

\* An object is destroyed in view: no block says so.
Destroyed(o) ==
  /\ ~ solved /\ o \in Objects \cap in_view
  /\ in_view' = in_view \ {o}
  /\ UNCHANGED <<meaning, blocks, params, votes, solved, out>>

OtherClass(n, p, o) == Block(n, p, o) /\ UNCHANGED in_view

-----------------------------------------------------------------------------
(* The solution                                                            *)

Votes(n, p) == votes[n][p]["order"] + votes[n][p]["chaos"]
Seen(n) == {p \in Payloads : Votes(n, p) > 0}

\* max_by_key over a hash map: either team when they are even.
Best(n, p) == {t \in Teams : \A u \in Teams : votes[n][p][u] <= votes[n][p][t]}

\* Classes of this outer form that name more units than there are champions.
Candidates == {n \in Classes : Cardinality(params[n]) > Cardinality(Champions)}

Mapping(n, team) == [p \in Seen(n) |-> team[n][p]]

Total(f) == MapThenSumSet(LAMBDA p : f[p], DOMAIN f)
Samples(n) == Total([p \in Payloads |-> Votes(n, p)])

\* The payloads that some labelled block gives to another team.
Exceptions(n, mapping) == {p \in Seen(n) : Votes(n, p) # votes[n][p][mapping[p]]}

Mutant_Kept_with_exceptions(n, mapping) ==
  /\ Cardinality(Seen(n)) >= 2
  /\ \A p, q \in Seen(n) : p # q => mapping[p] # mapping[q]
  /\ Samples(n) >= MIN_LABELLED

\* Payloads for different teams, and every labelled block agrees.
Kept(n, mapping) ==
  /\ Cardinality(Seen(n)) >= 2
  /\ \A p, q \in Seen(n) : p # q => mapping[p] # mapping[q]
  /\ Samples(n) >= MIN_LABELLED
  /\ Exceptions(n, mapping) = {}

\* Candidates with the most blocks; the last by number is taken to open windows.
Openers(ns) == {n \in ns : \A k \in ns : blocks[k] <= blocks[n]}

Solve ==
  /\ ~ solved /\ solved' = TRUE
  /\ IF Candidates = {} THEN out' = {}
     ELSE \E enter \in Openers(Candidates), team \in [Candidates -> [Payloads -> Teams]] :
       /\ \A n \in Candidates, p \in Payloads : team[n][p] \in Best(n, p)
       /\ out' = {[netid |-> n, mapping |-> Mapping(n, team), is_enter |-> n = enter] :
                    n \in {k \in Candidates : Kept(k, Mapping(k, team))}}
  /\ UNCHANGED <<meaning, in_view, blocks, params, votes>>

Sent == MapThenSumSet(LAMBDA n : blocks[n], Classes)

Traffic ==
  \/ \E o \in Champions \cup Objects : ComesIntoView(o) \/ LeavesView(o)
  \/ \E n \in Others, p \in Payloads, o \in Champions \cup Objects : OtherClass(n, p, o)

VisibilityNext ==
  \/ Sent < MaxBlocks /\ Traffic
  \/ \E o \in Objects : Destroyed(o)
  \/ Solve

VisibilitySpec == VisibilityInit /\ [][VisibilityNext]_visibilityPart

-----------------------------------------------------------------------------
Unequivocal(s) == \A p \in DOMAIN s.mapping :
  /\ \A t \in Teams \ {s.mapping[p]} : votes[s.netid][p][t] = 0
  /\ \A q \in DOMAIN s.mapping : s.mapping[p] = s.mapping[q] => p = q

EnterIsBusiest ==
  /\ Enter \in Candidates /\ blocks[Enter] > blocks[Leave]
  /\ \A n \in Others : blocks[n] < blocks[Enter]

\* A class of the pair is found exactly when champions of both teams have been
\* named often enough, and is read as the server means it; no payload of any
\* class that is reported ever stood for both teams, or two for the same: which
\* of two even votes a hash map names first decides nothing (explore.rs:819-842).
\* When something is still in view or was destroyed there, and no other class is
\* busier, the class that opens windows is the one that tells of objects coming
\* into view (explore.rs:803-812; by explore.rs:752-754 it is the first visibility
\* event that settles it, where the code takes the busiest candidate, also one it
\* refuses).
PairIsRead ==
  solved =>
    /\ \A s \in out : Unequivocal(s)
    /\ \A n \in {Enter, Leave} :
         /\ (\E s \in out : s.netid = n)
              <=> n \in Candidates /\ Seen(n) = {meaning[n][t] : t \in Teams} /\ Samples(n) >= MIN_LABELLED
         /\ \A s \in out : s.netid = n =>
              \A t \in Teams : s.mapping[meaning[n][t]] = t
    /\ EnterIsBusiest => \A s \in out : s.is_enter <=> s.netid = Enter
=============================================================================
