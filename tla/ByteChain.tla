------------------------------ MODULE ByteChain ------------------------------
(***************************************************************************)
(* byte_chain of src/src/explore.rs and the two checks solve_waypoints of  *)
(* src/src/cli.rs makes of what it finds.  A coordinate's high byte rarely *)
(* changes, and then almost always by one, so that the payload bytes seen  *)
(* changing into one another lie in the order of the bytes they stand for. *)
(*                                                                         *)
(* A payload byte is named after the byte it stands for: a table is true   *)
(* where it is the identity.  The alphabet is a circle: a coordinate is    *)
(* signed and its high byte passes from 16_FF to 0.                        *)
(***************************************************************************)
EXTENDS Integers, FiniteSetsExt, Functions

CONSTANTS
  Alphabet,            \* 0..255
  CHAIN_MIN, WAYPOINT_MIN_AGREE,
  FlagCounts,          \* flags low bytes there are: waypoint counts, doubled
  MaxChanges           \* bound: times two bytes are seen changing into one another

Size == Cardinality(Alphabet)

ASSUME ChainAssumption ==
  /\ IsFiniteSet(Alphabet) /\ Alphabet = 0 .. Size - 1 /\ Size >= 5
  /\ CHAIN_MIN \in 2 .. MaxChanges /\ WAYPOINT_MIN_AGREE \in Nat \ {0}
  /\ FlagCounts \subseteq {2, 4, 6, 8, 10} \cap Alphabet

VARIABLES
  changes,   \* adjacent: times one byte was seen turning into another
  orient,    \* the flags high byte's second commonest value, {} if there is one only
  steps,     \* the anchor's neighbours yet to be tried
  chain,     \* the walk: its step, direction, end and table
  solved_chain

chainPart == <<changes, orient, steps, chain, solved_chain>>

Anchor == 0
Edges == {e \in SUBSET Alphabet : Cardinality(e) = 2}
Near(e) == \E b \in e : (b + 1) % Size \in e

\* Units walk, and now and then one is teleported.
SeenChanging == {f \in [Edges -> 0 .. MaxChanges] : \A e \in Edges : Near(e) \/ f[e] < CHAIN_MIN}

NoChain == [step |-> Anchor, going |-> "nowhere", cur |-> Anchor,
            value |-> 0, table |-> [p \in {Anchor} |-> Anchor]]

ChainStart == chain = NoChain /\ solved_chain = <<>>

\* The format allows 0 and 2 for the flags high byte, either may be commoner.
ChainInit ==
  /\ changes \in SeenChanging /\ orient \in {{}, {0}, {2}}
  /\ steps = {b \in Alphabet \ {Anchor} : changes[{Anchor, b}] > 0}
  /\ ChainStart

-----------------------------------------------------------------------------
Mutant_Strong_any(a, b) == a # b /\ changes[{a, b}] > 0

Strong(a, b) == a # b /\ changes[{a, b}] >= CHAIN_MIN

\* Bytes not in the chain that `from` changes into often enough and most often.
Onward(from) ==
  LET free == {b \in Alphabet \ Range(chain.table) : Strong(from, b)}
  IN  {b \in free : \A c \in free : changes[{from, c}] <= changes[{from, b}]}

\* The next step to try, strongest first; of equal ones a hash map's first.
NextStep == {b \in steps : \A c \in steps : changes[{Anchor, c}] <= changes[{Anchor, b}]}

\* Even the step has to be attested: if it is not there is only the way down.
Begin ==
  /\ chain.going = "nowhere" /\ solved_chain = <<>>
  /\ \E b \in NextStep :
       /\ steps' = steps \ {b}
       /\ chain' = IF Strong(Anchor, b)
            THEN [NoChain EXCEPT !.step = b, !.going = "up", !.cur = b, !.value = 1]
            ELSE [NoChain EXCEPT !.step = b, !.going = "turned"]
  /\ UNCHANGED <<changes, orient, solved_chain>>

\* A table that gives byte c the place v.
Placed(table, v, c) == [p \in DOMAIN table \cup {v} |-> IF p = v THEN c ELSE table[p]]

\* The byte reached gets its place, and the walk goes on or ends.
Walk ==
  /\ chain.going \in {"up", "down"}
  /\ LET up    == chain.going = "up"
         table == Placed(chain.table, chain.value, chain.cur)
         next  == Onward(chain.cur)
     IN  chain' \in IF next = {}
           THEN {[chain EXCEPT !.table = table, !.going = IF up THEN "turned" ELSE "over"]}
           ELSE {[chain EXCEPT !.table = table, !.cur = b,
                    !.value = (@ + IF up THEN 1 ELSE Size - 1) % Size] : b \in next}
  /\ UNCHANGED <<changes, orient, steps, solved_chain>>

\* Down from the anchor, by its strongest neighbour not in the chain yet.
TurnDown ==
  /\ chain.going = "turned"
  /\ chain' \in IF Onward(Anchor) = {} THEN {[chain EXCEPT !.going = "over"]}
       ELSE {[chain EXCEPT !.going = "down", !.cur = b,
                           !.value = Size - 1] : b \in Onward(Anchor)}
  /\ UNCHANGED <<changes, orient, steps, solved_chain>>

HasByte(p, c) == p \in DOMAIN chain.table /\ chain.table[p] = c

\* Check 1: the flags high byte's other value stands for 2.
Oriented == \E o \in orient : HasByte(2, o)

\* Check 2: the chain's small even bytes are flags low bytes, its 1 is not.
Agreeing == {p \in {2, 4, 6, 8, 10} : \E c \in FlagCounts : HasByte(p, c)}
Impossible == \E c \in FlagCounts : HasByte(1, c)

Check ==
  /\ chain.going = "over"
  /\ solved_chain' = IF /\ Oriented /\ ~ Impossible
                        /\ Cardinality(Agreeing) >= WAYPOINT_MIN_AGREE
                       THEN chain.table ELSE solved_chain
  /\ chain' = NoChain
  /\ UNCHANGED <<changes, orient, steps>>

ChainNext == Begin \/ Walk \/ TurnDown \/ Check

ChainSpec == ChainInit /\ [][ChainNext]_chainPart

-----------------------------------------------------------------------------
\* A table that passes both checks is true, whichever of the anchor's neighbours
\* was taken for the step up, wherever the chain was cut short and however often
\* the flags bytes were 0 or 2; and no byte is given to two places, although the
\* walks up and down meet on a circle (explore.rs:646-706, cli.rs:810-832).
ChainIsTrue ==
  /\ \A p \in DOMAIN solved_chain : solved_chain[p] = p
  /\ IsInjective(chain.table)
=============================================================================
