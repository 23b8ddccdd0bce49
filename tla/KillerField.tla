----------------------------- MODULE KillerField -----------------------------
(***************************************************************************)
(* solve_killer of src/src/cli.rs and solve_netid_field of                 *)
(* src/src/explore.rs: which byte of the death packet names the killer,    *)
(* and which payload byte stands for which champion, from what             *)
(* end-of-game counters the payloads must account for.                     *)
(*                                                                         *)
(* A unit is its net id's first varint byte, and a payload byte is named   *)
(* after the byte it stands for: a table is true where it is the identity. *)
(* Of the payloads there is kept how often each byte stands at each        *)
(* distance from their end, which is all that counts() looks at.           *)
(***************************************************************************)
EXTENDS Integers, Sequences, FiniteSetsExt, Functions

CONSTANTS
  Games,           \* the replays, 1..n in the order of the command line
  Bytes,           \* first varint bytes
  Rosters,         \* the rosters there are: sets of Bytes
  Straddling,      \* those whose ids take varints of different lengths
  Fillers,         \* what payloads hold where the field is not
  TAIL_MAX, MIN_PREDICTIONS, FIELD_PRECISION,
  MaxDeaths        \* bound: deaths of a replay

ASSUME KillerAssumption ==
  /\ IsFiniteSet(Bytes) /\ IsFiniteSet(Games) /\ Games = 1 .. Cardinality(Games)
  /\ Straddling \subseteq Rosters /\ Rosters \subseteq SUBSET Bytes /\ Fillers \subseteq Bytes
  /\ TAIL_MAX \in Nat \ {0} /\ MIN_PREDICTIONS \in Nat \ {0}
  /\ FIELD_PRECISION \in 1 .. 100 /\ MaxDeaths \in Nat

VARIABLES
  true_tail,   \* bytes the class writes after the killer's net id
  roster,      \* per replay
  gives,       \* per replay, what can be had of it: "run", "counter" or "neither"
  killed,      \* per replay and byte, CHAMPIONS_KILLED of statsJson
  strangers,   \* per replay, the bytes of other units that killed a champion
  seen,        \* per replay, tail and byte, counts(payloads, position)
  killer       \* the solver

environment == <<true_tail, roster, gives, killed, strangers, seen>>
killerPart  == <<environment, killer>>

Tails == 0 .. TAIL_MAX - 1
NoField == [tail |-> TAIL_MAX, table |-> <<>>, right |-> 0, checked |-> 0]

Start(tail, todo) == [tail |-> tail, todo |-> todo, table |-> <<>>, before |-> 0, broken |-> FALSE]

KillerInit ==
  /\ true_tail \in Tails /\ roster \in [Games -> Rosters]
  /\ gives \in [Games -> {"run", "counter", "neither"}]
  /\ killed = [g \in Games |-> [b \in Bytes |-> 0]]
  /\ strangers = [g \in Games |-> {}]
  /\ seen = [g \in Games |-> [t \in Tails |-> [b \in Bytes |-> 0]]]
  /\ killer = [at |-> "recording", inputs |-> <<>>, timelines |-> <<>>,
               learn |-> Start(0, <<>>), best |-> NoField]

-----------------------------------------------------------------------------
(* The games                                                               *)

Deaths(g) == MapThenSumSet(LAMBDA b : seen[g][0][b], Bytes)

\* A death packet names unit k where the field is, and has `other` elsewhere.
Named(g, k, other) ==
  /\ killer.at = "recording" /\ gives[g] = "counter" /\ Deaths(g) < MaxDeaths
  /\ seen' = [seen EXCEPT ![g] = [t \in Tails |->
       [seen[g][t] EXCEPT ![IF t = true_tail THEN k ELSE other] = @ + 1]]]
  /\ UNCHANGED <<true_tail, roster, gives, killer>>

ChampionKills(g, k, other) ==
  /\ k \in roster[g] /\ Named(g, k, other)
  /\ killed' = [killed EXCEPT ![g][k] = @ + 1]
  /\ UNCHANGED strangers

\* A tower, a creep, a champion's pet: its id may begin with a champion's byte.
StrangerKills(g, k, other) ==
  /\ Named(g, k, other)
  /\ strangers' = [strangers EXCEPT ![g] = @ \cup {k}]
  /\ UNCHANGED killed

-----------------------------------------------------------------------------
(* What a replay forces                                                    *)

CipherOf(table, b) == CHOOSE c \in DOMAIN table : table[c] = b

\* The replay's own champions that the table does not explain.
Refuted(g, tail, table) == {b \in roster[g] \cap Range(table) :
                              seen[g][tail][CipherOf(table, b)] # killed[g][b]}

Taken(g, table) == {CipherOf(table, b) : b \in roster[g] \cap Range(table)}

OfCount(g, tail, table, n) == {c \in Bytes \ Taken(g, table) : seen[g][tail][c] = n}

\* One payload byte alone has this champion's count.
Only(g, tail, table, b) == Cardinality(OfCount(g, tail, table, killed[g][b])) = 1

\* The champions that get a byte, each with its own; none when two get the same.
Forced(g, tail, table) ==
  LET sure == {b \in roster[g] \ Range(table) : killed[g][b] # 0 /\ Only(g, tail, table, b)}
      pairs == [b \in sure |-> CHOOSE c \in Bytes : c \in OfCount(g, tail, table, killed[g][b])]
  IN  IF roster[g] \in Straddling \/ Refuted(g, tail, table) # {} \/ ~ IsInjective(pairs)
        THEN <<>> ELSE pairs

-----------------------------------------------------------------------------
(* The search                                                              *)

\* Some of the replays, in the order of the command line.
Numbered(some) ==
  [i \in 1 .. Cardinality(some) |-> CHOOSE g \in some : Cardinality({h \in some : h <= g}) = i]

\* A replay without CHAMPIONS_KILLED for every player is no input, but has its
\* timeline by then (cli.rs:949).
Collect ==
  /\ killer.at = "recording"
  /\ LET runs   == Numbered({g \in Games : gives[g] # "neither"})
         inputs == Numbered({g \in Games : gives[g] = "counter"})
     IN  killer' = [killer EXCEPT !.at = "learning", !.inputs = inputs,
           !.timelines = [i \in DOMAIN runs |-> [blocks |-> runs[i], kills |-> 0]],
           !.learn = Start(0, inputs)]
  /\ UNCHANGED environment

Learning == killer.at = "learning" /\ killer.learn.tail < TAIL_MAX

LearnFrom ==
  /\ Learning /\ killer.learn.todo # <<>> /\ ~ killer.learn.broken
  /\ LET l     == killer.learn
         pairs == Forced(Head(l.todo), l.tail, l.table)
         clash == \E b \in DOMAIN pairs : pairs[b] \in DOMAIN l.table
         more  == [c \in DOMAIN l.table \cup Range(pairs) |->
                     IF c \in DOMAIN l.table THEN l.table[c]
                     ELSE CHOOSE b \in DOMAIN pairs : pairs[b] = c]
     IN  killer' = [killer EXCEPT !.learn = [l EXCEPT !.todo = Tail(@),
                      !.broken = clash, !.table = IF clash THEN @ ELSE more]]
  /\ UNCHANGED environment

PassOver == Learning /\ (killer.learn.todo = <<>> \/ killer.learn.broken)

Mutant_Settled_at_once(l) == TRUE

Settled(l) == l.broken \/ Cardinality(DOMAIN l.table) = l.before

Mutant_NextPass_before_kept ==
  /\ PassOver /\ ~ Settled(killer.learn)
  /\ killer' = [killer EXCEPT !.learn.todo = killer.inputs]
  /\ UNCHANGED environment

NextPass ==
  /\ PassOver /\ ~ Settled(killer.learn)
  /\ killer' = [killer EXCEPT !.learn.todo = killer.inputs,
                              !.learn.before = Cardinality(DOMAIN killer.learn.table)]
  /\ UNCHANGED environment

\* Every input the table covers, and the champions it gets right there.
Covered(l) == {g \in Range(killer.inputs) :
                 roster[g] \notin Straddling /\ roster[g] \subseteq Range(l.table)}
Checked(l) == MapThenSumSet(LAMBDA g : Cardinality(roster[g]), Covered(l))
Right(l)   == Checked(l) -
  MapThenSumSet(LAMBDA g : Cardinality(Refuted(g, l.tail, l.table)), Covered(l))

Better(l) ==
  /\ ~ l.broken /\ Checked(l) >= MIN_PREDICTIONS
  /\ Right(l) * 100 >= Checked(l) * FIELD_PRECISION
  /\ \/ killer.best = NoField
     \/ Right(l) > killer.best.right
     \/ Right(l) = killer.best.right /\ Checked(l) > killer.best.checked

NextTail ==
  /\ PassOver /\ Settled(killer.learn)
  /\ LET l == killer.learn IN
     killer' = [killer EXCEPT
       !.best = IF Better(l) THEN [tail |-> l.tail, table |-> l.table,
                                   right |-> Right(l), checked |-> Checked(l)] ELSE @,
       !.learn = Start(l.tail + 1, killer.inputs)]
  /\ UNCHANGED environment

\* kills() of the i-th input goes to the i-th timeline, if there is a field.
Kills ==
  /\ killer.at = "learning" /\ ~ Learning
  /\ killer' = [killer EXCEPT !.at = "solved",
       !.timelines = IF killer.best = NoField THEN @
         ELSE [i \in DOMAIN @ |-> IF i \in DOMAIN killer.inputs
                                    THEN [@[i] EXCEPT !.kills = killer.inputs[i]] ELSE @[i]]]
  /\ UNCHANGED environment

Solve_killer == Collect \/ LearnFrom \/ NextPass \/ NextTail \/ Kills

KillerNext ==
  \/ \E g \in Games, k \in Bytes, other \in Fillers :
       ChampionKills(g, k, other) \/ StrangerKills(g, k, other)
  \/ Solve_killer

KillerSpec == KillerInit /\ [][KillerNext]_killerPart /\ WF_killerPart(Solve_killer)

-----------------------------------------------------------------------------
Clean == \A g \in Range(killer.inputs) : strangers[g] \cap roster[g] = {}

\* Where the field is, and as long as no other unit shares a champion's byte, only
\* true pairs are learned and none is ever refuted, although champions of the same
\* count cannot be told apart and are left to later passes; and whatever field is
\* reported has been learned to the end: no replay forces a pair that its table lacks
\* (explore.rs:998-1032, "Repeat until nothing new falls out", 1118-1160).
LearnedIsAll ==
  /\ Learning /\ killer.learn.tail = true_tail /\ Clean =>
       /\ ~ killer.learn.broken
       /\ \A c \in DOMAIN killer.learn.table : killer.learn.table[c] = c
  /\ killer.best = NoField \/ \A g \in Range(killer.inputs) :
       Forced(g, killer.best.tail, killer.best.table) = <<>>

\* The passes of every tail come to an end, whatever is confirmed and refuted
\* on the way (explore.rs:998-1032).
SearchEnds == <>(killer.at = "solved")

\* explore.rs:1218: "One replay's timeline", blocks and kills of the same game.
\* A replay skipped at cli.rs:956 has left its timeline behind.
OneReplayEach ==
  \A i \in DOMAIN killer.timelines : killer.timelines[i].kills \in {0, killer.timelines[i].blocks}
=============================================================================
