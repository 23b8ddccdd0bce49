----------------------------- MODULE Fingerprint -----------------------------
(***************************************************************************)
(* What a packet class looks like from outside its payloads, in            *)
(* src/src/explore.rs: framing counts a replay's blocks of the class,      *)
(* fingerprints sums them up when the replay is read, and pool makes one   *)
(* fingerprint of those of several replays, to be compared with another    *)
(* patch's.                                                                *)
(*                                                                         *)
(* One class is looked at.  A share is a pair, of a count and what it is   *)
(* counted in; how traffic is spread over the minutes and over byte values *)
(* is left out; over minutes, pool keeps that of the first replay, although*)
(* it says that every feature is merged (explore.rs:1614).                 *)
(***************************************************************************)
EXTENDS Integers, Sequences, FiniteSetsExt

CONSTANTS
  Lengths,               \* payload lengths
  Units, ChampionIds,    \* entity ids, and those champion_run has found
  LENGTH_CAP,
  Stamps,                \* times
  MaxPrints, MaxSeen     \* bounds: replays, blocks of the class

ASSUME FingerprintAssumption ==
  /\ Lengths \subseteq Nat \ {0} /\ Stamps \subseteq Nat /\ ChampionIds \subseteq Units
  /\ LENGTH_CAP \in Nat \ {0, 1, 2} /\ MaxPrints \in Nat /\ MaxSeen \in Nat

VARIABLES
  class,     \* the NetId record of the replay that is read
  prints,    \* the fingerprints of replays that had the class
  had,       \* what was there: blocks, global, lengths, first and last over all
  fingerprint     \* the pool's fingerprint, <<>> before

fingerprintPart == <<class, prints, had, fingerprint>>

NoBlocks == [blocks |-> 0, global |-> 0, params |-> {}, lengths |-> {}, first |-> 0, last |-> 0]
NothingHad == [blocks |-> 0, global |-> 0, lengths |-> {}, times |-> {}]

FingerprintInit == class = NoBlocks /\ prints = <<>> /\ had = NothingHad /\ fingerprint = <<>>

-----------------------------------------------------------------------------
(* framing *)

Game == {}   \* a `param` that is no entity's

\* A length is kept while there is room.
KeptLengths(len) ==
  IF Cardinality(class.lengths) < LENGTH_CAP THEN class.lengths \cup {len} ELSE class.lengths

ClassBlock(len, param, t) ==
  /\ fingerprint = <<>> /\ had.blocks < MaxSeen /\ Len(prints) < MaxPrints
  /\ class.blocks > 0 => t >= class.last
  /\ class' = [blocks  |-> class.blocks + 1,
               global  |-> class.global + IF param = Game THEN 1 ELSE 0,
               params  |-> class.params \cup param,
               lengths |-> KeptLengths(len),
               first   |-> IF class.blocks = 0 THEN t ELSE class.first,
               last    |-> t]
  /\ had' = [blocks  |-> had.blocks + 1,
             global  |-> had.global + IF param = Game THEN 1 ELSE 0,
             lengths |-> had.lengths \cup {len},
             times   |-> had.times \cup {t}]
  /\ UNCHANGED <<prints, fingerprint>>

-----------------------------------------------------------------------------
(* fingerprints *)

\* Length: every size while they are few, otherwise the least and the greatest.
Listed(sizes)   == [listed |-> TRUE, sizes |-> sizes]
Variable(sizes) == [listed |-> FALSE, sizes |-> {Min(sizes), Max(sizes)}]
LengthOf(sizes) == IF Cardinality(sizes) < LENGTH_CAP THEN Listed(sizes) ELSE Variable(sizes)

AtLeastOne(n) == Max({n, 1})

ClassEnd ==
  /\ fingerprint = <<>> /\ class.blocks > 0
  /\ prints' = Append(prints,
       [blocks |-> class.blocks, length |-> LengthOf(class.lengths),
        global_share   |-> <<class.global, class.blocks>>,
        entities       |-> Cardinality(class.params),
        champion_share |-> <<Cardinality(class.params \cap ChampionIds),
                             AtLeastOne(Cardinality(class.params))>>,
        first |-> class.first, last |-> class.last])
  /\ class' = NoBlocks
  /\ UNCHANGED <<had, fingerprint>>

-----------------------------------------------------------------------------
(* pool *)

\* Shares weighted by the blocks they were measured on.
Mix(a, w, b, v) == <<a[1] * b[2] * w + b[1] * a[2] * v, a[2] * b[2] * (w + v)>>

Mutant_Mixed_weighs_too_late(have, p) ==
  [have EXCEPT !.blocks = @ + p.blocks,
     !.global_share   = Mix(@, have.blocks + p.blocks, p.global_share, p.blocks),
     !.champion_share = Mix(@, have.blocks + p.blocks, p.champion_share, p.blocks),
     !.entities = Max({@, p.entities}),
     !.first = Min({@, p.first}), !.last = Max({@, p.last})]

\* Proportions are mixed, extremes kept, blocks added.
Mixed(have, p) ==
  [have EXCEPT !.blocks = @ + p.blocks,
     !.global_share   = Mix(@, have.blocks, p.global_share, p.blocks),
     !.champion_share = Mix(@, have.blocks, p.champion_share, p.blocks),
     !.entities = Max({@, p.entities}),
     !.first = Min({@, p.first}), !.last = Max({@, p.last})]

\* The sizes of all replays; they are all there are if no replay had too many.
PooledLength ==
  LET sizes  == UNION {prints[i].length.sizes : i \in DOMAIN prints}
      varied == \E i \in DOMAIN prints : ~ prints[i].length.listed
  IN  IF varied THEN Variable(sizes) ELSE LengthOf(sizes)

\* Those of the first i replays.
mixed[i \in DOMAIN prints] == IF i = 1 THEN prints[1] ELSE Mixed(mixed[i - 1], prints[i])

Pool ==
  /\ fingerprint = <<>> /\ class.blocks = 0 /\ prints # <<>>
  /\ fingerprint' = [mixed[Len(prints)] EXCEPT !.length = PooledLength]
  /\ UNCHANGED <<class, prints, had>>

FingerprintNext ==
  \/ \E len \in Lengths, param \in {Game} \cup {{u} : u \in Units}, t \in Stamps :
       ClassBlock(len, param, t)
  \/ ClassEnd \/ Pool

FingerprintSpec == FingerprintInit /\ [][FingerprintNext]_fingerprintPart

-----------------------------------------------------------------------------
AtMost(a, b) == a[1] * b[2] <= b[1] * a[2]

\* In whatever order blocks and replays come, the pool's fingerprint is that of all
\* blocks together: how many there are, the share that is the game's and when they
\* run; the champions' share is between the replays'.  Lengths that are listed are
\* exactly those there are, and fewer than the cap always are; a range names
\* lengths there are (explore.rs:1612-1618).
PoolIsTheWhole ==
  fingerprint # <<>> =>
    LET shares == {prints[i].champion_share : i \in DOMAIN prints}
        sizes  == fingerprint.length.sizes
    IN  /\ fingerprint.blocks = had.blocks
        /\ fingerprint.global_share[1] * had.blocks = had.global * fingerprint.global_share[2]
        /\ fingerprint.first = Min(had.times) /\ fingerprint.last = Max(had.times)
        /\ \E low, high \in shares : AtMost(low, fingerprint.champion_share) /\ AtMost(fingerprint.champion_share, high)
        /\ IF fingerprint.length.listed THEN sizes = had.lengths
           ELSE sizes \subseteq had.lengths /\ Cardinality(had.lengths) >= LENGTH_CAP
=============================================================================
