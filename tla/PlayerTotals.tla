----------------------------- MODULE PlayerTotals -----------------------------
(***************************************************************************)
(* Whose totals are whose, in src/src/game.rs: Roster::infer takes the     *)
(* champions' ids for the run that begins at the lowest one some packet    *)
(* names, assemble adds up what the packets say of each player by it, and  *)
(* self_check compares that with Riot's own record.                        *)
(*                                                                         *)
(* Champion i of the record has the id i.  Of the checks, those of items   *)
(* and visibility are left out: Inventory and Vision are about them.       *)
(***************************************************************************)
EXTENDS Integers, FiniteSetsExt, SequencesExt

CONSTANTS
  NumPlayers,
  BlueSide,            \* the players of one team, by index
  OtherUnits,          \* ids that are no champion's
  Amount, DAMAGE_SLACK,
  MaxLevel,
  MaxFacts             \* bound: things that happen

ChampionIndex == 1 .. NumPlayers
AnyUnit == ChampionIndex \cup OtherUnits

ASSUME TotalsAssumption ==
  /\ NumPlayers \in Nat \ {0} /\ BlueSide \subseteq ChampionIndex
  /\ OtherUnits \cap (1 .. 2 * NumPlayers) = {} /\ OtherUnits \subseteq Nat
  /\ Amount \in Nat /\ DAMAGE_SLACK \in 0 .. Amount - 1 /\ MaxLevel \in Nat \ {0} /\ MaxFacts \in Nat

VARIABLES
  record,     \* statsJson: per champion what really happened
  typed,      \* the packets
  totals,     \* per player what assemble makes of them, <<>> before
  rows        \* per player the checks that hold

totalsPart == <<record, typed, totals, rows>>

Nothing == [kda |-> <<0, 0>>, kills |-> 0, level |-> 1, damage |-> 0, wards |-> 0]

TotalsInit ==
  record = [i \in ChampionIndex |-> Nothing] /\ typed = <<>> /\ totals = <<>> /\ rows = <<>>

-----------------------------------------------------------------------------
(* The game and its packets                                                *)

Opponents(i, k) == i \in BlueSide <=> k \notin BlueSide

Tell(facts, told) ==
  /\ totals = <<>> /\ Len(SelectSeq(typed, LAMBDA p : p.class # "Kda")) < MaxFacts
  /\ record' = facts /\ typed' = typed \o told
  /\ UNCHANGED <<totals, rows>>

\* A champion dies by a champion or by something else; the counters follow.
ChampionDies(victim, killer) ==
  /\ killer \in ChampionIndex => Opponents(killer, victim)
  /\ LET facts == [i \in ChampionIndex |->
           [record[i] EXCEPT !.kda = <<@[1] + (IF i = killer THEN 1 ELSE 0),
                                       @[2] + (IF i = victim THEN 1 ELSE 0)>>,
                             !.kills = @ + (IF i = killer THEN 1 ELSE 0)]]
         Counter(i) == [class |-> "Kda", hero |-> i, kda |-> facts[i].kda]
         death == [class |-> "HeroDie", victim |-> victim, killer |-> killer]
     IN  Tell(facts, IF killer \in ChampionIndex THEN <<death, Counter(victim), Counter(killer)>>
                     ELSE <<death, Counter(victim)>>)

Buys(i) == Tell(record, <<[class |-> "BuyItem", hero |-> i]>>)

\* Only what a champion does to the other team's counts in the record.
Hits(source, target) ==
  /\ source \in ChampionIndex /\ target \in ChampionIndex => Opponents(source, target)
  /\ Tell(IF source \in ChampionIndex /\ target \in ChampionIndex
            THEN [record EXCEPT ![source].damage = @ + Amount] ELSE record,
          <<[class |-> "Damage", source |-> source, target |-> target, amount |-> Amount]>>)

Higher(a, b) == IF a >= b THEN a ELSE b

\* A new level, or one that is told again.
Levels(u, level) ==
  /\ u \in ChampionIndex => level \in 1 .. record[u].level + 1
  /\ Tell(IF u \in ChampionIndex THEN [record EXCEPT ![u].level = Higher(@, level)] ELSE record,
          <<[class |-> "LevelUp", unit |-> u, level |-> level]>>)

PlacesWard(u) ==
  Tell(IF u \in ChampionIndex THEN [record EXCEPT ![u].wards = @ + 1] ELSE record,
       <<[class |-> "Ward", owner |-> u]>>)

-----------------------------------------------------------------------------
(* Roster                                                                  *)

\* The packets only a champion has; a respawn names one that has died.
HeroesSeen ==
  {p.hero : p \in {p \in ToSet(typed) : p.class \in {"Kda", "BuyItem"}}}
    \cup {p.victim : p \in {p \in ToSet(typed) : p.class = "HeroDie"}}

NoRoster == 0

Mutant_infer_from_last ==
  IF HeroesSeen = {} THEN NoRoster ELSE Max({1, Max(HeroesSeen) - NumPlayers + 1})

\* The lowest id of the run; a span that is too long for the players is no roster.
infer ==
  IF HeroesSeen = {} \/ Max(HeroesSeen) - Min(HeroesSeen) >= NumPlayers THEN NoRoster
  ELSE Min(HeroesSeen)

\* The player an id is by a roster that begins at `first`, 0 for none.
index(first, id) ==
  IF first # NoRoster /\ id - first + 1 \in ChampionIndex THEN id - first + 1 ELSE 0

-----------------------------------------------------------------------------
(* assemble                                                                *)

CountedHit(sofar, source, target, amount) ==
  IF source # 0 /\ target # 0 /\ Opponents(source, target)
    THEN [sofar EXCEPT ![source].damage = @ + amount] ELSE sofar

OfPlayer(sofar, i, Change(_)) == IF i = 0 THEN sofar ELSE [sofar EXCEPT ![i] = Change(@)]

\* One packet's share in the totals.  A death of no player counts for nobody.
Counted(first, sofar, p) ==
  CASE p.class = "Kda" -> OfPlayer(sofar, index(first, p.hero), LAMBDA t : [t EXCEPT !.kda = p.kda])
    [] p.class = "HeroDie" ->
         IF index(first, p.victim) = 0 THEN sofar
         ELSE OfPlayer(sofar, index(first, p.killer), LAMBDA t : [t EXCEPT !.kills = t.kills + 1])
    [] p.class = "LevelUp" ->
         OfPlayer(sofar, index(first, p.unit), LAMBDA t : [t EXCEPT !.level = Higher(t.level, p.level)])
    [] p.class = "Damage" -> CountedHit(sofar, index(first, p.source), index(first, p.target), p.amount)
    [] p.class = "Ward" -> OfPlayer(sofar, index(first, p.owner), LAMBDA t : [t EXCEPT !.wards = t.wards + 1])
    [] OTHER -> sofar

\* The packets' totals by the roster.
Tally(first, told) ==
  LET sofar[n \in 0 .. Len(told)] ==
        IF n = 0 THEN [i \in ChampionIndex |-> Nothing] ELSE Counted(first, sofar[n - 1], told[n])
  IN  sofar[Len(told)]

\* self_check: a row per player with the checks that hold.
Checks(sofar, i) ==
  {f \in {"kda", "kills", "level", "wards"} : sofar[i][f] = record[i][f]}
    \cup {f \in {"damage"} : record[i].damage - sofar[i].damage \in -DAMAGE_SLACK .. DAMAGE_SLACK}

AssembleTotals ==
  /\ totals = <<>>
  /\ LET sofar == Tally(infer, typed)
     IN  totals' = sofar /\ rows' = [i \in ChampionIndex |-> Checks(sofar, i)]
  /\ UNCHANGED <<record, typed>>

TotalsNext ==
  \/ \E victim \in ChampionIndex, killer \in AnyUnit : ChampionDies(victim, killer)
  \/ \E i \in ChampionIndex : Buys(i)
  \/ \E source, target \in AnyUnit : Hits(source, target)
  \/ \E u \in AnyUnit, level \in 1 .. MaxLevel : Levels(u, level)
  \/ \E u \in AnyUnit : PlacesWard(u)
  \/ AssembleTotals

TotalsSpec == TotalsInit /\ [][TotalsNext]_totalsPart

-----------------------------------------------------------------------------
AllHold == \A i \in ChampionIndex : rows[i] = {"kda", "kills", "level", "wards", "damage"}
ShiftedBy == Min(HeroesSeen) - 1

\* As soon as any packet of a champion's own names the first of the record, every
\* player has exactly its own totals and every check holds.  If none does, player
\* i has those of another, ShiftedBy places further on, but for damage, whose teams
\* are shifted too; and then the checks hold throughout only if nothing ever
\* happened to a champion: the self check never passes a shifted roster over
\* (game.rs:199-202, 668-720).
TotalsAreOwn ==
  totals # <<>> =>
    IF HeroesSeen = {} THEN totals = [i \in ChampionIndex |-> Nothing]
    ELSE /\ ShiftedBy = 0 => totals = record /\ AllHold
         /\ \A i \in ChampionIndex :
              LET whose == i + ShiftedBy
                  own == IF whose \in ChampionIndex THEN record[whose] ELSE Nothing
              IN  totals[i] = [own EXCEPT !.damage = totals[i].damage]
         /\ ShiftedBy # 0 /\ AllHold => record = [i \in ChampionIndex |-> Nothing]
=============================================================================
