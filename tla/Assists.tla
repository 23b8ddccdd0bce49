------------------------------- MODULE Assists -------------------------------
(***************************************************************************)
(* assign_assists of src/src/game.rs.  A champion's death names its killer *)
(* and not who assisted; a champion's statistics count its assists and not *)
(* on whom.  Each step of a counter is credited to the nearest death that  *)
(* could be meant.                                                         *)
(*                                                                         *)
(* The game is not in src/.  It counts an assist when the death happens    *)
(* and sends the counter at most `lag' later.                               *)
(***************************************************************************)
EXTENDS Recording, FiniteSets, SequencesExt

CONSTANTS
  Blue, Red,     \* the roster, by team
  WINDOW,        \* WINDOW
  MaxLag,        \* how late a counter is sent at most after the death it counts
  MaxDeaths      \* bound: deaths

Players == Blue \cup Red

ASSUME AssistAssumption ==
  /\ Blue \cap Red = {} /\ IsFiniteSet(Players)
  /\ WINDOW \in Nat /\ MaxLag \in 0 .. WINDOW /\ MaxDeaths \in Nat

VARIABLES
  lag,           \* how late this game's counters are at most
  assisted,      \* per death, the champions that did assist
  counter,       \* the assists of each champion, as the game counts them
  deaths,        \* as collected: [t, victim, killer]
  steps,         \* as collected: [t, player]
  last_assists,          \* the largest counter seen of each champion
  credited,           \* per death, the champions credited, in order
  done           \* how many of the steps have been credited, -1 while collecting

assistVars == <<now, lag, assisted, counter, deaths, steps, last_assists, credited, done>>

Enemies(p) == IF p \in Blue THEN Red ELSE Blue
NoOne == "no one"

AssistInit ==
  /\ now = 0 /\ lag \in 0 .. MaxLag /\ assisted = <<>> /\ counter = [p \in Players |-> 0]
  /\ deaths = <<>> /\ steps = <<>> /\ last_assists = [p \in Players |-> 0]
  /\ credited = <<>> /\ done = -1

-----------------------------------------------------------------------------
(* The first loop: deaths and steps are collected                          *)

\* A champion dies; k is no one of the roster if it was no champion's doing.
Death(v, k, helpers) ==
  /\ done = -1 /\ Len(deaths) < MaxDeaths
  /\ deaths' = Append(deaths, [t |-> now, victim |-> v, killer |-> k])
  /\ assisted' = Append(assisted, helpers)
  /\ counter' = [p \in Players |-> IF p \in helpers THEN counter[p] + 1 ELSE counter[p]]
  /\ credited' = Append(credited, <<>>)
  /\ UNCHANGED <<now, lag, steps, last_assists, done>>

\* The counter is sent: a step for each assist since it was last seen.
Kda(p) ==
  /\ done = -1 /\ counter[p] > last_assists[p]
  /\ steps' = steps \o [i \in 1 .. counter[p] - last_assists[p] |-> [t |-> now, player |-> p]]
  /\ last_assists' = [last_assists EXCEPT ![p] = counter[p]]
  /\ UNCHANGED <<now, lag, assisted, counter, deaths, credited, done>>

\* Time does not pass a counter that is due: the first death it has not told of
\* is `lag' ago.
Assisted(p) == {d \in 1 .. Len(deaths) : p \in assisted[d]}
Due(p) ==
  \E d \in Assisted(p) : /\ Cardinality({e \in Assisted(p) : e < d}) = last_assists[p]
                         /\ deaths[d].t + lag = now

AssistTick ==
  /\ done = -1 /\ now < MaxTime /\ \A p \in Players : ~ Due(p)
  /\ now' = now + 1
  /\ UNCHANGED <<lag, assisted, counter, deaths, steps, last_assists, credited, done>>

\* The packets end when every counter has been sent.
Collected ==
  /\ done = -1 /\ last_assists = counter
  /\ done' = 0
  /\ UNCHANGED <<now, lag, assisted, counter, deaths, steps, last_assists, credited>>

-----------------------------------------------------------------------------
(* The second loop: each step is credited                                  *)

Delay(d, s) == Apart(deaths[d].t, s.t)

Mutant_Candidates_within(s) ==
  {d \in 1 .. Len(deaths) :
     /\ Delay(d, s) < WINDOW
     /\ deaths[d].victim \in Enemies(s.player)
     /\ deaths[d].killer # s.player
     /\ ~ Contains(credited[d], s.player)}

\* The deaths the step may be an assist on.
Candidates(s) ==
  {d \in 1 .. Len(deaths) :
     /\ Delay(d, s) <= WINDOW
     /\ deaths[d].victim \in Enemies(s.player)
     /\ deaths[d].killer # s.player
     /\ ~ Contains(credited[d], s.player)}

\* min_by: the first of the nearest.
Best(s) ==
  CHOOSE d \in Candidates(s) : \A e \in Candidates(s) :
    Delay(d, s) < Delay(e, s) \/ (Delay(d, s) = Delay(e, s) /\ d <= e)

Assign ==
  /\ done >= 0 /\ done < Len(steps)
  /\ LET s == steps[done + 1] IN
     credited' = IF Candidates(s) = {} THEN credited
            ELSE [credited EXCEPT ![Best(s)] = Append(@, s.player)]
  /\ done' = done + 1
  /\ UNCHANGED <<now, lag, assisted, counter, deaths, steps, last_assists>>

AssistNext ==
  \/ \E v \in Players : \E k \in Enemies(v) \cup {NoOne} :
       \E helpers \in SUBSET (Enemies(v) \ {k}) : Death(v, k, helpers)
  \/ \E p \in Players : Kda(p)
  \/ AssistTick \/ Collected \/ Assign

AssistSpec == AssistInit /\ [][AssistNext]_assistVars

-----------------------------------------------------------------------------
Assigned == done = Len(steps)

Credits(p) == Cardinality({d \in 1 .. Len(deaths) : Contains(credited[d], p)})

\* No other death is near enough to take its steps.
Lone(d) == \A e \in 1 .. Len(deaths) : d # e => Apart(deaths[d].t, deaths[e].t) > WINDOW + lag

\* game.rs:561-562: "Totals are exact; in a teamfight with several deaths in
\* the same second the split between those deaths is a best match."
TotalsExact == Assigned => \A p \in Players : Credits(p) = counter[p]

\* A champion is credited once on a death and never more often in all than it has
\* assisted, however the steps fall to the deaths; a lone death is credited to
\* those who did assist, at every delay up to the window; and where every counter
\* comes with its death, at the same time, each champion is credited exactly as
\* often as it assisted, in any crowd of deaths (game.rs:591-605).
CreditsAreDue ==
  /\ \A d \in 1 .. Len(deaths) : IsInjective(credited[d])
  /\ \A p \in Players : Credits(p) <= counter[p]
  /\ Assigned => \A d \in 1 .. Len(deaths) : Lone(d) => ToSet(credited[d]) = assisted[d]
  /\ lag = 0 => TotalsExact
=============================================================================
