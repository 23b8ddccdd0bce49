-------------------------------- MODULE Wards --------------------------------
(***************************************************************************)
(* The wards that assemble of src/src/game.rs keeps: ward_list, one record *)
(* per ward placed, and open_wards, the indices of those whose corpse has  *)
(* not been seen.                                                          *)
(*                                                                         *)
(* The game is not in src/.  It is modelled from what the code says of it: *)
(* a dying ward spawns a corpse of its owner up to Drift from where it was *)
(* placed, and an unowned twin of that corpse.  Places lie on a line.      *)
(***************************************************************************)
EXTENDS Recording, SequencesExt

CONSTANTS
  Owners,          \* champions on the roster
  Strangers,       \* other owners of things called wards or corpses
  WardPlaces,          \* coordinates
  Radius,          \* WARD_CORPSE_RADIUS
  Drift,           \* how far a corpse lies from its ward's place
  MaxWards         \* bound: wards placed

ASSUME WardAssumption ==
  /\ WardPlaces \subseteq Int /\ Owners \cap Strangers = {}
  /\ Radius \in Nat /\ Drift \in 0 .. Radius
  /\ MaxWards \in Nat

VARIABLES
  wards,        \* the game's wards, in the order they were placed:
                \* [owner, pos, placed, died], died Alive while it lives
  crowded,      \* owners that have had two live wards within 2 * Drift
  ward_list,    \* assemble's records, of the same shape
  open_wards,   \* indices into ward_list, in no particular order
  wards_placed  \* per roster champion

wardGame == <<now, wards, crowded>>
wardsAssembled == <<ward_list, open_wards, wards_placed>>
wardVars == <<wardGame, wardsAssembled>>

Alive == -1

WardInit ==
  /\ now = 0 /\ wards = <<>> /\ crowded = {}
  /\ ward_list = <<>> /\ open_wards = <<>>
  /\ wards_placed = [o \in Owners |-> 0]

-----------------------------------------------------------------------------
(* The Spawn branch of assemble's loop                                     *)

Ward(o, x) == [owner |-> o, pos |-> x, placed |-> now, died |-> Alive]

\* A spawn with the name of a ward.
SpawnWard(o, x) ==
  IF o \in Owners
  THEN /\ wards_placed' = [wards_placed EXCEPT ![o] = @ + 1]
       /\ open_wards' = Append(open_wards, Len(ward_list) + 1)
       /\ ward_list' = Append(ward_list, Ward(o, x))
  ELSE UNCHANGED wardsAssembled

Distance(i, x) == Apart(ward_list[open_wards[i]].pos, x)

\* Positions in open_wards of the owner's wards within reach of x.
Reachable(o, x) ==
  {i \in 1 .. Len(open_wards) : /\ ward_list[open_wards[i]].owner = o
                                /\ Distance(i, x) <= Radius}

\* min_by: the first of the nearest.
Nearest(o, x) ==
  CHOOSE i \in Reachable(o, x) : \A j \in Reachable(o, x) :
    Distance(i, x) < Distance(j, x) \/ (Distance(i, x) = Distance(j, x) /\ i <= j)

\* Vec::swap_remove: the last element takes the place of the one removed.
SwapRemove(s, i) ==
  [j \in 1 .. Len(s) - 1 |-> IF j = i THEN s[Len(s)] ELSE s[j]]

Mutant_SpawnCorpse_index_of_open(o, x) ==
  IF Reachable(o, x) # {}
  THEN LET i == Nearest(o, x) IN
       /\ ward_list' = [ward_list EXCEPT ![i].died = now]
       /\ open_wards' = SwapRemove(open_wards, i)
       /\ UNCHANGED wards_placed
  ELSE UNCHANGED wardsAssembled

\* A spawn with the name of a corpse: the owner's nearest open ward is dead.
SpawnCorpse(o, x) ==
  IF Reachable(o, x) # {}
  THEN LET i == Nearest(o, x) IN
       /\ ward_list' = [ward_list EXCEPT ![open_wards[i]].died = now]
       /\ open_wards' = SwapRemove(open_wards, i)
       /\ UNCHANGED wards_placed
  ELSE UNCHANGED wardsAssembled

-----------------------------------------------------------------------------
(* The game                                                                *)

Live == {k \in 1 .. Len(wards) : wards[k].died = Alive}

Place(o, x) ==
  /\ Len(wards) < MaxWards
  /\ SpawnWard(o, x)
  /\ wards' = Append(wards, Ward(o, x))
  /\ crowded' = IF \E k \in Live : wards[k].owner = o /\ Apart(wards[k].pos, x) <= 2 * Drift
                THEN crowded \cup {o} ELSE crowded
  /\ UNCHANGED now

\* Ward k dies and its corpse lies at x.
Die(k, x) ==
  /\ k \in Live /\ Apart(wards[k].pos, x) <= Drift
  /\ SpawnCorpse(wards[k].owner, x)
  /\ wards' = [wards EXCEPT ![k].died = now]
  /\ UNCHANGED <<now, crowded>>

\* A corpse of no ward, or a ward's unowned twin.
Corpse(o, x) ==
  /\ SpawnCorpse(o, x)
  /\ UNCHANGED wardGame

WardTick == now < MaxTime /\ now' = now + 1 /\ UNCHANGED <<wards, crowded, wardsAssembled>>

WardNext ==
  \/ \E o \in Owners \cup Strangers, x \in WardPlaces : Place(o, x)
  \/ \E k \in Live, x \in WardPlaces : Die(k, x)
  \/ \E o \in Strangers, x \in WardPlaces : Corpse(o, x)
  \/ WardTick

WardSpec == WardInit /\ [][WardNext]_wardVars

-----------------------------------------------------------------------------
OfOwner(list, o) == {k \in 1 .. Len(list) : list[k].owner = o}
DeadOf(list, o)  == {k \in OfOwner(list, o) : list[k].died # Alive}

\* Which record is the k-th ward's: there is one for every ward of the roster's.
RecordOf(k) == Cardinality({j \in 1 .. k : wards[j].owner \in Owners})

\* There is a record for every ward of a champion, in the order they were placed,
\* and it has the ward's owner, place and times, as long as that champion never has
\* two live wards so near one another that a corpse could be either's; even then
\* only the times of death can be wrong, and no more of its wards die than have.
\* open_wards holds every ward that is not known to be dead once, and no other,
\* whatever order removals leave it in (game.rs:387-402, 37-38).
RecordsAreTrue ==
  /\ IsInjective(open_wards)
  /\ ToSet(open_wards) = {r \in 1 .. Len(ward_list) : ward_list[r].died = Alive}
  /\ Len(ward_list) = RecordOf(Len(wards))
  /\ \A k \in 1 .. Len(wards) :
       LET w == wards[k]
           r == ward_list[RecordOf(k)]
       IN  w.owner \in Owners => r = IF w.owner \in crowded THEN [w EXCEPT !.died = r.died] ELSE w
  /\ \A o \in Owners :
       /\ wards_placed[o] = Cardinality(OfOwner(wards, o))
       /\ Cardinality(DeadOf(ward_list, o)) <= Cardinality(DeadOf(wards, o))
=============================================================================
