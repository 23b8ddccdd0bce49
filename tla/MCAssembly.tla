----------------------------- MODULE MCAssembly -----------------------------
(***************************************************************************)
(* assemble of src/src/game.rs takes the packets of a replay one by one in *)
(* a loop with a branch per kind of packet, and assign_assists follows it. *)
(* The branches modelled by Inventory, Vision, Wards, Positions and        *)
(* Assists read and write variables of their own and share the clock, so   *)
(* that a replay is seen here from one of these parts, which the initial   *)
(* state chooses: the packets of the others change nothing of it.  The     *)
(* passes of src/src/replay_info.rs over a replay of the first format,     *)
(* which share no state either, are seen beside them.                      *)
(***************************************************************************)
EXTENDS Inventory, Vision, Wards, Positions, Assists, StubEmulator, OutputJson,
  PathBuffer, PlayerTotals, FileLayout, TLC

CONSTANTS
  Parts,      \* the parts to look at
  b1, b2, r1  \* the roster: two champions of one team and one of the other

WardDecryption == <<"id", "x", "owner_id", "x", "name">>

Symmetry == Permutations({b1, b2})

\* Two components of which two recipes are made, one from two of the same.
MCRecipe == [r \in {3, 4} |-> IF r = 3 THEN <<1, 2>> ELSE <<1, 1>>]

FewPlaces == {<<2, 250>>}
FewShifts == {<<-3, 5>>, <<40, -3>>}
AllButTheEdge == 1 .. 255

TwoRoles == <<"Top", "Mid">>

\* A whole file, for the parts that do not look at it.
SoundFile ==
  /\ written = [version |-> 0, chunks |-> 0, json |-> 2] /\ left = Whole(written)
  /\ trailer = 2 /\ damaged = "nothing"

VARIABLE part

inventoryPart == <<held, wire, inventory, displaced, event>>
visionPart    == <<truth, readers, outcome>>
wardPart      == <<wards, crowded, wardsAssembled>>
positionPart  == <<unit, moves, sampled, sampler, sampling>>
assistPart    == <<lag, assisted, counter, deaths, steps, last_assists, credited, done>>
vars == <<part, now, inventoryPart, visionPart, wardPart, positionPart, assistPart,
          stubPart, placedPart, pathPart, bufferPart, totalsPart, filePart>>

Init ==
  /\ part \in Parts
  /\ InventoryInit /\ VisionInit /\ WardInit /\ PositionInit /\ AssistInit
  /\ StubInit /\ PlacedInit /\ PathInit /\ BufferInit /\ TotalsInit
  /\ IF part = "file" THEN FileInit ELSE FileStart /\ SoundFile
  /\ part # "assists" => lag = 0

InventoryStep ==
  /\ part = "inventory" /\ InventoryNext
  /\ UNCHANGED <<part, visionPart, wardPart, positionPart, assistPart,
                 stubPart, placedPart, pathPart, bufferPart,
                 totalsPart, filePart>>

VisionStep ==
  /\ part = "vision" /\ VisionNext
  /\ UNCHANGED <<part, inventoryPart, wardPart, positionPart, assistPart,
                 stubPart, placedPart, pathPart, bufferPart,
                 totalsPart, filePart>>

WardStep ==
  /\ part = "wards" /\ WardNext
  /\ UNCHANGED <<part, inventoryPart, visionPart, positionPart, assistPart,
                 stubPart, placedPart, pathPart, bufferPart,
                 totalsPart, filePart>>

PositionStep ==
  /\ part = "positions" /\ PositionNext
  /\ UNCHANGED <<part, inventoryPart, visionPart, wardPart, assistPart,
                 stubPart, placedPart, pathPart, bufferPart,
                 totalsPart, filePart>>

AssistStep ==
  /\ part = "assists" /\ AssistNext
  /\ UNCHANGED <<part, inventoryPart, visionPart, wardPart, positionPart,
                 stubPart, placedPart, pathPart, bufferPart,
                 totalsPart, filePart>>

StubStep ==
  /\ part = "stub" /\ StubNext
  /\ UNCHANGED <<part, now, inventoryPart, visionPart, wardPart,
                 positionPart, assistPart, placedPart, pathPart, bufferPart,
                 totalsPart, filePart>>

PlacedStep ==
  /\ part = "placed" /\ PlacedNext
  /\ UNCHANGED <<part, now, inventoryPart, visionPart, wardPart,
                 positionPart, assistPart, stubPart, pathPart, bufferPart,
                 totalsPart, filePart>>

PathStep ==
  /\ part = "paths" /\ PathNext
  /\ UNCHANGED <<part, now, inventoryPart, visionPart, wardPart,
                 positionPart, assistPart, stubPart, placedPart, bufferPart,
                 totalsPart, filePart>>

BufferStep ==
  /\ part = "buffer" /\ BufferNext
  /\ UNCHANGED <<part, now, inventoryPart, visionPart, wardPart,
                 positionPart, assistPart, stubPart, placedPart, pathPart,
                 totalsPart, filePart>>

TotalsStep ==
  /\ part = "totals" /\ TotalsNext
  /\ UNCHANGED <<part, now, inventoryPart, visionPart, wardPart,
                 positionPart, assistPart, stubPart, placedPart, pathPart, bufferPart, filePart>>

FileStep ==
  /\ part = "file" /\ FileNext
  /\ UNCHANGED <<part, now, inventoryPart, visionPart, wardPart,
                 positionPart, assistPart, stubPart, placedPart, pathPart, bufferPart, totalsPart>>

Next ==
  \/ InventoryStep \/ VisionStep \/ WardStep \/ PositionStep \/ AssistStep
  \/ StubStep \/ PlacedStep \/ PathStep \/ BufferStep
  \/ TotalsStep \/ FileStep

Spec == Init /\ [][Next]_vars
=============================================================================
