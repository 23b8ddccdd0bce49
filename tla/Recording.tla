----------------------------- MODULE Recording -----------------------------
(***************************************************************************)
(* What the parts of assemble (src/src/game.rs) have in common: the clock  *)
(* of the game, which stamps its packets, and distances.                   *)
(***************************************************************************)
EXTENDS Integers

CONSTANT MaxTime   \* bound: timestamps

ASSUME TimeAssumption == MaxTime \in Nat

VARIABLE now

Apart(x, y) == IF x <= y THEN y - x ELSE x - y
=============================================================================
