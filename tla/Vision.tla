------------------------------- MODULE Vision -------------------------------
(***************************************************************************)
(* The stretches a champion spends inside the enemy's vision, as two       *)
(* readers of one replay rebuild them: assemble of src/src/game.rs from    *)
(* decoded packets, and vision_windows of src/src/explore.rs from blocks   *)
(* whose class was recognised by its traffic.                              *)
(*                                                                         *)
(* The server is not in src/.  It tells when a champion comes into the     *)
(* other team's view and when it leaves it, may repeat either, and is said *)
(* never to name the champion's own team (visibility.rs:12-20); Stray      *)
(* packets do.  Both readers take a packet when it is sent: they read one  *)
(* sequence in order, and nothing passes between them.                     *)
(***************************************************************************)
EXTENDS Recording, Sequences

CONSTANTS
  Champions,
  MaxPackets     \* bound: packets

ASSUME VisionAssumption == MaxPackets \in Nat

VARIABLES
  packets,       \* how many were sent
  view,          \* the truth, per champion: [seen, since, stays]
  strays,        \* champions a packet has named with their own team
  vision,        \* per champion, game.rs's Vision: [since, windows, events, own_team]
  open, out,     \* per champion, vision_windows' variables
  last,          \* the largest timestamp of any block
  outcome        \* "running" or "done"

truth == <<packets, view, strays>>
readers == <<vision, open, out, last>>
visionVars == <<now, truth, readers, outcome>>

\* No time: an Option<f32> that is None.
None == -1

VisionInit ==
  /\ now = 0 /\ packets = 0 /\ strays = {}
  /\ view = [c \in Champions |-> [seen |-> FALSE, since |-> None, stays |-> <<>>]]
  /\ vision = [c \in Champions |-> [since |-> None, windows |-> <<>>,
                                events |-> 0, own_team |-> 0]]
  /\ open = [c \in Champions |-> None] /\ out = [c \in Champions |-> <<>>]
  /\ last = 0 /\ outcome = "running"

-----------------------------------------------------------------------------
(* The readers                                                             *)

Mutant_Told_takes_first(v, own, visible) ==
  [since |-> IF own \/ ~ visible THEN None ELSE IF v.since = None THEN now ELSE v.since,
   windows |-> IF ~ own /\ ~ visible /\ v.since # None
               THEN Append(v.windows, <<v.since, now>>) ELSE v.windows,
   events |-> v.events + 1,
   own_team |-> IF own THEN v.own_team + 1 ELSE v.own_team]

\* The Visibility branch of assemble's loop: what becomes of a champion's Vision.
\* A packet that names its own team is counted and changes nothing else.
Told(v, own, visible) ==
  [since |-> IF own THEN v.since
             ELSE IF ~ visible THEN None
             ELSE IF v.since = None THEN now ELSE v.since,
   windows |-> IF ~ own /\ ~ visible /\ v.since # None
               THEN Append(v.windows, <<v.since, now>>) ELSE v.windows,
   events |-> v.events + 1,
   own_team |-> IF own THEN v.own_team + 1 ELSE v.own_team]

AssembleVision(c, own, visible) ==
  vision' = [vision EXCEPT ![c] = Told(vision[c], own, visible)]

Mutant_Explore_restarts(c, visible) ==
  IF visible
  THEN open' = [open EXCEPT ![c] = now] /\ UNCHANGED out
  ELSE /\ open' = [open EXCEPT ![c] = None]
       /\ out' = IF open[c] = None THEN out
                 ELSE [out EXCEPT ![c] = Append(@, <<open[c], now>>)]

\* The body of vision_windows' loop, for a block of a class of the pair.
Explore(c, visible) ==
  IF visible
  THEN open' = [open EXCEPT ![c] = IF @ = None THEN now ELSE @] /\ UNCHANGED out
  ELSE /\ open' = [open EXCEPT ![c] = None]
       /\ out' = IF open[c] = None THEN out
                 ELSE [out EXCEPT ![c] = Append(@, <<open[c], now>>)]

\* Both readers meet a visibility packet.
VisibilityPacket(c, own, visible) ==
  /\ outcome = "running" /\ packets < MaxPackets
  /\ packets' = packets + 1
  /\ AssembleVision(c, own, visible) /\ Explore(c, visible)
  /\ last' = now
  /\ UNCHANGED <<now, outcome>>

-----------------------------------------------------------------------------
(* The server                                                              *)

ComesIntoView(c) ==
  /\ ~ view[c].seen
  /\ VisibilityPacket(c, FALSE, TRUE)
  /\ view' = [view EXCEPT ![c] = [seen |-> TRUE, since |-> now, stays |-> view[c].stays]]
  /\ UNCHANGED strays

LeavesView(c) ==
  /\ view[c].seen
  /\ VisibilityPacket(c, FALSE, FALSE)
  /\ view' = [view EXCEPT ![c] =
       [seen |-> FALSE, since |-> None,
        stays |-> Append(view[c].stays, <<view[c].since, now>>)]]
  /\ UNCHANGED strays

\* What is already so is said again.
Repeat(c) == VisibilityPacket(c, FALSE, view[c].seen) /\ UNCHANGED <<view, strays>>

\* A packet names the champion's own team.
Stray(c, visible) ==
  /\ VisibilityPacket(c, TRUE, visible)
  /\ strays' = strays \cup {c}
  /\ UNCHANGED view

\* Any other block.
OtherBlock ==
  /\ outcome = "running" /\ last # now
  /\ last' = now
  /\ UNCHANGED <<now, truth, vision, open, out, outcome>>

VisionTick ==
  /\ outcome = "running" /\ now < MaxTime
  /\ now' = now + 1
  /\ UNCHANGED <<truth, readers, outcome>>

\* What is still open when the game ends is closed at its length.
Close(v) ==
  [since |-> None,
   windows |-> IF v.since = None THEN v.windows ELSE Append(v.windows, <<v.since, now>>),
   events |-> v.events, own_team |-> v.own_team]

\* The game ends now; vision_windows closes at the last block instead.
VisionEnd ==
  /\ outcome = "running"
  /\ vision' = [c \in Champions |-> Close(vision[c])]
  /\ out' = [c \in Champions |-> IF open[c] = None THEN out[c]
                                 ELSE Append(out[c], <<open[c], last>>)]
  /\ open' = [c \in Champions |-> None]
  /\ outcome' = "done"
  /\ UNCHANGED <<now, truth, last>>

VisionNext ==
  \/ \E c \in Champions : \/ ComesIntoView(c) \/ LeavesView(c) \/ Repeat(c)
                          \/ \E visible \in BOOLEAN : Stray(c, visible)
  \/ OtherBlock \/ VisionTick \/ VisionEnd

VisionSpec == VisionInit /\ [][VisionNext]_visionVars

-----------------------------------------------------------------------------
\* The champion's stays in view, the last one up to the end of the game.
Stays(c) == IF outcome = "done" /\ view[c].seen
            THEN Append(view[c].stays, <<view[c].since, now>>)
            ELSE view[c].stays

\* assemble's windows are the champion's stays in the enemy's view, whatever
\* is repeated and whatever names the wrong team; no stay is lost at the end,
\* and the count the self check asks to be 0 tells of every wrong team
\* (game.rs:443-464, 708-712).
WindowsAreTheStays ==
  \A c \in Champions :
    /\ vision[c].windows = Stays(c)
    /\ vision[c].since = IF outcome = "done" THEN None ELSE view[c].since
    /\ vision[c].own_team > 0 <=> c \in strays

\* Without stray packets, which solve_visibility would have refused the class
\* for, the undecoded reading has found the same stays up to the last block
\* (explore.rs:881-897).
ExploredMatches ==
  \A c \in Champions \ strays :
    /\ Len(out[c]) = Len(vision[c].windows)
    /\ \A i \in 1 .. Len(out[c]) :
         LET w == vision[c].windows[i] IN
         out[c][i] = IF outcome = "done" /\ i = Len(out[c]) /\ view[c].seen
                     THEN <<w[1], last>> ELSE w
=============================================================================
