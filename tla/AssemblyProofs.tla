--------------------------- MODULE AssemblyProofs ---------------------------
(***************************************************************************)
(* What assemble of src/src/game.rs rebuilds, proved for any heroes, items,*)
(* recipes, slots and champions and for any length of game.                *)
(*                                                                         *)
(* The vision windows are the stays the server told of, and those of       *)
(* vision_windows of src/src/explore.rs are the same up to the last block. *)
(* The inventories are the server's whenever all it sent has been taken    *)
(* in, and what an event says was removed or used is what was.  The wards' *)
(* records are the wards of the champions, and open_wards the live ones.   *)
(* The assists are credited to deaths that they may have been on, and to   *)
(* the right ones where those can be told.  Every second is sampled once,  *)
(* with the champion where it was then.                                    *)
(***************************************************************************)
EXTENDS Positions, SequenceTheorems, Vision, Inventory, Wards, Assists, FiniteSetTheorems, WellFoundedInduction, TLAPS

-----------------------------------------------------------------------------
(* Vision                                                                  *)

Time == Nat \cup {None}
Windows == Seq(Nat \X Nat)
Onlooker == [seen : BOOLEAN, since : Time, stays : Windows]
Rebuilt == [since : Time, windows : Windows, events : Nat, own_team : Nat]

VisionTyped ==
  /\ now \in Nat
  /\ outcome \in {"running", "done"}
  /\ view \in [Champions -> Onlooker]
  /\ vision \in [Champions -> Rebuilt]
  /\ strays \subseteq Champions

\* The server is at some moment of a stay exactly while the champion is seen.
SeenSince == \A c \in Champions : view[c].seen <=> view[c].since # None

VisionInv == VisionTyped /\ SeenSince /\ WindowsAreTheStays

\* Before the first packet nothing is seen and nothing is rebuilt.
LEMMA VisionInitInv == VisionInit => VisionInv
  <1> SUFFICES ASSUME VisionInit PROVE VisionInv
    OBVIOUS
  <1>1. /\ view = [c \in Champions |-> [seen |-> FALSE, since |-> None, stays |-> <<>>]]
        /\ vision = [c \in Champions |-> [since |-> None, windows |-> <<>>,
                                          events |-> 0, own_team |-> 0]]
        /\ strays = {} /\ now = 0 /\ outcome = "running"
    BY DEF VisionInit
  <1>2. <<>> \in Windows /\ None \in Time /\ 0 \in Nat
    BY DEF Windows, Time
  <1>3. VisionTyped
    BY <1>1, <1>2 DEF VisionTyped, Onlooker, Rebuilt
  <1>4. SeenSince
    BY <1>1 DEF SeenSince
  <1>5. ASSUME NEW c \in Champions
        PROVE  /\ vision[c].windows = Stays(c)
               /\ vision[c].since = IF outcome = "done" THEN None ELSE view[c].since
               /\ vision[c].own_team > 0 <=> c \in strays
    <2>1. /\ vision[c].windows = <<>> /\ view[c].stays = <<>> /\ vision[c].own_team = 0
          /\ vision[c].since = None /\ view[c].since = None /\ outcome # "done"
      BY <1>1
    <2>2. QED
      BY <1>1, <2>1 DEF Stays
  <1>6. QED
    BY <1>3, <1>4, <1>5 DEF VisionInv, WindowsAreTheStays

\* Telling a champion's Vision of a packet leaves a Vision.
LEMMA ToldIsRebuilt ==
  ASSUME NEW v \in Rebuilt, NEW own \in BOOLEAN, NEW visible \in BOOLEAN, now \in Nat
  PROVE  Told(v, own, visible) \in Rebuilt
  <1>1. v.since \in Time /\ v.windows \in Windows /\ v.events \in Nat /\ v.own_team \in Nat
    BY DEF Rebuilt
  <1>2. v.since # None => Append(v.windows, <<v.since, now>>) \in Windows
    BY <1>1 DEF Windows, Time
  <1>3. now \in Time /\ None \in Time /\ v.events + 1 \in Nat /\ v.own_team + 1 \in Nat
    BY <1>1 DEF Time
  <1>4. QED
    BY <1>1, <1>2, <1>3 DEF Told, Rebuilt

\* A packet about champion c leaves the invariant if what it tells of c agrees
\* with what the server did to c.
LEMMA PacketKeeps ==
  ASSUME VisionInv, NEW c \in Champions, NEW own \in BOOLEAN, NEW visible \in BOOLEAN,
         NEW s \in Onlooker, VisibilityPacket(c, own, visible),
         view' = [view EXCEPT ![c] = s],
         s.seen <=> s.since # None,
         Told(vision[c], own, visible).windows = s.stays,
         Told(vision[c], own, visible).since = s.since,
         strays' = IF own THEN strays \cup {c} ELSE strays
  PROVE  VisionInv'
  <1> DEFINE w == Told(vision[c], own, visible)
  <1>1. /\ now' = now /\ outcome' = "running" /\ outcome = "running"
        /\ vision' = [vision EXCEPT ![c] = w]
    BY DEF VisibilityPacket, AssembleVision
  <1>2. /\ now \in Nat /\ view \in [Champions -> Onlooker] /\ strays \subseteq Champions
        /\ vision \in [Champions -> Rebuilt] /\ vision[c] \in Rebuilt
    BY DEF VisionInv, VisionTyped
  <1>3. w \in Rebuilt
    BY <1>2, ToldIsRebuilt
  <1>4. /\ \A d \in Champions \ {c} : vision'[d] = vision[d] /\ view'[d] = view[d]
        /\ vision'[c] = w /\ view'[c] = s
    BY <1>1, <1>2
  <1> HIDE DEF w
  <1>5. VisionTyped'
    BY <1>1, <1>2, <1>3 DEF VisionTyped
  <1>6. SeenSince'
    BY <1>4 DEF VisionInv, SeenSince
  <1>7. ASSUME NEW d \in Champions
        PROVE  /\ vision'[d].windows = Stays(d)'
               /\ vision'[d].since = IF outcome' = "done" THEN None ELSE view'[d].since
               /\ vision'[d].own_team > 0 <=> d \in strays'
    <2>1. CASE d # c
      BY <1>1, <1>4, <2>1 DEF VisionInv, WindowsAreTheStays, Stays
    <2>2. CASE d = c
      <3>1. /\ w.own_team = IF own THEN vision[c].own_team + 1 ELSE vision[c].own_team
            /\ vision[c].own_team \in Nat
            /\ vision[c].own_team > 0 <=> c \in strays
        BY <1>2 DEF w, Told, Rebuilt, VisionInv, WindowsAreTheStays
      <3>2. w.own_team > 0 <=> c \in strays'
        BY <3>1
      <3>3. w.windows = s.stays /\ w.since = s.since
        BY DEF w
      <3>4. QED
        BY <1>1, <1>4, <2>2, <3>2, <3>3 DEF Stays
    <2>3. QED
      BY <2>1, <2>2
  <1>8. QED
    BY <1>5, <1>6, <1>7 DEF VisionInv, WindowsAreTheStays

\* What the invariant says of one champion while the game runs.
LEMMA OneChampion ==
  ASSUME VisionInv, outcome = "running", NEW c \in Champions
  PROVE  /\ view[c] \in Onlooker /\ vision[c] \in Rebuilt /\ now \in Nat
         /\ vision[c].windows = view[c].stays /\ vision[c].since = view[c].since
         /\ view[c].seen <=> view[c].since # None
  BY DEF VisionInv, VisionTyped, SeenSince, WindowsAreTheStays, Stays

\* Each of the server's packets, told to assemble, keeps the invariant.
LEMMA ServerKeeps ==
  ASSUME VisionInv, NEW c \in Champions
  PROVE  /\ ComesIntoView(c) => VisionInv'
         /\ LeavesView(c) => VisionInv'
         /\ Repeat(c) => VisionInv'
         /\ \A visible \in BOOLEAN : Stray(c, visible) => VisionInv'
  <1>1. ASSUME ComesIntoView(c) PROVE VisionInv'
    <2> DEFINE s == [seen |-> TRUE, since |-> now, stays |-> view[c].stays]
    <2>1. outcome = "running" /\ VisibilityPacket(c, FALSE, TRUE) /\ ~ view[c].seen
      BY <1>1 DEF ComesIntoView, VisibilityPacket
    <2>2. /\ view[c] \in Onlooker /\ now \in Nat /\ vision[c].windows = view[c].stays
          /\ vision[c].since = None
      BY <2>1, OneChampion
    <2>3. s \in Onlooker /\ (s.seen <=> s.since # None)
      BY <2>2 DEF Onlooker, Time, None
    <2>4. /\ Told(vision[c], FALSE, TRUE).windows = s.stays
          /\ Told(vision[c], FALSE, TRUE).since = s.since
      BY <2>2 DEF Told
    <2>5. view' = [view EXCEPT ![c] = s] /\ strays' = strays
      BY <1>1 DEF ComesIntoView
    <2> HIDE DEF s
    <2>6. QED
      BY <2>1, <2>3, <2>4, <2>5, PacketKeeps
  <1>2. ASSUME LeavesView(c) PROVE VisionInv'
    <2> DEFINE s == [seen |-> FALSE, since |-> None,
                     stays |-> Append(view[c].stays, <<view[c].since, now>>)]
    <2>1. outcome = "running" /\ VisibilityPacket(c, FALSE, FALSE) /\ view[c].seen
      BY <1>2 DEF LeavesView, VisibilityPacket
    <2>2. /\ view[c] \in Onlooker /\ now \in Nat /\ vision[c].windows = view[c].stays
          /\ vision[c].since = view[c].since /\ view[c].since # None
      BY <2>1, OneChampion
    <2>3. s \in Onlooker /\ (s.seen <=> s.since # None)
      BY <2>2 DEF Onlooker, Time, Windows
    <2>4. /\ Told(vision[c], FALSE, FALSE).windows = s.stays
          /\ Told(vision[c], FALSE, FALSE).since = s.since
      BY <2>2 DEF Told
    <2>5. view' = [view EXCEPT ![c] = s] /\ strays' = strays
      BY <1>2 DEF LeavesView
    <2> HIDE DEF s
    <2>6. QED
      BY <2>1, <2>3, <2>4, <2>5, PacketKeeps
  <1>3. ASSUME Repeat(c) PROVE VisionInv'
    <2>1. /\ outcome = "running" /\ VisibilityPacket(c, FALSE, view[c].seen)
          /\ view' = view /\ strays' = strays
      BY <1>3 DEF Repeat, VisibilityPacket
    <2>2. /\ view[c] \in Onlooker /\ vision[c].windows = view[c].stays
          /\ vision[c].since = view[c].since /\ (view[c].seen <=> view[c].since # None)
          /\ view[c].seen \in BOOLEAN
      BY <2>1, OneChampion DEF Onlooker
    <2>3. /\ Told(vision[c], FALSE, view[c].seen).windows = view[c].stays
          /\ Told(vision[c], FALSE, view[c].seen).since = view[c].since
      BY <2>2 DEF Told
    <2>4. view' = [view EXCEPT ![c] = view[c]]
      BY <2>1 DEF VisionInv, VisionTyped
    <2>5. QED
      BY <2>1, <2>2, <2>3, <2>4, PacketKeeps
  <1>4. ASSUME NEW visible \in BOOLEAN, Stray(c, visible) PROVE VisionInv'
    <2>1. /\ outcome = "running" /\ VisibilityPacket(c, TRUE, visible)
          /\ view' = view /\ strays' = strays \cup {c}
      BY <1>4 DEF Stray, VisibilityPacket
    <2>2. /\ view[c] \in Onlooker /\ vision[c].windows = view[c].stays
          /\ vision[c].since = view[c].since /\ (view[c].seen <=> view[c].since # None)
      BY <2>1, OneChampion
    <2>3. /\ Told(vision[c], TRUE, visible).windows = view[c].stays
          /\ Told(vision[c], TRUE, visible).since = view[c].since
      BY <2>2 DEF Told
    <2>4. view' = [view EXCEPT ![c] = view[c]]
      BY <2>1 DEF VisionInv, VisionTyped
    <2>5. QED
      BY <2>1, <2>2, <2>3, <2>4, PacketKeeps
  <1>5. QED
    BY <1>1, <1>2, <1>3, <1>4

\* The end of the game closes each stay it cuts short, and only those.
LEMMA FinishKeeps ==
  ASSUME VisionInv, VisionEnd
  PROVE  VisionInv'
  <1>1. /\ outcome = "running" /\ outcome' = "done" /\ now' = now /\ view' = view
        /\ strays' = strays /\ vision' = [c \in Champions |-> Close(vision[c])]
    BY DEF VisionEnd, truth
  <1>2. ASSUME NEW c \in Champions
        PROVE  /\ Close(vision[c]) \in Rebuilt /\ Close(vision[c]).since = None
               /\ Close(vision[c]).own_team = vision[c].own_team
               /\ Close(vision[c]).windows = Stays(c)'
    <2>1. /\ view[c] \in Onlooker /\ vision[c] \in Rebuilt /\ now \in Nat
          /\ vision[c].windows = view[c].stays /\ vision[c].since = view[c].since
          /\ view[c].seen <=> view[c].since # None
      BY <1>1, OneChampion
    <2>2. /\ vision[c].since \in Time /\ vision[c].windows \in Windows
          /\ vision[c].events \in Nat /\ vision[c].own_team \in Nat
      BY <2>1 DEF Rebuilt
    <2>3. vision[c].since # None => Append(vision[c].windows, <<vision[c].since, now>>) \in Windows
      BY <2>1, <2>2 DEF Time, Windows
    <2>4. Close(vision[c]) \in Rebuilt
      BY <2>2, <2>3 DEF Close, Rebuilt, Time
    <2>5. QED
      BY <1>1, <2>1, <2>4 DEF Close, Stays
  <1>3. VisionTyped'
    BY <1>1, <1>2 DEF VisionInv, VisionTyped
  <1>4. SeenSince'
    BY <1>1 DEF VisionInv, SeenSince
  <1>5. WindowsAreTheStays'
    BY <1>1, <1>2 DEF VisionInv, WindowsAreTheStays
  <1>6. QED
    BY <1>3, <1>4, <1>5 DEF VisionInv

\* Every step keeps the invariant.
LEMMA VisionStepInv == VisionInv /\ [VisionNext]_visionVars => VisionInv'
  <1> SUFFICES ASSUME VisionInv, [VisionNext]_visionVars PROVE VisionInv'
    OBVIOUS
  <1>1. ASSUME NEW c \in Champions,
               \/ ComesIntoView(c) \/ LeavesView(c) \/ Repeat(c)
               \/ \E visible \in BOOLEAN : Stray(c, visible)
        PROVE  VisionInv'
    BY <1>1, ServerKeeps
  <1>2. CASE OtherBlock
    BY <1>2 DEF OtherBlock, VisionInv, VisionTyped, SeenSince, WindowsAreTheStays, Stays, truth
  <1>3. CASE VisionTick
    <2>1. /\ outcome = "running" /\ outcome' = outcome /\ now' = now + 1 /\ view' = view
          /\ strays' = strays /\ vision' = vision
      BY <1>3 DEF VisionTick, truth, readers
    <2>2. QED
      BY <2>1 DEF VisionInv, VisionTyped, SeenSince, WindowsAreTheStays, Stays
  <1>4. CASE VisionEnd
    BY <1>4, FinishKeeps
  <1>5. CASE UNCHANGED visionVars
    BY <1>5 DEF visionVars, truth, readers, VisionInv, VisionTyped, SeenSince, WindowsAreTheStays, Stays
  <1>6. QED
    BY <1>1, <1>2, <1>3, <1>4, <1>5 DEF VisionNext

\* The windows of every champion are its stays in the enemy's view, whatever is
\* repeated and whatever names the wrong team (game.rs:443-464).
THEOREM WindowsCorrect == VisionSpec => []WindowsAreTheStays
  <1>1. VisionInit => VisionInv
    BY VisionInitInv
  <1>2. VisionInv /\ [VisionNext]_visionVars => VisionInv'
    BY VisionStepInv
  <1>3. VisionInv => WindowsAreTheStays
    BY DEF VisionInv
  <1>4. QED
    BY <1>1, <1>2, <1>3, PTL DEF VisionSpec

-----------------------------------------------------------------------------
\* What the reading of undecoded blocks has of every champion no packet has named
\* with its own team: its stays, the last one up to the last block once it is over.
ExploreInv ==
  /\ open \in [Champions -> Time] /\ out \in [Champions -> Windows] /\ last \in Nat
  /\ \A c \in Champions \ strays :
       /\ open[c] = IF outcome = "done" THEN None ELSE view[c].since
       /\ out[c] = IF outcome = "done" /\ view[c].seen
                   THEN Append(view[c].stays, <<view[c].since, last>>)
                   ELSE view[c].stays

LEMMA ExploreInitInv == VisionInit => ExploreInv
  <1> SUFFICES ASSUME VisionInit PROVE ExploreInv
    OBVIOUS
  <1>1. <<>> \in Windows /\ None \in Time
    BY DEF Windows, Time
  <1> QED
    BY <1>1 DEF VisionInit, ExploreInv

\* A block about champion c keeps the invariant if it tells of c what the server did.
LEMMA BlockKeeps ==
  ASSUME VisionTyped, ExploreInv, NEW c \in Champions, NEW own \in BOOLEAN, NEW visible \in BOOLEAN,
         NEW s \in Onlooker, VisibilityPacket(c, own, visible),
         view' = [view EXCEPT ![c] = s],
         ~ own => /\ s.since = IF visible THEN IF view[c].since = None THEN now ELSE view[c].since
                               ELSE None
                  /\ s.stays = IF ~ visible /\ view[c].since # None
                               THEN Append(view[c].stays, <<view[c].since, now>>)
                               ELSE view[c].stays,
         strays' = IF own THEN strays \cup {c} ELSE strays
  PROVE  ExploreInv'
  <1>1. /\ now \in Nat /\ outcome' = outcome /\ outcome = "running" /\ last' = now
        /\ Explore(c, visible)
    BY DEF VisibilityPacket, VisionTyped
  <1>2. open[c] \in Time /\ out[c] \in Windows /\ view \in [Champions -> Onlooker]
    BY DEF ExploreInv, VisionTyped
  <1>3. open[c] # None => Append(out[c], <<open[c], now>>) \in Windows
    BY <1>1, <1>2 DEF Time, Windows
  <1> DEFINE o == IF visible THEN IF open[c] = None THEN now ELSE open[c] ELSE None
             w == IF ~ visible /\ open[c] # None THEN Append(out[c], <<open[c], now>>) ELSE out[c]
  <1>4. o \in Time /\ w \in Windows
    BY <1>1, <1>2, <1>3 DEF Time
  <1>5. open' = [open EXCEPT ![c] = o] /\ out' = [out EXCEPT ![c] = w]
    BY <1>1 DEF Explore, ExploreInv
  <1> HIDE DEF o, w
  <1>6. /\ \A d \in Champions \ {c} : open'[d] = open[d] /\ out'[d] = out[d] /\ view'[d] = view[d]
        /\ open'[c] = o /\ out'[c] = w /\ view'[c] = s
    BY <1>2, <1>5 DEF ExploreInv
  <1>7. open' \in [Champions -> Time] /\ out' \in [Champions -> Windows] /\ last' \in Nat
    BY <1>1, <1>4, <1>5 DEF ExploreInv
  <1>8. ASSUME NEW d \in Champions \ strays'
        PROVE  open'[d] = view'[d].since /\ out'[d] = view'[d].stays
    <2>1. d \notin strays
      OBVIOUS
    <2>2. open[d] = view[d].since /\ out[d] = view[d].stays
      BY <1>1, <2>1 DEF ExploreInv
    <2>3. CASE d = c
      BY <1>6, <2>2, <2>3 DEF o, w
    <2> QED
      BY <1>6, <2>2, <2>3
  <1> QED
    BY <1>1, <1>7, <1>8 DEF ExploreInv

\* Every step keeps it.
LEMMA ExploreStepInv ==
  ASSUME VisionInv, ExploreInv, [VisionNext]_visionVars
  PROVE  ExploreInv'
  <1>0. VisionTyped /\ view \in [Champions -> Onlooker]
    BY DEF VisionInv, VisionTyped
  <1>1. ASSUME NEW c \in Champions, ComesIntoView(c) PROVE ExploreInv'
    <2> DEFINE s == [seen |-> TRUE, since |-> now, stays |-> view[c].stays]
    <2>1. VisibilityPacket(c, FALSE, TRUE) /\ outcome = "running" /\ ~ view[c].seen
      BY <1>1 DEF ComesIntoView, VisibilityPacket
    <2>2. view[c] \in Onlooker /\ now \in Nat /\ view[c].since = None
      BY <2>1, OneChampion
    <2>3. s \in Onlooker /\ s.since = now /\ s.stays = view[c].stays
      BY <2>2 DEF Onlooker, Time
    <2>4. view' = [view EXCEPT ![c] = s] /\ strays' = strays
      BY <1>1 DEF ComesIntoView
    <2> HIDE DEF s
    <2> QED
      BY <1>0, <2>1, <2>2, <2>3, <2>4, BlockKeeps
  <1>2. ASSUME NEW c \in Champions, LeavesView(c) PROVE ExploreInv'
    <2> DEFINE s == [seen |-> FALSE, since |-> None,
                     stays |-> Append(view[c].stays, <<view[c].since, now>>)]
    <2>1. VisibilityPacket(c, FALSE, FALSE) /\ outcome = "running" /\ view[c].seen
      BY <1>2 DEF LeavesView, VisibilityPacket
    <2>2. view[c] \in Onlooker /\ now \in Nat /\ view[c].since # None
      BY <2>1, OneChampion
    <2>3. /\ s \in Onlooker /\ s.since = None
          /\ s.stays = Append(view[c].stays, <<view[c].since, now>>)
      BY <2>2 DEF Onlooker, Time, Windows
    <2>4. view' = [view EXCEPT ![c] = s] /\ strays' = strays
      BY <1>2 DEF LeavesView
    <2> HIDE DEF s
    <2> QED
      BY <1>0, <2>1, <2>2, <2>3, <2>4, BlockKeeps
  <1>3. ASSUME NEW c \in Champions, Repeat(c) PROVE ExploreInv'
    <2>1. /\ VisibilityPacket(c, FALSE, view[c].seen) /\ outcome = "running"
          /\ view' = [view EXCEPT ![c] = view[c]] /\ strays' = strays
      BY <1>0, <1>3 DEF Repeat, VisibilityPacket
    <2>2. /\ view[c] \in Onlooker /\ (view[c].seen <=> view[c].since # None)
          /\ view[c].seen \in BOOLEAN
      BY <2>1, OneChampion DEF Onlooker
    <2> QED
      BY <1>0, <2>1, <2>2, BlockKeeps
  <1>4. ASSUME NEW c \in Champions, NEW visible \in BOOLEAN, Stray(c, visible) PROVE ExploreInv'
    <2>1. /\ VisibilityPacket(c, TRUE, visible) /\ view[c] \in Onlooker
          /\ view' = [view EXCEPT ![c] = view[c]] /\ strays' = strays \cup {c}
      BY <1>0, <1>4 DEF Stray
    <2> QED
      BY <1>0, <2>1, BlockKeeps
  <1>5. CASE OtherBlock
    BY <1>0, <1>5 DEF OtherBlock, ExploreInv, truth, VisionTyped
  <1>6. CASE VisionTick
    BY <1>6 DEF VisionTick, ExploreInv, truth, readers
  <1>7. CASE VisionEnd
    <2>1. /\ outcome = "running" /\ outcome' = "done" /\ last' = last /\ view' = view
          /\ strays' = strays /\ open' = [c \in Champions |-> None]
          /\ out' = [c \in Champions |-> IF open[c] = None THEN out[c]
                                         ELSE Append(out[c], <<open[c], last>>)]
      BY <1>7 DEF VisionEnd, truth
    <2>2. ASSUME NEW c \in Champions
          PROVE  /\ out[c] \in Windows
                 /\ open[c] # None => Append(out[c], <<open[c], last>>) \in Windows
      BY DEF ExploreInv, Time, Windows
    <2>3. open' \in [Champions -> Time] /\ out' \in [Champions -> Windows]
      BY <2>1, <2>2 DEF Time
    <2>4. ASSUME NEW c \in Champions \ strays
          PROVE  out'[c] = IF view[c].seen THEN Append(view[c].stays, <<view[c].since, last>>)
                           ELSE view[c].stays
      <3>1. open[c] = view[c].since /\ out[c] = view[c].stays
        BY <2>1 DEF ExploreInv
      <3>2. view[c].seen <=> view[c].since # None
        BY <2>1, OneChampion
      <3> QED
        BY <2>1, <3>1, <3>2
    <2> QED
      BY <2>1, <2>3, <2>4 DEF ExploreInv
  <1>8. CASE UNCHANGED visionVars
    BY <1>8 DEF visionVars, truth, readers, ExploreInv
  <1> QED
    BY <1>1, <1>2, <1>3, <1>4, <1>5, <1>6, <1>7, <1>8 DEF VisionNext

\* Without packets that name the wrong team, the undecoded reading has found the same
\* stays, the one the game's end cut short up to the last block (explore.rs:881-897).
THEOREM ExploredCorrect == VisionSpec => []ExploredMatches
  <1>1. VisionInv /\ ExploreInv => ExploredMatches
    <2> SUFFICES ASSUME VisionInv, ExploreInv, NEW c \in Champions \ strays
                 PROVE  /\ Len(out[c]) = Len(vision[c].windows)
                        /\ \A i \in 1 .. Len(out[c]) :
                             out[c][i] = IF outcome = "done" /\ i = Len(out[c]) /\ view[c].seen
                                         THEN <<vision[c].windows[i][1], last>>
                                         ELSE vision[c].windows[i]
      BY DEF ExploredMatches
    <2>1. vision[c].windows = Stays(c) /\ view[c].stays \in Windows
      BY DEF VisionInv, VisionTyped, WindowsAreTheStays, Onlooker
    <2>2. CASE outcome = "done" /\ view[c].seen
      <3> DEFINE stays == view[c].stays
                 from  == view[c].since
      <3>1. vision[c].windows = Append(stays, <<from, now>>) /\ out[c] = Append(stays, <<from, last>>)
        BY <2>1, <2>2 DEF Stays, ExploreInv
      <3>2. stays \in Seq(Nat \X Nat)
        BY <2>1 DEF Windows
      <3> HIDE DEF stays, from
      <3>3. /\ Len(Append(stays, <<from, now>>)) = Len(stays) + 1
            /\ Len(Append(stays, <<from, last>>)) = Len(stays) + 1
            /\ \A i \in 1 .. Len(stays) + 1 :
                 /\ Append(stays, <<from, now>>)[i] = IF i = Len(stays) + 1 THEN <<from, now>> ELSE stays[i]
                 /\ Append(stays, <<from, last>>)[i] = IF i = Len(stays) + 1 THEN <<from, last>> ELSE stays[i]
            /\ Len(stays) \in Nat
        BY <3>2
      <3> QED
        BY <2>2, <3>1, <3>3
    <2>3. CASE ~ (outcome = "done" /\ view[c].seen)
      BY <2>1, <2>3 DEF Stays, ExploreInv
    <2> QED
      BY <2>2, <2>3
  <1>2. VisionInv /\ ExploreInv /\ [VisionNext]_visionVars => (VisionInv /\ ExploreInv)'
    BY VisionStepInv, ExploreStepInv
  <1> QED
    BY <1>1, <1>2, VisionInitInv, ExploreInitInv, PTL DEF VisionSpec

-----------------------------------------------------------------------------
(* Inventories                                                             *)

Contents == Items \cup {0}

\* What the server sends.
BuyAnswers    == [kind : {"buy"}, t : Nat, hero : Heroes, item : Items, slot : Slots]
RemoveAnswers == [kind : {"remove"}, t : Nat, hero : Heroes, slot : Slots, gone : Contents]
SwapAnswers   == [kind : {"swap"}, t : Nat, hero : Heroes, from : Slots, to : Slots]
UseAnswers    == [kind : {"use"}, t : Nat, hero : Heroes, slot : Slots,
                  survives : {0, 1}, charges_left : {0, 1}, gone : Contents]
Answers == BuyAnswers \cup RemoveAnswers \cup SwapAnswers \cup UseAnswers

\* The type invariant.
InventoryTyped ==
  /\ held \in [Heroes -> [Slots -> Contents]] /\ inventory \in [Heroes -> [Slots -> Contents]]
  /\ displaced \in [Heroes -> [Slots -> Int]]
  /\ now \in Nat /\ wire \in Seq(Answers)

\* From the n-th on there are removals only, of hero p at time t, each of a slot
\* of its own.
Removals(n, p, t) ==
  /\ \A i \in n .. Len(wire) : wire[i] \in RemoveAnswers /\ wire[i].hero = p /\ wire[i].t = t
  /\ \A i, j \in n .. Len(wire) : wire[i].slot = wire[j].slot => i = j

Doomed(n) == {wire[i].slot : i \in n .. Len(wire)}

\* No entry of the map can be taken for one of time t.
Settled(t) == \A q \in Heroes, s \in Slots : displaced[q][s] < t

Resting == wire = <<>> => inventory = held /\ Settled(now)

\* What is left of a run of packets, by the first of them.
Buying ==
  LET x == wire[1]  p == wire[1].hero IN
  wire # <<>> /\ x \in BuyAnswers =>
    /\ x.t <= now /\ Settled(x.t) /\ Removals(2, p, x.t)
    /\ inventory[p][x.slot] # 0 => x.slot \in Doomed(2) \/ x.t < now
    /\ \A i \in 2 .. Len(wire) : wire[i].gone = inventory[p][wire[i].slot] /\ wire[i].gone # 0
    /\ \A q \in Heroes, s \in Slots : held[q][s] =
         IF q = p /\ s = x.slot THEN x.item
         ELSE IF q = p /\ s \in Doomed(2) THEN 0 ELSE inventory[q][s]

Removing ==
  LET p == wire[1].hero  t == wire[1].t IN
  wire # <<>> /\ wire[1] \in RemoveAnswers =>
    /\ t <= now /\ Removals(1, p, t)
    /\ \A q \in Heroes, s \in Slots :
         /\ displaced[q][s] <= t
         /\ displaced[q][s] < now \/ (q = p /\ s \in Doomed(1))
         /\ held[q][s] = IF q = p /\ s \in Doomed(1) /\ displaced[q][s] # t THEN 0 ELSE inventory[q][s]
    /\ \A i \in 1 .. Len(wire) : LET s == wire[i].slot IN
         displaced[p][s] = t \/ wire[i].gone = inventory[p][s]

Swapping ==
  LET x == wire[1] IN
  wire # <<>> /\ x \in SwapAnswers =>
    /\ Tail(wire) = <<>> /\ Settled(now)
    /\ held = [inventory EXCEPT ![x.hero][x.from] = inventory[x.hero][x.to],
                                ![x.hero][x.to] = inventory[x.hero][x.from]]

Using ==
  LET x == wire[1] IN
  wire # <<>> /\ x \in UseAnswers =>
    /\ Tail(wire) = <<>> /\ Settled(now) /\ x.gone = inventory[x.hero][x.slot]
    /\ held = IF Consumed(x) THEN [inventory EXCEPT ![x.hero][x.slot] = 0] ELSE inventory

\* The last event named the item the server meant.
EventTrue == event # NoEvent => event.item = event.gone

InventoryInv == InventoryTyped /\ Resting /\ Buying /\ Removing /\ Swapping /\ Using /\ EventTrue

\* Before the first packet the assembled inventories are as empty as the server's.
LEMMA InventoryInitInv == InventoryInit => InventoryInv
<1> SUFFICES ASSUME InventoryInit PROVE InventoryInv
  OBVIOUS
<1>1. InventoryTyped
  BY DEF InventoryInit, InventoryTyped, Every, Contents, NoTime
<1>2. Resting /\ EventTrue
  BY DEF InventoryInit, Resting, Settled, Every, NoTime, EventTrue
<1>3. wire = <<>>
  BY DEF InventoryInit
<1> QED
  BY <1>1, <1>2, <1>3 DEF InventoryInv, Buying, Removing, Swapping, Using

\* The four kinds of packets are told apart by their kind.
LEMMA KindsApart ==
  ASSUME NEW x \in Answers
  PROVE  /\ x.kind = "buy" <=> x \in BuyAnswers
         /\ x.kind = "remove" <=> x \in RemoveAnswers
         /\ x.kind = "swap" <=> x \in SwapAnswers
         /\ x.kind = "use" <=> x \in UseAnswers
  BY DEF Answers, BuyAnswers, RemoveAnswers, SwapAnswers, UseAnswers

-----------------------------------------------------------------------------
(* The server's steps                                                      *)

\* A buy with the removals of what went into it.
LEMMA BuyRun ==
  ASSUME InventoryInv, wire = <<>>, NEW p \in Heroes, NEW item \in Items, NEW slot \in Slots,
         wire' \in Seq(Answers), wire' # <<>>, wire'[1] = BuyAns(p, item, slot),
         \A i \in 2 .. Len(wire') :
           \E o \in Slots : wire'[i] = RemoveAns(p, o) /\ held[p][o] # 0,
         \A i, j \in 2 .. Len(wire') : wire'[i].slot = wire'[j].slot => i = j,
         held[p][slot] # 0 => slot \in Doomed(2)' \/ now < now',
         held' \in [Heroes -> [Slots -> Contents]],
         \A q \in Heroes, s \in Slots : held'[q][s] =
           IF q = p /\ s = slot THEN item ELSE IF q = p /\ s \in Doomed(2)' THEN 0 ELSE held[q][s],
         now' \in Nat, now <= now', UNCHANGED <<inventory, displaced, event>>
  PROVE  InventoryInv'
<1> DEFINE x == BuyAns(p, item, slot)
<1> USE DEF InventoryInv, InventoryTyped
<1>1. /\ x \in BuyAnswers /\ x.hero = p /\ x.slot = slot /\ x.item = item /\ x.t = now
      /\ wire'[1] = x
  BY DEF BuyAns, BuyAnswers
<1> HIDE DEF x
<1>2. inventory = held /\ Settled(now)
  BY DEF Resting
<1>3. ASSUME NEW i \in 2 .. Len(wire')
      PROVE  /\ wire'[i] \in RemoveAnswers /\ wire'[i].hero = p /\ wire'[i].t = now
             /\ wire'[i].gone = inventory[p][wire'[i].slot] /\ wire'[i].gone # 0
  <2>1. PICK o \in Slots : wire'[i] = RemoveAns(p, o) /\ held[p][o] # 0
    OBVIOUS
  <2>2. held[p][o] \in Contents
    OBVIOUS
  <2> QED
    BY <2>1, <2>2, <1>2 DEF RemoveAns, RemoveAnswers
<1>4. Buying'
  <2> SUFFICES
        /\ now <= now' /\ \A q \in Heroes, s \in Slots : displaced[q][s] < now
        /\ \A i \in 2 .. Len(wire') : wire'[i] \in RemoveAnswers /\ wire'[i].hero = p /\ wire'[i].t = now
        /\ \A i, j \in 2 .. Len(wire') : wire'[i].slot = wire'[j].slot => i = j
        /\ inventory[p][slot] # 0 => slot \in Doomed(2)' \/ now < now'
        /\ \A i \in 2 .. Len(wire') : /\ wire'[i].gone = inventory[p][wire'[i].slot]
                                      /\ wire'[i].gone # 0
        /\ \A q \in Heroes, s \in Slots : held'[q][s] =
             IF q = p /\ s = slot THEN item ELSE IF q = p /\ s \in Doomed(2)' THEN 0 ELSE inventory[q][s]
    BY <1>1 DEF Buying, Settled, Removals
  <2> QED
    BY <1>2, <1>3 DEF Settled
<1>5. (Resting /\ Removing /\ Swapping /\ Using)'
  BY <1>1 DEF Resting, Removing, Swapping, Using, BuyAnswers, RemoveAnswers, SwapAnswers, UseAnswers
<1> QED
  BY <1>4, <1>5 DEF EventTrue

\* A purchase in an empty slot: a run of one buy.
LEMMA PurchaseInv ==
  ASSUME InventoryInv, NEW p \in Heroes, NEW item \in Items, NEW slot \in Slots, Purchase(p, item, slot)
  PROVE  InventoryInv'
<1>1. /\ wire = <<>> /\ wire' = <<BuyAns(p, item, slot)>> /\ UNCHANGED <<inventory, displaced, event, now>>
      /\ held[p][slot] = 0 /\ held' = [held EXCEPT ![p][slot] = item]
  BY DEF Purchase, Send
<1>2. BuyAns(p, item, slot) \in Answers
  BY DEF BuyAns, BuyAnswers, Answers, InventoryInv, InventoryTyped
<1>3. /\ wire' \in Seq(Answers) /\ wire' # <<>> /\ Len(wire') = 1 /\ wire'[1] = BuyAns(p, item, slot)
      /\ Doomed(2)' = {}
  <2> DEFINE x == BuyAns(p, item, slot)
  <2>1. wire' = <<x>> /\ x \in Answers
    BY <1>1, <1>2
  <2> HIDE DEF x
  <2>2. /\ wire' \in Seq(Answers) /\ wire' # <<>> /\ Len(wire') = 1 /\ wire'[1] = x
    BY <2>1
  <2> QED
    BY <2>2 DEF x, Doomed
<1>4. /\ held' \in [Heroes -> [Slots -> Contents]] /\ now' \in Nat /\ now <= now'
      /\ \A q \in Heroes, s \in Slots : held'[q][s] =
           IF q = p /\ s = slot THEN item ELSE IF q = p /\ s \in Doomed(2)' THEN 0 ELSE held[q][s]
  BY <1>1, <1>3 DEF InventoryInv, InventoryTyped, Contents
<1>5. \A i \in 2 .. Len(wire') : FALSE
  BY <1>3
<1> QED
  BY <1>1, <1>3, <1>4, <1>5, BuyRun

\* What a recipe takes is there.
LEMMA CraftedFrom ==
  ASSUME InventoryInv, NEW p \in Heroes, NEW r \in DOMAIN Recipe, NEW a \in Slots, NEW b \in Slots,
         NEW slot \in Slots, Crafted(p, r, a, b, slot)
  PROVE  /\ r \in Items /\ a # b /\ held[p][a] # 0 /\ held[p][b] # 0
         /\ held[p][slot] # 0 => slot \in {a, b}
         /\ held' \in [Heroes -> [Slots -> Contents]]
         /\ \A q \in Heroes, s \in Slots : held'[q][s] =
              IF q = p /\ s = slot THEN r ELSE IF q = p /\ s \in {a, b} THEN 0 ELSE held[q][s]
<1>1. /\ a # b /\ <<held[p][a], held[p][b]>> = Recipe[r]
      /\ held[p][slot] # 0 => slot \in {a, b}
  BY DEF Crafted
<1>2. r \in Items /\ Recipe[r][1] \in Items /\ Recipe[r][2] \in Items /\ 0 \notin Items
  BY InventoryAssumption
<1>3. held[p][a] # 0 /\ held[p][b] # 0
  <2> DEFINE u == held[p][a]  v == held[p][b]
  <2>1. <<u, v>> = Recipe[r]
    BY <1>1
  <2> HIDE DEF u, v
  <2>2. u = Recipe[r][1] /\ v = Recipe[r][2]
    BY <2>1
  <2>3. u # 0 /\ v # 0
    BY <2>2, <1>2
  <2> QED
    BY <2>3 DEF u, v
<1> DEFINE row == [s \in Slots |-> IF s = slot THEN r ELSE IF s \in {a, b} THEN 0 ELSE held[p][s]]
<1>4. held' = [held EXCEPT ![p] = row]
  BY DEF Crafted
<1>5. held \in [Heroes -> [Slots -> Contents]]
  BY DEF InventoryInv, InventoryTyped
<1>6. row \in [Slots -> Contents]
  BY <1>2, <1>5 DEF Contents
<1>7. \A s \in Slots : row[s] = IF s = slot THEN r ELSE IF s \in {a, b} THEN 0 ELSE held[p][s]
  OBVIOUS
<1> HIDE DEF row
<1>8. held' \in [Heroes -> [Slots -> Contents]]
  BY <1>4, <1>5, <1>6
<1>9. \A q \in Heroes : held'[q] = IF q = p THEN row ELSE held[q]
  BY <1>4, <1>5
<1>10. \A q \in Heroes, s \in Slots : held'[q][s] =
         IF q = p /\ s = slot THEN r ELSE IF q = p /\ s \in {a, b} THEN 0 ELSE held[q][s]
  BY <1>7, <1>9
<1> QED
  BY <1>1, <1>2, <1>3, <1>8, <1>10

\* A recipe: the buy of the result and both removals, in either order.
LEMMA CraftInv ==
  ASSUME InventoryInv, NEW p \in Heroes, NEW r \in DOMAIN Recipe, NEW a \in Slots, NEW b \in Slots,
         NEW slot \in Slots, Craft(p, r, a, b, slot)
  PROVE  InventoryInv'
<1>1. PICK order \in {<<a, b>>, <<b, a>>} :
        Send(<<BuyAns(p, r, slot), RemoveAns(p, order[1]), RemoveAns(p, order[2])>>)
  BY DEF Craft
<1> DEFINE o1 == order[1]  o2 == order[2]
           x == BuyAns(p, r, slot)  y == RemoveAns(p, o1)  z == RemoveAns(p, o2)
<1>2. /\ o1 \in Slots /\ o2 \in Slots /\ {o1, o2} = {a, b} /\ (a # b => o1 # o2)
  OBVIOUS
<1>3. /\ r \in Items /\ a # b /\ held[p][a] # 0 /\ held[p][b] # 0
      /\ held[p][slot] # 0 => slot \in {a, b}
      /\ held' \in [Heroes -> [Slots -> Contents]]
      /\ \A q \in Heroes, s \in Slots : held'[q][s] =
           IF q = p /\ s = slot THEN r ELSE IF q = p /\ s \in {a, b} THEN 0 ELSE held[q][s]
  BY CraftedFrom DEF Craft
<1>4. x \in Answers /\ y \in Answers /\ z \in Answers /\ y.slot = o1 /\ z.slot = o2
  BY <1>2, <1>3 DEF BuyAns, RemoveAns, BuyAnswers, RemoveAnswers, Answers, InventoryInv, InventoryTyped
<1>5. wire = <<>> /\ wire' = <<x, y, z>> /\ UNCHANGED <<inventory, displaced, event, now>>
  BY <1>1 DEF Send, Craft
<1> HIDE DEF o1, o2
<1>6. \A i \in 2 .. 3 : i = 2 \/ i = 3
  OBVIOUS
<1>7. /\ wire' \in Seq(Answers) /\ wire' # <<>> /\ Len(wire') = 3
      /\ wire'[1] = x /\ wire'[2] = y /\ wire'[3] = z
  <2> HIDE DEF x, y, z
  <2> QED
    BY <1>4, <1>5
<1>8. Doomed(2)' = {a, b}
  <2>1. Doomed(2)' = {wire'[i].slot : i \in 2 .. 3}
    BY <1>7 DEF Doomed
  <2> HIDE DEF x, y, z
  <2>2. Doomed(2)' = {o1, o2}
    BY <2>1, <1>4, <1>6, <1>7
  <2> QED
    BY <2>2, <1>2
<1>9. \A i \in 2 .. Len(wire') : \E o \in Slots : wire'[i] = RemoveAns(p, o) /\ held[p][o] # 0
  <2>1. held[p][o1] # 0 /\ held[p][o2] # 0
    BY <1>2, <1>3
  <2> QED
    BY <2>1, <1>2, <1>6, <1>7
<1>10. \A i, j \in 2 .. Len(wire') : wire'[i].slot = wire'[j].slot => i = j
  <2> HIDE DEF x, y, z
  <2> QED
    BY <1>2, <1>3, <1>4, <1>6, <1>7
<1>11. now' \in Nat /\ now <= now'
  BY <1>5 DEF InventoryInv, InventoryTyped
<1> QED
  BY <1>3, <1>5, <1>7, <1>8, <1>9, <1>10, <1>11, BuyRun

\* The same without the removal under the result: the clock moves on.
LEMMA CraftUntypedInv ==
  ASSUME InventoryInv, NEW p \in Heroes, NEW r \in DOMAIN Recipe, NEW a \in Slots, NEW b \in Slots,
         NEW slot \in Slots, CraftUntyped(p, r, a, b, slot)
  PROVE  InventoryInv'
<1> DEFINE o == IF slot = a THEN b ELSE a
           x == BuyAns(p, r, slot)  y == RemoveAns(p, o)
<1>1. /\ r \in Items /\ a # b /\ held[p][a] # 0 /\ held[p][b] # 0
      /\ held' \in [Heroes -> [Slots -> Contents]]
      /\ \A q \in Heroes, s \in Slots : held'[q][s] =
           IF q = p /\ s = slot THEN r ELSE IF q = p /\ s \in {a, b} THEN 0 ELSE held[q][s]
  BY CraftedFrom DEF CraftUntyped
<1>2. slot \in {a, b} /\ o \in Slots /\ o # slot /\ {slot, o} = {a, b}
  BY <1>1 DEF CraftUntyped
<1>3. x \in Answers /\ y \in Answers /\ y.slot = o
  BY <1>1, <1>2 DEF BuyAns, RemoveAns, BuyAnswers, RemoveAnswers, Answers, InventoryInv, InventoryTyped
<1>4. wire = <<>> /\ wire' = <<x, y>> /\ UNCHANGED <<inventory, displaced, event>> /\ now' = now + 1
  BY DEF Send, CraftUntyped
<1> HIDE DEF o
<1>5. \A i \in 2 .. 2 : i = 2
  OBVIOUS
<1>6. /\ wire' \in Seq(Answers) /\ wire' # <<>> /\ Len(wire') = 2
      /\ wire'[1] = x /\ wire'[2] = y
  <2> HIDE DEF x, y
  <2> QED
    BY <1>3, <1>4
<1>7. Doomed(2)' = {o}
  <2>1. Doomed(2)' = {wire'[i].slot : i \in 2 .. 2}
    BY <1>6 DEF Doomed
  <2> HIDE DEF x, y
  <2> QED
    BY <2>1, <1>3, <1>5, <1>6
<1>8. \A i \in 2 .. Len(wire') : \E s \in Slots : wire'[i] = RemoveAns(p, s) /\ held[p][s] # 0
  <2>1. held[p][o] # 0
    BY <1>1, <1>2
  <2> QED
    BY <2>1, <1>2, <1>5, <1>6
<1>9. \A i, j \in 2 .. Len(wire') : wire'[i].slot = wire'[j].slot => i = j
  BY <1>5, <1>6
<1>10. now' \in Nat /\ now <= now' /\ now < now'
  BY <1>4 DEF InventoryInv, InventoryTyped
<1>11. \A q \in Heroes, s \in Slots : held'[q][s] =
         IF q = p /\ s = slot THEN r ELSE IF q = p /\ s \in Doomed(2)' THEN 0 ELSE held[q][s]
  BY <1>1, <1>2, <1>7
<1> QED
  BY <1>1, <1>4, <1>6, <1>8, <1>9, <1>10, <1>11, BuyRun

\* A sale, a swap and a use are runs of one packet.
LEMMA SellInv ==
  ASSUME InventoryInv, NEW p \in Heroes, NEW slot \in Slots, Sell(p, slot)
  PROVE  InventoryInv'
<1> DEFINE x == RemoveAns(p, slot)
<1> USE DEF InventoryInv, InventoryTyped
<1>1. /\ wire = <<>> /\ wire' = <<x>> /\ UNCHANGED <<inventory, displaced, event, now>>
      /\ held' = [held EXCEPT ![p][slot] = 0]
  BY DEF Sell, Send
<1>2. /\ x \in RemoveAnswers /\ x.hero = p /\ x.slot = slot /\ x.gone = held[p][slot] /\ x.t = now
      /\ x.kind = "remove"
  BY DEF RemoveAns, RemoveAnswers
<1> HIDE DEF x
<1>3. inventory = held /\ Settled(now)
  BY <1>1 DEF Resting
<1>4. InventoryTyped'
  BY <1>1, <1>2 DEF Answers, Contents
<1>5. wire' # <<>> /\ wire'[1] = x /\ Len(wire') = 1
  BY <1>1
<1>6. Removals(1, p, now)' /\ Doomed(1)' = {slot}
  BY <1>1, <1>2, <1>5 DEF Removals, Doomed
<1>7. Removing'
  <2> SUFFICES /\ now <= now /\ Removals(1, p, now)'
               /\ \A q \in Heroes, s \in Slots :
                    /\ displaced[q][s] <= now /\ displaced[q][s] < now
                    /\ held'[q][s] = IF q = p /\ s = slot /\ displaced[q][s] # now THEN 0 ELSE inventory[q][s]
               /\ x.gone = inventory[p][slot]
    <3>1. \A i \in 1 .. Len(wire') : wire'[i] = x
      BY <1>5
    <3> QED
      BY <1>1, <1>2, <1>5, <1>6, <3>1 DEF Removing
  <2> QED
    BY <1>1, <1>2, <1>3, <1>6 DEF Settled
<1>8. (Resting /\ Buying /\ Swapping /\ Using)'
  BY <1>2, <1>5 DEF Resting, Buying, Swapping, Using, BuyAnswers, SwapAnswers, UseAnswers
<1> QED
  BY <1>1, <1>4, <1>7, <1>8 DEF EventTrue

LEMMA SwapSlotsInv ==
  ASSUME InventoryInv, NEW p \in Heroes, NEW from \in Slots, NEW to \in Slots, SwapSlots(p, from, to)
  PROVE  InventoryInv'
<1> DEFINE x == SwapAns(p, from, to)
<1> USE DEF InventoryInv, InventoryTyped
<1>1. /\ wire = <<>> /\ wire' = <<x>> /\ UNCHANGED <<inventory, displaced, event, now>>
      /\ held' = [held EXCEPT ![p][from] = held[p][to], ![p][to] = held[p][from]]
  BY DEF SwapSlots, Send
<1>2. /\ x \in SwapAnswers /\ x.hero = p /\ x.from = from /\ x.to = to /\ x.kind = "swap"
  BY DEF SwapAns, SwapAnswers
<1> HIDE DEF x
<1>3. inventory = held /\ Settled(now)
  BY <1>1 DEF Resting
<1>4. InventoryTyped'
  <2>1. held[p][to] \in Contents /\ held[p][from] \in Contents
    OBVIOUS
  <2>2. held' \in [Heroes -> [Slots -> Contents]]
    BY <1>1, <2>1
  <2>3. x \in Answers
    BY <1>2 DEF Answers
  <2>4. wire' \in Seq(Answers)
    BY <1>1, <2>3
  <2>5. UNCHANGED <<inventory, displaced, now>>
    BY <1>1
  <2> QED
    BY <2>2, <2>4, <2>5
<1>5. wire' # <<>> /\ wire'[1] = x /\ Tail(wire') = <<>>
  BY <1>1
<1>6. Swapping'
  BY <1>1, <1>2, <1>3, <1>5 DEF Swapping, Settled
<1>7. (Resting /\ Buying /\ Removing /\ Using)'
  BY <1>2, <1>5 DEF Resting, Buying, Removing, Using, BuyAnswers, RemoveAnswers, UseAnswers
<1> QED
  BY <1>1, <1>4, <1>6, <1>7 DEF EventTrue

LEMMA UseUpInv ==
  ASSUME InventoryInv, NEW p \in Heroes, NEW slot \in Slots, NEW survives \in {0, 1}, NEW left \in {0, 1},
         UseUp(p, slot, survives, left)
  PROVE  InventoryInv'
<1> DEFINE x == UseAns(p, slot, survives, left)
<1> USE DEF InventoryInv, InventoryTyped
<1>1. /\ wire = <<>> /\ wire' = <<x>> /\ UNCHANGED <<inventory, displaced, event, now>>
      /\ held' = IF survives = 0 /\ left = 0 THEN [held EXCEPT ![p][slot] = 0] ELSE held
  BY DEF UseUp, Send
<1>2. /\ x \in UseAnswers /\ x.hero = p /\ x.slot = slot /\ x.gone = held[p][slot] /\ x.kind = "use"
      /\ Consumed(x) <=> survives = 0 /\ left = 0
  BY DEF UseAns, UseAnswers, Consumed
<1> HIDE DEF x
<1>3. inventory = held /\ Settled(now)
  BY <1>1 DEF Resting
<1>4. InventoryTyped'
  BY <1>1, <1>2 DEF Answers, Contents
<1>5. wire' # <<>> /\ wire'[1] = x /\ Tail(wire') = <<>>
  BY <1>1
<1>6. Using'
  BY <1>1, <1>2, <1>3, <1>5 DEF Using, Settled, Consumed
<1>7. (Resting /\ Buying /\ Removing /\ Swapping)'
  BY <1>2, <1>5 DEF Resting, Buying, Removing, Swapping, BuyAnswers, RemoveAnswers, SwapAnswers
<1> QED
  BY <1>1, <1>4, <1>6, <1>7 DEF EventTrue

\* A later clock leaves what is settled settled.
LEMMA ShopTickInv ==
  ASSUME InventoryInv, ShopTick
  PROVE  InventoryInv'
<1> USE DEF InventoryInv, InventoryTyped
<1>1. now' = now + 1 /\ now < now' /\ now' \in Nat /\ UNCHANGED <<held, wire, inventory, displaced, event>>
  BY DEF ShopTick
<1>2. InventoryTyped' /\ EventTrue'
  BY <1>1 DEF EventTrue
<1>3. \A t \in Nat : (t <= now => t <= now') /\ (t < now => t < now')
  BY <1>1
<1>4. Settled(now) => Settled(now')
  BY <1>1 DEF Settled
<1>5. Resting'
  BY <1>1, <1>4 DEF Resting, Settled
<1>6. Swapping' /\ Using'
  BY <1>1, <1>4 DEF Swapping, Using, Settled
<1>7. Buying'
  BY <1>1, <1>3 DEF Buying, Settled, Removals, Doomed, BuyAnswers
<1>8. Removing'
  BY <1>1, <1>3 DEF Removing, Removals, Doomed, RemoveAnswers
<1> QED
  BY <1>2, <1>5, <1>6, <1>7, <1>8

-----------------------------------------------------------------------------
(* The assembler's steps                                                   *)

\* What taking the head off the wire leaves on it.
LEMMA TakeFacts ==
  ASSUME InventoryInv, NEW kind, Take(kind)
  PROVE  /\ wire # <<>> /\ Head(wire) = wire[1] /\ wire[1] \in Answers /\ wire[1].kind = kind
         /\ Len(wire) \in Nat \ {0} /\ wire' = Tail(wire) /\ wire' \in Seq(Answers)
         /\ Len(wire') = Len(wire) - 1
         /\ \A i \in 1 .. Len(wire') : i + 1 \in 2 .. Len(wire) /\ wire'[i] = wire[i + 1]
         /\ held' = held /\ now' = now
         /\ wire' = <<>> <=> Len(wire) = 1
         /\ Doomed(1)' = Doomed(2) /\ Doomed(1) = Doomed(2) \cup {wire[1].slot}
         /\ wire' = <<>> => Doomed(2) = {}
<1>1. wire \in Seq(Answers) /\ wire # <<>> /\ Head(wire).kind = kind /\ wire' = Tail(wire)
  BY DEF Take, InventoryInv, InventoryTyped
<1>2. Len(wire) \in Nat \ {0} /\ Head(wire) = wire[1] /\ wire[1] \in Answers
  BY <1>1
<1>3. wire' \in Seq(Answers) /\ Len(wire') = Len(wire) - 1 /\ (wire' = <<>> <=> Len(wire) = 1)
  <2>1. wire' \in Seq(Answers)
    BY <1>1
  <2>2. Len(wire') = Len(wire) - 1
    BY <1>1
  <2>3. wire' = <<>> <=> Len(wire') = 0
    BY <2>1
  <2> QED
    BY <1>2, <2>1, <2>2, <2>3
<1>4. \A i \in 1 .. Len(wire') : i + 1 \in 2 .. Len(wire) /\ wire'[i] = wire[i + 1]
  BY <1>1, <1>2, <1>3
<1>5. Doomed(1)' = Doomed(2)
  <2>1. ASSUME NEW i \in 2 .. Len(wire)
        PROVE  i - 1 \in 1 .. Len(wire') /\ wire[i] = wire'[i - 1]
    BY <1>1, <1>2, <1>3
  <2>2. \A i \in 1 .. Len(wire') : wire'[i] = wire[i + 1] /\ i + 1 \in 2 .. Len(wire)
    BY <1>4
  <2>3. Doomed(1)' \subseteq Doomed(2)
    BY <2>2 DEF Doomed
  <2>4. Doomed(2) \subseteq Doomed(1)'
    BY <2>1 DEF Doomed
  <2> QED
    BY <2>3, <2>4
<1>6. Doomed(1) = Doomed(2) \cup {wire[1].slot}
  BY <1>2 DEF Doomed
<1>7. wire' = <<>> => Doomed(2) = {}
  <2>1. Len(wire) = 1 => 2 .. Len(wire) = {}
    OBVIOUS
  <2> QED
    BY <1>3, <2>1 DEF Doomed
<1>8. held' = held /\ now' = now
  BY DEF Take, server
<1> QED
  BY <1>1, <1>2, <1>3, <1>4, <1>5, <1>6, <1>7, <1>8

\* Once the buy is taken in, what is left is removals, one of which may find its
\* item displaced.
LEMMA BuyItemInv ==
  ASSUME InventoryInv, BuyItem
  PROVE  InventoryInv'
<1> DEFINE x == wire[1]  p == wire[1].hero  t == wire[1].t
<1> USE DEF InventoryInv, InventoryTyped
<1>1. Take("buy")
  BY DEF BuyItem
<1>2. /\ wire # <<>> /\ Head(wire) = x /\ x \in BuyAnswers /\ Len(wire) \in Nat \ {0}
      /\ wire' \in Seq(Answers) /\ Len(wire') = Len(wire) - 1
      /\ \A i \in 1 .. Len(wire') : i + 1 \in 2 .. Len(wire) /\ wire'[i] = wire[i + 1]
      /\ held' = held /\ now' = now
      /\ Doomed(1)' = Doomed(2)
      /\ wire' = <<>> => Doomed(2) = {}
  BY <1>1, TakeFacts, KindsApart
<1>3. /\ p \in Heroes /\ x.slot \in Slots /\ x.item \in Items /\ t \in Nat
  BY <1>2 DEF BuyAnswers
<1>4. /\ t <= now /\ Settled(t) /\ Removals(2, p, t)
      /\ inventory[p][x.slot] # 0 => x.slot \in Doomed(2) \/ t < now
      /\ \A i \in 2 .. Len(wire) : wire[i].gone = inventory[p][wire[i].slot] /\ wire[i].gone # 0
      /\ \A q \in Heroes, s \in Slots : held[q][s] =
           IF q = p /\ s = x.slot THEN x.item
           ELSE IF q = p /\ s \in Doomed(2) THEN 0 ELSE inventory[q][s]
  BY <1>2 DEF Buying
<1>5. /\ displaced' = IF inventory[p][x.slot] # 0 THEN [displaced EXCEPT ![p][x.slot] = t] ELSE displaced
      /\ inventory' = [inventory EXCEPT ![p][x.slot] = x.item]
      /\ event' = NoEvent
  BY <1>2 DEF BuyItem
<1> HIDE DEF x, p, t
<1>6. InventoryTyped' /\ EventTrue'
  <2>1. inventory' \in [Heroes -> [Slots -> Contents]]
    BY <1>3, <1>5 DEF Contents
  <2>2. displaced' \in [Heroes -> [Slots -> Int]]
    BY <1>3, <1>5
  <2> QED
    BY <1>2, <1>5, <2>1, <2>2 DEF EventTrue
<1>7. \A q \in Heroes, s \in Slots :
        /\ inventory'[q][s] = IF q = p /\ s = x.slot THEN x.item ELSE inventory[q][s]
        /\ displaced'[q][s] = IF q = p /\ s = x.slot /\ inventory[p][x.slot] # 0 THEN t ELSE displaced[q][s]
  BY <1>3, <1>5
<1>8. \A i \in 2 .. Len(wire) : wire[i] \in RemoveAnswers /\ wire[i].hero = p /\ wire[i].t = t
  BY <1>4 DEF Removals
<1>9. CASE wire' = <<>>
  <2>1. Doomed(2) = {}
    BY <1>2, <1>9
  <2>2. ASSUME NEW q \in Heroes, NEW s \in Slots
        PROVE  inventory'[q][s] = held[q][s]
    <3>1. s \notin Doomed(2)
      BY <2>1
    <3>2. held[q][s] = IF q = p /\ s = x.slot THEN x.item ELSE inventory[q][s]
      BY <3>1, <1>4
    <3>3. inventory'[q][s] = IF q = p /\ s = x.slot THEN x.item ELSE inventory[q][s]
      BY <1>7
    <3> QED
      BY <3>2, <3>3
  <2>3. inventory' = held'
    BY <2>2, <1>2, <1>6
  <2>4. ASSUME NEW q \in Heroes, NEW s \in Slots
        PROVE  displaced'[q][s] < now
    <3>1. displaced[q][s] < t /\ displaced[q][s] \in Int /\ now \in Nat
      BY <1>4 DEF Settled
    <3> QED
      BY <3>1, <2>1, <1>3, <1>4, <1>7
  <2>5. Settled(now)'
    BY <2>4, <1>2 DEF Settled
  <2> QED
    BY <1>6, <1>9, <2>3, <2>5 DEF Resting, Buying, Removing, Swapping, Using
<1>10. CASE wire' # <<>>
  <2>1. 1 \in 1 .. Len(wire') /\ wire'[1] \in RemoveAnswers /\ wire'[1].hero = p /\ wire'[1].t = t
    BY <1>2, <1>8, <1>10
  <2>2. /\ \A i \in 1 .. Len(wire') : wire'[i] \in RemoveAnswers /\ wire'[i].hero = p /\ wire'[i].t = t
        /\ \A i, j \in 1 .. Len(wire') : wire'[i].slot = wire'[j].slot => i = j
    <3>1. \A i, j \in 2 .. Len(wire) : wire[i].slot = wire[j].slot => i = j
      BY <1>4 DEF Removals
    <3>2. ASSUME NEW i \in 1 .. Len(wire'), NEW j \in 1 .. Len(wire'), wire'[i].slot = wire'[j].slot
          PROVE  i = j
      <4>1. i + 1 \in 2 .. Len(wire) /\ j + 1 \in 2 .. Len(wire) /\ wire[i + 1].slot = wire[j + 1].slot
        BY <1>2, <3>2
      <4>2. i + 1 = j + 1
        BY <3>1, <4>1
      <4> QED
        BY <4>2
    <3>3. ASSUME NEW i \in 1 .. Len(wire')
          PROVE  wire'[i] \in RemoveAnswers /\ wire'[i].hero = p /\ wire'[i].t = t
      BY <1>2, <1>8
    <3> QED
      BY <3>2, <3>3
  <2>3. \A i \in 2 .. Len(wire) : wire[i].slot \in Slots /\ wire[i].slot \in Doomed(2)
    BY <1>8 DEF RemoveAnswers, Doomed
  <2>4. ASSUME x.slot \in Doomed(2)
        PROVE  inventory[p][x.slot] # 0
    <3>1. PICK i \in 2 .. Len(wire) : x.slot = wire[i].slot
      BY <2>4 DEF Doomed
    <3> QED
      BY <3>1, <1>4
  <2>5. ASSUME NEW q \in Heroes, NEW s \in Slots
        PROVE  /\ displaced'[q][s] <= t
               /\ displaced'[q][s] < now \/ (q = p /\ s \in Doomed(2))
               /\ held[q][s] = IF q = p /\ s \in Doomed(2) /\ displaced'[q][s] # t THEN 0 ELSE inventory'[q][s]
    <3>1. displaced[q][s] < t /\ displaced[q][s] \in Int /\ now \in Nat
      BY <1>4 DEF Settled
    <3>2. CASE q = p /\ s = x.slot
      BY <3>1, <3>2, <1>3, <1>4, <1>7, <2>4
    <3>3. CASE ~ (q = p /\ s = x.slot)
      BY <3>1, <3>3, <1>3, <1>4, <1>7
    <3> QED
      BY <3>2, <3>3
  <2>6. ASSUME NEW i \in 1 .. Len(wire')
        PROVE  displaced'[p][wire'[i].slot] = t \/ wire'[i].gone = inventory'[p][wire'[i].slot]
    <3>1. wire'[i] = wire[i + 1] /\ i + 1 \in 2 .. Len(wire)
      BY <1>2
    <3> DEFINE y == wire[i + 1]
    <3>2. y.slot \in Slots /\ y.slot \in Doomed(2) /\ y.gone = inventory[p][y.slot]
      BY <3>1, <2>3, <1>4
    <3> HIDE DEF y
    <3>3. displaced'[p][y.slot] = t \/ y.gone = inventory'[p][y.slot]
      BY <3>2, <1>3, <1>7, <2>4
    <3> QED
      BY <3>1, <3>3 DEF y
  <2>7. Removing'
    BY <1>2, <1>4, <2>1, <2>2, <2>5, <2>6 DEF Removing, Removals
  <2> QED
    BY <1>6, <1>10, <2>1, <2>7
       DEF Resting, Buying, Swapping, Using, BuyAnswers, RemoveAnswers, SwapAnswers, UseAnswers
<1> QED
  BY <1>9, <1>10
\* A removal that finds its entry spares the bought item; any other finds the item
\* the server removed.
LEMMA RemoveItemInv ==
  ASSUME InventoryInv, RemoveItem
  PROVE  InventoryInv'
<1> DEFINE x == wire[1]  p == wire[1].hero  t == wire[1].t
<1> USE DEF InventoryInv, InventoryTyped
<1>1. Take("remove")
  BY DEF RemoveItem
<1>2. /\ wire # <<>> /\ Head(wire) = x /\ x \in RemoveAnswers /\ Len(wire) \in Nat \ {0}
      /\ wire' \in Seq(Answers) /\ Len(wire') = Len(wire) - 1
      /\ \A i \in 1 .. Len(wire') : i + 1 \in 2 .. Len(wire) /\ wire'[i] = wire[i + 1]
      /\ held' = held /\ now' = now
      /\ Doomed(1)' = Doomed(2) /\ Doomed(1) = Doomed(2) \cup {x.slot}
      /\ wire' = <<>> => Doomed(2) = {}
  BY <1>1, TakeFacts, KindsApart
<1>3. /\ p \in Heroes /\ x.slot \in Slots /\ t \in Nat
  BY <1>2 DEF RemoveAnswers
<1>4. /\ t <= now /\ Removals(1, p, t)
      /\ \A q \in Heroes, s \in Slots :
           /\ displaced[q][s] <= t
           /\ displaced[q][s] < now \/ (q = p /\ s \in Doomed(1))
           /\ held[q][s] = IF q = p /\ s \in Doomed(1) /\ displaced[q][s] # t THEN 0 ELSE inventory[q][s]
      /\ \A i \in 1 .. Len(wire) : displaced[p][wire[i].slot] = t \/ wire[i].gone = inventory[p][wire[i].slot]
  BY <1>2 DEF Removing
<1>5. /\ displaced' = [displaced EXCEPT ![p][x.slot] = NoTime]
      /\ displaced[p][x.slot] = t => event' = NoEvent /\ inventory' = inventory
      /\ displaced[p][x.slot] # t =>
           /\ event'.item = inventory[p][x.slot] /\ event'.gone = x.gone
           /\ inventory' = [inventory EXCEPT ![p][x.slot] = 0]
  <2>1. displaced' = [displaced EXCEPT ![p][x.slot] = NoTime]
    BY <1>2 DEF RemoveItem
  <2>2. CASE displaced[p][x.slot] = t
    BY <1>2, <2>1, <2>2 DEF RemoveItem, WasDisplaced
  <2>3. CASE displaced[p][x.slot] # t
    <3>1. event' = Event("item_removed", x) /\ inventory' = [inventory EXCEPT ![p][x.slot] = 0]
      BY <1>2, <2>3 DEF RemoveItem, WasDisplaced
    <3>2. event'.item = inventory[p][x.slot] /\ event'.gone = x.gone
      BY <3>1 DEF Event
    <3> QED
      BY <2>1, <2>3, <3>1, <3>2
  <2> QED
    BY <2>2, <2>3
<1>6. x.slot \notin Doomed(2)
  <2> SUFFICES ASSUME x.slot \in Doomed(2) PROVE FALSE
    OBVIOUS
  <2>1. PICK i \in 2 .. Len(wire) : x.slot = wire[i].slot
    BY DEF Doomed
  <2>2. i \in 1 .. Len(wire) /\ 1 \in 1 .. Len(wire) /\ i # 1
    BY <1>2
  <2> QED
    BY <1>4, <2>1, <2>2 DEF Removals
<1>7. displaced[p][x.slot] # t => x.gone = inventory[p][x.slot]
  <2>1. 1 \in 1 .. Len(wire)
    BY <1>2
  <2> QED
    BY <1>4, <2>1
<1> HIDE DEF x, p, t
<1>8. \A q \in Heroes, s \in Slots :
        /\ displaced'[q][s] = IF q = p /\ s = x.slot THEN NoTime ELSE displaced[q][s]
        /\ inventory'[q][s] = IF q = p /\ s = x.slot /\ displaced[q][s] # t THEN 0 ELSE inventory[q][s]
  BY <1>3, <1>5
<1>9. InventoryTyped' /\ EventTrue'
  <2>1. inventory' \in [Heroes -> [Slots -> Contents]]
    <3>1. CASE displaced[p][x.slot] = t
      BY <3>1, <1>5
    <3>2. CASE displaced[p][x.slot] # t
      <4>1. inventory' = [inventory EXCEPT ![p][x.slot] = 0]
        BY <3>2, <1>5
      <4>2. inventory \in [Heroes -> [Slots -> Contents]] /\ 0 \in Contents
        BY DEF Contents
      <4> QED
        BY <4>1, <4>2, <1>3
    <3> QED
      BY <3>1, <3>2
  <2>2. displaced' \in [Heroes -> [Slots -> Int]]
    BY <1>3, <1>5 DEF NoTime
  <2>3. EventTrue'
    BY <1>5, <1>7 DEF EventTrue
  <2> QED
    BY <1>2, <2>1, <2>2, <2>3
<1>10. ASSUME NEW q \in Heroes, NEW s \in Slots
       PROVE  /\ displaced'[q][s] <= t
              /\ displaced'[q][s] < now \/ (q = p /\ s \in Doomed(2))
              /\ held[q][s] = IF q = p /\ s \in Doomed(2) /\ displaced'[q][s] # t THEN 0 ELSE inventory'[q][s]
  <2>1. displaced[q][s] \in Int /\ now \in Nat
    OBVIOUS
  <2>2. CASE q = p /\ s = x.slot
    <3>1. displaced'[q][s] = -1 /\ -1 < t /\ -1 < now
      BY <2>1, <2>2, <1>3, <1>8 DEF NoTime
    <3>2. held[q][s] = IF displaced[q][s] # t THEN 0 ELSE inventory[q][s]
      BY <2>2, <1>2, <1>4
    <3>3. inventory'[q][s] = IF displaced[q][s] # t THEN 0 ELSE inventory[q][s]
      BY <2>2, <1>8
    <3> QED
      BY <3>1, <3>2, <3>3, <2>2, <1>3, <1>6
  <2>3. CASE ~ (q = p /\ s = x.slot)
    BY <2>1, <2>3, <1>2, <1>4, <1>8
  <2> QED
    BY <2>2, <2>3
<1>11. CASE wire' = <<>>
  <2>1. Doomed(2) = {}
    BY <1>2, <1>11
  <2>2. \A q \in Heroes, s \in Slots : inventory'[q][s] = held[q][s] /\ displaced'[q][s] < now
    <3>1. \A s \in Slots : s \notin Doomed(2)
      BY <2>1
    <3> QED
      BY <3>1, <1>10
  <2>3. inventory' = held'
    BY <2>2, <1>2, <1>9
  <2>4. Settled(now)'
    BY <2>2, <1>2 DEF Settled
  <2> QED
    BY <1>9, <1>11, <2>3, <2>4 DEF Resting, Buying, Removing, Swapping, Using
<1>12. CASE wire' # <<>>
  <2>1. \A i \in 2 .. Len(wire) : wire[i] \in RemoveAnswers /\ wire[i].hero = p /\ wire[i].t = t
    BY <1>2, <1>4 DEF Removals
  <2>2. ASSUME NEW i \in 1 .. Len(wire')
        PROVE  wire'[i] \in RemoveAnswers /\ wire'[i].hero = p /\ wire'[i].t = t
    BY <1>2, <2>1
  <2>3. ASSUME NEW i \in 1 .. Len(wire'), NEW j \in 1 .. Len(wire'), wire'[i].slot = wire'[j].slot
        PROVE  i = j
    <3>1. i + 1 \in 1 .. Len(wire) /\ j + 1 \in 1 .. Len(wire) /\ wire[i + 1].slot = wire[j + 1].slot
      BY <1>2, <2>3
    <3>2. i + 1 = j + 1
      BY <3>1, <1>4 DEF Removals
    <3> QED
      BY <3>2
  <2>4. 1 \in 1 .. Len(wire') /\ wire'[1] \in RemoveAnswers /\ wire'[1].hero = p /\ wire'[1].t = t
    <3>1. wire' \in Seq(Answers) /\ wire' # <<>>
      BY <1>2, <1>12
    <3>2. Len(wire') # 0 /\ Len(wire') \in Nat
      BY <3>1
    <3>3. 1 \in 1 .. Len(wire')
      BY <3>2
    <3> QED
      BY <2>2, <3>3
  <2>5. ASSUME NEW i \in 1 .. Len(wire')
        PROVE  displaced'[p][wire'[i].slot] = t \/ wire'[i].gone = inventory'[p][wire'[i].slot]
    <3> DEFINE y == wire[i + 1]
    <3>1. /\ wire'[i] = y /\ i + 1 \in 2 .. Len(wire) /\ i + 1 \in 1 .. Len(wire)
      BY <1>2
    <3>2. y.slot \in Slots /\ y.slot \in Doomed(2)
      BY <3>1, <2>1 DEF RemoveAnswers, Doomed
    <3>3. displaced[p][y.slot] = t \/ y.gone = inventory[p][y.slot]
      BY <3>1, <1>4
    <3> HIDE DEF y
    <3>4. displaced'[p][y.slot] = t \/ y.gone = inventory'[p][y.slot]
      BY <3>2, <3>3, <1>3, <1>6, <1>8
    <3> QED
      BY <3>1, <3>4
  <2>6. Removing'
    BY <1>2, <1>4, <2>2, <2>3, <2>4, <2>5, <1>10 DEF Removing, Removals
  <2> QED
    BY <1>9, <1>12, <2>4, <2>6
       DEF Resting, Buying, Swapping, Using, BuyAnswers, RemoveAnswers, SwapAnswers, UseAnswers
<1> QED
  BY <1>11, <1>12

\* A swap and a use end their run.
LEMMA SwapItemInv ==
  ASSUME InventoryInv, SwapItem
  PROVE  InventoryInv'
<1> DEFINE x == wire[1]
<1> USE DEF InventoryInv, InventoryTyped
<1>1. /\ wire # <<>> /\ Head(wire) = x /\ x \in SwapAnswers /\ wire' = Tail(wire)
      /\ held' = held /\ now' = now /\ wire' \in Seq(Answers)
  BY TakeFacts, KindsApart DEF SwapItem
<1>2. /\ wire' = <<>> /\ Settled(now)
      /\ held = [inventory EXCEPT ![x.hero][x.from] = inventory[x.hero][x.to],
                                  ![x.hero][x.to] = inventory[x.hero][x.from]]
  BY <1>1 DEF Swapping
<1>3. inventory' = held /\ event' = NoEvent /\ displaced' = displaced
  BY <1>1, <1>2 DEF SwapItem
<1> HIDE DEF x
<1>4. (Resting /\ Buying /\ Removing /\ Swapping /\ Using /\ EventTrue)'
  BY <1>1, <1>2, <1>3 DEF Resting, Buying, Removing, Swapping, Using, EventTrue, Settled
<1> QED
  BY <1>1, <1>3, <1>4

LEMMA UseItemInv ==
  ASSUME InventoryInv, UseItem
  PROVE  InventoryInv'
<1> DEFINE x == wire[1]
<1> USE DEF InventoryInv, InventoryTyped
<1>1. /\ wire # <<>> /\ Head(wire) = x /\ x \in UseAnswers /\ wire' = Tail(wire)
      /\ held' = held /\ now' = now /\ wire' \in Seq(Answers)
  BY TakeFacts, KindsApart DEF UseItem
<1>2. /\ wire' = <<>> /\ Settled(now) /\ x.gone = inventory[x.hero][x.slot]
      /\ held = IF Consumed(x) THEN [inventory EXCEPT ![x.hero][x.slot] = 0] ELSE inventory
  BY <1>1 DEF Using
<1>3. inventory' = held /\ event'.item = event'.gone /\ displaced' = displaced
  BY <1>1, <1>2 DEF UseItem, Event
<1> HIDE DEF x
<1>4. (Resting /\ Buying /\ Removing /\ Swapping /\ Using /\ EventTrue)'
  BY <1>1, <1>2, <1>3 DEF Resting, Buying, Removing, Swapping, Using, EventTrue, Settled
<1> QED
  BY <1>1, <1>3, <1>4

-----------------------------------------------------------------------------
\* Every step of the server and of the assembler keeps the invariant.
LEMMA InventoryStepInv ==
  InventoryInv /\ [InventoryNext]_inventoryVars => InventoryInv'
<1> SUFFICES ASSUME InventoryInv, [InventoryNext]_inventoryVars PROVE InventoryInv'
  OBVIOUS
<1>1. CASE Server
  <2>1. CASE ShopTick
    BY <2>1, ShopTickInv
  <2>2. CASE ~ ShopTick
    <3>1. PICK p \in Heroes, s \in Slots :
            \/ \E item \in Items : Purchase(p, item, s)
            \/ Sell(p, s)
            \/ \E to \in Slots \ {s} : SwapSlots(p, s, to)
            \/ \E survives, left \in {0, 1} : UseUp(p, s, survives, left)
            \/ \E r \in DOMAIN Recipe, a, b \in Slots : Craft(p, r, a, b, s) \/ CraftUntyped(p, r, a, b, s)
      BY <1>1, <2>2 DEF Server
    <3>2. CASE \E item \in Items : Purchase(p, item, s)
      BY <3>2, PurchaseInv
    <3>3. CASE Sell(p, s)
      BY <3>3, SellInv
    <3>4. CASE \E to \in Slots \ {s} : SwapSlots(p, s, to)
      BY <3>4, SwapSlotsInv
    <3>5. CASE \E survives, left \in {0, 1} : UseUp(p, s, survives, left)
      BY <3>5, UseUpInv
    <3>6. CASE \E r \in DOMAIN Recipe, a, b \in Slots : Craft(p, r, a, b, s) \/ CraftUntyped(p, r, a, b, s)
      BY <3>6, CraftInv, CraftUntypedInv
    <3> QED
      BY <3>1, <3>2, <3>3, <3>4, <3>5, <3>6
  <2> QED
    BY <2>1, <2>2
<1>2. CASE BuyItem
  BY <1>2, BuyItemInv
<1>3. CASE RemoveItem
  BY <1>3, RemoveItemInv
<1>4. CASE SwapItem
  BY <1>4, SwapItemInv
<1>5. CASE UseItem
  BY <1>5, UseItemInv
<1>6. CASE UNCHANGED inventoryVars
  <2>1. UNCHANGED <<held, now, wire, inventory, displaced, event>>
    BY <1>6 DEF inventoryVars, server
  <2> QED
    BY <2>1 DEF InventoryInv, InventoryTyped, Resting, Settled, Buying, Removals, Doomed, Removing,
                Swapping, Using, EventTrue
<1> QED
  BY <1>1, <1>2, <1>3, <1>4, <1>5, <1>6 DEF InventoryNext, Assemble

\* In every reachable state what is left on the wire leads from the assembled
\* inventories to the server's (game.rs:347-386).
THEOREM InventoryInvariant == InventorySpec => []InventoryInv
<1> QED
  BY InventoryInitInv, InventoryStepInv, PTL DEF InventorySpec

\* Whenever all that was sent has been taken in the inventories are the server's,
\* and every removal and use names the item the server meant (items.rs:24-29).
THEOREM InventoryFollowsTheServer == InventorySpec => []FollowsServer
<1>1. InventoryInv => FollowsServer
  BY DEF InventoryInv, Resting, EventTrue, FollowsServer
<1> QED
  BY <1>1, InventoryInvariant, PTL

-----------------------------------------------------------------------------
(* Wards                                                                   *)

WardType == [owner : Owners \cup Strangers, pos : Int, placed : Nat, died : Nat \cup {Alive}]

WardsTyped ==
  /\ now \in Nat
  /\ wards \in Seq(WardType) /\ ward_list \in Seq(WardType)
  /\ open_wards \in Seq(Nat)
  /\ wards_placed \in [Owners -> Nat]

OfRoster(k) == k \in 1 .. Len(wards) /\ wards[k].owner \in Owners

Distinct(s) == \A a, b \in 1 .. Len(s) : s[a] = s[b] => a = b

\* open_wards is the live records, each once.
OpenIsLive ==
  /\ \A r \in 1 .. Len(ward_list) : ward_list[r].owner \in Owners
  /\ Distinct(open_wards)
  /\ \A i \in 1 .. Len(open_wards) :
       open_wards[i] \in 1 .. Len(ward_list) /\ ward_list[open_wards[i]].died = Alive
  /\ \A r \in 1 .. Len(ward_list) :
       ward_list[r].died = Alive => \E i \in 1 .. Len(open_wards) : open_wards[i] = r

\* Wards of the roster and records are one to one.
OneRecordEach ==
  /\ Len(ward_list) = RecordOf(Len(wards))
  /\ \A k : OfRoster(k) => RecordOf(k) \in 1 .. Len(ward_list)
  /\ \A k, h : OfRoster(k) /\ OfRoster(h) /\ RecordOf(k) = RecordOf(h) => k = h
  /\ \A r \in 1 .. Len(ward_list) : \E k : OfRoster(k) /\ RecordOf(k) = r

RecordsMatch ==
  \A k : OfRoster(k) =>
    /\ ward_list[RecordOf(k)].owner = wards[k].owner
    /\ ward_list[RecordOf(k)].pos = wards[k].pos
    /\ ward_list[RecordOf(k)].placed = wards[k].placed
    /\ wards[k].owner \notin crowded => ward_list[RecordOf(k)].died = wards[k].died

\* No corpse can be that of two wards of one owner, unless it is among crowded.
ApartUnlessCrowded ==
  \A k, h \in Live : k # h /\ wards[k].owner = wards[h].owner /\ wards[k].owner \notin crowded =>
    Apart(wards[k].pos, wards[h].pos) > 2 * Drift

CountsHold ==
  \A o \in Owners :
    /\ wards_placed[o] = Cardinality(OfOwner(wards, o))
    /\ Cardinality(DeadOf(ward_list, o)) <= Cardinality(DeadOf(wards, o))

WardInv ==
  WardsTyped /\ OpenIsLive /\ OneRecordEach /\ RecordsMatch /\ ApartUnlessCrowded /\ CountsHold

\* A distance is a number, the same from both ends, and no longer than a way round.
LEMMA ApartFacts ==
  ASSUME NEW x \in Int, NEW y \in Int, NEW z \in Int
  PROVE  /\ Apart(x, y) \in Nat /\ Apart(x, y) = Apart(y, x)
         /\ Apart(x, y) <= Apart(x, z) + Apart(y, z)
BY DEF Apart

\* A set of numbers that is not empty has a least one.
LEMMA LeastExists ==
  ASSUME NEW S \in SUBSET Nat, S # {}
  PROVE  \E m \in S : \A n \in S : m <= n
<1>1. \E x \in S : \A y \in S : ~ (<<y, x>> \in OpToRel(<, Nat))
  BY NatLessThanWellFounded, WFMin
<1>2. PICK x \in S : \A y \in S : ~ (<<y, x>> \in OpToRel(<, Nat))
  BY <1>1
<1>3. \A y \in S : ~ (y < x)
  BY <1>2 DEF OpToRel
<1> QED
  BY <1>3

\* A list that grows by a live ward.
LEMMA GrownList ==
  ASSUME NEW l \in Seq(WardType), NEW w \in WardType, w.died = Alive, NEW o
  PROVE  /\ Append(l, w) \in Seq(WardType) /\ Len(Append(l, w)) = Len(l) + 1
         /\ Append(l, w)[Len(l) + 1] = w
         /\ \A j \in 1 .. Len(l) : Append(l, w)[j] = l[j]
         /\ DeadOf(Append(l, w), o) = DeadOf(l, o)
         /\ OfOwner(Append(l, w), o) = IF w.owner = o THEN OfOwner(l, o) \cup {Len(l) + 1} ELSE OfOwner(l, o)
<1> PICK a : a = Append(l, w)
  OBVIOUS
<1>1. /\ a \in Seq(WardType) /\ Len(a) = Len(l) + 1 /\ a[Len(l) + 1] = w
      /\ \A j \in 1 .. Len(l) : a[j] = l[j]
  OBVIOUS
<1>2. Len(l) \in Nat /\ \A j : j \in 1 .. Len(l) + 1 <=> j \in 1 .. Len(l) \/ j = Len(l) + 1
  OBVIOUS
<1>3. OfOwner(a, o) = IF w.owner = o THEN OfOwner(l, o) \cup {Len(l) + 1} ELSE OfOwner(l, o)
  BY <1>1, <1>2 DEF OfOwner
<1>4. DeadOf(a, o) = DeadOf(l, o)
  BY <1>1, <1>2 DEF DeadOf, OfOwner
<1> QED
  BY <1>1, <1>3, <1>4

\* A list in which one live ward dies.
Dies(list, k, t) == [list EXCEPT ![k].died = t]

LEMMA DeathInList ==
  ASSUME NEW l \in Seq(WardType), NEW k \in 1 .. Len(l), l[k].died = Alive, NEW t \in Nat
  PROVE  LET m == Dies(l, k, t) IN
         /\ m \in Seq(WardType) /\ Len(m) = Len(l)
         /\ \A j \in 1 .. Len(l) : j # k => m[j] = l[j]
         /\ m[k].died = t /\ m[k].died # Alive
         /\ \A j \in 1 .. Len(l) : m[j].owner = l[j].owner /\ m[j].pos = l[j].pos /\ m[j].placed = l[j].placed
         /\ \A o : OfOwner(m, o) = OfOwner(l, o)
         /\ \A o : DeadOf(m, o) = IF l[k].owner = o THEN DeadOf(l, o) \cup {k} ELSE DeadOf(l, o)
         /\ \A o : k \notin DeadOf(l, o)
<1>20. PICK m : m = Dies(l, k, t)
  OBVIOUS
<1>1. t # Alive /\ l[k] \in WardType
  BY DEF Alive
<1>2. [l[k] EXCEPT !.died = t] \in WardType
  BY <1>1 DEF WardType
<1>3. m = [l EXCEPT ![k] = [l[k] EXCEPT !.died = t]]
  BY <1>20 DEF Dies
<1>4. m \in Seq(WardType) /\ Len(m) = Len(l)
  BY <1>2, <1>3
<1>5. m[k] = [l[k] EXCEPT !.died = t] /\ \A j \in 1 .. Len(l) : j # k => m[j] = l[j]
  BY <1>3
<1>6. m[k].died = t /\ m[k].owner = l[k].owner /\ m[k].pos = l[k].pos /\ m[k].placed = l[k].placed
  BY <1>1, <1>5 DEF WardType
<1>7. \A j \in 1 .. Len(l) : m[j].owner = l[j].owner /\ m[j].pos = l[j].pos /\ m[j].placed = l[j].placed
  BY <1>5, <1>6
<1>8. \A o : OfOwner(m, o) = OfOwner(l, o)
  BY <1>4, <1>7 DEF OfOwner
<1>9. \A o : DeadOf(m, o) = IF l[k].owner = o THEN DeadOf(l, o) \cup {k} ELSE DeadOf(l, o)
  <2> SUFFICES ASSUME NEW o PROVE DeadOf(m, o) = IF l[k].owner = o THEN DeadOf(l, o) \cup {k} ELSE DeadOf(l, o)
    OBVIOUS
  <2>1. \A j : j \in DeadOf(m, o) <=> j \in OfOwner(l, o) /\ m[j].died # Alive
    BY <1>8 DEF DeadOf
  <2>2. k \in OfOwner(l, o) <=> l[k].owner = o
    BY DEF OfOwner
  <2>3. \A j \in OfOwner(l, o) : j \in 1 .. Len(l)
    BY DEF OfOwner
  <2>4. \A j \in OfOwner(l, o) : m[j].died # Alive <=> j = k \/ l[j].died # Alive
    BY <1>1, <1>5, <1>6, <2>3
  <2> QED
    BY <2>1, <2>2, <2>4 DEF DeadOf
<1>10. \A o : k \notin DeadOf(l, o)
  BY DEF DeadOf
<1> QED
  BY <1>1, <1>4, <1>5, <1>6, <1>7, <1>8, <1>9, <1>10, <1>20

\* The wards of one owner, and the dead of them, can be counted.
LEMMA CountableWards ==
  ASSUME NEW l \in Seq(WardType), NEW o
  PROVE  /\ IsFiniteSet(OfOwner(l, o)) /\ IsFiniteSet(DeadOf(l, o))
         /\ Cardinality(OfOwner(l, o)) \in Nat /\ Cardinality(DeadOf(l, o)) \in Nat
         /\ Len(l) + 1 \notin OfOwner(l, o)
<1>1. IsFiniteSet(1 .. Len(l)) /\ Len(l) \in Nat
  BY FS_Interval
<1>2. OfOwner(l, o) \subseteq 1 .. Len(l) /\ DeadOf(l, o) \subseteq 1 .. Len(l)
  BY DEF OfOwner, DeadOf
<1>3. IsFiniteSet(OfOwner(l, o)) /\ IsFiniteSet(DeadOf(l, o))
  BY <1>1, <1>2, FS_Subset
<1> QED
  BY <1>1, <1>2, <1>3, FS_CardinalityType

\* The last element takes the place of the one removed, and none is lost.
LEMMA Removed ==
  ASSUME NEW s \in Seq(Nat), NEW i \in 1 .. Len(s), Distinct(s)
  PROVE  LET m == SwapRemove(s, i) IN
         /\ m \in Seq(Nat) /\ Len(m) = Len(s) - 1
         /\ Distinct(m)
         /\ \A a \in 1 .. Len(m) : \E b \in 1 .. Len(s) : m[a] = s[b] /\ b # i
         /\ \A b \in 1 .. Len(s) : b # i => \E a \in 1 .. Len(m) : m[a] = s[b]
<1>20. PICK n : n = Len(s)
  OBVIOUS
<1>1. n \in Nat /\ n >= 1 /\ i \in 1 .. n /\ n - 1 \in Nat
  BY <1>20
<1>21. PICK m : m = SwapRemove(s, i)
  OBVIOUS
<1>2. m = [j \in 1 .. n - 1 |-> IF j = i THEN s[n] ELSE s[j]]
  BY <1>20, <1>21 DEF SwapRemove
<1>3. \A j \in 1 .. n - 1 : (IF j = i THEN s[n] ELSE s[j]) \in Nat
  BY <1>1, <1>20
<1>4. m \in Seq(Nat) /\ Len(m) = n - 1
  BY <1>1, <1>2, <1>3
<1>5. \A j \in 1 .. n - 1 : m[j] = IF j = i THEN s[n] ELSE s[j]
  BY <1>2
<1>6. \A a, b \in 1 .. n - 1 : m[a] = m[b] => a = b
  BY <1>1, <1>5, <1>20 DEF Distinct
<1>7. \A a \in 1 .. n - 1 : \E b \in 1 .. n : m[a] = s[b] /\ b # i
  BY <1>1, <1>5
<1>8. \A b \in 1 .. n : b # i => \E a \in 1 .. n - 1 : m[a] = s[b]
  <2> SUFFICES ASSUME NEW b \in 1 .. n, b # i PROVE \E a \in 1 .. n - 1 : m[a] = s[b]
    OBVIOUS
  <2>1. CASE b = n
    <3>1. i \in 1 .. n - 1 /\ m[i] = s[n]
      BY <1>1, <1>5, <2>1
    <3> QED
      BY <2>1, <3>1
  <2>2. CASE b # n
    <3>1. b \in 1 .. n - 1 /\ m[b] = s[b]
      BY <1>1, <1>5, <2>2
    <3> QED
      BY <3>1
  <2> QED
    BY <2>1, <2>2
<1> QED
  BY <1>4, <1>6, <1>7, <1>8, <1>20, <1>21 DEF Distinct

\* How many of a list's first k wards are the roster's.
Rank(list, k) == Cardinality({j \in 1 .. k : list[j].owner \in Owners})

\* It is a number, which depends on the owners alone.
LEMMA RankOfOwners ==
  ASSUME NEW l, NEW m, NEW k \in Nat, \A j \in 1 .. k : m[j].owner = l[j].owner
  PROVE  Rank(m, k) = Rank(l, k) /\ Rank(l, k) \in Nat
<1>1. {j \in 1 .. k : m[j].owner \in Owners} = {j \in 1 .. k : l[j].owner \in Owners}
  OBVIOUS
<1>2. IsFiniteSet(1 .. k)
  BY FS_Interval
<1>3. IsFiniteSet({j \in 1 .. k : l[j].owner \in Owners})
  BY <1>2, FS_Subset
<1> QED
  BY <1>1, <1>3, FS_CardinalityType DEF Rank

\* A ward of the roster has the next record, any other none.
LEMMA NextRank ==
  ASSUME NEW l, NEW k \in Nat
  PROVE  Rank(l, k + 1) = IF l[k + 1].owner \in Owners THEN Rank(l, k) + 1 ELSE Rank(l, k)
<1> DEFINE S == {j \in 1 .. k : l[j].owner \in Owners}
<1>1. IsFiniteSet(1 .. k)
  BY FS_Interval
<1>2. IsFiniteSet(S) /\ k + 1 \notin S
  BY <1>1, FS_Subset
<1>3. {j \in 1 .. k + 1 : l[j].owner \in Owners} = IF l[k + 1].owner \in Owners THEN S \cup {k + 1} ELSE S
  OBVIOUS
<1>4. Cardinality(S \cup {k + 1}) = Cardinality(S) + 1
  BY <1>2, FS_AddElement
<1> QED
  BY <1>3, <1>4 DEF Rank

LEMMA RecordIsRank == \A k : RecordOf(k) = Rank(wards, k)
BY DEF RecordOf, Rank

\* min_by finds a record that no other is nearer than.
LEMMA NearestIsNearest ==
  ASSUME WardsTyped, OpenIsLive, NEW o, NEW x \in Int, Reachable(o, x) # {}
  PROVE  /\ Nearest(o, x) \in Reachable(o, x)
         /\ \A j \in Reachable(o, x) : Distance(Nearest(o, x), x) <= Distance(j, x)
<1> DEFINE R == Reachable(o, x)
           D == {Distance(j, x) : j \in R}
<1>1. \A j \in R : j \in Nat /\ Distance(j, x) \in Nat
  <2> SUFFICES ASSUME NEW j \in R PROVE j \in Nat /\ Distance(j, x) \in Nat
    OBVIOUS
  <2>1. j \in 1 .. Len(open_wards) /\ Len(open_wards) \in Nat
    BY DEF Reachable, WardsTyped
  <2>2. open_wards[j] \in 1 .. Len(ward_list)
    BY <2>1 DEF OpenIsLive
  <2>3. PICK q \in 1 .. Len(ward_list) : q = open_wards[j]
    BY <2>2
  <2>4. ward_list[q] \in WardType
    BY DEF WardsTyped
  <2>5. PICK y \in Int : y = ward_list[q].pos
    BY <2>4 DEF WardType
  <2>6. Distance(j, x) = Apart(y, x)
    BY <2>3, <2>5 DEF Distance
  <2>7. Apart(y, x) \in Nat
    BY ApartFacts
  <2> QED
    BY <2>1, <2>6, <2>7
<1>2. D # {} /\ D \in SUBSET Nat
  BY <1>1
<1>3. PICK d \in D : \A e \in D : d <= e
  BY <1>2, LeastExists
<1> DEFINE F == {j \in R : Distance(j, x) = d}
<1>4. F # {} /\ F \in SUBSET Nat
  BY <1>1, <1>3
<1>5. PICK i \in F : \A j \in F : i <= j
  BY <1>4, LeastExists
<1>6. \A j \in R : Distance(i, x) < Distance(j, x) \/ (Distance(i, x) = Distance(j, x) /\ i <= j)
  <2> SUFFICES ASSUME NEW j \in R
               PROVE  Distance(i, x) < Distance(j, x) \/ (Distance(i, x) = Distance(j, x) /\ i <= j)
    OBVIOUS
  <2>1. Distance(i, x) = d /\ d <= Distance(j, x) /\ Distance(j, x) \in Nat /\ d \in Nat
    BY <1>1, <1>2, <1>3
  <2>2. Distance(j, x) = d => i <= j
    BY <1>5
  <2> QED
    BY <2>1, <2>2
<1> HIDE DEF R, D, F
<1>7. i \in R
  BY DEF F
<1>8. /\ Nearest(o, x) \in R
      /\ \A j \in R : \/ Distance(Nearest(o, x), x) < Distance(j, x)
                      \/ (Distance(Nearest(o, x), x) = Distance(j, x) /\ Nearest(o, x) <= j)
  BY <1>6, <1>7 DEF Nearest, R
<1>9. \A j \in R : Distance(Nearest(o, x), x) <= Distance(j, x)
  BY <1>1, <1>8
<1> QED
  BY <1>8, <1>9 DEF R

\* Of wards that are no record, nothing is in reach.
LEMMA StrangersReachNothing ==
  ASSUME OpenIsLive, NEW o \in Strangers, NEW x
  PROVE  Reachable(o, x) = {}
BY WardAssumption DEF OpenIsLive, Reachable

LEMMA WardStarts == WardInit => WardInv
<1> SUFFICES ASSUME WardInit PROVE WardInv
  OBVIOUS
<1>1. WardsTyped
  BY DEF WardInit, WardsTyped
<1>2. OpenIsLive /\ RecordsMatch /\ ApartUnlessCrowded
  BY DEF WardInit, OpenIsLive, Distinct, RecordsMatch, ApartUnlessCrowded, OfRoster, Live
<1>3. 1 .. 0 = {} /\ Cardinality({}) = 0 /\ Len(wards) = 0 /\ Len(ward_list) = 0
  BY FS_EmptySet DEF WardInit
<1>4. RecordOf(0) = 0
  BY <1>3 DEF RecordOf
<1>5. OneRecordEach
  BY <1>3, <1>4 DEF OneRecordEach, OfRoster
<1>6. \A o : OfOwner(wards, o) = {} /\ DeadOf(wards, o) = {} /\ DeadOf(ward_list, o) = {}
  BY <1>3 DEF OfOwner, DeadOf
<1>7. \A o \in Owners : wards_placed[o] = 0
  BY DEF WardInit
<1>8. CountsHold
  <2>1. /\ \A o : Cardinality(OfOwner(wards, o)) = 0
        /\ \A o : Cardinality(DeadOf(wards, o)) = 0 /\ Cardinality(DeadOf(ward_list, o)) = 0
    BY <1>3, <1>6
  <2> QED
    BY <1>7, <2>1 DEF CountsHold
<1> QED
  BY <1>1, <1>2, <1>5, <1>8 DEF WardInv

LEMMA PlaceKeeps ==
  ASSUME WardInv, NEW o \in Owners \cup Strangers, NEW x \in WardPlaces, Place(o, x)
  PROVE  WardInv'
<1> USE DEF WardInv
<1>20. PICK w : w = Ward(o, x)
  OBVIOUS
<1>21. PICK n : n = Len(wards)
  OBVIOUS
<1>22. PICK m : m = Len(ward_list)
  OBVIOUS
<1>23. x \in Int /\ \A k \in Live : wards[k].pos \in Int
  <2>1. \A k \in Live : wards[k] \in WardType
    BY DEF Live, WardsTyped
  <2> QED
    BY <2>1, WardAssumption DEF WardType
<1>1. /\ w \in WardType /\ w.died = Alive /\ w.owner = o /\ w.pos = x
      /\ wards' = Append(wards, w) /\ now' = now
  BY <1>20, WardAssumption DEF Place, Ward, WardType, WardsTyped
<1>2. /\ n \in Nat /\ wards' \in Seq(WardType) /\ Len(wards') = n + 1 /\ wards'[n + 1] = w
      /\ \A j \in 1 .. n : wards'[j] = wards[j]
      /\ \A j : j \in 1 .. n + 1 <=> j \in 1 .. n \/ j = n + 1
  BY <1>1, <1>21, GrownList DEF WardsTyped
<1>3. \A k \in 0 .. n : RecordOf(k)' = RecordOf(k) /\ RecordOf(k) \in Nat
  <2> SUFFICES ASSUME NEW k \in 0 .. n PROVE RecordOf(k)' = RecordOf(k) /\ RecordOf(k) \in Nat
    OBVIOUS
  <2>1. \A j \in 1 .. k : wards'[j].owner = wards[j].owner
    BY <1>2
  <2>2. Rank(wards', k) = Rank(wards, k) /\ Rank(wards, k) \in Nat
    BY <2>1, RankOfOwners
  <2> QED
    BY <2>2 DEF RecordOf, Rank
<1>4. RecordOf(n) = m
  BY <1>21, <1>22 DEF OneRecordEach
<1>5. RecordOf(n + 1)' = IF o \in Owners THEN m + 1 ELSE m
  <2>1. Rank(wards', n + 1) = IF o \in Owners THEN Rank(wards', n) + 1 ELSE Rank(wards', n)
    BY <1>1, <1>2, NextRank
  <2>2. RecordOf(n)' = Rank(wards', n) /\ RecordOf(n + 1)' = Rank(wards', n + 1)
    BY DEF RecordOf, Rank
  <2> QED
    BY <1>2, <1>3, <1>4, <2>1, <2>2
<1>6. \A k \in 1 .. n + 1 : OfRoster(k)' <=> IF k = n + 1 THEN o \in Owners ELSE OfRoster(k)
  BY <1>1, <1>2, <1>21 DEF OfRoster
<1>7. \A k : OfRoster(k)' => k \in 1 .. n + 1
  BY <1>2 DEF OfRoster
<1>8. /\ crowded \subseteq crowded'
      /\ \A k \in Live : wards[k].owner = o /\ o \notin crowded' => Apart(wards[k].pos, x) > 2 * Drift
  <2>1. \A k \in Live : wards[k].owner = o /\ o \notin crowded' => ~ (Apart(wards[k].pos, x) <= 2 * Drift)
    BY DEF Place
  <2>2. \A k \in Live : Apart(wards[k].pos, x) \in Nat
    BY <1>23, ApartFacts
  <2> QED
    BY <2>1, <2>2, WardAssumption DEF Place
<1>9. /\ \A k \in 1 .. n : k \in Live' <=> k \in Live
      /\ \A k : k \in Live' => k \in 1 .. n + 1
  BY <1>2, <1>21 DEF Live
<1>10. ApartUnlessCrowded'
  <2> SUFFICES ASSUME NEW k \in Live', NEW h \in Live', k # h, wards'[k].owner = wards'[h].owner,
                      wards'[k].owner \notin crowded'
               PROVE  Apart(wards'[k].pos, wards'[h].pos) > 2 * Drift
    BY DEF ApartUnlessCrowded
  <2>1. k \in 1 .. n + 1 /\ h \in 1 .. n + 1
    BY <1>9
  <2>2. CASE k \in 1 .. n /\ h \in 1 .. n
    BY <1>2, <1>8, <1>9, <2>2 DEF ApartUnlessCrowded
  <2>3. CASE k \in 1 .. n /\ h = n + 1
    BY <1>1, <1>2, <1>8, <1>9, <2>3
  <2>4. CASE k = n + 1 /\ h \in 1 .. n
    <3>1. Apart(wards[h].pos, x) > 2 * Drift
      BY <1>1, <1>2, <1>8, <1>9, <2>4
    <3>2. wards[h].pos \in Int /\ x \in Int
      BY <1>9, <1>23, <2>4
    <3>3. Apart(wards[h].pos, x) = Apart(x, wards[h].pos)
      BY <3>2, ApartFacts
    <3> QED
      BY <1>1, <1>2, <2>4, <3>1, <3>3
  <2> QED
    BY <1>2, <2>1, <2>2, <2>3, <2>4
<1>11. \A q : OfOwner(wards, q)' = OfOwner(wards', q) /\ DeadOf(wards, q)' = DeadOf(wards', q)
  BY DEF OfOwner, DeadOf
<1>12. \A q \in Owners : /\ DeadOf(wards', q) = DeadOf(wards, q)
                         /\ Cardinality(OfOwner(wards', q)) =
                              IF q = o THEN Cardinality(OfOwner(wards, q)) + 1 ELSE Cardinality(OfOwner(wards, q))
  <2> SUFFICES ASSUME NEW q \in Owners
               PROVE  /\ DeadOf(wards', q) = DeadOf(wards, q)
                      /\ Cardinality(OfOwner(wards', q)) =
                           IF q = o THEN Cardinality(OfOwner(wards, q)) + 1 ELSE Cardinality(OfOwner(wards, q))
    OBVIOUS
  <2>1. /\ DeadOf(wards', q) = DeadOf(wards, q)
        /\ OfOwner(wards', q) = IF o = q THEN OfOwner(wards, q) \cup {n + 1} ELSE OfOwner(wards, q)
    BY <1>1, <1>21, GrownList DEF WardsTyped
  <2>2. IsFiniteSet(OfOwner(wards, q)) /\ n + 1 \notin OfOwner(wards, q)
    BY <1>21, CountableWards DEF WardsTyped
  <2>3. Cardinality(OfOwner(wards, q) \cup {n + 1}) = Cardinality(OfOwner(wards, q)) + 1
    BY <2>2, FS_AddElement
  <2> QED
    BY <2>1, <2>3
<1>13. CASE o \notin Owners
  <2>1. wards_placed' = wards_placed /\ open_wards' = open_wards /\ ward_list' = ward_list
    BY <1>13 DEF Place, SpawnWard, wardsAssembled
  <2>2. WardsTyped'
    BY <1>1, <1>2, <2>1 DEF WardsTyped
  <2>3. OpenIsLive'
    BY <2>1 DEF OpenIsLive
  <2>4. \A k : OfRoster(k)' <=> OfRoster(k)
    BY <1>2, <1>6, <1>7, <1>13, <1>21 DEF OfRoster
  <2>5. \A k : OfRoster(k) => k \in 1 .. n /\ RecordOf(k)' = RecordOf(k) /\ wards'[k] = wards[k]
    BY <1>2, <1>3, <1>21 DEF OfRoster
  <2>6. OneRecordEach'
    <3>1. Len(ward_list') = RecordOf(n + 1)'
      BY <1>5, <1>13, <1>22, <2>1
    <3>2. \A k : k = Len(wards') => Len(ward_list') = RecordOf(k)'
      BY <1>2, <3>1
    <3> QED
      BY <2>1, <2>4, <2>5, <3>2 DEF OneRecordEach
  <2>7. RecordsMatch'
    BY <1>8, <2>1, <2>4, <2>5 DEF RecordsMatch
  <2>8. \A q : DeadOf(ward_list, q)' = DeadOf(ward_list, q)
    BY <2>1 DEF DeadOf, OfOwner
  <2>9. CountsHold'
    BY <1>11, <1>12, <1>13, <2>1, <2>8 DEF CountsHold
  <2> QED
    BY <1>10, <2>2, <2>3, <2>6, <2>7, <2>9
<1>14. CASE o \in Owners
  <2>1. /\ wards_placed' = [wards_placed EXCEPT ![o] = @ + 1]
        /\ open_wards' = Append(open_wards, m + 1)
        /\ ward_list' = Append(ward_list, w)
    BY <1>14, <1>20, <1>22 DEF Place, SpawnWard
  <2>2. /\ m \in Nat /\ ward_list' \in Seq(WardType) /\ Len(ward_list') = m + 1 /\ ward_list'[m + 1] = w
        /\ \A j \in 1 .. m : ward_list'[j] = ward_list[j]
        /\ \A j : j \in 1 .. m + 1 <=> j \in 1 .. m \/ j = m + 1
    BY <1>1, <1>22, <2>1, GrownList DEF WardsTyped
  <2>3. WardsTyped'
    BY <1>1, <1>2, <2>1, <2>2, <1>14 DEF WardsTyped
  <2>4. PICK p : p = Len(open_wards)
    OBVIOUS
  <2>5. /\ p \in Nat /\ Len(open_wards') = p + 1 /\ open_wards'[p + 1] = m + 1
        /\ \A j \in 1 .. p : open_wards'[j] = open_wards[j] /\ open_wards'[j] \in 1 .. m
        /\ \A j : j \in 1 .. p + 1 <=> j \in 1 .. p \/ j = p + 1
    BY <1>22, <2>1, <2>2, <2>4 DEF WardsTyped, OpenIsLive
  <2>6. OpenIsLive'
    <3>1. \A r \in 1 .. m + 1 : ward_list'[r].owner \in Owners
      BY <1>1, <1>14, <1>22, <2>2 DEF OpenIsLive
    <3>2. \A i, j \in 1 .. p + 1 : open_wards'[i] = open_wards'[j] => i = j
      <4> SUFFICES ASSUME NEW i \in 1 .. p + 1, NEW j \in 1 .. p + 1, open_wards'[i] = open_wards'[j]
                   PROVE  i = j
        OBVIOUS
      <4>1. m + 1 \notin 1 .. m
        BY <2>2
      <4>2. (i \in 1 .. p /\ j \in 1 .. p) \/ (i = p + 1 /\ j = p + 1)
        BY <2>5, <4>1
      <4> QED
        BY <2>4, <2>5, <4>2 DEF OpenIsLive, Distinct
    <3>3. \A i \in 1 .. p + 1 : open_wards'[i] \in 1 .. m + 1 /\ ward_list'[open_wards'[i]].died = Alive
      <4> SUFFICES ASSUME NEW i \in 1 .. p + 1
                   PROVE  open_wards'[i] \in 1 .. m + 1 /\ ward_list'[open_wards'[i]].died = Alive
        OBVIOUS
      <4>1. CASE i = p + 1
        BY <1>1, <2>2, <2>5, <4>1
      <4>2. CASE i \in 1 .. p
        <5>1. PICK q : q = open_wards[i]
          OBVIOUS
        <5>2. q = open_wards'[i] /\ q \in 1 .. m
          BY <2>5, <4>2, <5>1
        <5>3. ward_list'[q] = ward_list[q] /\ ward_list[q].died = Alive
          BY <2>2, <2>4, <4>2, <5>1, <5>2 DEF OpenIsLive
        <5> QED
          BY <2>2, <5>2, <5>3
      <4> QED
        BY <2>5, <4>1, <4>2
    <3>4. \A r \in 1 .. m + 1 : ward_list'[r].died = Alive => \E i \in 1 .. p + 1 : open_wards'[i] = r
      BY <1>22, <2>2, <2>4, <2>5 DEF OpenIsLive
    <3> QED
      BY <2>2, <2>5, <3>1, <3>2, <3>3, <3>4 DEF OpenIsLive, Distinct
  <2>7. \A k : OfRoster(k)' <=> OfRoster(k) \/ k = n + 1
    BY <1>2, <1>6, <1>7, <1>14, <1>21 DEF OfRoster
  <2>8. \A k : OfRoster(k) => /\ k \in 1 .. n /\ RecordOf(k)' = RecordOf(k) /\ RecordOf(k) \in 1 .. m
                              /\ wards'[k] = wards[k] /\ ward_list'[RecordOf(k)] = ward_list[RecordOf(k)]
    BY <1>2, <1>3, <1>21, <1>22, <2>2 DEF OfRoster, OneRecordEach
  <2>9. RecordOf(n + 1)' = m + 1 /\ m + 1 \notin 1 .. m /\ n + 1 \notin 1 .. n
    BY <1>2, <1>5, <1>14, <2>2
  <2>10. OneRecordEach'
    <3>1. \A k : k = Len(wards') => Len(ward_list') = RecordOf(k)'
      BY <1>2, <2>2, <2>9
    <3>2. \A k : OfRoster(k)' => RecordOf(k)' \in 1 .. m + 1
      BY <2>2, <2>7, <2>8, <2>9
    <3>3. \A k, h : OfRoster(k)' /\ OfRoster(h)' /\ RecordOf(k)' = RecordOf(h)' => k = h
      BY <2>7, <2>8, <2>9 DEF OneRecordEach
    <3>4. \A r \in 1 .. m + 1 : \E k : OfRoster(k)' /\ RecordOf(k)' = r
      BY <1>22, <2>2, <2>7, <2>8, <2>9 DEF OneRecordEach
    <3> QED
      BY <2>2, <3>1, <3>2, <3>3, <3>4 DEF OneRecordEach
  <2>11. RecordsMatch'
    <3> SUFFICES ASSUME NEW k, OfRoster(k)'
                 PROVE  /\ ward_list'[RecordOf(k)'].owner = wards'[k].owner
                        /\ ward_list'[RecordOf(k)'].pos = wards'[k].pos
                        /\ ward_list'[RecordOf(k)'].placed = wards'[k].placed
                        /\ wards'[k].owner \notin crowded' => ward_list'[RecordOf(k)'].died = wards'[k].died
      BY DEF RecordsMatch
    <3>1. CASE OfRoster(k)
      BY <1>8, <2>8, <3>1 DEF RecordsMatch
    <3>2. CASE k = n + 1
      BY <1>2, <2>2, <2>9, <3>2
    <3> QED
      BY <2>7, <3>1, <3>2
  <2>12. CountsHold'
    <3>1. \A q : DeadOf(ward_list, q)' = DeadOf(ward_list, q)
      <4>1. \A q : DeadOf(Append(ward_list, w), q) = DeadOf(ward_list, q)
        BY <1>1, GrownList DEF WardsTyped
      <4>2. \A q : DeadOf(ward_list, q)' = DeadOf(ward_list', q)
        BY DEF DeadOf, OfOwner
      <4> QED
        BY <2>1, <4>1, <4>2
    <3>2. \A q \in Owners : wards_placed'[q] = IF q = o THEN wards_placed[q] + 1 ELSE wards_placed[q]
      BY <2>1 DEF WardsTyped
    <3> QED
      BY <1>11, <1>12, <3>1, <3>2 DEF CountsHold
  <2> QED
    BY <1>10, <2>3, <2>6, <2>10, <2>11, <2>12
<1> QED
  BY <1>13, <1>14

\* The record q is the one that a corpse of o at x is taken for.
Takes(q, o, x) ==
  /\ ward_list[q].owner = o /\ ward_list[q].died = Alive
  /\ \A r \in 1 .. Len(ward_list) : ward_list[r].owner = o /\ ward_list[r].died = Alive =>
       Apart(ward_list[q].pos, x) <= Apart(ward_list[r].pos, x) \/ Apart(ward_list[r].pos, x) > Radius
  /\ ward_list' = [ward_list EXCEPT ![q].died = now]
  /\ wards_placed' = wards_placed
  /\ open_wards' \in Seq(Nat)
  /\ Distinct(open_wards')
  /\ \A a \in 1 .. Len(open_wards') :
       open_wards'[a] \in 1 .. Len(ward_list) /\ ward_list[open_wards'[a]].died = Alive /\ open_wards'[a] # q
  /\ \A r \in 1 .. Len(ward_list) : ward_list[r].died = Alive /\ r # q =>
       \E a \in 1 .. Len(open_wards') : open_wards'[a] = r

\* The record that SpawnCorpse takes to have died, if it takes one.
LEMMA CorpseTakes ==
  ASSUME WardInv, NEW o, NEW x \in WardPlaces, SpawnCorpse(o, x), Reachable(o, x) # {}
  PROVE  \E q \in 1 .. Len(ward_list) : Takes(q, o, x)
<1> USE DEF WardInv
<1>20. PICK i : i = Nearest(o, x)
  OBVIOUS
<1>21. PICK q : q = open_wards[i]
  OBVIOUS
<1>1. x \in Int
  BY WardAssumption
<1>2. i \in Reachable(o, x) /\ \A j \in Reachable(o, x) : Distance(i, x) <= Distance(j, x)
  BY <1>1, <1>20, NearestIsNearest
<1>3. i \in 1 .. Len(open_wards) /\ ward_list[q].owner = o
  BY <1>2, <1>21 DEF Reachable
<1>4. q \in 1 .. Len(ward_list) /\ ward_list[q].died = Alive
  BY <1>3, <1>21 DEF OpenIsLive
<1>5. /\ ward_list' = [ward_list EXCEPT ![q].died = now]
      /\ open_wards' = SwapRemove(open_wards, i)
      /\ wards_placed' = wards_placed
  BY <1>20, <1>21 DEF SpawnCorpse
<1>6. ASSUME NEW r \in 1 .. Len(ward_list), ward_list[r].owner = o, ward_list[r].died = Alive
      PROVE  Apart(ward_list[q].pos, x) <= Apart(ward_list[r].pos, x) \/ Apart(ward_list[r].pos, x) > Radius
  <2>1. PICK j \in 1 .. Len(open_wards) : open_wards[j] = r
    BY <1>6 DEF OpenIsLive
  <2>2. CASE j \in Reachable(o, x)
    <3>1. Distance(i, x) <= Distance(j, x)
      BY <1>2, <2>2
    <3> QED
      BY <1>21, <2>1, <3>1 DEF Distance
  <2>3. CASE j \notin Reachable(o, x)
    <3>1. ~ (Apart(ward_list[r].pos, x) <= Radius)
      BY <1>6, <2>1, <2>3 DEF Reachable, Distance
    <3>2. PICK y : y = ward_list[r].pos
      OBVIOUS
    <3>3. ward_list[r] \in WardType
      BY DEF WardsTyped
    <3>4. y \in Int
      BY <3>2, <3>3 DEF WardType
    <3>5. Apart(y, x) \in Nat
      BY <1>1, <3>4, ApartFacts
    <3> QED
      BY <3>1, <3>2, <3>5, WardAssumption
  <2> QED
    BY <2>2, <2>3
<1>7. PICK m : m = open_wards'
  OBVIOUS
<1>8. /\ m \in Seq(Nat)
      /\ Distinct(m)
      /\ \A a \in 1 .. Len(m) : \E b \in 1 .. Len(open_wards) : m[a] = open_wards[b] /\ b # i
      /\ \A b \in 1 .. Len(open_wards) : b # i => \E a \in 1 .. Len(m) : m[a] = open_wards[b]
  <2>1. open_wards \in Seq(Nat) /\ m = SwapRemove(open_wards, i)
    BY <1>5, <1>7 DEF WardsTyped
  <2>2. Distinct(open_wards)
    BY DEF OpenIsLive
  <2> QED
    BY <1>3, <2>1, <2>2, Removed
<1>9. ASSUME NEW a \in 1 .. Len(m)
      PROVE  m[a] \in 1 .. Len(ward_list) /\ ward_list[m[a]].died = Alive /\ m[a] # q
  <2>1. PICK b \in 1 .. Len(open_wards) : m[a] = open_wards[b] /\ b # i
    BY <1>8
  <2>2. open_wards[b] # open_wards[i]
    BY <1>3, <2>1 DEF OpenIsLive, Distinct
  <2> QED
    BY <1>21, <2>1, <2>2 DEF OpenIsLive
<1>10. ASSUME NEW r \in 1 .. Len(ward_list), ward_list[r].died = Alive, r # q
       PROVE  \E a \in 1 .. Len(m) : m[a] = r
  <2>1. PICK b \in 1 .. Len(open_wards) : open_wards[b] = r
    BY <1>10 DEF OpenIsLive
  <2>2. b # i
    BY <1>10, <1>21, <2>1
  <2> QED
    BY <1>8, <2>1, <2>2
<1> QED
  <2>1. \A r \in 1 .. Len(ward_list) : ward_list[r].owner = o /\ ward_list[r].died = Alive =>
          Apart(ward_list[q].pos, x) <= Apart(ward_list[r].pos, x) \/ Apart(ward_list[r].pos, x) > Radius
    BY <1>6
  <2>2. \A a \in 1 .. Len(m) :
          m[a] \in 1 .. Len(ward_list) /\ ward_list[m[a]].died = Alive /\ m[a] # q
    BY <1>9
  <2>3. \A r \in 1 .. Len(ward_list) : ward_list[r].died = Alive /\ r # q => \E a \in 1 .. Len(m) : m[a] = r
    BY <1>10
  <2>4. Takes(q, o, x)
    BY <1>3, <1>4, <1>5, <1>7, <1>8, <2>1, <2>2, <2>3 DEF Takes
  <2> QED
    BY <1>4, <2>4

LEMMA DieKeeps ==
  ASSUME WardInv, NEW k \in Live, NEW x \in WardPlaces, Die(k, x)
  PROVE  WardInv'
<1> USE DEF WardInv
<1>20. PICK o : o = wards[k].owner
  OBVIOUS
<1>21. PICK n : n = Len(wards)
  OBVIOUS
<1>22. PICK m : m = Len(ward_list)
  OBVIOUS
<1>1. /\ k \in 1 .. n /\ wards[k].died = Alive /\ o \in Owners \cup Strangers
      /\ wards' = [wards EXCEPT ![k].died = now] /\ now \in Nat /\ now' = now /\ crowded' = crowded
      /\ x \in Int /\ SpawnCorpse(o, x) /\ Apart(wards[k].pos, x) <= Drift
  <2>1. k \in 1 .. n /\ wards[k] \in WardType
    BY <1>21 DEF Live, WardsTyped
  <2> QED
    BY <1>20, <2>1, WardAssumption DEF Die, Live, WardType, WardsTyped
<1>2. /\ wards' \in Seq(WardType) /\ Len(wards') = n
      /\ \A j \in 1 .. n : j # k => wards'[j] = wards[j]
      /\ wards'[k].died = now /\ wards'[k].died # Alive
      /\ \A j \in 1 .. n : /\ wards'[j].owner = wards[j].owner
                           /\ wards'[j].pos = wards[j].pos
                           /\ wards'[j].placed = wards[j].placed
      /\ \A q : OfOwner(wards', q) = OfOwner(wards, q)
      /\ \A q : DeadOf(wards', q) = IF o = q THEN DeadOf(wards, q) \cup {k} ELSE DeadOf(wards, q)
      /\ \A q : k \notin DeadOf(wards, q)
  <2>1. wards \in Seq(WardType) /\ k \in 1 .. Len(wards)
    BY <1>1, <1>21 DEF WardsTyped
  <2>2. PICK l : l = wards'
    OBVIOUS
  <2>4. l = Dies(wards, k, now)
    BY <1>1, <2>2 DEF Dies
  <2>3. /\ l \in Seq(WardType) /\ Len(l) = Len(wards)
        /\ \A j \in 1 .. Len(wards) : j # k => l[j] = wards[j]
        /\ l[k].died = now /\ l[k].died # Alive
        /\ \A j \in 1 .. Len(wards) : l[j].owner = wards[j].owner /\ l[j].pos = wards[j].pos /\ l[j].placed = wards[j].placed
        /\ \A q : OfOwner(l, q) = OfOwner(wards, q)
        /\ \A q : DeadOf(l, q) = IF wards[k].owner = q THEN DeadOf(wards, q) \cup {k} ELSE DeadOf(wards, q)
        /\ \A q : k \notin DeadOf(wards, q)
    BY <1>1, <2>1, <2>4, DeathInList
  <2> QED
    BY <1>20, <1>21, <2>2, <2>3
<1>3. \A j \in 0 .. n : RecordOf(j)' = RecordOf(j)
  <2> SUFFICES ASSUME NEW j \in 0 .. n PROVE RecordOf(j)' = RecordOf(j)
    OBVIOUS
  <2>1. n \in Nat /\ j \in Nat /\ \A h \in 1 .. j : h \in 1 .. n
    BY <1>21 DEF WardsTyped
  <2>2. \A h \in 1 .. j : wards'[h].owner = wards[h].owner
    BY <1>2, <2>1
  <2>3. Rank(wards', j) = Rank(wards, j)
    BY <2>1, <2>2, RankOfOwners
  <2> QED
    BY <2>3 DEF RecordOf, Rank
<1>4. \A j : OfRoster(j)' <=> OfRoster(j)
  BY <1>2, <1>21 DEF OfRoster
<1>5. \A j : OfRoster(j) => j \in 1 .. n /\ RecordOf(j)' = RecordOf(j)
  BY <1>3, <1>21 DEF OfRoster, WardsTyped
<1>6. Live' = Live \ {k}
  BY <1>1, <1>2, <1>21 DEF Live
<1>7. ApartUnlessCrowded'
  <2>1. \A j \in Live' : j \in Live /\ wards'[j] = wards[j]
    BY <1>2, <1>6, <1>21 DEF Live
  <2> QED
    BY <1>1, <2>1 DEF ApartUnlessCrowded
<1>8. \A q : OfOwner(wards, q)' = OfOwner(wards', q) /\ DeadOf(wards, q)' = DeadOf(wards', q)
  BY DEF OfOwner, DeadOf
<1>9. \A q \in Owners : /\ Cardinality(OfOwner(wards', q)) = Cardinality(OfOwner(wards, q))
                        /\ Cardinality(DeadOf(wards, q)) \in Nat
                        /\ Cardinality(DeadOf(wards', q)) =
                             IF o = q THEN Cardinality(DeadOf(wards, q)) + 1 ELSE Cardinality(DeadOf(wards, q))
  <2> SUFFICES ASSUME NEW q \in Owners
               PROVE  /\ Cardinality(OfOwner(wards', q)) = Cardinality(OfOwner(wards, q))
                      /\ Cardinality(DeadOf(wards, q)) \in Nat
                      /\ Cardinality(DeadOf(wards', q)) =
                           IF o = q THEN Cardinality(DeadOf(wards, q)) + 1 ELSE Cardinality(DeadOf(wards, q))
    OBVIOUS
  <2>1. IsFiniteSet(DeadOf(wards, q)) /\ Cardinality(DeadOf(wards, q)) \in Nat
    BY CountableWards DEF WardsTyped
  <2>2. Cardinality(DeadOf(wards, q) \cup {k}) = Cardinality(DeadOf(wards, q)) + 1
    BY <1>2, <2>1, FS_AddElement
  <2> QED
    BY <1>2, <2>1, <2>2
<1>10. CASE o \in Owners /\ Reachable(o, x) # {}
  <2>30. PICK q \in 1 .. m : Takes(q, o, x)
    BY <1>1, <1>10, <1>22, CorpseTakes
  <2>1. /\ ward_list[q].owner = o /\ ward_list[q].died = Alive
        /\ \A r \in 1 .. m : ward_list[r].owner = o /\ ward_list[r].died = Alive =>
             Apart(ward_list[q].pos, x) <= Apart(ward_list[r].pos, x) \/ Apart(ward_list[r].pos, x) > Radius
        /\ ward_list' = [ward_list EXCEPT ![q].died = now]
        /\ wards_placed' = wards_placed
        /\ open_wards' \in Seq(Nat)
        /\ Distinct(open_wards')
        /\ \A a \in 1 .. Len(open_wards') :
             open_wards'[a] \in 1 .. m /\ ward_list[open_wards'[a]].died = Alive /\ open_wards'[a] # q
        /\ \A r \in 1 .. m : ward_list[r].died = Alive /\ r # q =>
             \E a \in 1 .. Len(open_wards') : open_wards'[a] = r
    BY <1>22, <2>30 DEF Takes
  <2>2. /\ ward_list' \in Seq(WardType) /\ Len(ward_list') = m
        /\ \A j \in 1 .. m : j # q => ward_list'[j] = ward_list[j]
        /\ ward_list'[q].died = now /\ ward_list'[q].died # Alive
        /\ \A j \in 1 .. m : /\ ward_list'[j].owner = ward_list[j].owner
                             /\ ward_list'[j].pos = ward_list[j].pos
                             /\ ward_list'[j].placed = ward_list[j].placed
        /\ \A p : DeadOf(ward_list', p) = IF o = p THEN DeadOf(ward_list, p) \cup {q} ELSE DeadOf(ward_list, p)
        /\ \A p : q \notin DeadOf(ward_list, p)
    <3>1. ward_list \in Seq(WardType) /\ q \in 1 .. Len(ward_list)
      BY <1>22 DEF WardsTyped
    <3>2. PICK l : l = ward_list'
      OBVIOUS
    <3>4. l = Dies(ward_list, q, now)
      BY <2>1, <3>2 DEF Dies
    <3>3. /\ l \in Seq(WardType) /\ Len(l) = Len(ward_list)
          /\ \A j \in 1 .. Len(ward_list) : j # q => l[j] = ward_list[j]
          /\ l[q].died = now /\ l[q].died # Alive
          /\ \A j \in 1 .. Len(ward_list) :
               l[j].owner = ward_list[j].owner /\ l[j].pos = ward_list[j].pos /\ l[j].placed = ward_list[j].placed
          /\ \A p : DeadOf(l, p) = IF ward_list[q].owner = p THEN DeadOf(ward_list, p) \cup {q} ELSE DeadOf(ward_list, p)
          /\ \A p : q \notin DeadOf(ward_list, p)
      BY <1>1, <2>1, <3>1, <3>4, DeathInList
    <3> QED
      BY <1>22, <2>1, <3>2, <3>3
  <2>3. WardsTyped'
    BY <1>1, <1>2, <2>1, <2>2 DEF WardsTyped
  <2>4. OpenIsLive'
    <3>1. \A r \in 1 .. m : ward_list'[r].owner \in Owners
      BY <1>22, <2>2 DEF OpenIsLive
    <3>2. \A a \in 1 .. Len(open_wards') : open_wards'[a] \in 1 .. m /\ ward_list'[open_wards'[a]].died = Alive
      BY <2>1, <2>2
    <3>3. \A r \in 1 .. m : ward_list'[r].died = Alive => \E a \in 1 .. Len(open_wards') : open_wards'[a] = r
      BY <2>1, <2>2
    <3> QED
      BY <2>1, <2>2, <3>1, <3>2, <3>3 DEF OpenIsLive
  <2>5. OneRecordEach'
    <3>1. \A j : j = Len(wards') => Len(ward_list') = RecordOf(j)'
      BY <1>2, <1>3, <1>21, <1>22, <2>2 DEF OneRecordEach, WardsTyped
    <3> QED
      BY <1>4, <1>5, <1>22, <2>2, <3>1 DEF OneRecordEach
  <2>6. ASSUME o \in crowded PROVE RecordsMatch'
    <3>1. RecordsMatch'
      <4> SUFFICES ASSUME NEW j, OfRoster(j), NEW r, r = RecordOf(j)
                   PROVE  /\ ward_list'[r].owner = wards'[j].owner
                          /\ ward_list'[r].pos = wards'[j].pos
                          /\ ward_list'[r].placed = wards'[j].placed
                          /\ wards'[j].owner \notin crowded' => ward_list'[r].died = wards'[j].died
        BY <1>4, <1>5 DEF RecordsMatch
      <4>1. r \in 1 .. m /\ j \in 1 .. n
        BY <1>5, <1>22 DEF OneRecordEach
      <4>2. /\ ward_list[r].owner = wards[j].owner
            /\ ward_list[r].pos = wards[j].pos
            /\ ward_list[r].placed = wards[j].placed
            /\ wards[j].owner \notin crowded => ward_list[r].died = wards[j].died
        BY DEF RecordsMatch
      <4>3. wards[j].owner \notin crowded => r # q /\ j # k
        BY <1>20, <2>1, <2>6, <4>2
      <4>4. /\ ward_list'[r].owner = wards'[j].owner
            /\ ward_list'[r].pos = wards'[j].pos
            /\ ward_list'[r].placed = wards'[j].placed
        BY <1>2, <2>2, <4>1, <4>2
      <4>5. wards'[j].owner \notin crowded' => ward_list'[r].died = wards'[j].died
        <5> SUFFICES ASSUME wards'[j].owner \notin crowded' PROVE ward_list'[r].died = wards'[j].died
          OBVIOUS
        <5>1. wards[j].owner \notin crowded
          BY <1>1, <1>2, <4>1
        <5>2. ward_list[r].died = wards[j].died
          BY <4>2, <5>1
        <5>3. CASE r = q
          <6>1. j = k
            BY <4>3, <5>1, <5>3
          <6> QED
            BY <1>2, <2>2, <5>3, <6>1
        <5>4. CASE r # q
          <6>1. j # k
            BY <4>3, <5>1, <5>4
          <6>2. wards'[j] = wards[j] /\ ward_list'[r] = ward_list[r]
            BY <1>2, <2>2, <4>1, <5>4, <6>1
          <6> QED
            BY <5>2, <6>2
        <5> QED
          BY <5>3, <5>4
      <4> QED
        BY <4>4, <4>5
    <3> QED
      BY <3>1
  <2>7. ASSUME o \notin crowded PROVE RecordsMatch'
    <3>1. OfRoster(k) /\ RecordOf(k) \in 1 .. m
      BY <1>1, <1>10, <1>20, <1>21, <1>22 DEF OfRoster, OneRecordEach
    <3>2. PICK r \in 1 .. m : r = RecordOf(k)
      BY <3>1
    <3>3. PICK h : OfRoster(h) /\ RecordOf(h) = q
      BY <1>22, <2>1 DEF OneRecordEach
    <3>4. h \in 1 .. n /\ wards[h].owner = o /\ ward_list[q].pos = wards[h].pos /\ wards[h].died = Alive
      BY <1>21, <2>1, <2>7, <3>3 DEF RecordsMatch, OfRoster
    <3>5. ward_list[r].owner = o /\ ward_list[r].pos = wards[k].pos /\ ward_list[r].died = Alive
      BY <1>1, <1>20, <2>7, <3>1, <3>2 DEF RecordsMatch
    <3>6. h \in Live
      BY <1>21, <3>4 DEF Live
    <3>7. PICK y \in Int, z \in Int : y = wards[h].pos /\ z = wards[k].pos
      <4>1. wards[h] \in WardType /\ wards[k] \in WardType
        BY <1>1, <1>21, <3>4 DEF WardsTyped
      <4> QED
        BY <4>1 DEF WardType
    <3>8. /\ Apart(y, x) \in Nat /\ Apart(z, x) \in Nat /\ Apart(y, z) \in Nat
          /\ Apart(y, z) <= Apart(y, x) + Apart(z, x)
      BY <1>1, <3>7, ApartFacts
    <3>9. Apart(z, x) <= Drift /\ (Apart(y, x) <= Apart(z, x) \/ Apart(z, x) > Radius)
      BY <1>1, <2>1, <3>4, <3>5, <3>7
    <3>10. Apart(y, z) <= 2 * Drift
      BY <3>8, <3>9, WardAssumption
    <3>11. h = k
      <4> SUFFICES ASSUME h # k PROVE FALSE
        OBVIOUS
      <4>1. Apart(y, z) > 2 * Drift
        BY <1>20, <2>7, <3>4, <3>6, <3>7 DEF ApartUnlessCrowded
      <4> QED
        BY <3>8, <3>10, <4>1, WardAssumption
    <3>12. RecordsMatch'
      <4> SUFFICES ASSUME NEW j, OfRoster(j), NEW p, p = RecordOf(j)
                   PROVE  /\ ward_list'[p].owner = wards'[j].owner
                          /\ ward_list'[p].pos = wards'[j].pos
                          /\ ward_list'[p].placed = wards'[j].placed
                          /\ wards'[j].owner \notin crowded' => ward_list'[p].died = wards'[j].died
        BY <1>4, <1>5 DEF RecordsMatch
      <4>1. p \in 1 .. m /\ j \in 1 .. n
        BY <1>5, <1>22 DEF OneRecordEach
      <4>2. /\ ward_list[p].owner = wards[j].owner
            /\ ward_list[p].pos = wards[j].pos
            /\ ward_list[p].placed = wards[j].placed
            /\ wards[j].owner \notin crowded => ward_list[p].died = wards[j].died
        BY DEF RecordsMatch
      <4>3. p = q <=> j = k
        BY <3>1, <3>3, <3>11 DEF OneRecordEach
      <4>4. /\ ward_list'[p].owner = wards'[j].owner
            /\ ward_list'[p].pos = wards'[j].pos
            /\ ward_list'[p].placed = wards'[j].placed
        BY <1>2, <2>2, <4>1, <4>2
      <4>5. wards'[j].owner \notin crowded' => ward_list'[p].died = wards'[j].died
        <5> SUFFICES ASSUME wards'[j].owner \notin crowded' PROVE ward_list'[p].died = wards'[j].died
          OBVIOUS
        <5>1. wards[j].owner \notin crowded
          BY <1>1, <1>2, <4>1
        <5>2. ward_list[p].died = wards[j].died
          BY <4>2, <5>1
        <5>3. CASE p = q
          <6>1. j = k
            BY <4>3, <5>1, <5>3
          <6> QED
            BY <1>2, <2>2, <5>3, <6>1
        <5>4. CASE p # q
          <6>1. j # k
            BY <4>3, <5>1, <5>4
          <6>2. wards'[j] = wards[j] /\ ward_list'[p] = ward_list[p]
            BY <1>2, <2>2, <4>1, <5>4, <6>1
          <6> QED
            BY <5>2, <6>2
        <5> QED
          BY <5>3, <5>4
      <4> QED
        BY <4>4, <4>5
    <3> QED
      BY <3>12
  <2>8. CountsHold'
    <3>1. \A p : DeadOf(ward_list, p)' = DeadOf(ward_list', p)
      BY DEF DeadOf, OfOwner
    <3>2. \A p \in Owners : /\ Cardinality(DeadOf(ward_list, p)) \in Nat
                            /\ Cardinality(DeadOf(ward_list', p)) =
                                 IF o = p THEN Cardinality(DeadOf(ward_list, p)) + 1 ELSE Cardinality(DeadOf(ward_list, p))
      <4> SUFFICES ASSUME NEW p \in Owners
                   PROVE  /\ Cardinality(DeadOf(ward_list, p)) \in Nat
                          /\ Cardinality(DeadOf(ward_list', p)) =
                               IF o = p THEN Cardinality(DeadOf(ward_list, p)) + 1 ELSE Cardinality(DeadOf(ward_list, p))
        OBVIOUS
      <4>1. IsFiniteSet(DeadOf(ward_list, p)) /\ Cardinality(DeadOf(ward_list, p)) \in Nat
        BY CountableWards DEF WardsTyped
      <4>2. Cardinality(DeadOf(ward_list, p) \cup {q}) = Cardinality(DeadOf(ward_list, p)) + 1
        BY <2>2, <4>1, FS_AddElement
      <4> QED
        BY <2>2, <4>1, <4>2
    <3> SUFFICES ASSUME NEW p \in Owners
                 PROVE  /\ wards_placed'[p] = Cardinality(OfOwner(wards', p))
                        /\ Cardinality(DeadOf(ward_list', p)) <= Cardinality(DeadOf(wards', p))
      BY <1>8, <3>1 DEF CountsHold
    <3>3. /\ wards_placed[p] = Cardinality(OfOwner(wards, p))
          /\ Cardinality(DeadOf(ward_list, p)) <= Cardinality(DeadOf(wards, p))
      BY DEF CountsHold
    <3>4. wards_placed'[p] = Cardinality(OfOwner(wards', p))
      BY <1>9, <2>1, <3>3
    <3>5. Cardinality(DeadOf(ward_list', p)) <= Cardinality(DeadOf(wards', p))
      BY <1>9, <3>2, <3>3
    <3> QED
      BY <3>4, <3>5
  <2> QED
    BY <1>7, <2>3, <2>4, <2>5, <2>6, <2>7, <2>8
<1>11. CASE Reachable(o, x) = {}
  <2>1. wards_placed' = wards_placed /\ open_wards' = open_wards /\ ward_list' = ward_list
    BY <1>1, <1>11 DEF SpawnCorpse, wardsAssembled
  <2>2. WardsTyped' /\ OpenIsLive'
    BY <1>1, <1>2, <2>1 DEF WardsTyped, OpenIsLive
  <2>3. OneRecordEach'
    <3>1. \A j : j = Len(wards') => Len(ward_list') = RecordOf(j)'
      BY <1>2, <1>3, <1>21, <2>1 DEF OneRecordEach, WardsTyped
    <3> QED
      BY <1>4, <1>5, <2>1, <3>1 DEF OneRecordEach
  <2>4. o \in Owners => o \in crowded
    <3> SUFFICES ASSUME o \in Owners, o \notin crowded PROVE FALSE
      OBVIOUS
    <3>1. OfRoster(k) /\ RecordOf(k) \in 1 .. m
      BY <1>1, <1>20, <1>21, <1>22 DEF OfRoster, OneRecordEach
    <3>2. PICK r \in 1 .. m : r = RecordOf(k)
      BY <3>1
    <3>3. ward_list[r].owner = o /\ ward_list[r].pos = wards[k].pos /\ ward_list[r].died = Alive
      BY <1>1, <1>20, <3>1, <3>2 DEF RecordsMatch
    <3>4. PICK i \in 1 .. Len(open_wards) : open_wards[i] = r
      BY <1>22, <3>3 DEF OpenIsLive
    <3>5. wards[k] \in WardType
      BY <1>1, <1>21 DEF WardsTyped
    <3>6. PICK z \in Int : z = wards[k].pos
      BY <3>5 DEF WardType
    <3>7. Apart(z, x) \in Nat
      BY <1>1, ApartFacts
    <3>8. Apart(z, x) <= Radius
      BY <1>1, <3>6, <3>7, WardAssumption
    <3>9. i \in Reachable(o, x)
      BY <3>3, <3>4, <3>6, <3>8 DEF Reachable, Distance
    <3> QED
      BY <1>11, <3>9
  <2>5. RecordsMatch'
    <3> SUFFICES ASSUME NEW j, OfRoster(j), NEW r, r = RecordOf(j)
                 PROVE  /\ ward_list'[r].owner = wards'[j].owner
                        /\ ward_list'[r].pos = wards'[j].pos
                        /\ ward_list'[r].placed = wards'[j].placed
                        /\ wards'[j].owner \notin crowded' => ward_list'[r].died = wards'[j].died
      BY <1>4, <1>5 DEF RecordsMatch
    <3>1. j \in 1 .. n /\ wards[j].owner \in Owners
      BY <1>21 DEF OfRoster
    <3>2. wards[j].owner \notin crowded => j # k
      BY <1>20, <2>4, <3>1
    <3> QED
      BY <1>1, <1>2, <2>1, <3>1, <3>2 DEF RecordsMatch
  <2>6. CountsHold'
    <3>1. \A p : DeadOf(ward_list, p)' = DeadOf(ward_list, p)
      BY <2>1 DEF DeadOf, OfOwner
    <3>2. \A p \in Owners : Cardinality(DeadOf(ward_list, p)) \in Nat
      BY CountableWards DEF WardsTyped
    <3> SUFFICES ASSUME NEW p \in Owners
                 PROVE  /\ wards_placed'[p] = Cardinality(OfOwner(wards', p))
                        /\ Cardinality(DeadOf(ward_list, p)) <= Cardinality(DeadOf(wards', p))
      BY <1>8, <3>1 DEF CountsHold
    <3>3. /\ wards_placed[p] = Cardinality(OfOwner(wards, p))
          /\ Cardinality(DeadOf(ward_list, p)) <= Cardinality(DeadOf(wards, p))
      BY DEF CountsHold
    <3>4. wards_placed'[p] = Cardinality(OfOwner(wards', p))
      BY <1>9, <2>1, <3>3
    <3>5. Cardinality(DeadOf(ward_list, p)) <= Cardinality(DeadOf(wards', p))
      BY <1>9, <3>2, <3>3
    <3> QED
      BY <3>4, <3>5
  <2> QED
    BY <1>7, <2>2, <2>3, <2>5, <2>6
<1>12. o \in Owners \/ Reachable(o, x) = {}
  BY <1>1, StrangersReachNothing
<1> QED
  BY <1>10, <1>11, <1>12

LEMMA NothingOfWardsKeeps == WardInv /\ wards' = wards /\ crowded' = crowded /\ now' \in Nat /\ UNCHANGED wardsAssembled => WardInv'
<1> SUFFICES ASSUME WardInv, wards' = wards, crowded' = crowded, now' \in Nat, UNCHANGED wardsAssembled
             PROVE  WardInv'
  OBVIOUS
<1>1. ward_list' = ward_list /\ open_wards' = open_wards /\ wards_placed' = wards_placed
  BY DEF wardsAssembled
<1>2. WardsTyped' /\ OpenIsLive' /\ ApartUnlessCrowded'
  BY <1>1 DEF WardInv, WardsTyped, OpenIsLive, ApartUnlessCrowded, Live
<1>3. \A k : RecordOf(k)' = RecordOf(k) /\ (OfRoster(k)' <=> OfRoster(k))
  BY DEF RecordOf, OfRoster
<1>4. \A k : k = Len(wards') => Len(ward_list') = RecordOf(k)'
  BY <1>1, <1>3 DEF WardInv, OneRecordEach
<1>5. OneRecordEach' /\ RecordsMatch'
  BY <1>1, <1>3, <1>4 DEF WardInv, OneRecordEach, RecordsMatch
<1>6. CountsHold'
  BY <1>1 DEF WardInv, CountsHold, OfOwner, DeadOf
<1> QED
  BY <1>2, <1>5, <1>6 DEF WardInv

LEMMA WardStep == WardInv /\ [WardNext]_wardVars => WardInv'
<1> SUFFICES ASSUME WardInv, [WardNext]_wardVars PROVE WardInv'
  OBVIOUS
<1>1. CASE \E o \in Owners \cup Strangers, x \in WardPlaces : Place(o, x)
  BY <1>1, PlaceKeeps
<1>2. CASE \E k \in Live, x \in WardPlaces : Die(k, x)
  BY <1>2, DieKeeps
<1>3. CASE \E o \in Strangers, x \in WardPlaces : Corpse(o, x)
  <2>1. PICK o \in Strangers, x \in WardPlaces : Corpse(o, x)
    BY <1>3
  <2>2. UNCHANGED wardsAssembled
    BY <2>1, StrangersReachNothing DEF Corpse, SpawnCorpse, WardInv
  <2>3. wards' = wards /\ crowded' = crowded /\ now' \in Nat
    BY <2>1 DEF Corpse, wardGame, WardInv, WardsTyped
  <2> QED
    BY <2>2, <2>3, NothingOfWardsKeeps
<1>4. CASE WardTick
  BY <1>4, NothingOfWardsKeeps DEF WardTick, WardInv, WardsTyped
<1>5. CASE UNCHANGED wardVars
  BY <1>5, NothingOfWardsKeeps DEF wardVars, wardGame, WardInv, WardsTyped
<1> QED
  BY <1>1, <1>2, <1>3, <1>4, <1>5 DEF WardNext

\* What the invariant says is what the run checks.
LEMMA WardInvMeans == WardInv => RecordsAreTrue
<1> SUFFICES ASSUME WardInv PROVE RecordsAreTrue
  OBVIOUS
<1> USE DEF WardInv
<1>10. DOMAIN open_wards = 1 .. Len(open_wards)
  BY DEF WardsTyped
<1>1. IsInjective(open_wards)
  BY <1>10 DEF IsInjective, OpenIsLive, Distinct
<1>2. ToSet(open_wards) = {r \in 1 .. Len(ward_list) : ward_list[r].died = Alive}
  <2>1. \A r \in ToSet(open_wards) : r \in 1 .. Len(ward_list) /\ ward_list[r].died = Alive
    BY <1>10 DEF ToSet, OpenIsLive
  <2>2. \A r \in 1 .. Len(ward_list) : ward_list[r].died = Alive => r \in ToSet(open_wards)
    BY <1>10 DEF ToSet, OpenIsLive
  <2> QED
    BY <2>1, <2>2
<1>3. Len(ward_list) = RecordOf(Len(wards))
  BY DEF OneRecordEach
<1>4. ASSUME NEW k \in 1 .. Len(wards), wards[k].owner \in Owners, NEW w, w = wards[k],
             NEW r, r = ward_list[RecordOf(k)]
      PROVE  r = IF w.owner \in crowded THEN [w EXCEPT !.died = r.died] ELSE w
  <2>1. OfRoster(k)
    BY <1>4 DEF OfRoster
  <2>2. /\ r.owner = w.owner /\ r.pos = w.pos /\ r.placed = w.placed
        /\ w.owner \notin crowded => r.died = w.died
    BY <1>4, <2>1 DEF RecordsMatch
  <2>3. r \in WardType /\ w \in WardType
    BY <1>4, <2>1 DEF OneRecordEach, WardsTyped
  <2>4. r = [w EXCEPT !.died = r.died]
    BY <2>2, <2>3 DEF WardType
  <2>5. w.owner \notin crowded => r = w
    BY <2>2, <2>3 DEF WardType
  <2> QED
    BY <2>4, <2>5
<1>5. \A k \in 1 .. Len(wards) :
        LET w == wards[k]
            r == ward_list[RecordOf(k)]
        IN  w.owner \in Owners => r = IF w.owner \in crowded THEN [w EXCEPT !.died = r.died] ELSE w
  BY <1>4
<1> QED
  BY <1>1, <1>2, <1>3, <1>5 DEF RecordsAreTrue, CountsHold

\* Whatever wards are placed and die, and in whatever order their corpses are seen,
\* assemble has a record for each of a champion's, with its owner, place and times
\* unless a corpse could be of either of two, and open_wards is the live ones.
THEOREM RecordsFollowTheWards == WardSpec => []RecordsAreTrue
<1>1. WardSpec => []WardInv
  BY WardStarts, WardStep, PTL DEF WardSpec
<1> QED
  BY <1>1, WardInvMeans, PTL

-----------------------------------------------------------------------------
(* Assists                                                                 *)

AssistTyped ==
  /\ now \in Nat /\ lag \in 0 .. MaxLag
  /\ deaths \in Seq([t : Nat, victim : Players, killer : Players \cup {NoOne}])
  /\ assisted \in Seq(SUBSET Players) /\ Len(assisted) = Len(deaths)
  /\ credited \in Seq(Seq(Players)) /\ Len(credited) = Len(deaths)
  /\ steps \in Seq([t : Nat, player : Players])
  /\ counter \in [Players -> Nat] /\ last_assists \in [Players -> Nat]
  /\ done \in -1 .. Len(steps)
  /\ done # -1 => last_assists = counter

\* Deaths come in order, and those who assisted on one could.
DeathsAreFair ==
  /\ \A d \in 1 .. Len(deaths) :
       /\ deaths[d].t <= now
       /\ \A e \in d .. Len(deaths) : deaths[d].t <= deaths[e].t
       /\ \A p \in assisted[d] : p # deaths[d].killer /\ deaths[d].victim \in Enemies(p)
  /\ \A p \in Players : counter[p] = Cardinality(Assisted(p))

StepsOf(p) == {i \in 1 .. Len(steps) : steps[i].player = p}

ToldDeaths(m, p) == {m[i] : i \in StepsOf(p)}

\* Step i tells of death m[i]: one step for each assist, the first ones first, at
\* most `lag' after the death.
StepsTell(m) ==
  /\ m \in [1 .. Len(steps) -> 1 .. Len(deaths)]
  /\ \A i \in 1 .. Len(steps) :
       /\ steps[i].player \in assisted[m[i]]
       /\ deaths[m[i]].t <= steps[i].t /\ steps[i].t <= deaths[m[i]].t + lag
  /\ \A p \in Players :
       /\ \A i, j \in StepsOf(p) : m[i] = m[j] => i = j
       /\ last_assists[p] = Cardinality(ToldDeaths(m, p))
       /\ \A d \in Assisted(p) \ ToldDeaths(m, p) :
            now <= deaths[d].t + lag /\ \A e \in ToldDeaths(m, p) : e < d

NotYet == \A d \in 1 .. Len(deaths) : credited[d] = <<>>

\* Step i is credited to death c[i], no other of its champion to the same; to none
\* if c[i] is 0.
Crediting(c) ==
  /\ c \in [1 .. Len(steps) -> 0 .. Len(deaths)]
  /\ \A d \in 1 .. Len(deaths) :
       /\ IsInjective(credited[d])
       /\ \A p \in Players : Contains(credited[d], p) <=> \E i \in StepsOf(p) : i <= done /\ c[i] = d
  /\ \A p \in Players : \A i, j \in StepsOf(p) :
       i <= done /\ j <= done /\ c[i] # 0 /\ c[i] = c[j] => i = j
  /\ \A i \in 1 .. done : c[i] # 0 => Delay(c[i], steps[i]) <= WINDOW

\* A step finds its death unless another is near, and in a game without lag one of
\* its time.
FindsItsDeath(m, c) ==
  \A i \in 1 .. done :
    /\ \/ Contains(credited[m[i]], steps[i].player)
       \/ \E e \in 1 .. Len(deaths) : e # m[i] /\ Delay(e, steps[i]) <= WINDOW
    /\ lag = 0 => c[i] # 0 /\ deaths[c[i]].t = steps[i].t

StepsAreOfDeaths ==
  \E m \in [1 .. Len(steps) -> 1 .. Len(deaths)] :
    /\ StepsTell(m)
    /\ IF done = -1 THEN NotYet
       ELSE \E c \in [1 .. Len(steps) -> 0 .. Len(deaths)] : Crediting(c) /\ FindsItsDeath(m, c)

AssistInv == AssistTyped /\ DeathsAreFair /\ StepsAreOfDeaths

\* The image of a finite set is as large as the set only if no two share a value.
LEMMA ImageFacts ==
  ASSUME NEW S, IsFiniteSet(S), NEW f
  PROVE  LET T == {f[x] : x \in S} IN
         /\ IsFiniteSet(T) /\ Cardinality(T) <= Cardinality(S)
         /\ Cardinality(T) \in Nat /\ Cardinality(S) \in Nat
         /\ (\A x, y \in S : f[x] = f[y] => x = y) => Cardinality(T) = Cardinality(S)
<1> DEFINE T == {f[x] : x \in S}
           g == [x \in S |-> f[x]]
<1>1. g \in Surjection(S, T)
  BY DEF Surjection
<1>2. /\ IsFiniteSet(T) /\ Cardinality(T) <= Cardinality(S)
      /\ Cardinality(T) = Cardinality(S) <=> g \in Injection(S, T)
  BY <1>1, FS_Surjection
<1>3. (\A x, y \in S : f[x] = f[y] => x = y) => g \in Injection(S, T)
  BY <1>1 DEF Injection, IsInjective, Surjection
<1>4. Cardinality(T) \in Nat /\ Cardinality(S) \in Nat
  BY <1>2, FS_CardinalityType
<1> QED
  BY <1>2, <1>3, <1>4

LEMMA AppendFacts ==
  ASSUME NEW T, NEW s \in Seq(T), NEW x \in T
  PROVE  /\ Append(s, x) \in Seq(T) /\ Len(Append(s, x)) = Len(s) + 1
         /\ Append(s, x)[Len(s) + 1] = x /\ \A i \in 1 .. Len(s) : Append(s, x)[i] = s[i]
OBVIOUS

LEMMA ConcatFacts ==
  ASSUME NEW T, NEW s \in Seq(T), NEW r \in Seq(T)
  PROVE  /\ s \o r \in Seq(T) /\ Len(s \o r) = Len(s) + Len(r)
         /\ \A i \in 1 .. Len(s) : (s \o r)[i] = s[i]
         /\ \A i \in 1 .. Len(r) : (s \o r)[Len(s) + i] = r[i]
OBVIOUS

LEMMA ElementFacts ==
  ASSUME NEW T, NEW s \in Seq(T)
  PROVE  Len(s) \in Nat /\ \A i \in 1 .. Len(s) : s[i] \in T
OBVIOUS

LEMMA AssistTypes ==
  ASSUME AssistTyped
  PROVE  /\ now \in Nat /\ lag \in Nat /\ lag <= WINDOW /\ WINDOW \in Nat
         /\ Len(deaths) \in Nat /\ Len(steps) \in Nat
         /\ \A d \in 1 .. Len(deaths) : deaths[d].t \in Nat
         /\ \A i \in 1 .. Len(steps) : steps[i].t \in Nat /\ steps[i].player \in Players
<1>1. \A d \in 1 .. Len(deaths) : deaths[d] \in [t : Nat, victim : Players, killer : Players \cup {NoOne}]
  <2>1. PICK R : R = [t : Nat, victim : Players, killer : Players \cup {NoOne}]
    OBVIOUS
  <2>2. deaths \in Seq(R)
    BY <2>1 DEF AssistTyped
  <2> QED
    BY <2>1, <2>2, ElementFacts
<1>2. \A i \in 1 .. Len(steps) : steps[i] \in [t : Nat, player : Players]
  <2>1. PICK R : R = [t : Nat, player : Players]
    OBVIOUS
  <2>2. steps \in Seq(R)
    BY <2>1 DEF AssistTyped
  <2> QED
    BY <2>1, <2>2, ElementFacts
<1>3. now \in Nat /\ lag \in Nat /\ lag <= WINDOW /\ WINDOW \in Nat
  BY AssistAssumption DEF AssistTyped
<1>4. Len(deaths) \in Nat /\ Len(steps) \in Nat
  BY DEF AssistTyped
<1> QED
  BY <1>1, <1>2, <1>3, <1>4

LEMMA StepSets ==
  ASSUME AssistTyped, NEW p \in Players
  PROVE  /\ StepsOf(p) \subseteq 1 .. Len(steps) /\ IsFiniteSet(StepsOf(p))
         /\ Assisted(p) \subseteq 1 .. Len(deaths) /\ IsFiniteSet(Assisted(p))
         /\ Cardinality(StepsOf(p)) \in Nat /\ Cardinality(Assisted(p)) \in Nat
<1>1. Len(steps) \in Nat /\ Len(deaths) \in Nat
  BY DEF AssistTyped
<1>2. IsFiniteSet(1 .. Len(steps)) /\ IsFiniteSet(1 .. Len(deaths))
  BY <1>1, FS_Interval
<1>3. StepsOf(p) \in SUBSET (1 .. Len(steps)) /\ Assisted(p) \in SUBSET (1 .. Len(deaths))
  BY DEF StepsOf, Assisted
<1>4. IsFiniteSet(StepsOf(p)) /\ IsFiniteSet(Assisted(p))
  BY <1>2, <1>3, FS_Subset
<1> QED
  BY <1>3, <1>4, FS_CardinalityType

\* There is a step for each death told of.
LEMMA ToldFacts ==
  ASSUME AssistTyped, NEW m, StepsTell(m), NEW p \in Players
  PROVE  /\ ToldDeaths(m, p) \subseteq Assisted(p) /\ IsFiniteSet(ToldDeaths(m, p))
         /\ Cardinality(ToldDeaths(m, p)) = Cardinality(StepsOf(p))
         /\ last_assists[p] = Cardinality(StepsOf(p))
<1>1. StepsOf(p) \subseteq 1 .. Len(steps) /\ IsFiniteSet(StepsOf(p))
  BY StepSets
<1>2. \A i, j \in StepsOf(p) : m[i] = m[j] => i = j
  BY DEF StepsTell
<1>3. ToldDeaths(m, p) = {m[i] : i \in StepsOf(p)}
  BY DEF ToldDeaths
<1>4. IsFiniteSet(ToldDeaths(m, p)) /\ Cardinality(ToldDeaths(m, p)) = Cardinality(StepsOf(p))
  BY <1>1, <1>2, <1>3, ImageFacts
<1>5. \A i \in StepsOf(p) : m[i] \in Assisted(p)
  BY <1>1 DEF StepsTell, StepsOf, Assisted
<1>6. ToldDeaths(m, p) \subseteq Assisted(p)
  BY <1>3, <1>5
<1>7. last_assists[p] = Cardinality(ToldDeaths(m, p))
  BY DEF StepsTell
<1> QED
  BY <1>4, <1>6, <1>7

LEMMA EnemiesOfEnemies ==
  ASSUME NEW v \in Players, NEW p \in Enemies(v)
  PROVE  p \in Players /\ v \in Enemies(p)
BY AssistAssumption DEF Enemies, Players

LEMMA AssistStarts == AssistInit => AssistInv
<1> SUFFICES ASSUME AssistInit PROVE AssistInv
  OBVIOUS
<1> USE DEF AssistInit
<1>1. /\ deaths = <<>> /\ assisted = <<>> /\ credited = <<>> /\ steps = <<>> /\ Len(<<>>) = 0
      /\ 1 .. 0 = {}
  OBVIOUS
<1>2. /\ \A T : <<>> \in Seq(T)
      /\ [p \in Players |-> 0] \in [Players -> Nat]
  OBVIOUS
<1>3. AssistTyped
  BY <1>1, <1>2 DEF AssistTyped
<1>4. \A p \in Players : Assisted(p) = {} /\ StepsOf(p) = {}
  BY <1>1 DEF Assisted, StepsOf
<1>5. DeathsAreFair
  BY <1>1, <1>4, FS_EmptySet DEF DeathsAreFair
<1>6. PICK m : m \in [1 .. Len(steps) -> 1 .. Len(deaths)]
  <2>1. [i \in 1 .. Len(steps) |-> 1] \in [1 .. Len(steps) -> 1 .. Len(deaths)]
    BY <1>1
  <2> QED
    BY <2>1
<1>7. \A p \in Players : ToldDeaths(m, p) = {}
  BY <1>4 DEF ToldDeaths
<1>8. StepsTell(m)
  BY <1>1, <1>4, <1>6, <1>7, FS_EmptySet DEF StepsTell
<1>9. NotYet
  BY <1>1 DEF NotYet
<1> QED
  BY <1>3, <1>5, <1>6, <1>8, <1>9 DEF AssistInv, StepsAreOfDeaths

LEMMA DiesKeeps ==
  ASSUME AssistInv, NEW v \in Players, NEW k \in Enemies(v) \cup {NoOne},
         NEW helpers \in SUBSET (Enemies(v) \ {k}), Death(v, k, helpers)
  PROVE  AssistInv'
<1> USE DEF AssistInv
<1>20. PICK n \in Nat : n = Len(deaths)
  BY DEF AssistTyped
<1>21. /\ deaths \in Seq([t : Nat, victim : Players, killer : Players \cup {NoOne}])
       /\ assisted \in Seq(SUBSET Players) /\ credited \in Seq(Seq(Players))
       /\ n = Len(deaths) /\ n = Len(assisted) /\ n = Len(credited)
  BY <1>20 DEF AssistTyped
<1>22. /\ deaths' = Append(deaths, [t |-> now, victim |-> v, killer |-> k])
       /\ assisted' = Append(assisted, helpers) /\ credited' = Append(credited, <<>>)
       /\ now' = now /\ lag' = lag /\ steps' = steps /\ last_assists' = last_assists
       /\ done = -1 /\ done' = -1
       /\ counter' = [p \in Players |-> IF p \in helpers THEN counter[p] + 1 ELSE counter[p]]
  BY DEF Death
<1>25. /\ [t |-> now, victim |-> v, killer |-> k] \in [t : Nat, victim : Players, killer : Players \cup {NoOne}]
       /\ <<>> \in Seq(Players) /\ helpers \in SUBSET Players
  BY EnemiesOfEnemies DEF AssistTyped
<1>23. /\ Len(deaths') = n + 1 /\ \A d \in 1 .. n : deaths'[d] = deaths[d]
       /\ deaths'[n + 1] = [t |-> now, victim |-> v, killer |-> k]
  <2>1. PICK R, r : /\ R = [t : Nat, victim : Players, killer : Players \cup {NoOne}]
                    /\ r = [t |-> now, victim |-> v, killer |-> k]
    OBVIOUS
  <2>2. deaths \in Seq(R) /\ r \in R /\ deaths' = Append(deaths, r) /\ n = Len(deaths)
    BY <1>21, <1>22, <1>25, <2>1
  <2>3. /\ Len(deaths') = n + 1 /\ deaths'[n + 1] = r
        /\ \A d \in 1 .. n : deaths'[d] = deaths[d]
    BY <2>2, AppendFacts
  <2> QED
    BY <2>1, <2>3
<1>24. /\ Len(assisted') = n + 1 /\ \A d \in 1 .. n : assisted'[d] = assisted[d]
       /\ assisted'[n + 1] = helpers
  <2>1. PICK R : R = SUBSET Players
    OBVIOUS
  <2>2. assisted \in Seq(R) /\ helpers \in R /\ assisted' = Append(assisted, helpers) /\ n = Len(assisted)
    BY <1>21, <1>22, <1>25, <2>1
  <2> QED
    BY <2>2, AppendFacts
<1>26. /\ Len(credited') = n + 1 /\ \A d \in 1 .. n : credited'[d] = credited[d]
       /\ credited'[n + 1] = <<>>
  BY <1>21, <1>22, <1>25, AppendFacts
<1>1. /\ Len(deaths') = n + 1 /\ Len(assisted') = n + 1 /\ Len(credited') = n + 1
      /\ \A d \in 1 .. n : deaths'[d] = deaths[d] /\ assisted'[d] = assisted[d] /\ credited'[d] = credited[d]
      /\ deaths'[n + 1] = [t |-> now, victim |-> v, killer |-> k]
      /\ assisted'[n + 1] = helpers /\ credited'[n + 1] = <<>>
      /\ now' = now /\ lag' = lag /\ steps' = steps /\ last_assists' = last_assists
      /\ done = -1 /\ done' = -1
      /\ counter' = [p \in Players |-> IF p \in helpers THEN counter[p] + 1 ELSE counter[p]]
  BY <1>22, <1>23, <1>24, <1>26
<1>2. \A d : d \in 1 .. n + 1 <=> d \in 1 .. n \/ d = n + 1
  BY <1>20
<1>3. helpers \subseteq Players /\ \A p \in helpers : p # k /\ v \in Enemies(p)
  BY EnemiesOfEnemies
<1>4. AssistTyped'
  <2>1. [t |-> now, victim |-> v, killer |-> k] \in [t : Nat, victim : Players, killer : Players \cup {NoOne}]
    BY EnemiesOfEnemies DEF AssistTyped
  <2>2. <<>> \in Seq(Players) /\ helpers \in SUBSET Players
    BY <1>3
  <2>3. /\ deaths' \in Seq([t : Nat, victim : Players, killer : Players \cup {NoOne}])
        /\ assisted' \in Seq(SUBSET Players) /\ credited' \in Seq(Seq(Players))
    BY <2>1, <2>2 DEF Death, AssistTyped
  <2>4. counter' \in [Players -> Nat]
    BY <1>1 DEF AssistTyped
  <2> QED
    BY <1>1, <2>3, <2>4 DEF AssistTyped
<1>5. \A p \in Players : Assisted(p)' = IF p \in helpers THEN Assisted(p) \cup {n + 1} ELSE Assisted(p)
  BY <1>1, <1>2, <1>20 DEF Assisted
<1>6. DeathsAreFair'
  <2>1. ASSUME NEW d \in 1 .. n + 1
        PROVE  /\ deaths'[d].t <= now
               /\ \A e \in d .. n + 1 : deaths'[d].t <= deaths'[e].t
               /\ \A p \in assisted'[d] : p # deaths'[d].killer /\ deaths'[d].victim \in Enemies(p)
    <3>1. CASE d = n + 1
      BY <1>1, <1>3, <3>1 DEF AssistTyped
    <3>2. CASE d \in 1 .. n
      <4>1. /\ deaths[d].t <= now
            /\ \A e \in d .. n : deaths[d].t <= deaths[e].t
            /\ \A p \in assisted[d] : p # deaths[d].killer /\ deaths[d].victim \in Enemies(p)
        BY <1>20, <3>2 DEF DeathsAreFair
      <4>2. \A e \in d .. n + 1 : (e \in d .. n /\ e \in 1 .. n) \/ e = n + 1
        BY <1>20, <3>2
      <4> QED
        BY <1>1, <3>2, <4>1, <4>2
    <3> QED
      BY <1>2, <3>1, <3>2
  <2>2. ASSUME NEW p \in Players PROVE counter'[p] = Cardinality(Assisted(p)')
    <3>3. n + 1 \notin Assisted(p)
      BY <1>20 DEF Assisted
    <3>1. IsFiniteSet(Assisted(p)) /\ n + 1 \notin Assisted(p) /\ counter[p] = Cardinality(Assisted(p))
      BY <3>3, StepSets DEF DeathsAreFair
    <3>2. Cardinality(Assisted(p) \cup {n + 1}) = Cardinality(Assisted(p)) + 1
      BY <3>1, FS_AddElement
    <3> QED
      BY <1>1, <1>5, <3>1, <3>2
  <2> QED
    BY <1>1, <2>1, <2>2 DEF DeathsAreFair
<1>7. PICK m \in [1 .. Len(steps) -> 1 .. n] : StepsTell(m) /\ NotYet
  BY <1>1, <1>20 DEF StepsAreOfDeaths
<1>8. m \in [1 .. Len(steps) -> 1 .. n + 1] /\ \A i \in 1 .. Len(steps) : m[i] \in 1 .. n
  BY <1>2, <1>7
<1>9. \A p : StepsOf(p)' = StepsOf(p) /\ ToldDeaths(m, p)' = ToldDeaths(m, p)
  BY <1>1 DEF StepsOf, ToldDeaths
<1>10. StepsTell(m)'
  <2>1. ASSUME NEW i \in 1 .. Len(steps)
        PROVE  /\ steps[i].player \in assisted'[m[i]]
               /\ deaths'[m[i]].t <= steps[i].t /\ steps[i].t <= deaths'[m[i]].t + lag
    BY <1>1, <1>7, <1>8 DEF StepsTell
  <2>2. ASSUME NEW p \in Players, NEW d \in Assisted(p)' \ ToldDeaths(m, p)
        PROVE  now <= deaths'[d].t + lag /\ \A e \in ToldDeaths(m, p) : e < d
    <3>1. CASE d = n + 1
      <4>1. \A e \in ToldDeaths(m, p) : e \in 1 .. n
        BY <1>8 DEF ToldDeaths, StepsOf
      <4> QED
        BY <1>1, <1>20, <3>1, <4>1 DEF AssistTyped
    <3>2. CASE d \in Assisted(p)
      <4>1. now <= deaths[d].t + lag /\ \A e \in ToldDeaths(m, p) : e < d
        BY <1>7, <2>2, <3>2 DEF StepsTell
      <4>2. deaths'[d] = deaths[d]
        BY <1>1, <1>20, <3>2 DEF Assisted
      <4> QED
        BY <4>1, <4>2
    <3> QED
      BY <1>5, <2>2, <3>1, <3>2
  <2>3. \A p \in Players : /\ \A i, j \in StepsOf(p) : m[i] = m[j] => i = j
                           /\ last_assists[p] = Cardinality(ToldDeaths(m, p))
    BY <1>7 DEF StepsTell
  <2> QED
    BY <1>1, <1>8, <1>9, <2>1, <2>2, <2>3 DEF StepsTell
<1>11. NotYet'
  BY <1>1, <1>2, <1>7, <1>20 DEF NotYet
<1>12. StepsAreOfDeaths'
  BY <1>1, <1>8, <1>10, <1>11 DEF StepsAreOfDeaths
<1> QED
  BY <1>4, <1>6, <1>12

LEMMA AssistTickKeeps == AssistInv /\ AssistTick => AssistInv'
<1> SUFFICES ASSUME AssistInv, AssistTick PROVE AssistInv'
  OBVIOUS
<1> USE DEF AssistInv
<1>1. /\ done = -1 /\ now' = now + 1 /\ \A p \in Players : ~ Due(p)
      /\ lag' = lag /\ assisted' = assisted /\ counter' = counter /\ deaths' = deaths /\ steps' = steps
      /\ last_assists' = last_assists /\ credited' = credited /\ done' = done
  BY DEF AssistTick
<1>2. \A p : Assisted(p)' = Assisted(p) /\ StepsOf(p)' = StepsOf(p)
  BY <1>1 DEF Assisted, StepsOf
<1>3. AssistTyped'
  BY <1>1 DEF AssistTyped
<1>4. DeathsAreFair'
  <2>1. \A d \in 1 .. Len(deaths) : deaths[d].t <= now + 1
    <3>1. \A d \in 1 .. Len(deaths) : deaths[d].t <= now
      BY DEF DeathsAreFair
    <3> QED
      BY <3>1, AssistTypes
  <2> QED
    BY <1>1, <1>2, <2>1 DEF DeathsAreFair
<1>5. PICK m \in [1 .. Len(steps) -> 1 .. Len(deaths)] : StepsTell(m) /\ NotYet
  BY <1>1 DEF StepsAreOfDeaths
<1>6. \A p : ToldDeaths(m, p)' = ToldDeaths(m, p)
  BY <1>2 DEF ToldDeaths
<1>7. ASSUME NEW p \in Players, NEW d \in Assisted(p) \ ToldDeaths(m, p)
      PROVE  now + 1 <= deaths[d].t + lag
  <2> DEFINE U == Assisted(p) \ ToldDeaths(m, p)
  <2>1. U \in SUBSET Nat /\ U # {}
    BY <1>7, StepSets
  <2>2. PICK e \in U : \A x \in U : e <= x
    BY <2>1, LeastExists
  <2>3. /\ now <= deaths[e].t + lag /\ \A x \in ToldDeaths(m, p) : x < e
        /\ last_assists[p] = Cardinality(ToldDeaths(m, p))
    BY <1>5, <2>2 DEF StepsTell
  <2>4. ToldDeaths(m, p) \subseteq Assisted(p) /\ Assisted(p) \subseteq 1 .. Len(deaths) /\ Len(deaths) \in Nat
    <3>1. ToldDeaths(m, p) \subseteq Assisted(p)
      BY <1>5, ToldFacts
    <3> QED
      BY <3>1, StepSets, AssistTypes
  <2>5. {x \in Assisted(p) : x < e} = ToldDeaths(m, p)
    <3>1. \A x \in Assisted(p) : x < e => x \in ToldDeaths(m, p)
      BY <2>2, <2>4
    <3> QED
      BY <2>3, <2>4, <3>1
  <2>6. deaths[e].t + lag # now
    BY <1>1, <2>2, <2>3, <2>5 DEF Due
  <2>7. deaths[e].t <= deaths[d].t /\ deaths[e].t \in Nat /\ deaths[d].t \in Nat
    <3>1. e \in 1 .. Len(deaths) /\ d \in 1 .. Len(deaths) /\ d \in e .. Len(deaths)
      BY <2>2, <2>4, <1>7
    <3>2. deaths[e].t \in Nat /\ deaths[d].t \in Nat
      BY <3>1, AssistTypes
    <3> QED
      BY <3>1, <3>2 DEF DeathsAreFair
  <2>8. now \in Nat /\ lag \in Nat
    BY AssistTypes
  <2> QED
    BY <2>3, <2>6, <2>7, <2>8
<1>8. StepsTell(m)'
  BY <1>1, <1>2, <1>5, <1>6, <1>7 DEF StepsTell
<1>9. StepsAreOfDeaths'
  BY <1>1, <1>5, <1>8 DEF StepsAreOfDeaths, NotYet
<1> QED
  BY <1>3, <1>4, <1>9

LEMMA CollectedKeeps == AssistInv /\ Collected => AssistInv'
<1> SUFFICES ASSUME AssistInv, Collected PROVE AssistInv'
  OBVIOUS
<1> USE DEF AssistInv
<1>1. /\ done = -1 /\ done' = 0 /\ last_assists = counter
      /\ now' = now /\ lag' = lag /\ assisted' = assisted /\ counter' = counter /\ deaths' = deaths
      /\ steps' = steps /\ last_assists' = last_assists /\ credited' = credited
  BY DEF Collected
<1>2. \A p : Assisted(p)' = Assisted(p) /\ StepsOf(p)' = StepsOf(p)
  BY <1>1 DEF Assisted, StepsOf
<1>3. AssistTyped'
  BY <1>1 DEF AssistTyped
<1>4. DeathsAreFair'
  BY <1>1, <1>2 DEF DeathsAreFair
<1>5. PICK m \in [1 .. Len(steps) -> 1 .. Len(deaths)] : StepsTell(m) /\ NotYet
  BY <1>1 DEF StepsAreOfDeaths
<1>6. StepsTell(m)'
  BY <1>1, <1>2, <1>5 DEF StepsTell, ToldDeaths
<1>7. PICK c \in [1 .. Len(steps) -> 0 .. Len(deaths)] : \A i \in 1 .. Len(steps) : c[i] = 0
  <2>1. [i \in 1 .. Len(steps) |-> 0] \in [1 .. Len(steps) -> 0 .. Len(deaths)]
    BY DEF AssistTyped
  <2> QED
    BY <2>1
<1>8. Crediting(c)'
  <2>1. \A d \in 1 .. Len(deaths) : credited'[d] = <<>>
    BY <1>1, <1>5 DEF NotYet
  <2>2. \A d \in 1 .. Len(deaths) : IsInjective(credited'[d]) /\ \A p : ~ Contains(credited'[d], p)
    BY <2>1 DEF IsInjective, Contains
  <2>3. \A i \in 1 .. Len(steps) : ~ (i <= 0)
    OBVIOUS
  <2>4. \A p : StepsOf(p)' \subseteq 1 .. Len(steps)
    BY <1>2 DEF StepsOf
  <2>5. 1 .. 0 = {}
    OBVIOUS
  <2> QED
    BY <1>1, <1>7, <2>2, <2>3, <2>4, <2>5 DEF Crediting
<1>9. FindsItsDeath(m, c)'
  BY <1>1 DEF FindsItsDeath
<1>10. StepsAreOfDeaths'
  BY <1>1, <1>5, <1>6, <1>7, <1>8, <1>9 DEF StepsAreOfDeaths
<1> QED
  BY <1>3, <1>4, <1>10

LEMMA KdaKeeps ==
  ASSUME AssistInv, NEW p \in Players, Kda(p)
  PROVE  AssistInv'
<1> USE DEF AssistInv
<1>1. /\ done = -1 /\ counter[p] > last_assists[p]
      /\ steps' = steps \o [i \in 1 .. counter[p] - last_assists[p] |-> [t |-> now, player |-> p]]
      /\ last_assists' = [last_assists EXCEPT ![p] = counter[p]]
      /\ now' = now /\ lag' = lag /\ assisted' = assisted /\ counter' = counter /\ deaths' = deaths
      /\ credited' = credited /\ done' = done
  BY DEF Kda
<1>2. PICK m \in [1 .. Len(steps) -> 1 .. Len(deaths)] : StepsTell(m) /\ NotYet
  BY <1>1 DEF StepsAreOfDeaths
<1>3. PICK U : U = Assisted(p) \ ToldDeaths(m, p)
  OBVIOUS
<1>20. PICK l \in Nat : l = Len(steps)
  BY DEF AssistTyped
<1>4. PICK n \in Nat : n = counter[p] - last_assists[p] /\ n = Cardinality(U) /\ IsFiniteSet(U)
  <2>1. IsFiniteSet(Assisted(p)) /\ counter[p] = Cardinality(Assisted(p)) /\ Cardinality(Assisted(p)) \in Nat
    BY StepSets DEF DeathsAreFair
  <2>2. /\ Assisted(p) \cap ToldDeaths(m, p) = ToldDeaths(m, p)
        /\ last_assists[p] = Cardinality(ToldDeaths(m, p)) /\ last_assists[p] \in Nat
    BY <1>2, ToldFacts DEF StepsTell, AssistTyped
  <2>3. IsFiniteSet(U) /\ Cardinality(U) = counter[p] - last_assists[p]
    <3>1. IsFiniteSet(U) /\ Cardinality(U) = Cardinality(Assisted(p)) - Cardinality(Assisted(p) \cap ToldDeaths(m, p))
      BY <1>3, <2>1, FS_Difference
    <3> QED
      BY <2>1, <2>2, <3>1
  <2> QED
    BY <1>1, <2>1, <2>2, <2>3
<1>5. PICK b \in Bijection(1 .. n, U) : TRUE
  BY <1>4, FS_CardinalityType DEF ExistsBijection
<1>6. /\ b \in [1 .. n -> U] /\ \A x, y \in 1 .. n : b[x] = b[y] => x = y
      /\ \A d \in U : \E x \in 1 .. n : b[x] = d
  BY <1>5 DEF Bijection, Injection, Surjection, IsInjective
<1>7. PICK more : more = [i \in 1 .. n |-> [t |-> now, player |-> p]]
  OBVIOUS
<1>8. more \in Seq([t : Nat, player : Players]) /\ Len(more) = n
  <2>1. PICK R, r : R = [t : Nat, player : Players] /\ r = [t |-> now, player |-> p]
    OBVIOUS
  <2>2. r \in R
    BY <2>1, AssistTypes
  <2>3. [i \in 1 .. n |-> r] \in Seq(R) /\ Len([i \in 1 .. n |-> r]) = n
    BY <1>4, <2>2
  <2> QED
    BY <1>7, <2>1, <2>3
<1>9. steps' = steps \o more
  BY <1>1, <1>4, <1>7
<1>10. /\ steps' \in Seq([t : Nat, player : Players]) /\ Len(steps') = l + n
       /\ \A i \in 1 .. l : steps'[i] = steps[i]
       /\ \A i \in 1 .. n : steps'[l + i] = [t |-> now, player |-> p]
  <2>1. PICK R : R = [t : Nat, player : Players]
    OBVIOUS
  <2>2. steps \in Seq(R) /\ more \in Seq(R) /\ Len(steps) = l /\ Len(more) = n
    BY <1>8, <1>20, <2>1 DEF AssistTyped
  <2>3. /\ steps' \in Seq(R) /\ Len(steps') = l + n /\ \A i \in 1 .. l : steps'[i] = steps[i]
        /\ \A i \in 1 .. n : steps'[l + i] = more[i]
    <3>1. PICK s : s = steps \o more
      OBVIOUS
    <3>2. /\ s \in Seq(R) /\ Len(s) = l + n /\ \A i \in 1 .. l : s[i] = steps[i]
          /\ \A i \in 1 .. n : s[l + i] = more[i]
      <4>1. /\ steps \o more \in Seq(R) /\ Len(steps \o more) = Len(steps) + Len(more)
            /\ \A i \in 1 .. Len(steps) : (steps \o more)[i] = steps[i]
            /\ \A i \in 1 .. Len(more) : (steps \o more)[Len(steps) + i] = more[i]
        <5>1. PICK q : q = steps
          OBVIOUS
        <5>2. q \in Seq(R) /\ more \in Seq(R)
          BY <2>2, <5>1
        <5>3. /\ q \o more \in Seq(R) /\ Len(q \o more) = Len(q) + Len(more)
              /\ \A i \in 1 .. Len(q) : (q \o more)[i] = q[i]
              /\ \A i \in 1 .. Len(more) : (q \o more)[Len(q) + i] = more[i]
          BY <5>2, ConcatFacts
        <5> QED
          BY <5>1, <5>3
      <4> QED
        BY <2>2, <3>1, <4>1
    <3> QED
      BY <1>9, <3>1, <3>2
  <2> QED
    BY <1>7, <2>1, <2>3
<1>11. /\ \A i : i \in 1 .. l + n <=> i \in 1 .. l \/ \E x \in 1 .. n : i = l + x
       /\ \A x \in 1 .. n : l + x \notin 1 .. l
  <2>1. \A i \in 1 .. l + n : i \in 1 .. l \/ (i - l \in 1 .. n /\ i = l + (i - l))
    BY <1>4, <1>20
  <2> QED
    BY <1>4, <1>20, <2>1
<1>12. PICK f : f = [i \in 1 .. l + n |-> IF i \in 1 .. l THEN m[i] ELSE b[i - l]]
  OBVIOUS
<1>13. /\ f \in [1 .. l + n -> 1 .. Len(deaths)]
       /\ \A i \in 1 .. l : f[i] = m[i]
       /\ \A x \in 1 .. n : f[l + x] = b[x]
  <2>1. U \subseteq 1 .. Len(deaths)
    BY <1>3, StepSets
  <2>2. \A i \in 1 .. l : f[i] = m[i] /\ m[i] \in 1 .. Len(deaths)
    BY <1>2, <1>11, <1>12, <1>20
  <2>3. \A x \in 1 .. n : f[l + x] = b[x] /\ b[x] \in 1 .. Len(deaths)
    <3>1. \A x \in 1 .. n : (l + x) - l = x /\ l + x \in 1 .. l + n /\ l + x \notin 1 .. l
      BY <1>4, <1>11, <1>20
    <3> QED
      BY <1>6, <1>12, <2>1, <3>1
  <2>4. ASSUME NEW i \in 1 .. l + n PROVE f[i] \in 1 .. Len(deaths)
    <3>1. i \in 1 .. l \/ \E x \in 1 .. n : i = l + x
      BY <1>11
    <3>2. \A x \in 1 .. n : f[l + x] \in 1 .. Len(deaths)
      BY <2>3
    <3> QED
      BY <2>2, <3>1, <3>2
  <2> QED
    BY <1>12, <2>2, <2>3, <2>4
<1>14. \A q : Assisted(q)' = Assisted(q)
  BY <1>1 DEF Assisted
<1>15. /\ StepsOf(p)' = StepsOf(p) \cup {l + x : x \in 1 .. n}
       /\ \A q : q # p => StepsOf(q)' = StepsOf(q)
       /\ \A q : StepsOf(q) \subseteq 1 .. l
  <2>1. \A q : StepsOf(q)' = {i \in 1 .. l + n : steps'[i].player = q}
    BY <1>10 DEF StepsOf
  <2>2. \A q : StepsOf(q) = {i \in 1 .. l : steps[i].player = q}
    BY <1>20 DEF StepsOf
  <2>3. ASSUME NEW x \in 1 .. n PROVE steps'[l + x].player = p
    <3>1. steps'[l + x] = [t |-> now, player |-> p]
      BY <1>10
    <3> QED
      BY <3>1
  <2>4. ASSUME NEW q, NEW i
        PROVE  i \in StepsOf(q)' <=> (i \in StepsOf(q) \/ \E x \in 1 .. n : i = l + x /\ q = p)
    <3>1. CASE i \in 1 .. l
      BY <1>10, <1>11, <2>1, <2>2, <3>1
    <3>2. ASSUME NEW x \in 1 .. n, i = l + x
          PROVE  i \in StepsOf(q)' <=> (i \in StepsOf(q) \/ \E y \in 1 .. n : i = l + y /\ q = p)
      BY <1>11, <2>1, <2>2, <2>3, <3>2
    <3>3. i \notin 1 .. l + n => (i \notin StepsOf(q) /\ \A x \in 1 .. n : i # l + x)
      BY <1>11, <2>2
    <3> QED
      BY <1>11, <2>1, <3>1, <3>2, <3>3
  <2> QED
    BY <2>2, <2>4
<1>16. /\ ToldDeaths(f, p)' = Assisted(p)
       /\ \A q : q # p => ToldDeaths(f, q)' = ToldDeaths(m, q)
  <2>1. \A q : q # p => ToldDeaths(f, q)' = ToldDeaths(m, q)
    BY <1>13, <1>15 DEF ToldDeaths
  <2>2. \A d : d \in ToldDeaths(f, p)' <=> (\E i \in StepsOf(p) : f[i] = d) \/ \E x \in 1 .. n : f[l + x] = d
    BY <1>15 DEF ToldDeaths
  <2>3. \A d : (\E i \in StepsOf(p) : f[i] = d) <=> d \in ToldDeaths(m, p)
    BY <1>13, <1>15 DEF ToldDeaths
  <2>4. \A d : (\E x \in 1 .. n : f[l + x] = d) <=> d \in U
    <3>1. \A x \in 1 .. n : f[l + x] = b[x] /\ b[x] \in U
      BY <1>6, <1>13
    <3> QED
      BY <1>6, <3>1
  <2>5. ToldDeaths(m, p) \subseteq Assisted(p)
    BY <1>2, ToldFacts
  <2> QED
    BY <1>3, <2>1, <2>2, <2>3, <2>4, <2>5
<1>17. AssistTyped'
  <2>1. last_assists' \in [Players -> Nat]
    BY <1>1 DEF AssistTyped
  <2>2. done' \in -1 .. Len(steps') /\ (done' = -1)
    BY <1>1, <1>10, <1>4, <1>20
  <2> QED
    BY <1>1, <1>10, <2>1, <2>2 DEF AssistTyped
<1>18. DeathsAreFair'
  BY <1>1, <1>14 DEF DeathsAreFair
<1>19. StepsTell(f)'
  <2>1. ASSUME NEW i \in 1 .. l + n
        PROVE  /\ steps'[i].player \in assisted[f[i]]
               /\ deaths[f[i]].t <= steps'[i].t /\ steps'[i].t <= deaths[f[i]].t + lag
    <3>1. CASE i \in 1 .. l
      BY <1>2, <1>10, <1>13, <1>20, <3>1 DEF StepsTell
    <3>2. ASSUME NEW x \in 1 .. n, i = l + x
          PROVE  /\ steps'[i].player \in assisted[f[i]]
                 /\ deaths[f[i]].t <= steps'[i].t /\ steps'[i].t <= deaths[f[i]].t + lag
      <4>1. f[i] = b[x] /\ b[x] \in U /\ steps'[i] = [t |-> now, player |-> p]
        BY <1>6, <1>10, <1>13, <3>2
      <4>2. b[x] \in Assisted(p) /\ now <= deaths[b[x]].t + lag
        BY <1>2, <1>3, <4>1 DEF StepsTell
      <4>3. p \in assisted[b[x]] /\ deaths[b[x]].t <= now
        BY <4>2 DEF Assisted, DeathsAreFair
      <4> QED
        BY <4>1, <4>2, <4>3
    <3> QED
      BY <1>11, <3>1, <3>2
  <2>2. ASSUME NEW q \in Players
        PROVE  /\ \A i, j \in StepsOf(q)' : f[i] = f[j] => i = j
               /\ last_assists'[q] = Cardinality(ToldDeaths(f, q)')
               /\ \A d \in Assisted(q) \ ToldDeaths(f, q)' :
                    now <= deaths[d].t + lag /\ \A e \in ToldDeaths(f, q)' : e < d
    <3>1. /\ \A i, j \in StepsOf(q) : m[i] = m[j] => i = j
          /\ last_assists[q] = Cardinality(ToldDeaths(m, q))
          /\ \A d \in Assisted(q) \ ToldDeaths(m, q) :
               now <= deaths[d].t + lag /\ \A e \in ToldDeaths(m, q) : e < d
      BY <1>2 DEF StepsTell
    <3>2. \A i, j \in StepsOf(q) : f[i] = f[j] => i = j
      BY <1>13, <1>15, <3>1
    <3>3. CASE q # p
      <4>1. StepsOf(q)' = StepsOf(q) /\ ToldDeaths(f, q)' = ToldDeaths(m, q)
        BY <1>15, <1>16, <3>3
      <4>2. last_assists'[q] = last_assists[q]
        BY <1>1, <3>3 DEF AssistTyped
      <4> QED
        BY <3>1, <3>2, <4>1, <4>2
    <3>4. CASE q = p
      <4>1. ToldDeaths(f, q)' = Assisted(q)
        BY <1>16, <3>4
      <4>2. last_assists'[q] = Cardinality(Assisted(q))
        BY <1>1, <3>4 DEF AssistTyped, DeathsAreFair
      <4>3. \A i \in StepsOf(p) : f[i] \in ToldDeaths(m, p)
        BY <1>13, <1>15 DEF ToldDeaths
      <4>4. \A x \in 1 .. n : f[l + x] = b[x] /\ f[l + x] \notin ToldDeaths(m, p)
        BY <1>3, <1>6, <1>13
      <4>5. ASSUME NEW i \in StepsOf(p)', NEW j \in StepsOf(p)', f[i] = f[j] PROVE i = j
        <5>1. i \in StepsOf(p) \/ \E x \in 1 .. n : i = l + x
          BY <1>15
        <5>2. j \in StepsOf(p) \/ \E x \in 1 .. n : j = l + x
          BY <1>15
        <5>3. CASE i \in StepsOf(p) /\ j \in StepsOf(p)
          BY <3>2, <3>4, <4>5, <5>3
        <5>4. ASSUME NEW x \in 1 .. n, NEW y \in 1 .. n, i = l + x, j = l + y PROVE i = j
          <6>1. f[l + x] = b[x] /\ f[l + y] = b[y]
            BY <4>4
          <6>2. b[x] = b[y]
            BY <4>5, <5>4, <6>1
          <6> QED
            BY <1>6, <5>4, <6>2
        <5> QED
          BY <4>3, <4>4, <4>5, <5>1, <5>2, <5>3, <5>4
      <4> QED
        BY <3>4, <4>1, <4>2, <4>5
    <3> QED
      BY <3>3, <3>4
  <2> QED
    BY <1>1, <1>10, <1>13, <1>14, <2>1, <2>2 DEF StepsTell
<1>21. StepsAreOfDeaths'
  BY <1>1, <1>2, <1>10, <1>13, <1>19 DEF StepsAreOfDeaths, NotYet
<1> QED
  BY <1>17, <1>18, <1>21

LEMMA AppendOne ==
  ASSUME NEW T, NEW s \in Seq(T), NEW x \in T
  PROVE  /\ \A y : Contains(Append(s, x), y) <=> Contains(s, y) \/ y = x
         /\ IsInjective(s) /\ ~ Contains(s, x) => IsInjective(Append(s, x))
<1> PICK a : a = Append(s, x)
  OBVIOUS
<1>1. /\ Len(s) \in Nat /\ DOMAIN s = 1 .. Len(s) /\ Len(a) = Len(s) + 1 /\ DOMAIN a = 1 .. Len(s) + 1
      /\ a[Len(s) + 1] = x /\ \A i \in 1 .. Len(s) : a[i] = s[i]
  OBVIOUS
<1>2. \A i : i \in 1 .. Len(s) + 1 <=> i \in 1 .. Len(s) \/ i = Len(s) + 1
  BY <1>1
<1>3. \A y : Contains(a, y) <=> Contains(s, y) \/ y = x
  BY <1>1, <1>2 DEF Contains
<1>4. IsInjective(s) /\ ~ Contains(s, x) => IsInjective(a)
  BY <1>1, <1>2 DEF Contains, IsInjective
<1> QED
  BY <1>3, <1>4

\* The nearest candidate is one, if there is any.
LEMMA BestIsNearest ==
  ASSUME AssistTyped, NEW i \in 1 .. Len(steps), NEW s, s = steps[i], Candidates(s) # {}
  PROVE  /\ Best(s) \in Candidates(s)
         /\ \A e \in Candidates(s) : Delay(Best(s), s) <= Delay(e, s)
<1>1. \A d \in Candidates(s) : d \in 1 .. Len(deaths) /\ d \in Nat /\ Delay(d, s) \in Nat
  <2>1. ASSUME NEW d \in 1 .. Len(deaths) PROVE Delay(d, s) \in Nat
    <3>1. deaths[d].t \in Nat /\ s.t \in Nat
      BY AssistTypes
    <3> QED
      BY <3>1 DEF Delay, Apart
  <2> QED
    BY <2>1, AssistTypes DEF Candidates
<1>2. PICK n \in {Delay(d, s) : d \in Candidates(s)} : \A e \in Candidates(s) : n <= Delay(e, s)
  <2>1. {Delay(d, s) : d \in Candidates(s)} \in SUBSET Nat /\ {Delay(d, s) : d \in Candidates(s)} # {}
    BY <1>1
  <2>2. PICK n \in {Delay(d, s) : d \in Candidates(s)} : \A x \in {Delay(d, s) : d \in Candidates(s)} : n <= x
    BY <2>1, LeastExists
  <2> QED
    BY <2>2
<1>3. PICK b \in {d \in Candidates(s) : Delay(d, s) = n} : \A e \in Candidates(s) : Delay(e, s) = n => b <= e
  <2>1. {d \in Candidates(s) : Delay(d, s) = n} \in SUBSET Nat /\ {d \in Candidates(s) : Delay(d, s) = n} # {}
    BY <1>1, <1>2
  <2>2. PICK b \in {d \in Candidates(s) : Delay(d, s) = n} : \A e \in {d \in Candidates(s) : Delay(d, s) = n} : b <= e
    BY <2>1, LeastExists
  <2> QED
    BY <2>2
<1>4. \A e \in Candidates(s) : Delay(b, s) < Delay(e, s) \/ (Delay(b, s) = Delay(e, s) /\ b <= e)
  BY <1>1, <1>2, <1>3
<1>5. /\ Best(s) \in Candidates(s)
      /\ \A e \in Candidates(s) :
           Delay(Best(s), s) < Delay(e, s) \/ (Delay(Best(s), s) = Delay(e, s) /\ Best(s) <= e)
  BY <1>3, <1>4 DEF Best
<1> QED
  BY <1>1, <1>5

\* Without lag, a step that is not yet credited finds a death of its time free: as
\* many steps are of that time as deaths, and those before it took only such deaths.
LEMMA OneIsFree ==
  ASSUME AssistTyped, DeathsAreFair, NEW m, StepsTell(m), NEW c, Crediting(c), FindsItsDeath(m, c),
         lag = 0, done >= 0, NEW i \in 1 .. Len(steps), i = done + 1, NEW p \in Players, steps[i].player = p
  PROVE  \E e \in Assisted(p) : deaths[e].t = steps[i].t /\ ~ Contains(credited[e], p)
<1> SUFFICES ASSUME \A e \in Assisted(p) : deaths[e].t = steps[i].t => Contains(credited[e], p)
             PROVE  FALSE
  OBVIOUS
<1>1. PICK S : S = {j \in StepsOf(p) : steps[j].t = steps[i].t}
  OBVIOUS
<1>2. /\ S \subseteq StepsOf(p) /\ StepsOf(p) \subseteq 1 .. Len(steps) /\ i \in S
      /\ IsFiniteSet(StepsOf(p)) /\ IsFiniteSet(S)
  <2>1. IsFiniteSet(StepsOf(p)) /\ StepsOf(p) \subseteq 1 .. Len(steps)
    BY StepSets
  <2>2. i \in StepsOf(p)
    BY DEF StepsOf
  <2>3. S \in SUBSET StepsOf(p)
    BY <1>1
  <2> QED
    BY <1>1, <2>1, <2>2, <2>3, FS_Subset
<1>3. PICK A : A = {m[j] : j \in S}
  OBVIOUS
<1>4. Cardinality(A) = Cardinality(S) /\ Cardinality(S) \in Nat /\ IsFiniteSet(A)
  <2>1. \A j, k \in S : m[j] = m[k] => j = k
    BY <1>2 DEF StepsTell
  <2> QED
    BY <1>2, <1>3, <2>1, ImageFacts
<1>5. ASSUME NEW e \in A PROVE Contains(credited[e], p) /\ e \in 1 .. Len(deaths) /\ deaths[e].t = steps[i].t
  <2>1. PICK j \in S : e = m[j]
    BY <1>3, <1>5
  <2>2. j \in 1 .. Len(steps) /\ j \in StepsOf(p) /\ steps[j].t = steps[i].t
    BY <1>1, <1>2
  <2>3. /\ e \in 1 .. Len(deaths) /\ steps[j].player \in assisted[e]
        /\ deaths[e].t <= steps[j].t /\ steps[j].t <= deaths[e].t + lag
    BY <2>1, <2>2 DEF StepsTell
  <2>4. deaths[e].t = steps[j].t
    BY <2>2, <2>3, AssistTypes
  <2>5. e \in Assisted(p)
    BY <2>2, <2>3 DEF Assisted, StepsOf
  <2> QED
    BY <2>2, <2>3, <2>4, <2>5
<1>6. PICK C : C = {c[j] : j \in S \ {i}}
  OBVIOUS
<1>7. IsFiniteSet(C) /\ Cardinality(C) <= Cardinality(S) - 1 /\ Cardinality(C) \in Nat
  <2>1. IsFiniteSet(S \ {i}) /\ Cardinality(S \ {i}) = Cardinality(S) - 1
    BY <1>2, FS_RemoveElement
  <2>2. PICK D : D = S \ {i}
    OBVIOUS
  <2>3. IsFiniteSet(C) /\ Cardinality(C) <= Cardinality(D) /\ Cardinality(C) \in Nat
    BY <1>6, <2>1, <2>2, ImageFacts
  <2> QED
    BY <2>1, <2>2, <2>3
<1>8. A \in SUBSET C
  <2>1. SUFFICES ASSUME NEW e \in A PROVE e \in C
    OBVIOUS
  <2>2. PICK j \in StepsOf(p) : j <= done /\ c[j] = e
    BY <1>5 DEF Crediting
  <2>3. j \in 1 .. Len(steps) /\ j \in 1 .. done /\ j # i
    BY <1>2, <2>2 DEF AssistTyped
  <2>4. deaths[e].t = steps[j].t
    BY <2>2, <2>3 DEF FindsItsDeath
  <2>5. j \in S \ {i}
    BY <1>1, <1>5, <2>3, <2>4
  <2> QED
    BY <1>6, <2>2, <2>5
<1>9. Cardinality(A) <= Cardinality(C)
  BY <1>7, <1>8, FS_Subset
<1> QED
  BY <1>4, <1>7, <1>9

LEMMA AssignKeeps == AssistInv /\ Assign => AssistInv'
<1> SUFFICES ASSUME AssistInv, Assign PROVE AssistInv'
  OBVIOUS
<1> USE DEF AssistInv
<1>20. PICK i : i = done + 1
  OBVIOUS
<1>21. PICK s : s = steps[i]
  OBVIOUS
<1>22. PICK v : v = IF Candidates(s) = {} THEN 0 ELSE Best(s)
  OBVIOUS
<1>23. PICK p : p = s.player
  OBVIOUS
<1>24. PICK n \in Nat : n = Len(deaths) /\ n = Len(credited)
  BY DEF AssistTyped
<1>1. /\ done >= 0 /\ done \in Nat /\ done < Len(steps) /\ done' = i /\ i \in 1 .. Len(steps) /\ i \in Nat
      /\ now' = now /\ lag' = lag /\ assisted' = assisted /\ counter' = counter /\ deaths' = deaths
      /\ steps' = steps /\ last_assists' = last_assists /\ Len(steps) \in Nat
  BY <1>20 DEF Assign, AssistTyped
<1>2. p \in Players /\ s.player = p /\ s.t \in Nat
  BY <1>1, <1>21, <1>23, AssistTypes
<1>3. v # 0 => /\ v \in 1 .. n /\ v \in Candidates(s) /\ Delay(v, s) <= WINDOW /\ ~ Contains(credited[v], p)
               /\ \A e \in Candidates(s) : Delay(v, s) <= Delay(e, s)
  <2>1. ASSUME v # 0 PROVE v \in Candidates(s) /\ \A e \in Candidates(s) : Delay(v, s) <= Delay(e, s)
    BY <1>1, <1>21, <1>22, <2>1, BestIsNearest
  <2> QED
    BY <1>2, <1>24, <2>1 DEF Candidates
<1>4. v = 0 => Candidates(s) = {}
  <2>1. ASSUME Candidates(s) # {} PROVE v \in 1 .. n
    <3>1. Best(s) \in Candidates(s)
      BY <1>1, <1>21, <2>1, BestIsNearest
    <3> QED
      BY <1>22, <1>24, <2>1, <3>1 DEF Candidates
  <2> QED
    BY <1>24, <2>1
<1>5. credited' = IF v = 0 THEN credited ELSE [credited EXCEPT ![v] = Append(credited[v], p)]
  <2>1. v = 0 <=> Candidates(s) = {}
    BY <1>4, <1>22
  <2>2. credited' = IF Candidates(s) = {} THEN credited ELSE [credited EXCEPT ![Best(s)] = Append(@, s.player)]
    BY <1>20, <1>21 DEF Assign
  <2> QED
    BY <1>22, <1>23, <2>1, <2>2
<1>6. credited \in Seq(Seq(Players)) /\ \A d \in 1 .. n : credited[d] \in Seq(Players)
  BY <1>24 DEF AssistTyped
<1>7. /\ credited' \in Seq(Seq(Players)) /\ Len(credited') = n
      /\ \A d \in 1 .. n : credited'[d] = IF d = v THEN Append(credited[d], p) ELSE credited[d]
  <2>1. CASE v = 0
    BY <1>5, <1>6, <1>24, <2>1
  <2>2. CASE v # 0
    <3>1. Append(credited[v], p) \in Seq(Players)
      BY <1>2, <1>3, <1>6, <2>2
    <3>2. PICK l : l = Append(credited[v], p)
      OBVIOUS
    <3>3. [credited EXCEPT ![v] = l] \in Seq(Seq(Players)) /\ Len([credited EXCEPT ![v] = l]) = n
      BY <1>3, <1>6, <1>24, <2>2, <3>1, <3>2
    <3> QED
      BY <1>3, <1>5, <1>6, <1>24, <2>2, <3>2, <3>3
  <2> QED
    BY <2>1, <2>2
<1>8. \A d \in 1 .. n : /\ \A q : Contains(credited'[d], q) <=> Contains(credited[d], q) \/ (d = v /\ q = p)
                        /\ IsInjective(credited[d]) => IsInjective(credited'[d])
  <2> SUFFICES ASSUME NEW d \in 1 .. n
               PROVE  /\ \A q : Contains(credited'[d], q) <=> Contains(credited[d], q) \/ (d = v /\ q = p)
                      /\ IsInjective(credited[d]) => IsInjective(credited'[d])
    OBVIOUS
  <2>1. CASE d # v
    BY <1>7, <2>1
  <2>2. CASE d = v
    <3>1. PICK l : l = credited[d]
      OBVIOUS
    <3>2. l \in Seq(Players) /\ credited'[d] = Append(l, p) /\ ~ Contains(l, p)
      <4>1. d # 0
        BY <1>24
      <4>2. ~ Contains(credited[v], p)
        BY <1>3, <2>2, <4>1
      <4>3. credited'[d] = Append(credited[d], p)
        BY <1>7, <2>2
      <4> QED
        BY <1>6, <2>2, <3>1, <4>2, <4>3
    <3> QED
      BY <1>2, <2>2, <3>1, <3>2, AppendOne
  <2> QED
    BY <2>1, <2>2
<1>9. \A q : Assisted(q)' = Assisted(q) /\ StepsOf(q)' = StepsOf(q)
  BY <1>1 DEF Assisted, StepsOf
<1>10. AssistTyped'
  <2>1. done' \in -1 .. Len(steps)
    BY <1>1
  <2>2. last_assists = counter
    BY <1>1 DEF AssistTyped
  <2> QED
    BY <1>1, <1>7, <1>24, <2>1, <2>2 DEF AssistTyped
<1>11. DeathsAreFair'
  BY <1>1, <1>9 DEF DeathsAreFair
<1>12. PICK m \in [1 .. Len(steps) -> 1 .. Len(deaths)], c \in [1 .. Len(steps) -> 0 .. Len(deaths)] :
         StepsTell(m) /\ Crediting(c) /\ FindsItsDeath(m, c)
  BY <1>1 DEF StepsAreOfDeaths
<1>13. StepsTell(m)'
  BY <1>1, <1>9, <1>12 DEF StepsTell, ToldDeaths
<1>14. PICK e : e = [c EXCEPT ![i] = v]
  OBVIOUS
<1>15. /\ e \in [1 .. Len(steps) -> 0 .. Len(deaths)] /\ e[i] = v
       /\ \A j \in 1 .. done : j \in 1 .. Len(steps) /\ j # i /\ e[j] = c[j]
       /\ \A j : j \in 1 .. i <=> j \in 1 .. done \/ j = i
  <2>1. v \in 0 .. Len(deaths)
    BY <1>3, <1>24
  <2> QED
    BY <1>1, <1>12, <1>14, <1>20, <2>1
<1>16. \A q : \A j \in StepsOf(q) : /\ j <= done <=> j \in 1 .. done
                                    /\ j <= i <=> j \in 1 .. done \/ j = i
  BY <1>1, <1>20 DEF StepsOf
<1>17. \A q : i \in StepsOf(q) <=> q = p
  BY <1>1, <1>21, <1>23 DEF StepsOf
<1>18. Crediting(e)'
  <2>1. ASSUME NEW d \in 1 .. n, NEW q \in Players
        PROVE  Contains(credited'[d], q) <=> \E j \in StepsOf(q) : j <= i /\ e[j] = d
    <3>1. Contains(credited[d], q) <=> \E j \in StepsOf(q) : j <= done /\ c[j] = d
      BY <1>12, <1>24 DEF Crediting
    <3>2. (\E j \in StepsOf(q) : j <= i /\ e[j] = d) <=>
            (\E j \in StepsOf(q) : j <= done /\ c[j] = d) \/ (q = p /\ v = d)
      BY <1>15, <1>16, <1>17
    <3> QED
      BY <1>8, <3>1, <3>2
  <2>2. ASSUME NEW q \in Players, NEW j \in StepsOf(q), NEW k \in StepsOf(q),
               j <= i, k <= i, e[j] # 0, e[j] = e[k]
        PROVE  j = k
    <3>1. CASE j \in 1 .. done /\ k \in 1 .. done
      BY <1>12, <1>15, <1>16, <2>2, <3>1 DEF Crediting
    <3>2. ASSUME NEW x \in StepsOf(q), x \in 1 .. done, e[x] = v, q = p, v # 0 PROVE FALSE
      <4>1. x <= done /\ c[x] = v /\ v \in 1 .. n /\ ~ Contains(credited[v], p)
        BY <1>3, <1>15, <1>16, <3>2
      <4> QED
        BY <1>2, <1>12, <1>24, <3>2, <4>1 DEF Crediting
    <3>3. (j \in 1 .. done \/ j = i) /\ (k \in 1 .. done \/ k = i)
      BY <1>16, <2>2
    <3> QED
      BY <1>15, <1>17, <2>2, <3>1, <3>2, <3>3
  <2>3. ASSUME NEW j \in 1 .. i, e[j] # 0 PROVE Delay(e[j], steps[j]) <= WINDOW
    <3>1. CASE j = i
      BY <1>3, <1>15, <1>21, <2>3, <3>1
    <3>2. CASE j \in 1 .. done
      BY <1>12, <1>15, <2>3, <3>2 DEF Crediting
    <3> QED
      BY <1>15, <3>1, <3>2
  <2>4. \A d \in 1 .. n : IsInjective(credited'[d])
    BY <1>8, <1>12, <1>24 DEF Crediting
  <2>5. \A d, x : Delay(d, x)' = Delay(d, x)
    BY <1>1 DEF Delay
  <2> QED
    BY <1>1, <1>9, <1>15, <1>24, <2>1, <2>2, <2>3, <2>4, <2>5 DEF Crediting, Delay
<1>19. FindsItsDeath(m, e)'
  <2>1. ASSUME NEW j \in 1 .. done
        PROVE  /\ \/ Contains(credited'[m[j]], steps[j].player)
                  \/ \E x \in 1 .. n : x # m[j] /\ Delay(x, steps[j]) <= WINDOW
               /\ lag = 0 => e[j] # 0 /\ deaths[e[j]].t = steps[j].t
    <3>1. m[j] \in 1 .. n /\ e[j] = c[j]
      BY <1>12, <1>15, <1>24
    <3>2. /\ \/ Contains(credited[m[j]], steps[j].player)
             \/ \E x \in 1 .. n : x # m[j] /\ Delay(x, steps[j]) <= WINDOW
          /\ lag = 0 => c[j] # 0 /\ deaths[c[j]].t = steps[j].t
      BY <1>12, <1>24 DEF FindsItsDeath
    <3> QED
      BY <1>8, <3>1, <3>2
  <2>2. ASSUME NEW d \in 1 .. n, p \in assisted[d], Delay(d, s) <= WINDOW, ~ Contains(credited[d], p)
        PROVE  d \in Candidates(s) /\ v # 0
    <3>1. p # deaths[d].killer /\ deaths[d].victim \in Enemies(p)
      BY <1>24, <2>2 DEF DeathsAreFair
    <3>2. d \in Candidates(s)
      BY <1>2, <1>24, <2>2, <3>1 DEF Candidates
    <3> QED
      BY <1>4, <3>2
  <2>3. /\ m[i] \in 1 .. n /\ p \in assisted[m[i]] /\ Delay(m[i], s) <= WINDOW
    <3>1. /\ m[i] \in 1 .. n /\ p \in assisted[m[i]]
          /\ deaths[m[i]].t <= s.t /\ s.t <= deaths[m[i]].t + lag
      BY <1>1, <1>12, <1>21, <1>23, <1>24 DEF StepsTell
    <3>2. deaths[m[i]].t \in Nat /\ lag \in Nat /\ lag <= WINDOW /\ WINDOW \in Nat
      BY <1>24, <3>1, AssistTypes
    <3> QED
      BY <1>2, <3>1, <3>2 DEF Delay, Apart
  <2>4. \/ Contains(credited'[m[i]], p)
        \/ \E x \in 1 .. n : x # m[i] /\ Delay(x, s) <= WINDOW
    <3>1. CASE Contains(credited[m[i]], p)
      BY <1>8, <2>3, <3>1
    <3>2. CASE ~ Contains(credited[m[i]], p)
      BY <1>3, <1>8, <2>2, <2>3, <3>2
    <3> QED
      BY <3>1, <3>2
  <2>5. ASSUME lag = 0 PROVE v # 0 /\ deaths[v].t = s.t
    <3>1. PICK x \in Assisted(p) : deaths[x].t = s.t /\ ~ Contains(credited[x], p)
      BY <1>1, <1>2, <1>12, <1>20, <1>21, <2>5, OneIsFree
    <3>2. x \in 1 .. n /\ p \in assisted[x]
      BY <1>24, <3>1 DEF Assisted
    <3>3. Delay(x, s) = 0
      BY <1>2, <3>1 DEF Delay, Apart
    <3>4. WINDOW \in Nat
      BY AssistAssumption
    <3>5. x \in Candidates(s) /\ v # 0
      BY <2>2, <3>1, <3>2, <3>3, <3>4
    <3>6. v \in 1 .. n /\ Delay(v, s) <= 0
      BY <1>3, <3>3, <3>5
    <3>7. deaths[v].t \in Nat
      BY <1>24, <3>6, AssistTypes
    <3> QED
      BY <1>2, <3>5, <3>6, <3>7 DEF Delay, Apart
  <2>6. ASSUME NEW j \in 1 .. i
        PROVE  /\ \/ Contains(credited'[m[j]], steps[j].player)
                  \/ \E x \in 1 .. n : x # m[j] /\ Delay(x, steps[j]) <= WINDOW
               /\ lag = 0 => e[j] # 0 /\ deaths[e[j]].t = steps[j].t
    <3>1. CASE j = i
      BY <1>15, <1>21, <1>23, <2>4, <2>5, <3>1
    <3> QED
      BY <1>15, <2>1, <3>1
  <2> QED
    BY <1>1, <1>24, <2>6 DEF FindsItsDeath, Delay
<1>25. StepsAreOfDeaths'
  <2>1. done' # -1
    BY <1>1
  <2> QED
    BY <1>1, <1>12, <1>13, <1>15, <1>18, <1>19, <2>1 DEF StepsAreOfDeaths
<1> QED
  BY <1>10, <1>11, <1>25

LEMMA AssistStep == AssistInv /\ [AssistNext]_assistVars => AssistInv'
<1> SUFFICES ASSUME AssistInv, [AssistNext]_assistVars PROVE AssistInv'
  OBVIOUS
<1>1. ASSUME NEW v \in Players, NEW k \in Enemies(v) \cup {NoOne},
             NEW helpers \in SUBSET (Enemies(v) \ {k}), Death(v, k, helpers)
      PROVE  AssistInv'
  BY <1>1, DiesKeeps
<1>2. ASSUME NEW p \in Players, Kda(p) PROVE AssistInv'
  BY <1>2, KdaKeeps
<1>3. CASE AssistTick
  BY <1>3, AssistTickKeeps
<1>4. CASE Collected
  BY <1>4, CollectedKeeps
<1>5. CASE Assign
  BY <1>5, AssignKeeps
<1>6. CASE UNCHANGED assistVars
  <2>1. /\ now' = now /\ lag' = lag /\ assisted' = assisted /\ counter' = counter /\ deaths' = deaths
        /\ steps' = steps /\ last_assists' = last_assists /\ credited' = credited /\ done' = done
    BY <1>6 DEF assistVars
  <2>2. \A p : Assisted(p)' = Assisted(p) /\ StepsOf(p)' = StepsOf(p)
    BY <2>1 DEF Assisted, StepsOf
  <2>3. AssistTyped' /\ DeathsAreFair'
    BY <2>1, <2>2 DEF AssistInv, AssistTyped, DeathsAreFair
  <2>4. NotYet' <=> NotYet
    BY <2>1 DEF NotYet
  <2>5. \A m : StepsTell(m)' <=> StepsTell(m)
    BY <2>1, <2>2 DEF StepsTell, ToldDeaths
  <2>6. \A c : Crediting(c)' <=> Crediting(c)
    BY <2>1, <2>2 DEF Crediting, Delay
  <2>7. \A m, c : FindsItsDeath(m, c)' <=> FindsItsDeath(m, c)
    BY <2>1 DEF FindsItsDeath, Delay
  <2>8. StepsAreOfDeaths'
    <3>1. StepsAreOfDeaths
      BY DEF AssistInv
    <3> QED
      BY <2>1, <2>4, <2>5, <2>6, <2>7, <3>1 DEF StepsAreOfDeaths
  <2> QED
    BY <2>3, <2>8 DEF AssistInv
<1> QED
  BY <1>1, <1>2, <1>3, <1>4, <1>5, <1>6 DEF AssistNext

\* The deaths credited to a champion are those its steps went to, each to one.
LEMMA CreditsAreSteps ==
  ASSUME AssistTyped, NEW c, Crediting(c), done >= 0, NEW p \in Players
  PROVE  LET I == {i \in StepsOf(p) : i <= done /\ c[i] # 0} IN
         IsFiniteSet(I) /\ Cardinality(I) <= Cardinality(StepsOf(p)) /\ Credits(p) = Cardinality(I)
<1>1. PICK I : I = {i \in StepsOf(p) : i <= done /\ c[i] # 0}
  OBVIOUS
<1>2. IsFiniteSet(StepsOf(p)) /\ I \in SUBSET StepsOf(p) /\ StepsOf(p) \subseteq 1 .. Len(steps)
  BY <1>1, StepSets
<1>3. IsFiniteSet(I) /\ Cardinality(I) <= Cardinality(StepsOf(p))
  BY <1>2, FS_Subset
<1>4. \A i, j \in I : c[i] = c[j] => i = j
  BY <1>1 DEF Crediting
<1>5. \A i \in I : c[i] \in 1 .. Len(deaths)
  <2>1. \A i \in I : c[i] \in 0 .. Len(deaths) /\ c[i] # 0
    BY <1>1, <1>2 DEF Crediting
  <2> QED
    BY <2>1, AssistTypes
<1>6. {d \in 1 .. Len(deaths) : Contains(credited[d], p)} = {c[i] : i \in I}
  <2>1. \A d \in 1 .. Len(deaths) : Contains(credited[d], p) <=> \E i \in StepsOf(p) : i <= done /\ c[i] = d
    BY DEF Crediting
  <2>2. \A d \in 1 .. Len(deaths) : d # 0
    BY AssistTypes
  <2> QED
    BY <1>1, <1>5, <2>1, <2>2
<1>7. Credits(p) = Cardinality(I)
  BY <1>3, <1>4, <1>6, ImageFacts DEF Credits
<1> QED
  BY <1>1, <1>3, <1>7

LEMMA NearBoth ==
  ASSUME NEW x \in Nat, NEW y \in Nat, NEW s \in Nat, NEW l \in Nat, NEW w \in Nat,
         y <= s, s <= y + l, Apart(x, s) <= w
  PROVE  Apart(x, y) <= w + l /\ Apart(y, x) <= w + l
BY DEF Apart

\* A death that lies within the window of a step lies near the death the step tells of.
LEMMA LoneIsMeant ==
  ASSUME AssistTyped, NEW m, StepsTell(m), NEW i \in 1 .. Len(steps),
         NEW d \in 1 .. Len(deaths), NEW e \in 1 .. Len(deaths), Lone(d),
         \/ e = m[i] /\ Delay(d, steps[i]) <= WINDOW
         \/ d = m[i] /\ Delay(e, steps[i]) <= WINDOW
  PROVE  e = d
<1>1. /\ deaths[d].t \in Nat /\ deaths[e].t \in Nat /\ steps[i].t \in Nat
      /\ lag \in Nat /\ lag <= WINDOW /\ WINDOW \in Nat
  BY AssistTypes
<1>2. deaths[m[i]].t <= steps[i].t /\ steps[i].t <= deaths[m[i]].t + lag
  BY DEF StepsTell
<1>3. Apart(deaths[d].t, deaths[e].t) <= WINDOW + lag
  <2>1. CASE e = m[i] /\ Delay(d, steps[i]) <= WINDOW
    BY <1>1, <1>2, <2>1, NearBoth DEF Delay
  <2>2. CASE d = m[i] /\ Delay(e, steps[i]) <= WINDOW
    BY <1>1, <1>2, <2>2, NearBoth DEF Delay
  <2> QED
    BY <2>1, <2>2
<1>4. Apart(deaths[d].t, deaths[e].t) \in Nat
  BY <1>1 DEF Apart
<1> QED
  BY <1>1, <1>3, <1>4 DEF Lone

LEMMA AssistInvMeans == AssistInv => CreditsAreDue
<1> SUFFICES ASSUME AssistInv PROVE CreditsAreDue
  OBVIOUS
<1> USE DEF AssistInv
<1>1. PICK m \in [1 .. Len(steps) -> 1 .. Len(deaths)] :
        /\ StepsTell(m)
        /\ IF done = -1 THEN NotYet
           ELSE \E c \in [1 .. Len(steps) -> 0 .. Len(deaths)] : Crediting(c) /\ FindsItsDeath(m, c)
  BY DEF StepsAreOfDeaths
<1>2. ASSUME done # -1
      PROVE  /\ done >= 0
             /\ \E c \in [1 .. Len(steps) -> 0 .. Len(deaths)] : Crediting(c) /\ FindsItsDeath(m, c)
             /\ \A p \in Players : /\ counter[p] = Cardinality(StepsOf(p))
                                   /\ ToldDeaths(m, p) = Assisted(p)
  <2>1. done >= 0
    BY <1>2 DEF AssistTyped
  <2>2. ASSUME NEW p \in Players
        PROVE  counter[p] = Cardinality(StepsOf(p)) /\ ToldDeaths(m, p) = Assisted(p)
    <3>1. last_assists[p] = counter[p] /\ counter[p] = Cardinality(Assisted(p))
      BY <1>2 DEF AssistTyped, DeathsAreFair
    <3>2. /\ ToldDeaths(m, p) \in SUBSET Assisted(p) /\ Cardinality(ToldDeaths(m, p)) = Cardinality(StepsOf(p))
          /\ last_assists[p] = Cardinality(StepsOf(p))
      BY <1>1, ToldFacts
    <3>3. IsFiniteSet(Assisted(p))
      BY StepSets
    <3> QED
      BY <3>1, <3>2, <3>3, FS_Subset
  <2> QED
    BY <1>1, <1>2, <2>1, <2>2
<1>3. \A d \in 1 .. Len(deaths) : IsInjective(credited[d])
  <2>1. CASE done = -1
    <3>1. \A d \in 1 .. Len(deaths) : credited[d] = <<>>
      BY <1>1, <2>1 DEF NotYet
    <3> QED
      BY <3>1 DEF IsInjective
  <2>2. CASE done # -1
    BY <1>2, <2>2 DEF Crediting
  <2> QED
    BY <2>1, <2>2
<1>4. ASSUME NEW p \in Players PROVE Credits(p) <= counter[p]
  <2>1. CASE done = -1
    <3>1. \A d \in 1 .. Len(deaths) : ~ Contains(credited[d], p)
      BY <1>1, <2>1 DEF NotYet, Contains
    <3>2. Credits(p) = 0
      <4>1. {d \in 1 .. Len(deaths) : Contains(credited[d], p)} = {}
        BY <3>1
      <4> QED
        BY <4>1, FS_EmptySet DEF Credits
    <3> QED
      BY <3>2 DEF AssistTyped
  <2>2. CASE done # -1
    BY <1>2, <2>2, CreditsAreSteps
  <2> QED
    BY <2>1, <2>2
<1>5. ASSUME Assigned, NEW d \in 1 .. Len(deaths), Lone(d) PROVE ToSet(credited[d]) = assisted[d]
  <2>1. done = Len(steps) /\ done # -1
    BY <1>5, AssistTypes DEF Assigned
  <2>2. PICK c \in [1 .. Len(steps) -> 0 .. Len(deaths)] : Crediting(c) /\ FindsItsDeath(m, c)
    BY <1>2, <2>1
  <2>3. credited[d] \in Seq(Players) /\ assisted[d] \in SUBSET Players
    BY DEF AssistTyped
  <2>4. \A p : p \in ToSet(credited[d]) <=> Contains(credited[d], p)
    BY <2>3 DEF ToSet, Contains
  <2>5. ASSUME NEW p \in Players, Contains(credited[d], p) PROVE p \in assisted[d]
    <3>1. PICK i \in StepsOf(p) : i <= done /\ c[i] = d
      BY <2>2, <2>5 DEF Crediting
    <3>2. i \in 1 .. Len(steps) /\ i \in 1 .. done /\ steps[i].player = p /\ d # 0
      BY <2>1, <3>1, AssistTypes DEF StepsOf
    <3>3. Delay(d, steps[i]) <= WINDOW
      BY <2>2, <3>1, <3>2 DEF Crediting
    <3>4. m[i] = d
      BY <1>1, <1>5, <3>2, <3>3, LoneIsMeant
    <3> QED
      BY <1>1, <3>2, <3>4 DEF StepsTell
  <2>6. ASSUME NEW p \in assisted[d] PROVE Contains(credited[d], p)
    <3>1. p \in Players /\ d \in Assisted(p)
      BY <2>3 DEF Assisted
    <3>2. PICK i \in StepsOf(p) : m[i] = d
      BY <1>2, <2>1, <3>1 DEF ToldDeaths
    <3>3. i \in 1 .. Len(steps) /\ i \in 1 .. done /\ steps[i].player = p
      BY <2>1, <3>2 DEF StepsOf
    <3>4. \A e \in 1 .. Len(deaths) : Delay(e, steps[i]) <= WINDOW => e = d
      BY <1>1, <1>5, <3>2, <3>3, LoneIsMeant
    <3> QED
      BY <2>2, <3>2, <3>3, <3>4 DEF FindsItsDeath
  <2>7. \A p : Contains(credited[d], p) => p \in Players
    BY <2>3 DEF Contains
  <2> QED
    BY <2>3, <2>4, <2>5, <2>6, <2>7
<1>6. ASSUME lag = 0, Assigned, NEW p \in Players PROVE Credits(p) = counter[p]
  <2>1. done = Len(steps) /\ done # -1
    BY <1>6, AssistTypes DEF Assigned
  <2>2. PICK c \in [1 .. Len(steps) -> 0 .. Len(deaths)] : Crediting(c) /\ FindsItsDeath(m, c)
    BY <1>2, <2>1
  <2>3. \A i \in StepsOf(p) : i <= done /\ c[i] # 0
    <3>1. \A i \in StepsOf(p) : i \in 1 .. done
      BY <2>1 DEF StepsOf
    <3> QED
      BY <1>6, <2>1, <2>2, <3>1, AssistTypes DEF FindsItsDeath
  <2>4. {i \in StepsOf(p) : i <= done /\ c[i] # 0} = StepsOf(p)
    BY <2>3
  <2>5. Credits(p) = Cardinality({i \in StepsOf(p) : i <= done /\ c[i] # 0})
    BY <1>2, <2>1, <2>2, CreditsAreSteps
  <2> QED
    BY <1>2, <2>1, <2>4, <2>5
<1> QED
  BY <1>3, <1>4, <1>5, <1>6 DEF CreditsAreDue, TotalsExact

\* Whoever dies, whoever assists and however late a counter comes, no champion is
\* credited more than it assisted, a lone death has its helpers, and without lag every
\* champion has every assist.
THEOREM AssistsAreCredited == AssistSpec => []CreditsAreDue
<1>1. AssistSpec => []AssistInv
  BY AssistStarts, AssistStep, PTL DEF AssistSpec
<1> QED
  BY <1>1, AssistInvMeans, PTL

-----------------------------------------------------------------------------
(* Positions                                                               *)

LEMMA MinOfOne == ASSUME NEW x \in Int PROVE Min({x}) = x
BY DEF Min

\* Where one stands after so many places of a way of two segments.
LEMMA AlongThree ==
  ASSUME NEW a \in Int, NEW b \in Int, NEW c \in Int, NEW d \in Nat
  PROVE  Along(<<a, b, c>>, d) =
           IF d <= Apart(a, b) THEN Toward(a, b, d)
           ELSE IF d - Apart(a, b) <= Apart(b, c) THEN Toward(b, c, d - Apart(a, b)) ELSE c
<1> DEFINE P == <<a, b, c>>
           Left(f) == f = [i \in 1 .. 3 |-> IF i = 1 THEN d ELSE f[i - 1] - Apart(P[i - 1], P[i])]
           f == CHOOSE f : Left(f)
           g == [i \in 1 .. 3 |-> IF i = 1 THEN d ELSE IF i = 2 THEN d - Apart(a, b)
                                  ELSE d - Apart(a, b) - Apart(b, c)]
           reaching == {i \in 1 .. 2 : f[i] <= Apart(P[i], P[i + 1])}
<1>1. Len(P) = 3 /\ P[1] = a /\ P[2] = b /\ P[3] = c
  OBVIOUS
<1>2. Left(g)
  <2>1. ASSUME NEW i \in 1 .. 3
        PROVE  g[i] = IF i = 1 THEN d ELSE g[i - 1] - Apart(P[i - 1], P[i])
    <3>1. CASE i = 1
      BY <3>1
    <3>2. CASE i = 2
      BY <3>2, <1>1
    <3>3. CASE i = 3
      BY <3>3, <1>1
    <3> QED
      BY <3>1, <3>2, <3>3
  <2> QED
    BY <2>1
<1>3. Left(f)
  BY <1>2, Zenon
<1>4. f[1] = d /\ f[2] = d - Apart(a, b)
  <2> HIDE DEF f
  <2>1. f[1] = d
    BY <1>3
  <2>2. f[2] = f[1] - Apart(P[1], P[2])
    BY <1>3
  <2> QED
    BY <2>1, <2>2, <1>1
<1>5. Along(P, d) = IF reaching = {} THEN P[3]
                    ELSE Toward(P[Min(reaching)], P[Min(reaching) + 1], f[Min(reaching)])
  <2>1. Along(P, d) =
      LET n == Len(P)
          h == CHOOSE h : h = [i \in 1 .. n |-> IF i = 1 THEN d ELSE h[i - 1] - Apart(P[i - 1], P[i])]
          reach == {i \in 1 .. n - 1 : h[i] <= Apart(P[i], P[i + 1])}
      IN  IF reach = {} THEN P[n] ELSE Toward(P[Min(reach)], P[Min(reach) + 1], h[Min(reach)])
    BY DEF Along
  <2> QED
    BY <2>1, <1>1
<1> HIDE DEF f
<1>6. /\ 1 \in reaching <=> d <= Apart(a, b)
      /\ 2 \in reaching <=> d - Apart(a, b) <= Apart(b, c)
      /\ reaching \subseteq {1, 2}
  BY <1>1, <1>4
<1> HIDE DEF reaching, P
<1>7. CASE d <= Apart(a, b)
  <2>1. 1 \in reaching /\ \A y \in reaching : 1 <= y /\ (y <= 1 => y = 1)
    BY <1>6, <1>7
  <2>2. Min(reaching) = 1
    BY <2>1, <1>6 DEF Min
  <2> QED
    BY <2>1, <2>2, <1>5, <1>6, <1>7, <1>1, <1>4 DEF P
<1>8. CASE ~ (d <= Apart(a, b)) /\ d - Apart(a, b) <= Apart(b, c)
  <2>1. reaching = {2}
    BY <1>6, <1>8
  <2>2. Min(reaching) = 2
    BY <2>1, MinOfOne
  <2> QED
    BY <2>1, <2>2, <1>5, <1>8, <1>1, <1>4 DEF P
<1>9. CASE ~ (d <= Apart(a, b)) /\ ~ (d - Apart(a, b) <= Apart(b, c))
  <2>1. reaching = {}
    BY <1>6, <1>9
  <2> QED
    BY <2>1, <1>5, <1>9, <1>1 DEF P
<1> QED
  BY <1>7, <1>8, <1>9

\* A division that leaves a remainder is the only one.
LEMMA QuotientIs ==
  ASSUME NEW k \in Nat \ {0}, NEW n \in Nat, NEW r \in 0 .. k - 1
  PROVE  (k * n + r) \div k = n /\ (k * n + r) % k = r
<1> DEFINE x == k * n + r
           q == x \div k
           s == x % k
<1>1. k * n \in Nat /\ x \in Nat /\ r \in Nat
  OBVIOUS
<1> HIDE DEF x
<1>2. q \in Int /\ s \in 0 .. k - 1 /\ x = k * q + s
  BY <1>1
<1>3. x = k * n + r
  BY DEF x
<1> HIDE DEF q, s
<1>4. k * q \in Int
  BY <1>2
<1>5. ~ n < q
  <2> SUFFICES ASSUME n + 1 <= q PROVE FALSE
    BY <1>2
  <2>1. k * (n + 1) <= k * q /\ k * (n + 1) = k * n + k
    BY <1>2
  <2> QED
    BY <1>1, <1>2, <1>3, <1>4, <2>1
<1>6. ~ q < n
  <2> SUFFICES ASSUME q + 1 <= n PROVE FALSE
    BY <1>2
  <2>1. k * (q + 1) <= k * n /\ k * (q + 1) = k * q + k
    BY <1>2
  <2> QED
    BY <1>1, <1>2, <1>3, <1>4, <2>1
<1>7. q = n
  BY <1>2, <1>5, <1>6
<1>8. s = r
  BY <1>1, <1>2, <1>3, <1>7
<1> QED
  BY <1>7, <1>8 DEF x, q, s

\* The seconds that have passed, a moment later.
LEMMA Seconds ==
  ASSUME NEW n \in Nat, NEW p \in Nat \ {0}
  PROVE  /\ n \div p \in Nat
         /\ (n + 1) % p = 0 => /\ (n + 1) \div p = (n \div p) + 1
                               /\ ((n + 1) \div p) * p = n + 1
         /\ (n + 1) % p # 0 => (n + 1) \div p = n \div p
<1> DEFINE q == n \div p
           r == n % p
<1>1. q \in Int /\ r \in 0 .. p - 1 /\ n = p * q + r
  OBVIOUS
<1> HIDE DEF q, r
<1>2. q \in Nat
  <2> SUFFICES ASSUME q + 1 <= 0 PROVE FALSE
    BY <1>1
  <2>1. p * (q + 1) <= 0 /\ p * (q + 1) = p * q + p
    BY <1>1
  <2> QED
    BY <1>1, <2>1
<1>3. CASE r = p - 1
  <2>1. n + 1 = p * (q + 1) + 0 /\ p * (q + 1) = (q + 1) * p /\ 0 \in 0 .. p - 1 /\ q + 1 \in Nat
    BY <1>1, <1>2, <1>3
  <2>2. (p * (q + 1) + 0) \div p = q + 1 /\ (p * (q + 1) + 0) % p = 0
    BY <2>1, QuotientIs
  <2> QED
    BY <2>1, <2>2, <1>2 DEF q
<1>4. CASE r # p - 1
  <2>1. n + 1 = p * q + (r + 1) /\ r + 1 \in 0 .. p - 1 /\ r + 1 # 0
    BY <1>1, <1>2, <1>4
  <2>2. (p * q + (r + 1)) \div p = q /\ (p * q + (r + 1)) % p = r + 1
    BY <2>1, <1>2, QuotientIs
  <2> QED
    BY <2>1, <2>2, <1>2 DEF q
<1> QED
  BY <1>3, <1>4

-----------------------------------------------------------------------------
\* What is ahead at a place is where one stands along the points after as many places.
Leads(at, ahead, points) ==
  /\ ahead \in Seq(Int) /\ Along(points, 0) = at
  /\ \A d \in 1 .. Len(ahead) : ahead[d] = Along(points, d)
  /\ \A d \in Nat : d >= Len(ahead) => Along(points, d) = Along(points, Len(ahead))

\* The way from a by b to c leads along these three.
LEMMA WayIsAlong ==
  ASSUME NEW a \in Int, NEW b \in Int, NEW c \in Int
  PROVE  Leads(a, Way(a, b) \o Way(b, c), <<a, b, c>>)
<1> DEFINE u == Way(a, b)
           v == Way(b, c)
           w == u \o v
           m == Apart(a, b)
           n == Apart(b, c)
<1>1. m \in Nat /\ n \in Nat
  BY DEF Apart
<1>2. /\ u \in Seq(Int) /\ Len(u) = m /\ \A d \in 1 .. m : u[d] = Toward(a, b, d)
      /\ v \in Seq(Int) /\ Len(v) = n /\ \A d \in 1 .. n : v[d] = Toward(b, c, d)
  BY <1>1 DEF Way, Toward
<1> HIDE DEF u, v, m, n
<1>3. /\ w \in Seq(Int) /\ Len(w) = m + n
      /\ \A d \in 1 .. m : w[d] = Toward(a, b, d)
      /\ \A d \in m + 1 .. m + n : w[d] = Toward(b, c, d - m)
  <2>1. w \in Seq(Int) /\ Len(w) = m + n
    BY <1>1, <1>2
  <2>2. \A d \in 1 .. m + n : w[d] = IF d <= m THEN u[d] ELSE v[d - m]
    BY <1>1, <1>2
  <2> HIDE DEF w
  <2>3. /\ \A d \in 1 .. m : d \in 1 .. m + n /\ d <= m
        /\ \A d \in m + 1 .. m + n : d \in 1 .. m + n /\ ~ (d <= m) /\ d - m \in 1 .. n
    BY <1>1
  <2> QED
    BY <1>2, <2>1, <2>2, <2>3
<1> HIDE DEF w
<1>4. \A d \in Nat : Along(<<a, b, c>>, d) =
        IF d <= m THEN Toward(a, b, d) ELSE IF d - m <= n THEN Toward(b, c, d - m) ELSE c
  BY AlongThree DEF m, n
<1>5. Toward(a, b, 0) = a /\ Toward(a, b, m) = b /\ Toward(b, c, n) = c
  BY DEF Toward, Apart, m, n
<1>6. Along(<<a, b, c>>, 0) = a
  BY <1>1, <1>4, <1>5
<1>7. \A d \in 1 .. Len(w) : w[d] = Along(<<a, b, c>>, d)
  BY <1>1, <1>3, <1>4
<1>8. \A d \in Nat : d >= m + n => Along(<<a, b, c>>, d) = c
  <2> SUFFICES ASSUME NEW d \in Nat, d >= m + n PROVE Along(<<a, b, c>>, d) = c
    OBVIOUS
  <2>1. CASE d <= m
    <3>1. n = 0 /\ d = m
      BY <1>1, <2>1
    <3>2. b = c
      BY <3>1 DEF n, Apart
    <3> QED
      BY <3>1, <3>2, <1>4, <1>5, <2>1
  <2>2. CASE ~ (d <= m) /\ d - m <= n
    BY <2>2, <1>1, <1>4, <1>5
  <2>3. CASE ~ (d <= m) /\ ~ (d - m <= n)
    BY <2>3, <1>4
  <2> QED
    BY <2>1, <2>2, <2>3
<1>9. \A d \in Nat : d >= Len(w) => Along(<<a, b, c>>, d) = Along(<<a, b, c>>, Len(w))
  BY <1>1, <1>3, <1>8
<1> QED
  BY <1>3, <1>6, <1>7, <1>9 DEF w, u, v, Leads

\* What is seen of a champion, and the champion.
Sight == {NoMotion} \cup [at : Int, alive : BOOLEAN]
Walker == [at : Int, ahead : Seq(Int), speed : Nat, alive : BOOLEAN]

PositionTyped ==
  /\ now \in Nat /\ next_tick \in Nat \ {0}
  /\ sampled \in Seq(Sight)
  /\ players_state \in Seq([timestamp : Nat, shown : Sight])
  /\ sampling \in {"running", "done"}

\* Where the champion stands, and what is ahead of it, are places of a path announced.
OnPath(u, m, t, since, points) ==
  LET k == (t - since) * u.speed
      ahead == Len(u.ahead) IN
  /\ m = Path(since, points, u.speed)
  /\ u.at = Along(points, k)
  /\ \A d \in 1 .. ahead : u.ahead[d] = Along(points, k + d)
  /\ \A d \in Nat : d >= ahead => Along(points, k + d) = Along(points, k + ahead)

\* The champion has not been heard of, stands still, or is on the path last announced.
Walks(u, m, t) ==
  \/ u = NoMotion /\ m = NoMotion
  \/ u \in Walker /\ u.ahead = <<>> /\ m = Still(u.at, u.alive)
  \/ /\ u \in Walker /\ u.alive /\ u.speed # 0
     /\ \E since \in 0 .. t, points \in Seq(Int) : OnPath(u, m, t, since, points)

\* The seconds sampled are the first ones, each as it was; those that are still to
\* be sampled are where the path puts them.
SampledSoFar ==
  /\ Len(sampled) = now \div PerSecond
  /\ Len(players_state) = next_tick - 1 /\ next_tick <= Len(sampled) + 1
  /\ \A i \in 1 .. Len(players_state) :
       players_state[i] = [timestamp |-> i, shown |-> sampled[i]]
  /\ \A i \in next_tick .. Len(sampled) : StateAt(i).shown = sampled[i]
  /\ sampling = "done" => now = GameLength /\ next_tick = Len(sampled) + 1

PositionInv == PositionTyped /\ Walks(unit, motion, now) /\ SampledSoFar

LEMMA PositionInitInv == PositionInit => PositionInv
<1> SUFFICES ASSUME PositionInit PROVE PositionInv
  OBVIOUS
<1>1. 0 \div PerSecond = 0
  BY PositionAssumption
<1>2. PositionTyped
  BY DEF PositionInit, PositionTyped
<1>3. SampledSoFar
  BY <1>1 DEF PositionInit, SampledSoFar
<1> QED
  BY <1>2, <1>3 DEF PositionInit, PositionInv, Walks

\* The lesser of two numbers.
LEMMA MinOfTwo ==
  ASSUME NEW x \in Int, NEW y \in Int
  PROVE  Min({x, y}) = IF x <= y THEN x ELSE y
<1> DEFINE l == IF x <= y THEN x ELSE y
<1>1. l \in {x, y} /\ \A z \in {x, y} : l <= z
  OBVIOUS
<1>2. \A k \in {x, y} : (\A z \in {x, y} : k <= z) => k = l
  OBVIOUS
<1> QED
  BY <1>1, <1>2 DEF Min

\* No champion is the one not seen.
LEMMA WalkerIsSeen == NoMotion \notin Walker /\ NoMotion \notin [at : Int, alive : BOOLEAN]
<1>1. "kind" \in DOMAIN NoMotion
  BY DEF NoMotion
<1>2. \A u \in Walker : "kind" \notin DOMAIN u
  BY DEF Walker
<1>3. \A u \in [at : Int, alive : BOOLEAN] : "kind" \notin DOMAIN u
  OBVIOUS
<1> QED
  BY <1>1, <1>2, <1>3

\* What is left of a list without its first ones.
LEMMA RestOfList ==
  ASSUME NEW S, NEW q \in Seq(S), NEW n \in 0 .. Len(q)
  PROVE  LET r == SubSeq(q, n + 1, Len(q)) IN
         /\ r \in Seq(S) /\ Len(r) = Len(q) - n
         /\ \A d \in 1 .. Len(q) - n : r[d] = q[n + d]
<1>1. n + 1 \in Nat /\ Len(q) \in Nat /\ Len(q) - n \in Nat /\ Len(q) - (n + 1) + 1 = Len(q) - n
  OBVIOUS
<1> PICK m : m = n + 1
  OBVIOUS
<1> PICK l : l = Len(q)
  OBVIOUS
<1> PICK r : r = SubSeq(q, m, l)
  OBVIOUS
<1>2. m \in Int /\ l \in Int /\ \A i \in m .. l : q[i] \in S
  BY <1>1
<1>3. /\ r \in Seq(S) /\ Len(r) = IF m <= l THEN l - m + 1 ELSE 0
      /\ \A i \in 1 .. l - m + 1 : r[i] = q[m + i - 1]
  BY <1>2, SubSeqProperties
<1>4. \A d \in 1 .. l - n : d \in 1 .. l - m + 1 /\ m + d - 1 = n + d
  BY <1>1
<1> QED
  BY <1>1, <1>3, <1>4

\* A champion a moment later.
LEMMA StepsOn ==
  ASSUME NEW m, NEW t \in Nat, Walks(unit, m, t)
  PROVE  Walks(Stepped, m, t + 1)
<1>1. CASE unit = NoMotion \/ unit.ahead = <<>>
  <2>1. Stepped = unit
    BY <1>1 DEF Stepped
  <2>2. CASE ~ (unit = NoMotion /\ m = NoMotion) /\ ~ (unit \in Walker /\ unit.ahead = <<>> /\ m = Still(unit.at, unit.alive))
    <3>1. unit \in Walker /\ unit.alive /\ unit.speed # 0
      BY <2>2 DEF Walks
    <3>2. PICK since \in 0 .. t, points \in Seq(Int) : OnPath(unit, m, t, since, points)
      BY <2>2 DEF Walks
    <3> DEFINE s == unit.speed
               k == (t - since) * s
               k2 == (t + 1 - since) * s
    <3>3. unit.ahead = <<>> /\ Len(unit.ahead) = 0
      BY <3>1, <1>1, WalkerIsSeen
    <3>4. s \in Nat /\ k \in Nat /\ k2 = k + s
      BY <3>1 DEF Walker
    <3>5. /\ m = Path(since, points, s) /\ unit.at = Along(points, k)
          /\ \A d \in Nat : Along(points, k + d) = Along(points, k + 0)
      BY <3>2, <3>3 DEF OnPath
    <3> HIDE DEF k, k2, s
    <3>6. Along(points, k2) = unit.at /\ \A d \in Nat : Along(points, k2 + d) = Along(points, k2 + 0)
      <4>1. ASSUME NEW d \in Nat PROVE Along(points, k2 + d) = Along(points, k + 0)
        <5>1. s + d \in Nat /\ k2 + d = k + (s + d)
          BY <3>4
        <5> QED
          BY <5>1, <3>5
      <4>2. k2 + 0 = k2 /\ k + 0 = k /\ 0 \in Nat
        BY <3>4
      <4> QED
        BY <4>1, <4>2, <3>5
    <3>7. since \in 0 .. t + 1 /\ points \in Seq(Int)
      OBVIOUS
    <3>8. OnPath(unit, m, t + 1, since, points)
      BY <3>3, <3>5, <3>6 DEF k2, s, OnPath
    <3> QED
      BY <2>1, <3>1, <3>7, <3>8 DEF Walks
  <2> QED
    BY <2>1, <2>2 DEF Walks
<1>2. CASE unit # NoMotion /\ unit.ahead # <<>>
  <2>1. unit \in Walker /\ unit.alive /\ unit.speed # 0
    BY <1>2 DEF Walks
  <2>2. PICK since \in 0 .. t, points \in Seq(Int) : OnPath(unit, m, t, since, points)
    BY <1>2 DEF Walks
  <2> DEFINE s == unit.speed
             w == unit.ahead
             k == (t - since) * s
             k2 == (t + 1 - since) * s
             n == Min({s, Len(w)})
             w2 == SubSeq(w, n + 1, Len(w))
             v == [unit EXCEPT !.at = w[n], !.ahead = SubSeq(@, n + 1, Len(@))]
  <2>3. Stepped = v
    BY <1>2 DEF Stepped
  <2>4. /\ s \in Nat \ {0} /\ w \in Seq(Int) /\ w # <<>> /\ k \in Nat /\ k2 = k + s
        /\ n = (IF s <= Len(w) THEN s ELSE Len(w))
    <3>1. s \in Nat \ {0} /\ w \in Seq(Int) /\ w # <<>> /\ Len(w) \in Nat
      BY <1>2, <2>1 DEF Walker
    <3> HIDE DEF s, w
    <3>2. n = (IF s <= Len(w) THEN s ELSE Len(w))
      <4>1. s \in Int /\ Len(w) \in Int
        BY <3>1
      <4>2. Min({s, Len(w)}) = (IF s <= Len(w) THEN s ELSE Len(w))
        BY <4>1, MinOfTwo
      <4> QED
        BY <4>2
    <3> HIDE DEF n
    <3>3. t - since \in Nat /\ t + 1 - since = (t - since) + 1
      OBVIOUS
    <3>4. ((t - since) + 1) * s = (t - since) * s + s /\ (t - since) * s \in Nat
      BY <3>1, <3>3
    <3> QED
      BY <3>1, <3>2, <3>3, <3>4
  <2>5. /\ m = Path(since, points, s) /\ unit.at = Along(points, k)
        /\ \A d \in 1 .. Len(w) : w[d] = Along(points, k + d)
        /\ \A d \in Nat : d >= Len(w) => Along(points, k + d) = Along(points, k + Len(w))
    BY <2>2 DEF OnPath
  <2>6. /\ v \in Walker /\ v.at = w[n] /\ v.ahead = w2 /\ v.speed = s /\ v.alive
    <3> HIDE DEF s, w, n
    <3>1. n \in 1 .. Len(w) /\ w[n] \in Int /\ w2 \in Seq(Int)
      BY <2>4
    <3> HIDE DEF w2
    <3> QED
      BY <2>1, <3>1 DEF Walker, s, w, w2
  <2> HIDE DEF s, w, k, k2, n, v
  <2>7. /\ n \in 1 .. Len(w) /\ Len(w2) = Len(w) - n /\ \A d \in 1 .. Len(w2) : w2[d] = w[n + d]
    <3>1. n \in 1 .. Len(w) /\ Len(w) \in Nat
      BY <2>4
    <3>2. Len(w2) = Len(w) - n /\ \A d \in 1 .. Len(w) - n : w2[d] = w[n + d]
      <4>1. w \in Seq(Int) /\ n \in 0 .. Len(w)
        BY <2>4, <3>1
      <4> QED
        BY <4>1, RestOfList DEF w2
    <3> QED
      BY <3>1, <3>2
  <2> HIDE DEF w2
  <2>8. \A d \in Nat : Along(points, k2 + d) = IF n + d <= Len(w) THEN w[n + d] ELSE w[Len(w)]
    <3> SUFFICES ASSUME NEW d \in Nat
                 PROVE  Along(points, k2 + d) = IF n + d <= Len(w) THEN w[n + d] ELSE w[Len(w)]
      OBVIOUS
    <3>1. Len(w) \in Nat /\ Len(w) \in 1 .. Len(w)
      BY <2>4
    <3>2. s + d \in Nat /\ k2 + d = k + (s + d)
      BY <2>4
    <3>3. CASE s + d <= Len(w)
      <4>1. n = s /\ s + d \in 1 .. Len(w)
        BY <2>4, <3>3, <3>1
      <4> QED
        BY <4>1, <3>2, <3>3, <2>5
    <3>4. CASE ~ (s + d <= Len(w))
      <4>1. s + d >= Len(w) /\ (n + d <= Len(w) => n + d = Len(w))
        BY <2>4, <3>4, <3>1
      <4> QED
        BY <4>1, <3>1, <3>2, <2>5
    <3> QED
      BY <3>3, <3>4
  <2>9. OnPath(v, m, t + 1, since, points)
    <3>1. v.at = Along(points, k2)
      <4>1. k2 + 0 = k2 /\ n + 0 = n /\ n <= Len(w) /\ 0 \in Nat
        BY <2>4, <2>7
      <4> QED
        BY <4>1, <2>8, <2>6
    <3>2. \A d \in 1 .. Len(w2) : w2[d] = Along(points, k2 + d)
      BY <2>4, <2>7, <2>8
    <3>3. \A d \in Nat : d >= Len(w2) => Along(points, k2 + d) = Along(points, k2 + Len(w2))
      <4>1. Len(w2) \in Nat /\ n + Len(w2) = Len(w)
        BY <2>4, <2>7
      <4>2. \A d \in Nat : d >= Len(w2) => n + d >= Len(w) /\ (n + d <= Len(w) => n + d = Len(w))
        BY <2>4, <2>7
      <4> QED
        BY <4>1, <4>2, <2>8
    <3> QED
      BY <2>5, <2>6, <3>1, <3>2, <3>3 DEF k2, OnPath
  <2>10. since \in 0 .. t + 1
    OBVIOUS
  <2> QED
    BY <2>3, <2>4, <2>6, <2>9, <2>10 DEF Walks
<1> QED
  BY <1>1, <1>2
\* The motion shows what is seen of the champion.
LEMMA MotionShows ==
  ASSUME NEW u, NEW m, NEW t \in Nat, Walks(u, m, t)
  PROVE  /\ (IF m = NoMotion THEN NoMotion ELSE At(m, t)) = Seen(u)
         /\ Seen(u) \in Sight
<1>1. CASE u = NoMotion /\ m = NoMotion
  BY <1>1 DEF Seen, Sight
<1>2. CASE u \in Walker /\ u.ahead = <<>> /\ m = Still(u.at, u.alive)
  <2>1. m.kind = "still" /\ NoMotion.kind = "none" /\ m.at = u.at /\ m.alive = u.alive
    BY <1>2 DEF Still, NoMotion
  <2>2. u.at \in Int /\ u.alive \in BOOLEAN /\ u # NoMotion
    BY <1>2, WalkerIsSeen DEF Walker
  <2> QED
    BY <2>1, <2>2 DEF At, Seen, Sight
<1>3. ASSUME u \in Walker, u.alive, u.speed # 0,
             NEW since \in 0 .. t, NEW points \in Seq(Int), OnPath(u, m, t, since, points)
      PROVE  /\ (IF m = NoMotion THEN NoMotion ELSE At(m, t)) = Seen(u)
             /\ Seen(u) \in Sight
  <2>1. /\ m.kind = "path" /\ NoMotion.kind = "none" /\ m.since = since /\ m.points = points
        /\ m.speed = u.speed /\ u.at = Along(points, (t - since) * u.speed)
    BY <1>3 DEF OnPath, Path, NoMotion
  <2>2. u.at \in Int /\ u.alive = TRUE /\ u # NoMotion
    BY <1>3, WalkerIsSeen DEF Walker
  <2>3. (IF t > since THEN t - since ELSE 0) = t - since
    OBVIOUS
  <2> QED
    BY <2>1, <2>2, <2>3 DEF At, Seen, Sight
<1> QED
  BY <1>1, <1>2, <1>3 DEF Walks

\* The loop over the seconds that have passed brings the samples up to now.
LEMMA CatchesUp ==
  ASSUME PositionTyped, SampledSoFar, sampling = "running", NEW limit, limit \div PerSecond = Len(sampled),
         Sampled(limit)
  PROVE  /\ next_tick' = Len(sampled) + 1
         /\ players_state' \in Seq([timestamp : Nat, shown : Sight])
         /\ Len(players_state') = Len(sampled)
         /\ \A i \in 1 .. Len(players_state') :
              players_state'[i] = [timestamp |-> i, shown |-> sampled[i]]
<1> DEFINE latest == Len(sampled)
           from == next_tick
           n == latest - from + 1
           new == [i \in 1 .. n |-> StateAt(from + i - 1)]
<1>1. /\ latest \in Nat /\ from \in Nat \ {0} /\ from <= latest + 1 /\ n \in Nat
      /\ sampled \in Seq(Sight) /\ players_state \in Seq([timestamp : Nat, shown : Sight])
      /\ Len(players_state) = from - 1
  BY DEF PositionTyped, SampledSoFar
<1>2. (IF latest >= from THEN latest - from + 1 ELSE 0) = n
  BY <1>1
<1>3. players_state' = players_state \o new /\ next_tick' = from + n
  <2>1. /\ players_state' = players_state \o [i \in 1 .. (IF latest >= from THEN latest - from + 1 ELSE 0) |->
                                               StateAt(from + i - 1)]
        /\ next_tick' = from + (IF latest >= from THEN latest - from + 1 ELSE 0)
    BY DEF Sampled
  <2> QED
    BY <2>1, <1>2
<1>4. \A i \in 1 .. n : new[i] = [timestamp |-> from + i - 1, shown |-> sampled[from + i - 1]]
  <2> SUFFICES ASSUME NEW i \in 1 .. n
               PROVE  StateAt(from + i - 1) = [timestamp |-> from + i - 1, shown |-> sampled[from + i - 1]]
    OBVIOUS
  <2>1. from + i - 1 \in from .. latest
    BY <1>1
  <2>2. StateAt(from + i - 1).shown = sampled[from + i - 1]
    BY <2>1 DEF SampledSoFar
  <2> QED
    BY <2>2 DEF StateAt
<1> HIDE DEF new
<1>5. new \in Seq([timestamp : Nat, shown : Sight]) /\ Len(new) = n
  <2>1. \A i \in 1 .. n : new[i] \in [timestamp : Nat, shown : Sight]
    <3> SUFFICES ASSUME NEW i \in 1 .. n PROVE new[i] \in [timestamp : Nat, shown : Sight]
      OBVIOUS
    <3>1. from + i - 1 \in Nat /\ from + i - 1 \in 1 .. latest
      BY <1>1
    <3>2. sampled[from + i - 1] \in Sight
      BY <3>1, <1>1
    <3> DEFINE y == sampled[from + i - 1]
               x == from + i - 1
    <3> HIDE DEF x, y
    <3>3. [timestamp |-> x, shown |-> y] \in [timestamp : Nat, shown : Sight]
      BY <3>1, <3>2 DEF x, y
    <3>4. new[i] = [timestamp |-> x, shown |-> y]
      BY <1>4 DEF x, y
    <3> QED
      BY <3>3, <3>4
  <2>2. new = [i \in 1 .. n |-> StateAt(from + i - 1)]
    BY DEF new
  <2> QED
    BY <1>1, <2>1, <2>2
<1>6. /\ players_state' \in Seq([timestamp : Nat, shown : Sight])
      /\ Len(players_state') = latest
      /\ \A i \in 1 .. latest : players_state'[i] = IF i <= from - 1 THEN players_state[i] ELSE new[i - (from - 1)]
  BY <1>1, <1>3, <1>5
<1>7. ASSUME NEW i \in 1 .. latest
      PROVE  players_state'[i] = [timestamp |-> i, shown |-> sampled[i]]
  <2>1. CASE i <= from - 1
    <3>1. i \in 1 .. Len(players_state)
      BY <1>1, <2>1
    <3> QED
      BY <3>1, <2>1, <1>6 DEF SampledSoFar
  <2>2. CASE ~ (i <= from - 1)
    <3>1. i - (from - 1) \in 1 .. n /\ from + (i - (from - 1)) - 1 = i
      BY <1>1, <2>2
    <3> QED
      BY <3>1, <2>2, <1>4, <1>6
  <2> QED
    BY <2>1, <2>2
<1> QED
  BY <1>1, <1>3, <1>6, <1>7

\* A packet that leaves a motion the champion agrees with.
LEMMA MoveKeeps ==
  ASSUME PositionInv, NEW m, MotionPacket(m), Walks(unit', m, now)
  PROVE  PositionInv'
<1>1. /\ PositionTyped /\ SampledSoFar /\ sampling = "running" /\ sampling' = sampling
      /\ sampled' = sampled /\ now' = now /\ motion' = m /\ Sampled(now)
      /\ now \div PerSecond = Len(sampled) /\ now \in Nat /\ sampled \in Seq(Sight)
  BY DEF PositionInv, MotionPacket, SampledSoFar, PositionTyped
<1>2. /\ next_tick' = Len(sampled) + 1
      /\ players_state' \in Seq([timestamp : Nat, shown : Sight])
      /\ Len(players_state') = Len(sampled)
      /\ \A i \in 1 .. Len(players_state') :
           players_state'[i] = [timestamp |-> i, shown |-> sampled[i]]
  BY <1>1, CatchesUp
<1>3. Len(sampled) \in Nat
  BY <1>1
<1>4. PositionTyped'
  BY <1>1, <1>2, <1>3 DEF PositionTyped
<1>5. \A i \in next_tick' .. Len(sampled') : FALSE
  BY <1>1, <1>2, <1>3
<1>6. SampledSoFar'
  BY <1>1, <1>2, <1>3, <1>5 DEF SampledSoFar
<1> QED
  BY <1>1, <1>4, <1>6 DEF PositionInv

\* A path announced from where the champion stands.
LEMMA WaypointsInv ==
  ASSUME PositionInv, NEW via \in Places, NEW to \in Places, NEW s \in Speeds, Waypoints(via, to, s)
  PROVE  PositionInv'
<1>1. /\ unit # NoMotion /\ unit.alive /\ MotionPacket(Path(now, <<unit.at, via, to>>, s))
      /\ unit' = [unit EXCEPT !.ahead = Way(unit.at, via) \o Way(via, to), !.speed = s]
      /\ via \in Int /\ to \in Int /\ s \in Nat \ {0} /\ now \in Nat
  BY PositionAssumption DEF Waypoints, Moved, PositionInv, PositionTyped
<1>2. unit \in Walker
  BY <1>1 DEF PositionInv, Walks
<1> DEFINE P == <<unit.at, via, to>>
           w == Way(unit.at, via) \o Way(via, to)
<1>3. unit.at \in Int /\ P \in Seq(Int)
  BY <1>1, <1>2 DEF Walker
<1>4. /\ w \in Seq(Int) /\ Along(P, 0) = unit.at
      /\ \A d \in 1 .. Len(w) : w[d] = Along(P, d)
      /\ \A d \in Nat : d >= Len(w) => Along(P, d) = Along(P, Len(w))
  <2> PICK a : a = unit.at
    OBVIOUS
  <2>1. a \in Int /\ via \in Int /\ to \in Int
    BY <1>1, <1>3
  <2>2. Leads(a, Way(a, via) \o Way(via, to), <<a, via, to>>)
    BY <2>1, WayIsAlong
  <2>3. Leads(unit.at, w, P)
    BY <2>2
  <2> HIDE DEF w, P
  <2> QED
    BY <2>3 DEF Leads
<1> HIDE DEF P, w
<1>5. unit' \in Walker /\ unit'.at = unit.at /\ unit'.ahead = w /\ unit'.speed = s /\ unit'.alive
  BY <1>1, <1>2, <1>4 DEF Walker, w
<1>6. (now - now) * s = 0 /\ now \in 0 .. now /\ Len(w) \in Nat
  BY <1>1, <1>4
<1>7. /\ unit'.at = Along(P, 0)
      /\ \A d \in 1 .. Len(w) : 0 + d = d
      /\ \A d \in Nat : 0 + d = d
  BY <1>4, <1>5
<1>8. OnPath(unit', Path(now, P, s), now, now, P)
  BY <1>4, <1>5, <1>6, <1>7 DEF OnPath
<1>9. Walks(unit', Path(now, P, s), now)
  BY <1>1, <1>3, <1>5, <1>6, <1>8 DEF Walks, P
<1> QED
  BY <1>1, <1>9, MoveKeeps DEF P

\* A champion that dies where it stands.
LEMMA HeroDieInv == ASSUME PositionInv, HeroDie PROVE PositionInv'
<1>1. /\ unit # NoMotion /\ unit.alive /\ MotionPacket(Still(unit.at, FALSE))
      /\ unit' = [unit EXCEPT !.ahead = <<>>, !.alive = FALSE]
  BY DEF HeroDie
<1>2. unit \in Walker
  BY <1>1 DEF PositionInv, Walks
<1>3. unit' \in Walker /\ unit'.ahead = <<>> /\ unit'.at = unit.at /\ unit'.alive = FALSE
  <2>1. <<>> \in Seq(Int) /\ FALSE \in BOOLEAN
    OBVIOUS
  <2> QED
    BY <1>1, <1>2, <2>1 DEF Walker
<1> QED
  BY <1>1, <1>3, MoveKeeps DEF Walks

\* A champion put down.
LEMMA HeroReincarnateInv ==
  ASSUME PositionInv, NEW x \in Places, HeroReincarnate(x)
  PROVE  PositionInv'
<1>1. /\ MotionPacket(Still(x, TRUE)) /\ x \in Int
      /\ unit' = [at |-> x, ahead |-> <<>>, speed |-> 0, alive |-> TRUE]
  BY PositionAssumption DEF HeroReincarnate
<1>2. unit' \in Walker /\ unit'.ahead = <<>> /\ unit'.at = x /\ unit'.alive = TRUE
  BY <1>1 DEF Walker
<1> QED
  BY <1>1, <1>2, MoveKeeps DEF Walks

LEMMA OtherPacketInv == ASSUME PositionInv, OtherPacket PROVE PositionInv'
<1>1. MotionPacket(motion) /\ unit' = unit /\ Walks(unit, motion, now)
  BY DEF OtherPacket, PositionInv
<1> QED
  BY <1>1, MoveKeeps

\* A moment of the game.
LEMMA PositionTickInv == ASSUME PositionInv, PositionTick PROVE PositionInv'
<1>1. /\ sampling = "running" /\ sampling' = sampling /\ now' = now + 1 /\ unit' = Stepped
      /\ sampled' = IF (now + 1) % PerSecond = 0 THEN Append(sampled, Seen(Stepped)) ELSE sampled
      /\ motion' = motion /\ next_tick' = next_tick /\ players_state' = players_state
  BY DEF PositionTick, sampler
<1>2. PositionTyped /\ SampledSoFar /\ Walks(unit, motion, now)
  BY DEF PositionInv
<1>3. now \in Nat /\ sampled \in Seq(Sight) /\ PerSecond \in Nat \ {0} /\ next_tick \in Nat \ {0}
  BY <1>2, PositionAssumption DEF PositionTyped
<1>4. Walks(Stepped, motion, now + 1)
  BY <1>2, <1>3, StepsOn
<1>5. /\ (IF motion = NoMotion THEN NoMotion ELSE At(motion, now + 1)) = Seen(Stepped)
      /\ Seen(Stepped) \in Sight
  BY <1>3, <1>4, MotionShows
<1> DEFINE seen == Seen(Stepped)
<1> HIDE DEF seen
<1>6. \A i : StateAt(i)' = StateAt(i)
  BY <1>1 DEF StateAt
<1>7. /\ Len(sampled) = now \div PerSecond /\ Len(players_state) = next_tick - 1 /\ next_tick <= Len(sampled) + 1
      /\ \A i \in 1 .. Len(players_state) :
           players_state[i] = [timestamp |-> i, shown |-> sampled[i]]
      /\ \A i \in next_tick .. Len(sampled) : StateAt(i).shown = sampled[i]
  BY <1>2 DEF SampledSoFar
<1>8. CASE (now + 1) % PerSecond # 0
  <2>1. sampled' = sampled /\ (now + 1) \div PerSecond = now \div PerSecond
    BY <1>1, <1>3, <1>8, Seconds
  <2>2. SampledSoFar'
    BY <1>1, <1>6, <1>7, <2>1 DEF SampledSoFar
  <2>3. PositionTyped'
    BY <1>1, <1>2, <1>3, <2>1 DEF PositionTyped
  <2> QED
    BY <1>1, <1>4, <2>2, <2>3 DEF PositionInv
<1>9. CASE (now + 1) % PerSecond = 0
  <2>1. /\ sampled' = Append(sampled, seen) /\ (now + 1) \div PerSecond = (now \div PerSecond) + 1
        /\ ((now + 1) \div PerSecond) * PerSecond = now + 1
    BY <1>1, <1>3, <1>9, Seconds DEF seen
  <2>2. /\ sampled' \in Seq(Sight) /\ Len(sampled') = Len(sampled) + 1 /\ Len(sampled) \in Nat
        /\ \A i \in 1 .. Len(sampled) : sampled'[i] = sampled[i]
        /\ sampled'[Len(sampled) + 1] = seen
    <3>1. seen \in Sight
      BY <1>5 DEF seen
    <3> QED
      BY <2>1, <1>3, <3>1
  <2>3. StateAt(Len(sampled) + 1).shown = seen
    <3>1. (Len(sampled) + 1) * PerSecond = now + 1
      BY <2>1, <1>7
    <3> QED
      BY <3>1, <1>5 DEF StateAt, seen
  <2>4. \A i \in 1 .. Len(players_state) : sampled'[i] = sampled[i]
    BY <2>2, <1>3, <1>7
  <2>5. \A i \in next_tick .. Len(sampled') : StateAt(i).shown = sampled'[i]
    BY <2>2, <2>3, <1>3, <1>7
  <2>6. /\ Len(sampled') = now' \div PerSecond /\ Len(players_state') = next_tick' - 1
        /\ next_tick' <= Len(sampled') + 1
        /\ \A i \in 1 .. Len(players_state') :
             players_state'[i] = [timestamp |-> i, shown |-> sampled'[i]]
        /\ \A i \in next_tick' .. Len(sampled') : StateAt(i)'.shown = sampled'[i]
    BY <1>1, <1>3, <1>6, <1>7, <2>1, <2>2, <2>4, <2>5
  <2>7. SampledSoFar'
    BY <1>1, <2>6 DEF SampledSoFar
  <2>8. PositionTyped'
    BY <1>1, <1>2, <1>3, <2>2 DEF PositionTyped
  <2> QED
    BY <1>1, <1>4, <2>7, <2>8 DEF PositionInv
<1> QED
  BY <1>8, <1>9

\* The end of the game.
LEMMA SamplingEndInv == ASSUME PositionInv, SamplingEnd PROVE PositionInv'
<1>1. /\ PositionTyped /\ SampledSoFar /\ sampling = "running" /\ sampling' = "done" /\ now = GameLength
      /\ sampled' = sampled /\ now' = now /\ motion' = motion /\ unit' = unit /\ Sampled(now)
      /\ now \div PerSecond = Len(sampled) /\ now \in Nat /\ sampled \in Seq(Sight)
      /\ Walks(unit, motion, now)
  BY DEF PositionInv, SamplingEnd, SampledSoFar, PositionTyped, walking
<1>2. /\ next_tick' = Len(sampled) + 1
      /\ players_state' \in Seq([timestamp : Nat, shown : Sight])
      /\ Len(players_state') = Len(sampled)
      /\ \A i \in 1 .. Len(players_state') :
           players_state'[i] = [timestamp |-> i, shown |-> sampled[i]]
  BY <1>1, CatchesUp
<1>3. Len(sampled) \in Nat
  BY <1>1
<1>4. PositionTyped'
  BY <1>1, <1>2, <1>3 DEF PositionTyped
<1>5. \A i \in next_tick' .. Len(sampled') : FALSE
  BY <1>1, <1>2, <1>3
<1>6. SampledSoFar'
  BY <1>1, <1>2, <1>3, <1>5 DEF SampledSoFar
<1> QED
  BY <1>1, <1>4, <1>6 DEF PositionInv

LEMMA PositionNextInv == PositionInv /\ [PositionNext]_positionVars => PositionInv'
<1> SUFFICES ASSUME PositionInv, [PositionNext]_positionVars PROVE PositionInv'
  OBVIOUS
<1>1. CASE UNCHANGED positionVars
  <2>1. \A i : StateAt(i)' = StateAt(i)
    BY <1>1 DEF StateAt, positionVars, sampler
  <2> QED
    BY <1>1, <2>1 DEF positionVars, walking, sampler, PositionInv, PositionTyped, SampledSoFar
<1> QED
  BY <1>1, WaypointsInv, HeroDieInv, HeroReincarnateInv, OtherPacketInv, PositionTickInv,
     SamplingEndInv DEF PositionNext

\* Every second of a game of any length is sampled once and in order, none before it
\* has passed and all of them by the end, and each sample is where the champion was
\* and whether it lived when that second struck, whatever the places, the paths
\* announced and their speeds, and however late the packet that brings it.
THEOREM SamplesTrue == PositionSpec => []SamplesAreTrue
<1>1. PositionInv => SamplesAreTrue
  <2> SUFFICES ASSUME PositionInv PROVE SamplesAreTrue
    OBVIOUS
  <2>1. PositionTyped /\ SampledSoFar /\ Len(sampled) \in Nat /\ next_tick \in Nat \ {0}
    BY DEF PositionInv, PositionTyped
  <2>2. ASSUME NEW i \in 1 .. Len(players_state)
        PROVE  /\ players_state[i].timestamp = i
               /\ i <= Len(sampled) /\ players_state[i].shown = sampled[i]
    <3>1. players_state[i] = [timestamp |-> i, shown |-> sampled[i]]
      BY <2>1 DEF SampledSoFar
    <3>2. Len(players_state) <= Len(sampled) /\ Len(players_state) \in Nat
      BY <2>1 DEF SampledSoFar
    <3> QED
      BY <2>1, <3>1, <3>2
  <2> QED
    BY <2>1, <2>2 DEF SampledSoFar, SamplesAreTrue
<1> QED
  BY <1>1, PositionInitInv, PositionNextInv, PTL DEF PositionSpec
=============================================================================
