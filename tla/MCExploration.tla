---------------------------- MODULE MCExploration ----------------------------
(***************************************************************************)
(* explore and fields of src/src/cli.rs read replay after replay and keep  *)
(* of each what several passes of src/src/explore.rs and src/src/fields.rs *)
(* measure.  The passes share the replays and no state, so that one of     *)
(* them is seen at a time, which the initial state chooses; the others     *)
(* stay where they begin.                                                  *)
(***************************************************************************)
EXTENDS Visibility, Framing, PatchMatch, StatsMatch, ByteChain, FieldProfile, Layout,
  ArrayEntries, EventLocked, Fingerprint, NetIds

CONSTANT Parts   \* the passes to look at

\* A value that is no float, a negative float and a positive one.
FewValues == {[u |-> 0, f |-> {}, payload |-> 2], [u |-> 7, f |-> {-3}, payload |-> 1],
              [u |-> 5, f |-> {2}, payload |-> 3]}

\* The classes: one with a byte that is in no word, one whose words have two bytes
\* each and one with a word that may lack.
ClassStreams ==
  {<<Header, <<"A", 0>>, <<"B", 0>>>>, <<<<"A", 1>>, <<"A", 0>>>>,
   <<<<"B", 0>>, <<"A", 0>>, <<"C", 0>>>>}

VARIABLE part

vars == <<part, visibilityPart, framingPart, patchPart, statsPart, chainPart, profilePart,
          layoutPart, arraysPart, lockedPart, fingerprintPart, codecPart>>

Init ==
  /\ part \in Parts
  /\ IF part = "visibility" THEN VisibilityInit ELSE meaning = <<>> /\ VisibilityStart
  /\ FramingInit
  /\ IF part = "patches" THEN PatchInit ELSE score = <<>> /\ PatchStart
  /\ IF part = "stats" THEN StatsInit
     ELSE counted = [field |-> SUM, extra |-> 0] /\ StatsStart
  /\ IF part = "chain" THEN ChainInit
     ELSE changes = <<>> /\ orient = {} /\ steps = {} /\ ChainStart
  /\ ProfileInit
  /\ IF part = "layout" THEN LayoutInit ELSE stream = <<>> /\ LayoutStart
  /\ IF part = "arrays" THEN ArraysInit ELSE entry_words = {} /\ ArraysStart
  /\ LockedInit /\ FingerprintInit
  /\ IF part = "codec" THEN CodecInit ELSE reading = <<>> /\ CodecStart

VisibilityStep ==
  /\ part = "visibility" /\ VisibilityNext
  /\ UNCHANGED <<part, framingPart, patchPart, statsPart, chainPart,
                 profilePart, layoutPart,
                 arraysPart, lockedPart, fingerprintPart, codecPart>>

FramingStep ==
  /\ part = "framing" /\ FramingNext
  /\ UNCHANGED <<part, visibilityPart, patchPart, statsPart, chainPart,
                 profilePart, layoutPart,
                 arraysPart, lockedPart, fingerprintPart, codecPart>>

PatchStep ==
  /\ part = "patches" /\ PatchNext
  /\ UNCHANGED <<part, visibilityPart, framingPart, statsPart, chainPart,
                 profilePart, layoutPart,
                 arraysPart, lockedPart, fingerprintPart, codecPart>>

StatsStep ==
  /\ part = "stats" /\ StatsNext
  /\ UNCHANGED <<part, visibilityPart, framingPart, patchPart, chainPart,
                 profilePart, layoutPart,
                 arraysPart, lockedPart, fingerprintPart, codecPart>>

ChainStep ==
  /\ part = "chain" /\ ChainNext
  /\ UNCHANGED <<part, visibilityPart, framingPart, patchPart, statsPart,
                 profilePart, layoutPart,
                 arraysPart, lockedPart, fingerprintPart, codecPart>>

ProfileStep ==
  /\ part = "profile" /\ ProfileNext
  /\ UNCHANGED <<part, visibilityPart, framingPart, patchPart, statsPart,
                 chainPart, layoutPart,
                 arraysPart, lockedPart, fingerprintPart, codecPart>>

LayoutStep ==
  /\ part = "layout" /\ LayoutNext
  /\ UNCHANGED <<part, visibilityPart, framingPart, patchPart, statsPart,
                 chainPart, profilePart,
                 arraysPart, lockedPart, fingerprintPart, codecPart>>

ArraysStep ==
  /\ part = "arrays" /\ ArraysNext
  /\ UNCHANGED <<part, visibilityPart, framingPart, patchPart, statsPart,
                 chainPart, profilePart, layoutPart, lockedPart, fingerprintPart, codecPart>>

LockedStep ==
  /\ part = "locked" /\ LockedNext
  /\ UNCHANGED <<part, visibilityPart, framingPart, patchPart, statsPart,
                 chainPart, profilePart, layoutPart, arraysPart, fingerprintPart, codecPart>>

FingerprintStep ==
  /\ part = "fingerprint" /\ FingerprintNext
  /\ UNCHANGED <<part, visibilityPart, framingPart, patchPart, statsPart,
                 chainPart, profilePart, layoutPart, arraysPart, lockedPart, codecPart>>

CodecStep ==
  /\ part = "codec" /\ CodecNext
  /\ UNCHANGED <<part, visibilityPart, framingPart, patchPart, statsPart,
                 chainPart, profilePart, layoutPart, arraysPart, lockedPart, fingerprintPart>>

Next ==
  \/ VisibilityStep \/ FramingStep \/ PatchStep \/ StatsStep \/ ChainStep
  \/ ProfileStep \/ LayoutStep \/ ArraysStep \/ LockedStep \/ FingerprintStep
  \/ CodecStep

Spec == Init /\ [][Next]_vars
=============================================================================
