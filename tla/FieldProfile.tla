----------------------------- MODULE FieldProfile -----------------------------
(***************************************************************************)
(* src/src/fields.rs: what is measured of one word of one packet class.    *)
(* Each chunk is profiled by itself, a sample of its blocks at most; the   *)
(* chunks of a replay are merged into one profile, and the profiles of     *)
(* several replays into one that is pooled (fields of src/src/cli.rs).     *)
(***************************************************************************)
EXTENDS Integers, Sequences, FiniteSetsExt

CONSTANTS
  Values,        \* what a word holds and the length of its block's payload:
                 \* [u, f, payload], f the float that u is as well, or {}
  DISTINCT_CAP,  \* DISTINCT_CAP
  PerChunk,      \* per_chunk, what is sampled of a chunk
  MaxProfiled      \* bound: blocks in all replays

ASSUME ProfileAssumption ==
  /\ \A v \in Values : /\ v.u \in Nat /\ v.payload \in Nat
                        /\ v.f \subseteq Int /\ \A f, g \in v.f : f = g
  /\ DISTINCT_CAP \in Nat /\ PerChunk \in Nat \ {0} /\ MaxProfiled \in Nat

VARIABLES
  framed,        \* every block of the class so far: [word, clean, sampled]
  chunk,         \* the profile of the chunk being walked
  outs,          \* the profiles of the replay's chunks, in the order of the file
  pooled,        \* the profile of the replays already merged
  merged,        \* how many of the blocks those replays had
  outcome        \* "running", "error" or "done"

profilePart == <<framed, chunk, outs, pooled, merged, outcome>>

\* Word::default and ClassProfile::default
DefaultWord == [seen |-> 0, zero |-> 0, float |-> 0, values |-> {}, overflow |-> FALSE,
                umax |-> 0, fmin |-> 0, fmax |-> 0]
Default == [blocks |-> 0, sampled |-> 0, clean |-> 0,
            payload_min |-> 0, payload_max |-> 0, word |-> DefaultWord]

ProfileInit ==
  /\ framed = <<>> /\ chunk = Default /\ outs = <<>>
  /\ pooled = Default /\ merged = 0 /\ outcome = "running"

-----------------------------------------------------------------------------
(* Recording a block                                                       *)

Larger(a, b) == IF a >= b THEN a ELSE b
Smaller(a, b) == IF a <= b THEN a ELSE b

\* The values kept and the mark that there were more, after those of `more`.
KeptValues(w, more) ==
  LET new == more \ w.values
      room == DISTINCT_CAP - Cardinality(w.values) IN
  [values |-> w.values \cup {v \in new : Cardinality({x \in new : x < v}) < room},
   overflow |-> w.overflow \/ Cardinality(new) > room]

\* Word::record
Record(w, v) ==
  LET k == KeptValues(w, {v.u})
      is_float == v.f # {} IN
  [seen |-> w.seen + 1,
   zero |-> IF v.u = 0 THEN w.zero + 1 ELSE w.zero,
   float |-> IF is_float THEN w.float + 1 ELSE w.float,
   values |-> k.values, overflow |-> k.overflow,
   umax |-> Larger(w.umax, v.u),
   fmin |-> IF ~ is_float THEN w.fmin ELSE IF w.float = 0 THEN Min(v.f) ELSE Min(v.f \cup {w.fmin}),
   fmax |-> IF ~ is_float THEN w.fmax ELSE IF w.float = 0 THEN Max(v.f) ELSE Max(v.f \cup {w.fmax})]

\* The body of profile_chunk's loop and observe: a block past the sample is
\* counted only, one that did not decode cleanly is not looked into.
Profiled(c, v, clean) ==
  IF c.sampled >= PerChunk THEN [c EXCEPT !.blocks = @ + 1]
  ELSE [blocks |-> c.blocks + 1,
        sampled |-> c.sampled + 1,
        clean |-> IF clean THEN c.clean + 1 ELSE c.clean,
        payload_min |-> IF c.sampled = 0 THEN v.payload ELSE Smaller(c.payload_min, v.payload),
        payload_max |-> Larger(c.payload_max, v.payload),
        word |-> IF clean THEN Record(c.word, v) ELSE c.word]

-----------------------------------------------------------------------------
(* Merging                                                                 *)

\* Word::merge.  float is added to before it is tested.
MergeWord(w, o) ==
  LET k == KeptValues(w, o.values) IN
  [seen |-> w.seen + o.seen, zero |-> w.zero + o.zero, float |-> w.float + o.float,
   values |-> k.values, overflow |-> k.overflow \/ o.overflow,
   umax |-> Larger(w.umax, o.umax),
   fmin |-> IF w.float + o.float = 0 THEN o.fmin ELSE Smaller(w.fmin, o.fmin),
   fmax |-> Larger(w.fmax, o.fmax)]

Mutant_Merge_payload_min(c, o) ==
  [blocks |-> c.blocks + o.blocks, sampled |-> c.sampled + o.sampled,
   clean |-> c.clean + o.clean,
   payload_min |-> IF o.sampled > 0 THEN Smaller(c.payload_min, o.payload_min)
                   ELSE c.payload_min,
   payload_max |-> Larger(c.payload_max, o.payload_max),
   word |-> IF o.word.seen = 0 THEN c.word ELSE MergeWord(c.word, o.word)]

\* ClassProfile::merge.  A chunk none of whose blocks was clean has no entry for
\* the word.
Merge(c, o) ==
  [blocks |-> c.blocks + o.blocks, sampled |-> c.sampled + o.sampled,
   clean |-> c.clean + o.clean,
   payload_min |-> IF c.sampled = 0 THEN o.payload_min
                   ELSE IF o.sampled > 0 THEN Smaller(c.payload_min, o.payload_min)
                   ELSE c.payload_min,
   payload_max |-> Larger(c.payload_max, o.payload_max),
   word |-> IF o.word.seen = 0 THEN c.word ELSE MergeWord(c.word, o.word)]

\* The loop of profile over the profiles of the chunks.
AllMerged(profiles) ==
  LET upTo[i \in 0 .. Len(profiles)] ==
        IF i = 0 THEN Default ELSE Merge(upTo[i - 1], profiles[i])
  IN  upTo[Len(profiles)]

-----------------------------------------------------------------------------
(* The command                                                             *)

\* A block of the class in the chunk being walked.
ProfileBlock(v, clean) ==
  /\ outcome = "running" /\ Len(framed) < MaxProfiled
  /\ framed' = Append(framed, [word |-> v, clean |-> clean,
                               sampled |-> chunk.sampled < PerChunk])
  /\ chunk' = Profiled(chunk, v, clean)
  /\ UNCHANGED <<outs, pooled, merged, outcome>>

\* The chunk ends; the class has an entry in its profile if it had a block.
EndChunk ==
  /\ outcome = "running" /\ chunk.blocks > 0
  /\ outs' = Append(outs, chunk) /\ chunk' = Default
  /\ UNCHANGED <<framed, pooled, merged, outcome>>

\* The replay's chunks are all profiled: profile merges them, fields merges
\* the result into the pooled one.
EndReplay ==
  /\ outcome = "running" /\ chunk = Default /\ outs # <<>>
  /\ pooled' = Merge(pooled, AllMerged(outs))
  /\ outs' = <<>> /\ merged' = Len(framed)
  /\ UNCHANGED <<framed, chunk, outcome>>

\* A chunk or a block cannot be read, or the machine fails: no profile.
ProfileFail ==
  /\ outcome = "running" /\ outcome' = "error"
  /\ UNCHANGED <<framed, chunk, outs, pooled, merged>>

ProfileDone ==
  /\ outcome = "running" /\ chunk = Default /\ outs = <<>>
  /\ outcome' = "done"
  /\ UNCHANGED <<framed, chunk, outs, pooled, merged>>

ProfileNext ==
  \/ \E v \in Values, clean \in BOOLEAN : ProfileBlock(v, clean)
  \/ EndChunk \/ EndReplay \/ ProfileFail \/ ProfileDone

ProfileSpec == ProfileInit /\ [][ProfileNext]_profilePart

-----------------------------------------------------------------------------
\* What was sampled of the replays that are pooled.
Sampled == {i \in 1 .. merged : framed[i].sampled}
CleanBlocks == {i \in Sampled : framed[i].clean}
Floats == UNION {framed[i].word.f : i \in CleanBlocks}
Distinct == {framed[i].word.u : i \in CleanBlocks}

DistinctAreCounted ==
  /\ pooled.word.values \subseteq Distinct
  /\ Cardinality(pooled.word.values) = Smaller(DISTINCT_CAP, Cardinality(Distinct))
  /\ pooled.word.overflow <=> Cardinality(Distinct) > DISTINCT_CAP

\* However blocks fall into chunks and chunks into replays, the pooled counts
\* are those of one pass over everything sampled, `blocks` is the true total
\* where only a sample was decoded (fields.rs:237-239), an empty side of a merge
\* does not pass for a payload of no bytes, and the mark that the counter of
\* distinct values stopped is set when and only when there were more than it
\* holds (fields.rs:518-519), no matter which side of which merge saw them.  No
\* float that was seen lies outside of the range.
CountsAreExact ==
  /\ pooled.blocks = merged /\ pooled.sampled = Cardinality(Sampled)
  /\ pooled.word.seen = Cardinality(CleanBlocks) /\ pooled.clean = Cardinality(CleanBlocks)
  /\ pooled.word.zero = Cardinality({i \in CleanBlocks : framed[i].word.u = 0})
  /\ pooled.word.float = Cardinality({i \in CleanBlocks : framed[i].word.f # {}})
  /\ Sampled # {} => /\ pooled.payload_min = Min({framed[i].word.payload : i \in Sampled})
                     /\ pooled.payload_max = Max({framed[i].word.payload : i \in Sampled})
  /\ DistinctAreCounted
  /\ \A f \in Floats : pooled.word.fmin <= f /\ f <= pooled.word.fmax

-----------------------------------------------------------------------------
\* fields.rs:513-514: "**kind** is the narrowest statement that held for at
\* least 95 % of the sample", and a float's kind states its range.  Merging
\* into the default word takes its 0 for a float that was seen.
RangeIsMeasured ==
  Floats # {} => pooled.word.fmin = Min(Floats) /\ pooled.word.fmax = Max(Floats)
=============================================================================
