---------------------------- MODULE ArrayEntries ----------------------------
(***************************************************************************)
(* The arrays of a class in src/src/fields.rs: observe_array measures the  *)
(* entry size of the array behind a pointer by the block the deserializer  *)
(* asked for and the bytes it wrote, ArrayProfile counts what the entries  *)
(* hold, and entry_layout takes the size that most blocks had.             *)
(*                                                                         *)
(* Sizes are in words.  The class's arrays have entries of TrueStride      *)
(* words of which the deserializer writes the same in every entry, and     *)
(* blocks with room for more entries than there are.  A pointer of a block *)
(* may also lead to something that is no array, with a number behind it    *)
(* that passes for a count.                                                *)
(***************************************************************************)
EXTENDS Integers, Sequences, FiniteSetsExt, Functions

CONSTANTS
  Chunks,              \* profiles that are filled apart, and merged
  TrueStride,
  Counts, Rooms,       \* entries of an array, and how many times as many its block holds
  StraySizes,          \* blocks that are no arrays
  STRIDE_MAX, ENTRIES_PER_BLOCK,
  MaxArrays            \* bound: blocks of the class

ASSUME ArraysAssumption ==
  /\ IsFiniteSet(Chunks) /\ STRIDE_MAX \in Nat /\ TrueStride \in 1 .. STRIDE_MAX
  /\ Counts \subseteq Nat \ {0} /\ Rooms \subseteq Nat \ {0} /\ StraySizes \subseteq Nat
  /\ ENTRIES_PER_BLOCK \in Nat \ {0} /\ MaxArrays \in Nat

VARIABLES
  entry_words,   \* the words of an entry that are written
  arrays,        \* per chunk not yet merged and per stride: an ArrayProfile
  profiled,      \* the merged ones
  met            \* the blocks that were observed: count, room and whether an array

arraysPart == <<entry_words, arrays, profiled, met>>

NoArrays == [blocks |-> 0, entries |-> 0, max_entries |-> 0, words |-> <<>>]

ArraysStart == arrays = [c \in Chunks |-> <<>>] /\ profiled = <<>> /\ met = <<>>
ArraysInit  == entry_words \in (SUBSET (0 .. TrueStride - 1)) \ {{}} /\ ArraysStart

-----------------------------------------------------------------------------
(* observe_array *)

Mutant_Repeats_any(written, count, stride) == written \cap (0 .. stride - 1) # {}

\* The map of what is written repeats with the stride, and is not empty.
Repeats(written, count, stride) ==
  /\ written \cap (0 .. stride - 1) # {}
  /\ \A i \in 0 .. stride - 1, e \in 1 .. count - 1 : i \in written <=> e * stride + i \in written

\* stride_of: an entry size, or none.
Strides(size, written, count) ==
  {s \in 1 .. STRIDE_MAX : count >= 2 /\ size = s * count /\ Repeats(written, count, s)}

Get(f, k, default) == IF k \in DOMAIN f THEN f[k] ELSE default
Put(f, k, v) == [j \in DOMAIN f \cup {k} |-> IF j = k THEN v ELSE f[j]]

\* The block is counted, its entries up to the cap are profiled.
Observed(a, written, count, stride) ==
  LET n == Min({count, ENTRIES_PER_BLOCK})
      here == {k \in 0 .. stride - 1 : k \in written}
  IN  [blocks |-> a.blocks + 1, entries |-> a.entries + n,
       max_entries |-> Max({a.max_entries, count}),
       words |-> [k \in DOMAIN a.words \cup here |-> Get(a.words, k, 0) + IF k \in here THEN n ELSE 0]]

Observe(c, size, written, count, isArray) ==
  /\ Len(met) < MaxArrays /\ c \in DOMAIN arrays
  /\ LET found == Strides(size, written, count) IN
     arrays' = [arrays EXCEPT ![c] =
       IF found = {} THEN @
       ELSE LET s == CHOOSE s \in found : TRUE
            IN  Put(@, s, Observed(Get(@, s, NoArrays), written, count, s))]
  /\ met' = Append(met, [count |-> count, size |-> size, array |-> isArray,
                         taken |-> Strides(size, written, count) # {}])
  /\ UNCHANGED <<entry_words, profiled>>

ArrayBlock(c, count, room) ==
  Observe(c, room * count * TrueStride,
          {e * TrueStride + k : e \in 0 .. count - 1, k \in entry_words}, count, TRUE)

StrayBlock(c, size, written, count) ==
  written \subseteq 0 .. size - 1 /\ Observe(c, size, written, count, FALSE)

-----------------------------------------------------------------------------
(* ArrayProfile::merge and entry_layout *)

Added(a, b) ==
  [blocks |-> a.blocks + b.blocks, entries |-> a.entries + b.entries,
   max_entries |-> Max({a.max_entries, b.max_entries}),
   words |-> [k \in DOMAIN a.words \cup DOMAIN b.words |-> Get(a.words, k, 0) + Get(b.words, k, 0)]]

MergeArrays(c) ==
  /\ c \in DOMAIN arrays
  /\ profiled' = [s \in DOMAIN profiled \cup DOMAIN arrays[c] |->
       Added(Get(profiled, s, NoArrays), Get(arrays[c], s, NoArrays))]
  /\ arrays' = Restrict(arrays, DOMAIN arrays \ {c})
  /\ UNCHANGED <<entry_words, met>>

ArraysNext ==
  \E c \in Chunks :
    \/ \E count \in Counts, room \in Rooms : ArrayBlock(c, count, room)
    \/ \E size \in StraySizes, count \in Counts, written \in SUBSET (0 .. Max(StraySizes) - 1) :
         StrayBlock(c, size, written, count)
    \/ MergeArrays(c)

ArraysSpec == ArraysInit /\ [][ArraysNext]_arraysPart

\* The stride most blocks had, of equals the greatest, if half of them had it.
entry_layout ==
  LET Blocks(s) == profiled[s].blocks
      best == {s \in DOMAIN profiled : \A r \in DOMAIN profiled :
                 Blocks(r) < Blocks(s) \/ (Blocks(r) = Blocks(s) /\ r <= s)}
      total == SumFunction([s \in DOMAIN profiled |-> Blocks(s)])
  IN  {s \in best : 2 * Blocks(s) >= total /\ profiled[s].entries > 0}

-----------------------------------------------------------------------------
Measured(isArray) == {i \in DOMAIN met : met[i].taken /\ met[i].array = isArray}
Filled == {i \in DOMAIN met : met[i].array /\ met[i].count >= 2
                              /\ met[i].size = met[i].count * TrueStride}

\* Of the class's arrays exactly those are measured whose block is full and that
\* show how entries repeat; one with room for more never gives a wrong size.  If
\* more of them are measured than of strays, the layout has their entry size;
\* without strays it counts every entry up to the cap, its words are the entry's,
\* in all of them, and the greatest count is the greatest there was
\* (fields.rs:347-357, 803-836).
EntriesAreTrue ==
  DOMAIN arrays = {} =>
    LET own == Measured(TRUE) IN
    /\ own = Filled
    /\ Cardinality(own) > Cardinality(Measured(FALSE)) => entry_layout = {TrueStride}
    /\ own # {} /\ Measured(FALSE) = {} =>
         LET a == profiled[TrueStride]
             n == SumFunction([i \in own |-> Min({met[i].count, ENTRIES_PER_BLOCK})])
         IN  /\ a.max_entries = Max({met[i].count : i \in own})
             /\ a.entries = n /\ a.words = [k \in entry_words |-> n]
=============================================================================
