-------------------------------- MODULE Layout --------------------------------
(***************************************************************************)
(* recover of src/src/layout.rs: which byte of the decoded object each     *)
(* byte of a class's payloads carries, and the substitution between the    *)
(* two, from the blocks that decode of src/src/cli.rs has kept.            *)
(*                                                                         *)
(* A payload byte is named after the plain byte it stands for: a table is  *)
(* true where it is the identity.  A slot <<off, j>> is byte j of the word *)
(* at `off`.  The class writes its words in an order of its own, leaves    *)
(* out some of them, and puts bytes between that are in no word.           *)
(***************************************************************************)
EXTENDS Integers, FiniteSetsExt, SequencesExt, Functions

CONSTANTS
  Streams,         \* orders there are: sequences of slots and of Header
  Optional,        \* words a block may lack
  Plain,           \* the bytes a slot may hold
  MIN_BLOCKS, MIN_VARIETY,
  MaxSamples       \* bound: blocks

Header == <<"none", 0>>

ASSUME LayoutAssumption ==
  /\ \A s \in Streams : s \in Seq(Range(s)) /\ IsInjective(SelectSeq(s, LAMBDA x : x # Header))
  /\ \A s \in Streams : \A x \in Range(s) : x = <<x[1], x[2]>>
  /\ MIN_BLOCKS \in Nat \ {0} /\ MIN_VARIETY \in Nat \ {0, 1} /\ MaxSamples \in Nat

VARIABLES
  stream,          \* the class's order
  samples,         \* rows: payload, words and, to compare, what the payload carries
  lengths,         \* how many samples have a payload of each length
  layout           \* the Layout, <<>> before, NoLayout if there is none

layoutPart == <<stream, samples, lengths, layout>>

NoLayout == [bytes |-> <<>>]
Slots == Range(stream) \ {Header}

LayoutStart == samples = {} /\ lengths = <<>> /\ layout = <<>>
LayoutInit  == stream \in Streams /\ LayoutStart

\* A block that decodes cleanly, with these words, values and bytes between.
AddSample(without, value, filler) ==
  /\ layout = <<>>
  /\ MapThenSumSet(LAMBDA n : lengths[n], DOMAIN lengths) < MaxSamples
  /\ LET carries == SelectSeq(stream, LAMBDA x : x[1] \notin without)
         n == Len(carries)
     IN  /\ samples' = samples \cup {[carries |-> carries,
              payload |-> [i \in 1 .. n |-> IF carries[i] = Header THEN filler ELSE value[carries[i]]],
              words   |-> [s \in Range(carries) \ {Header} |-> value[s]]]}
         /\ lengths' = [k \in DOMAIN lengths \cup {n} |->
              (IF k \in DOMAIN lengths THEN lengths[k] ELSE 0) + IF k = n THEN 1 ELSE 0]
  /\ UNCHANGED <<stream, layout>>

-----------------------------------------------------------------------------
(* recover                                                                 *)

\* The commonest length; of equally common ones the greatest.
payload_len ==
  Max({n \in DOMAIN lengths : \A k \in DOMAIN lengths : lengths[k] <= lengths[n]})

rows == {s \in samples : Len(s.payload) = payload_len}

\* What every one of the rows has written.
offsets == {s \in Slots : \A r \in rows : s \in DOMAIN r.words}

Mutant_Tracks_forward(i, s) ==
  /\ \A r, q \in rows : r.words[s] = q.words[s] => r.payload[i] = q.payload[i]
  /\ Cardinality({r.words[s] : r \in rows}) > 1

\* One-to-one over all rows, and not constant.
Tracks(i, s) ==
  /\ \A r, q \in rows : r.words[s] = q.words[s] <=> r.payload[i] = q.payload[i]
  /\ Cardinality({r.words[s] : r \in rows}) > 1

\* Carries, as the set of slots that track: none, the one, or candidates.
Carries(i) == {s \in offsets : Tracks(i, s)}

Field(bytes) == {i \in DOMAIN bytes : Cardinality(bytes[i]) = 1}
SlotAt(bytes, i) == CHOOSE s \in bytes[i] : TRUE
VarietyAt(bytes, i) == Cardinality({r.words[SlotAt(bytes, i)] : r \in rows})
Moving(bytes) == {i \in Field(bytes) : VarietyAt(bytes, i) >= MIN_VARIETY}

PairsAt(bytes, i) == {<<r.words[SlotAt(bytes, i)], r.payload[i]>> : r \in rows}
Pairings(bytes) == UNION {PairsAt(bytes, i) : i \in Moving(bytes)}

\* A plain byte keeps the payload byte it met first; a table that is one of the
\* choices among its pairings.
Tables(pairs) ==
  LET plain == {p[1] : p \in pairs}
  IN  {t \in [plain -> {p[2] : p \in pairs}] : \A x \in plain : <<x, t[x]>> \in pairs}

Disagreeing(bytes, table) ==
  {i \in Field(bytes) \ Moving(bytes) :
     \E p \in PairsAt(bytes, i) : p[1] \in DOMAIN table /\ table[p[1]] # p[2]}

Recover ==
  /\ layout = <<>>
  /\ IF samples = {} \/ lengths[payload_len] < MIN_BLOCKS THEN layout' = NoLayout
     ELSE LET bytes == [i \in 1 .. payload_len |-> Carries(i)]
              pairs == Pairings(bytes)
          IN  \E table \in Tables(pairs) :
                layout' = [bytes |-> bytes, table |-> table,
                           conflicts |-> Cardinality(pairs) > Cardinality(DOMAIN table),
                           from_positions |-> Cardinality(Moving(bytes)),
                           disagreeing |-> Disagreeing(bytes, table)]
  /\ UNCHANGED <<stream, samples, lengths>>

LayoutNext ==
  \/ \E without \in SUBSET Optional, value \in [Slots -> Plain], filler \in Plain :
       AddSample(without, value, filler)
  \/ Recover

LayoutSpec == LayoutInit /\ [][LayoutNext]_layoutPart

settled == ~ layout.conflicts /\ layout.from_positions > 0

\* Stretches of two or more positions with bytes of one word, and the order they
\* are in; an order is given only where the bytes are the word's first ones.
WordAt(i) == SlotAt(layout.bytes, i)[1]
Stretches ==
  LET OneWord(i, k) == i .. k \subseteq Field(layout.bytes) /\ \A n \in i .. k : WordAt(n) = WordAt(i)
  IN  {x \in (DOMAIN layout.bytes) \X (DOMAIN layout.bytes) :
         x[1] < x[2] /\ OneWord(x[1], x[2]) /\ ~ OneWord(x[1] - 1, x[2]) /\ ~ OneWord(x[1], x[2] + 1)}

field_order ==
  LET ByteOrder(x) == LET n == x[2] - x[1] + 1
                      idx == [k \in 1 .. n |-> SlotAt(layout.bytes, x[1] + k - 1)[2]]
                  IN  IF idx = [k \in 1 .. n |-> k - 1] THEN "little-endian"
                      ELSE IF idx = [k \in 1 .. n |-> n - k] THEN "big-endian" ELSE "mixed"
  IN  {[at |-> x[1], word |-> WordAt(x[1]), order |-> ByteOrder(x), bytes |-> x[2] - x[1] + 1] : x \in Stretches}

-----------------------------------------------------------------------------
\* Positions that carry one slot in every row, the same one.
Told == {i \in 1 .. payload_len :
           \E s \in offsets : \A r \in rows : r.carries[i] = s}
Truth(i) == CHOOSE s \in offsets : \A r \in rows : r.carries[i] = s
Constant(s) == Cardinality({r.words[s] : r \in rows}) = 1

\* Whatever blocks there are and whichever words they lack, the slot a payload
\* position carries in all of them is never lost, and no other is named in its
\* stead; a constant position is left unexplained.  If all positions carry such
\* slots the table is true, free of conflicts and contradicted by no position, so
\* that a table that is not settled tells of bytes that no word holds; and a word
\* that is said to be written in an order is written so, byte next to byte
\* (layout.rs:170-290, 331-372).
LayoutIsTrue ==
  layout \notin {<<>>, NoLayout} =>
    /\ \A i \in Told : IF Constant(Truth(i)) THEN layout.bytes[i] = {} ELSE Truth(i) \in layout.bytes[i]
    /\ Told = 1 .. payload_len =>
         /\ ~ layout.conflicts /\ layout.disagreeing = {}
         /\ \A p \in DOMAIN layout.table : layout.table[p] = p
         /\ \A f \in field_order : \A k \in 0 .. f.bytes - 1 :
              f.order # "mixed" => \A r \in rows : r.carries[f.at + k] =
                <<f.word, IF f.order = "little-endian" THEN k ELSE f.bytes - 1 - k>>
=============================================================================
