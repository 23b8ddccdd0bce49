------------------------ MODULE PacketDecoderProofs ------------------------
(***************************************************************************)
(* Proofs about PacketDecoder, for a heap of any size and any fields,      *)
(* values, streams and number of instructions: its type invariant, that    *)
(* blocks never overlap, that fresh memory is zero, and that a decode's    *)
(* view holds exactly what its own deserializer stored.                    *)
(*                                                                         *)
(* The inductive invariant relates the three records that are kept of one  *)
(* heap: the marks of the machine mirror what the game holds and has       *)
(* stored, every byte that is not zero was written in this decode, and     *)
(* nothing is marked or written past heap_high.  reset_heap clears only up *)
(* to there, so the last part is what makes a reset complete.              *)
(*                                                                         *)
(* Then about NetIds, for groups and ids of any size: a net id that        *)
(* NetIdCodec writes is read back whole by the reader it was learned from, *)
(* and the champions' ids are found in the payloads they are written to.   *)
(* The invariant is that the tables learned so far say of the reader what  *)
(* is true, and all of it as far as the trials have come.                  *)
(***************************************************************************)
EXTENDS NetIds, WellFoundedInduction, PacketDecoder, TLAPS

StateType ==
  [heap_cursor : 0 .. AddrMod - 1, heap_high : HeapBase .. HeapEnd,
   capturing : BOOLEAN, plain : [Heap -> Values],
   reads : [Heap -> BOOLEAN], plains : [Heap -> BOOLEAN],
   allocs : Seq(Nat \X Nat)]

\* The blocks of s lie in the heap one after the other, up to the cursor.
Laid(s) ==
  /\ s.heap_cursor = s.heap_high
  /\ \A i \in 1 .. Len(s.allocs) :
       /\ s.allocs[i][1] % Align = 0
       /\ s.allocs[i][1] >= HeapBase
       /\ s.allocs[i][1] >= (IF i = 1 THEN HeapBase ELSE Past(s.allocs[i - 1]))
       /\ Past(s.allocs[i]) <= s.heap_cursor

\* The marks of s are those of a game that holds h and has stored f.
Marks(s, h, f) ==
  \A a \in Heap :
    /\ s.reads[a] <=> a \in h
    /\ s.plains[a] <=> f[a] # Null
    /\ s.plains[a] => s.plain[a] = f[a]

\* What has been written or marked lies below heap_high, and what is recorded
\* has been written.
Below(s, w) ==
  \A a \in Heap :
    /\ a \in w \/ s.reads[a] => a < s.heap_high
    /\ s.plains[a] => a \in w

Zeros(m, w) == \A a \in Heap : a \notin w => m[a] = 0

Result ==
  pc = "idle" /\ result.status \in Statuses => result.memory = PlaintextHeap(st, mem)

IInv ==
  /\ TypeOK
  /\ Laid(st)
  /\ Marks(st, held, stored)
  /\ Below(st, wrote)
  /\ Zeros(mem, wrote)
  /\ st.capturing <=> pc = "deserialize"
  /\ pc = "factory" => HeapBase + OutSize <= st.heap_high
  /\ pc \in {"factory", "ready"} => held = {}
  /\ Result

Sizes == {OutSize, CurSize} \cup StreamSizes \cup GuestSizes

-----------------------------------------------------------------------------
(* Arithmetic of the bump allocator.                                       *)

\* A number that does not reach the modulus is its own remainder.
LEMMA SmallMod == ASSUME NEW M \in Nat \ {0}, NEW x \in 0 .. M - 1 PROVE x % M = x
OBVIOUS

\* RoundUp answers the next multiple of Align, less than Align away.
LEMMA RoundUpFacts ==
  ASSUME NEW c \in Nat
  PROVE  /\ RoundUp(c) \in Nat
         /\ c <= RoundUp(c) /\ RoundUp(c) < c + Align
         /\ RoundUp(c) % Align = 0
<1>1. Align \in Nat \ {0}
  BY HeapAssumption
<1>2. c = Align * (c \div Align) + (c % Align) /\ c % Align \in 0 .. Align - 1
  BY <1>1
<1>3. CASE c % Align = 0
  <2>1. (Align - (c % Align)) % Align = 0
    BY <1>1, <1>3
  <2> QED BY <2>1, <1>1, <1>3 DEF RoundUp
<1>4. CASE c % Align # 0
  <2>1. (Align - (c % Align)) % Align = Align - (c % Align)
    BY <1>1, <1>2, <1>4
  <2>2. RoundUp(c) = Align * ((c \div Align) + 1)
    BY <1>1, <1>2, <2>1 DEF RoundUp
  <2>3. \A q \in Nat : (Align * q) % Align = 0
    BY <1>1
  <2>4. (c \div Align) + 1 \in Nat
    BY <1>1
  <2>5. RoundUp(c) % Align = 0
    BY <2>2, <2>3, <2>4
  <2> QED BY <2>1, <2>5, <1>1, <1>2, <1>4 DEF RoundUp
<1> QED BY <1>3, <1>4

\* A block that fits starts at or after the cursor, aligned, and ends in the
\* heap; its end has not wrapped.
LEMMA AllocFacts ==
  ASSUME NEW s \in StateType, NEW n \in Sizes,
         s.heap_cursor = s.heap_high, Fits(s, n)
  PROVE  /\ BlockAt(s) \in Heap /\ BlockAt(s) >= s.heap_cursor
         /\ BlockAt(s) % Align = 0
         /\ BlockEnd(s, n) = BlockAt(s) + Larger(n, 1)
         /\ BlockEnd(s, n) \in HeapBase .. HeapEnd
         /\ BlockAt(s) < BlockEnd(s, n)
         /\ BlockEnd(s, n) \in 0 .. AddrMod - 1
         /\ n \in Nat
<1>1. /\ HeapBase \in Nat \ {0} /\ HeapSize \in Nat /\ Align \in Nat \ {0}
      /\ AddrMod \in Nat /\ HeapEnd \in Nat
  BY HeapAssumption DEF HeapEnd
<1>2. n \in Nat /\ HeapEnd + Align + n < AddrMod
  BY SizeAssumption DEF Sizes
<1>3. s.heap_cursor \in HeapBase .. HeapEnd
  BY DEF StateType
<1>4. /\ BlockAt(s) \in Nat /\ s.heap_cursor <= BlockAt(s)
      /\ BlockAt(s) < s.heap_cursor + Align /\ BlockAt(s) % Align = 0
  BY <1>1, <1>3, RoundUpFacts DEF BlockAt
<1>5. Larger(n, 1) \in Nat \ {0} /\ Larger(n, 1) <= n + 1
  BY <1>2 DEF Larger
<1>6. BlockAt(s) + Larger(n, 1) \in 0 .. AddrMod - 1
  BY <1>1, <1>2, <1>3, <1>4, <1>5
<1>7. BlockEnd(s, n) = BlockAt(s) + Larger(n, 1)
  BY <1>1, <1>6, SmallMod DEF BlockEnd
<1>8. BlockEnd(s, n) <= HeapEnd
  BY DEF Fits
<1> QED BY <1>1, <1>2, <1>3, <1>4, <1>5, <1>6, <1>7, <1>8 DEF Heap, HeapEnd

\* alloc keeps the blocks one after the other and touches no mark.
LEMMA AllocatedFacts ==
  ASSUME NEW s \in StateType, NEW n \in Sizes, Laid(s), Fits(s, n)
  PROVE  /\ Allocated(s, n) \in StateType /\ Laid(Allocated(s, n))
         /\ Allocated(s, n).heap_high >= s.heap_high
         /\ Allocated(s, n).heap_high >= BlockAt(s) + n
         /\ Allocated(s, n).reads = s.reads /\ Allocated(s, n).plains = s.plains
         /\ Allocated(s, n).plain = s.plain
         /\ Allocated(s, n).capturing = s.capturing
         /\ Len(Allocated(s, n).allocs) = Len(s.allocs) + 1
<1> DEFINE t == Allocated(s, n)
           block == <<BlockAt(s), n>>
           k == Len(s.allocs)
<1>1. /\ BlockAt(s) \in Heap /\ BlockAt(s) >= s.heap_cursor
      /\ BlockAt(s) % Align = 0
      /\ BlockEnd(s, n) = BlockAt(s) + Larger(n, 1)
      /\ BlockEnd(s, n) \in HeapBase .. HeapEnd
      /\ BlockAt(s) < BlockEnd(s, n)
      /\ BlockEnd(s, n) \in 0 .. AddrMod - 1
      /\ n \in Nat
  BY AllocFacts DEF Laid
<1>2. /\ HeapBase \in Nat \ {0} /\ HeapEnd \in Nat
      /\ s.heap_cursor \in HeapBase .. HeapEnd /\ s.heap_high = s.heap_cursor
      /\ s.allocs \in Seq(Nat \X Nat) /\ k \in Nat
  BY HeapAssumption DEF StateType, HeapEnd, Laid
<1>3. Larger(s.heap_high, BlockEnd(s, n)) = BlockEnd(s, n)
  BY <1>1, <1>2 DEF Larger, Heap
<1>4. block \in Nat \X Nat
  BY <1>1, <1>2 DEF Heap
<1>5. /\ t.heap_cursor = BlockEnd(s, n) /\ t.heap_high = BlockEnd(s, n)
      /\ t.allocs = Append(s.allocs, block)
      /\ t.reads = s.reads /\ t.plains = s.plains /\ t.plain = s.plain
      /\ t.capturing = s.capturing
  BY <1>3 DEF Allocated, StateType
<1>6. t \in StateType
  <2>1. Append(s.allocs, block) \in Seq(Nat \X Nat)
    BY <1>2, <1>4
  <2>2. Larger(s.heap_high, BlockEnd(s, n)) \in HeapBase .. HeapEnd
    BY <1>1, <1>3
  <2> HIDE DEF block
  <2>3. t = [s EXCEPT !.heap_cursor = BlockEnd(s, n),
                      !.heap_high = Larger(s.heap_high, BlockEnd(s, n)),
                      !.allocs = Append(s.allocs, block)]
    BY DEF Allocated, block
  <2> QED BY <2>1, <2>2, <2>3, <1>1 DEF StateType
<1> HIDE DEF t, block, k
<1>7. /\ Len(t.allocs) = k + 1 /\ t.allocs[k + 1] = block
      /\ \A i \in 1 .. k : t.allocs[i] = s.allocs[i]
  BY <1>2, <1>4, <1>5 DEF k
<1>8. \A i \in 1 .. k : s.allocs[i] \in Nat \X Nat
  BY <1>2 DEF k
<1>9. ASSUME NEW i \in 1 .. k + 1
      PROVE  /\ t.allocs[i][1] % Align = 0
             /\ t.allocs[i][1] >= HeapBase
             /\ t.allocs[i][1] >= (IF i = 1 THEN HeapBase ELSE Past(t.allocs[i - 1]))
             /\ Past(t.allocs[i]) <= t.heap_cursor
  <2>1. CASE i \in 1 .. k
    <3>1. t.allocs[i] = s.allocs[i] /\ (i # 1 => t.allocs[i - 1] = s.allocs[i - 1])
      BY <2>1, <1>2, <1>7
    <3>2. Past(s.allocs[i]) <= s.heap_cursor /\ Past(s.allocs[i]) \in Nat
      BY <2>1, <1>8 DEF Laid, Past, Larger, k
    <3>3. s.heap_cursor <= t.heap_cursor
      BY <1>1, <1>2, <1>5 DEF Heap
    <3>4. Past(t.allocs[i]) <= t.heap_cursor
      BY <3>1, <3>2, <3>3, <1>1, <1>2, <1>5
    <3> QED BY <2>1, <3>1, <3>4 DEF Laid, k
  <2>2. CASE i = k + 1
    <3>1. t.allocs[i] = block
      BY <2>2, <1>7
    <3>2. Past(block) = BlockEnd(s, n)
      BY <1>1 DEF Past, block
    <3>3. block[1] = BlockAt(s)
      BY DEF block
    <3>4. ASSUME i # 1
          PROVE  /\ t.allocs[i - 1] = s.allocs[k]
                 /\ Past(s.allocs[k]) <= s.heap_cursor /\ Past(s.allocs[k]) \in Nat
      <4>1. k \in 1 .. k /\ i - 1 = k
        BY <2>2, <3>4, <1>2
      <4>2. s.allocs[k] \in Nat \X Nat /\ Past(s.allocs[k]) <= s.heap_cursor
        BY <4>1, <1>8 DEF Laid, k
      <4> QED BY <4>1, <4>2, <1>7 DEF Past, Larger
    <3>5. BlockAt(s) >= (IF i = 1 THEN HeapBase ELSE Past(t.allocs[i - 1]))
      BY <3>4, <1>1, <1>2 DEF Heap
    <3>6. t.allocs[i][1] = BlockAt(s) /\ Past(t.allocs[i]) = t.heap_cursor
      BY <3>1, <3>2, <3>3, <1>5
    <3>7. t.heap_cursor \in Nat
      BY <1>1, <1>2, <1>5
    <3>8. Past(t.allocs[i]) <= t.heap_cursor
      BY <3>6, <3>7
    <3>9. BlockAt(s) >= HeapBase
      BY <1>1, <1>2 DEF Heap
    <3> QED BY <3>5, <3>6, <3>8, <3>9, <1>1
  <2> QED BY <2>1, <2>2, <1>2
<1>10. Laid(t)
  BY <1>5, <1>7, <1>9 DEF Laid
<1>11. t.heap_high >= BlockAt(s) + n
  BY <1>1, <1>2, <1>5 DEF Larger, Heap
<1>12. t.heap_high >= s.heap_high
  BY <1>1, <1>2, <1>5 DEF Heap
<1> QED BY <1>2, <1>5, <1>6, <1>7, <1>10, <1>11, <1>12 DEF t, k

-----------------------------------------------------------------------------
(* The methods of MachineState that keep its types and its blocks.         *)

\* reset_heap empties the heap, and since everything marked or written lies
\* below heap_high, nothing of it survives.
LEMMA ResetFacts ==
  ASSUME NEW s \in StateType, NEW w, NEW m \in [Heap -> Values],
         Below(s, w), Zeros(m, w)
  PROVE  /\ Reset(s) \in StateType /\ Laid(Reset(s))
         /\ Reset(s).capturing = s.capturing
         /\ \A a \in Heap : ~ Reset(s).reads[a] /\ ~ Reset(s).plains[a]
         /\ ClearedMem(s, m) = Zeroed
<1>1. /\ HeapBase \in Nat \ {0} /\ HeapEnd \in Nat /\ HeapBase \in 0 .. AddrMod - 1
      /\ HeapBase \in HeapBase .. HeapEnd /\ 0 \in Values
      /\ s.heap_high \in HeapBase .. HeapEnd
  BY HeapAssumption DEF HeapEnd, StateType
<1>2. <<>> \in Seq(Nat \X Nat) /\ Len(<<>>) = 0
  OBVIOUS
<1>3. /\ Reset(s).heap_cursor = HeapBase /\ Reset(s).heap_high = HeapBase
      /\ Reset(s).allocs = <<>> /\ Reset(s).capturing = s.capturing
      /\ Reset(s).plain = [a \in Heap |-> IF a \in Used(s) THEN 0 ELSE s.plain[a]]
      /\ Reset(s).reads = [a \in Heap |-> a \notin Used(s) /\ s.reads[a]]
      /\ Reset(s).plains = [a \in Heap |-> a \notin Used(s) /\ s.plains[a]]
  BY DEF Reset, StateType
<1>4. Reset(s) \in StateType
  <2>1. [a \in Heap |-> IF a \in Used(s) THEN 0 ELSE s.plain[a]] \in [Heap -> Values]
    BY <1>1 DEF StateType
  <2>2. [a \in Heap |-> a \notin Used(s) /\ s.reads[a]] \in [Heap -> BOOLEAN]
    OBVIOUS
  <2>3. [a \in Heap |-> a \notin Used(s) /\ s.plains[a]] \in [Heap -> BOOLEAN]
    OBVIOUS
  <2> QED BY <2>1, <2>2, <2>3, <1>1, <1>2 DEF Reset, StateType
<1>5. Laid(Reset(s))
  BY <1>1, <1>2, <1>3 DEF Laid
<1>6. \A a \in Heap : a < s.heap_high => a \in Used(s)
  BY <1>1 DEF Heap, Used
<1>7. \A a \in Heap : ~ Reset(s).reads[a] /\ ~ Reset(s).plains[a]
  BY <1>3, <1>6 DEF Below
<1>8. \A a \in Heap : a \notin Used(s) => m[a] = 0
  BY <1>6 DEF Below, Zeros
<1>9. ClearedMem(s, m) = Zeroed
  BY <1>8 DEF ClearedMem, Zeroed
<1> QED BY <1>3, <1>4, <1>5, <1>7, <1>9

\* A read marks its bytes as read.
LEMMA OnReadMarks ==
  ASSUME NEW s \in StateType, NEW a, NEW n
  PROVE  OnRead(s, a, n).reads = [b \in Heap |-> b \in Touched(a, n) \/ s.reads[b]]
BY DEF OnRead, StateType

\* It changes nothing else.
LEMMA OnReadFacts ==
  ASSUME NEW s \in StateType, NEW a, NEW n
  PROVE  /\ OnRead(s, a, n) \in StateType
         /\ OnRead(s, a, n).plains = s.plains /\ OnRead(s, a, n).plain = s.plain
         /\ OnRead(s, a, n).capturing = s.capturing
         /\ OnRead(s, a, n).heap_cursor = s.heap_cursor
         /\ OnRead(s, a, n).heap_high = s.heap_high
         /\ OnRead(s, a, n).allocs = s.allocs
<1>1. [b \in Heap |-> b \in Touched(a, n) \/ s.reads[b]] \in [Heap -> BOOLEAN]
  BY DEF StateType
<1> QED BY <1>1 DEF OnRead, StateType

\* A write unmarks its bytes as read; unless it is the masking of a byte that
\* was read, it records its value in each of them.
LEMMA OnWriteFacts ==
  ASSUME NEW s \in StateType, NEW a, NEW n, NEW v \in Values
  PROVE  /\ OnWrite(s, a, n, v) \in StateType
         /\ \A b \in Heap :
              /\ OnWrite(s, a, n, v).reads[b] <=> b \notin Touched(a, n) /\ s.reads[b]
              /\ ObfuscationPass(s, a, n) \/ b \notin Touched(a, n) =>
                   /\ OnWrite(s, a, n, v).plains[b] = s.plains[b]
                   /\ OnWrite(s, a, n, v).plain[b] = s.plain[b]
              /\ ~ ObfuscationPass(s, a, n) /\ b \in Touched(a, n) =>
                   /\ OnWrite(s, a, n, v).plains[b]
                   /\ OnWrite(s, a, n, v).plain[b] = v
         /\ OnWrite(s, a, n, v).capturing = s.capturing
         /\ OnWrite(s, a, n, v).heap_cursor = s.heap_cursor
         /\ OnWrite(s, a, n, v).heap_high = s.heap_high
         /\ OnWrite(s, a, n, v).allocs = s.allocs
<1> DEFINE reads == [b \in Heap |-> b \notin Touched(a, n) /\ s.reads[b]]
           plain == [b \in Heap |-> IF b \in Touched(a, n) THEN v ELSE s.plain[b]]
           plains == [b \in Heap |-> b \in Touched(a, n) \/ s.plains[b]]
           t == [s EXCEPT !.reads = reads]
<1>1. /\ reads \in [Heap -> BOOLEAN] /\ plains \in [Heap -> BOOLEAN]
      /\ plain \in [Heap -> Values]
  BY DEF StateType
<1>2. /\ \A b \in Heap : reads[b] <=> b \notin Touched(a, n) /\ s.reads[b]
      /\ \A b \in Heap : b \in Touched(a, n) => plains[b] /\ plain[b] = v
      /\ \A b \in Heap : b \notin Touched(a, n) => plains[b] = s.plains[b] /\ plain[b] = s.plain[b]
  BY DEF StateType
<1>3. OnWrite(s, a, n, v) = IF ObfuscationPass(s, a, n) THEN t
                            ELSE [t EXCEPT !.plain = plain, !.plains = plains]
  BY DEF OnWrite
<1> HIDE DEF reads, plain, plains
<1>4. CASE ObfuscationPass(s, a, n)
  BY <1>1, <1>2, <1>3, <1>4 DEF StateType
<1>5. CASE ~ ObfuscationPass(s, a, n)
  <2>1. OnWrite(s, a, n, v) = [s EXCEPT !.reads = reads, !.plain = plain, !.plains = plains]
    BY <1>3, <1>5
  <2> QED BY <2>1, <1>1, <1>2, <1>5 DEF StateType
<1> QED BY <1>4, <1>5

-----------------------------------------------------------------------------
(* One lemma per step of decode.                                           *)

\* TypeOK in terms of StateType.
LEMMA Types ==
  TypeOK <=>
    /\ st \in StateType /\ mem \in [Heap -> Values]
    /\ pc \in {"idle", "factory", "ready", "deserialize"}
    /\ obj \in Heap \cup {Null} /\ buf \in Heap \cup {Null}
    /\ scaffolding \in 0 .. Len(st.allocs)
    /\ budget \in 0 .. InstructionLimit
    /\ held \in SUBSET Heap /\ wrote \in SUBSET Heap
    /\ stored \in [Heap -> Values \cup {Null}]
    /\ result.status \in Statuses \cup {"none", "no-class", "error"}
BY DEF TypeOK, StateType

\* The number of blocks is a number.
LEMMA CountFacts == ASSUME NEW s \in StateType PROVE Len(s.allocs) \in Nat
BY DEF StateType

\* A new machine has nothing on its heap.
LEMMA InitIInv == Init => IInv
<1> SUFFICES ASSUME Init PROVE IInv
  OBVIOUS
<1> USE DEF Init
<1>1. /\ HeapBase \in Nat \ {0} /\ HeapEnd \in Nat /\ HeapBase \in 0 .. AddrMod - 1
      /\ HeapBase \in HeapBase .. HeapEnd /\ 0 \in Values
  BY HeapAssumption DEF HeapEnd
<1>2. <<>> \in Seq(Nat \X Nat) /\ Len(<<>>) = 0
  OBVIOUS
<1>3. Zeroed \in [Heap -> Values] /\ Unmarked \in [Heap -> BOOLEAN]
  BY <1>1 DEF Zeroed, Unmarked
<1>4. st \in StateType /\ Len(st.allocs) = 0
  BY <1>1, <1>2, <1>3 DEF NewState, StateType
<1>5. TypeOK
  <2>1. 0 \in 0 .. InstructionLimit
    BY SizeAssumption
  <2>2. result.status = "none"
    BY DEF NoResult
  <2> QED BY <1>3, <1>4, <2>1, <2>2, Types
<1>6. Laid(st)
  BY <1>4 DEF Laid, NewState
<1>7. Marks(st, held, stored) /\ Below(st, wrote) /\ Zeros(mem, wrote)
  BY DEF Marks, Below, Zeros, NewState, Unmarked, Zeroed
<1>8. st.capturing = FALSE /\ pc = "idle" /\ Result
  BY DEF NewState, Result, NoResult, Statuses
<1> QED BY <1>5, <1>6, <1>7, <1>8 DEF IInv

\* A decode begins on an empty heap, whatever the one before has left.
LEMMA BeginStep == ASSUME IInv, NEW known \in BOOLEAN, Begin(known) PROVE IInv'
<1> DEFINE s == Reset(st)
<1>1. /\ st \in StateType /\ mem \in [Heap -> Values]
      /\ Below(st, wrote) /\ Zeros(mem, wrote) /\ st.capturing = FALSE
  BY Types DEF IInv, Begin
<1>2. /\ s \in StateType /\ Laid(s) /\ s.capturing = FALSE
      /\ \A a \in Heap : ~ s.reads[a] /\ ~ s.plains[a]
      /\ ClearedMem(st, mem) = Zeroed
  BY <1>1, ResetFacts
<1>3. Fits(s, OutSize) /\ OutSize \in Sizes
  BY DEF Begin, Sizes
<1> HIDE DEF s
<1>4. /\ Allocated(s, OutSize) \in StateType /\ Laid(Allocated(s, OutSize))
      /\ Allocated(s, OutSize).reads = s.reads
      /\ Allocated(s, OutSize).plains = s.plains
      /\ Allocated(s, OutSize).capturing = FALSE
  BY <1>2, <1>3, AllocatedFacts
<1>5. /\ st' = Allocated(s, OutSize) /\ mem' = Zeroed
      /\ pc' \in {"factory", "idle"} /\ result'.status \in {"none", "no-class"}
      /\ obj' = Null /\ buf' = Null /\ scaffolding' = 0
      /\ budget' = InstructionLimit /\ held' = {} /\ wrote' = {}
      /\ stored' = [a \in Heap |-> Null]
  BY <1>2 DEF Begin, s, NoResult
<1>6. TypeOK'
  <2>1. Zeroed \in [Heap -> Values]
    BY HeapAssumption DEF Zeroed
  <2>2. InstructionLimit \in 0 .. InstructionLimit
    BY SizeAssumption
  <2>3. 0 \in 0 .. Len(st'.allocs)
    BY <1>4, <1>5, CountFacts
  <2>4. stored' \in [Heap -> Values \cup {Null}]
    BY <1>5
  <2> QED BY <2>1, <2>2, <2>3, <2>4, <1>4, <1>5 DEF TypeOK, StateType
<1>7. Marks(st', held', stored') /\ Below(st', wrote') /\ Zeros(mem', wrote')
  BY <1>2, <1>4, <1>5 DEF Marks, Below, Zeros, Zeroed
<1>8. Result' /\ (st'.capturing <=> pc' = "deserialize")
  BY <1>4, <1>5 DEF Result, Statuses
<1>9. HeapBase + OutSize <= st'.heap_high
  <2>1. HeapBase \in Nat /\ OutSize \in Nat /\ HeapBase <= BlockAt(s)
        /\ BlockAt(s) \in Nat
    BY <1>2, <1>3, AllocFacts, HeapAssumption, SizeAssumption DEF Heap, HeapEnd, Laid
  <2>2. st'.heap_high \in Nat
    BY <1>4, <1>5, HeapAssumption DEF StateType, HeapEnd
  <2>3. st'.heap_high >= BlockAt(s) + OutSize
    BY <1>2, <1>3, <1>5, AllocatedFacts
  <2> QED BY <2>1, <2>2, <2>3
<1> QED BY <1>4, <1>5, <1>6, <1>7, <1>8, <1>9 DEF IInv

\* The heap's bounds are numbers.
LEMMA BoundFacts ==
  ASSUME NEW s \in StateType, Laid(s)
  PROVE  /\ HeapBase \in Nat \ {0} /\ HeapEnd \in Nat
         /\ s.heap_high \in Nat /\ s.heap_high \in HeapBase .. HeapEnd
         /\ s.heap_cursor = s.heap_high
BY HeapAssumption DEF HeapEnd, StateType, Laid

\* An access inside one of the blocks lies below heap_high.
LEMMA WithinFacts ==
  ASSUME st \in StateType, Laid(st), NEW blocks \in SUBSET (1 .. Len(st.allocs)),
         NEW a \in Heap, NEW n \in Nat, Within(a, n, blocks)
  PROVE  \A b \in Touched(a, n) : b < st.heap_high
<1>1. PICK i \in blocks : a + n <= st.allocs[i][1] + st.allocs[i][2]
  BY DEF Within
<1>2. i \in 1 .. Len(st.allocs) /\ st.allocs[i] \in Nat \X Nat
  BY DEF StateType
<1>3. Past(st.allocs[i]) <= st.heap_high /\ st.heap_high \in Nat
  BY <1>2, BoundFacts DEF Laid
<1>4. /\ st.allocs[i][1] + st.allocs[i][2] <= Past(st.allocs[i])
      /\ st.allocs[i][1] + st.allocs[i][2] \in Nat /\ Past(st.allocs[i]) \in Nat
  BY <1>2 DEF Past, Larger
<1>5. a \in Nat /\ a + n <= st.heap_high
  BY <1>1, <1>3, <1>4, BoundFacts DEF Heap
<1> QED BY <1>3, <1>5, BoundFacts DEF Touched, Heap

\* The bytes of an access that ends before h lie below h.
LEMMA TouchedBelow ==
  ASSUME NEW a \in Nat, NEW n \in Nat, NEW h \in Nat, h >= a + n
  PROVE  \A b \in Touched(a, n) : b < h
BY DEF Touched

\* A store writes its own bytes.
LEMMA StoredFacts ==
  ASSUME NEW m \in [Heap -> Values], NEW w \in SUBSET Heap, Zeros(m, w),
         NEW a, NEW n, NEW v \in Values
  PROVE  /\ Stored(m, a, n, v) \in [Heap -> Values]
         /\ w \cup Touched(a, n) \in SUBSET Heap
         /\ Zeros(Stored(m, a, n, v), w \cup Touched(a, n))
BY DEF Stored, Touched, Zeros

\* The factory's object is a block of the heap.
LEMMA FactoryReturnsStep == ASSUME IInv, FactoryReturns PROVE IInv'
<1> DEFINE k == Len(st.allocs)
<1>1. /\ st \in StateType /\ Laid(st) /\ k \in Nat /\ 1 < k
      /\ mem \in [Heap -> Values] /\ wrote \in SUBSET Heap
      /\ pc = "factory" /\ st.capturing = FALSE
      /\ HeapBase + OutSize <= st.heap_high
      /\ Marks(st, held, stored) /\ Below(st, wrote) /\ Zeros(mem, wrote)
  BY Types, CountFacts DEF IInv, FactoryReturns
<1>2. /\ HeapBase \in Nat \ {0} /\ HeapEnd \in Nat
      /\ st.heap_high \in HeapBase .. HeapEnd /\ st.heap_cursor = st.heap_high
  BY <1>1, BoundFacts
<1>3. st.allocs[k][1] \in Heap
  <2>1. k \in 1 .. k
    BY <1>1
  <2>2. st.allocs[k] \in Nat \X Nat
    BY <2>1, <1>1 DEF StateType
  <2>3. st.allocs[k][1] >= HeapBase /\ Past(st.allocs[k]) <= st.heap_cursor
    BY <2>1, <1>1 DEF Laid
  <2>4. st.allocs[k][1] < Past(st.allocs[k]) /\ Past(st.allocs[k]) \in Nat
    BY <2>2 DEF Past, Larger
  <2> QED BY <2>2, <2>3, <2>4, <1>2 DEF Heap
<1>4. /\ st' = st /\ pc' = "ready" /\ obj' \in Heap /\ buf' = buf
      /\ mem' = Stored(mem, HeapBase, OutSize, Masked)
      /\ wrote' = wrote \cup Touched(HeapBase, OutSize)
      /\ scaffolding' = scaffolding /\ budget' = budget /\ held' = held
      /\ stored' = stored /\ result' = result
  BY <1>3 DEF FactoryReturns
<1>5. /\ mem' \in [Heap -> Values] /\ wrote' \in SUBSET Heap
      /\ Zeros(mem', wrote')
  BY <1>1, <1>4, SizeAssumption, StoredFacts
<1>6. \A b \in Touched(HeapBase, OutSize) : b < st.heap_high
  BY <1>1, <1>2, SizeAssumption DEF Touched, Heap
<1>7. Below(st', wrote')
  BY <1>1, <1>4, <1>6 DEF Below
<1>8. TypeOK'
  BY <1>1, <1>4, <1>5, Types DEF IInv, TypeOK
<1> QED BY <1>1, <1>4, <1>5, <1>7, <1>8 DEF IInv, Result

\* Two blocks more, and capture is on.
LEMMA CallStep == ASSUME IInv, NEW n \in StreamSizes, Call(n) PROVE IInv'
<1> DEFINE s1 == Allocated(st, n)
           s2 == Allocated(s1, CurSize)
           m1 == Stored(mem, BlockAt(st), n, Masked)
           w1 == wrote \cup Touched(BlockAt(st), n)
<1>1. /\ st \in StateType /\ Laid(st) /\ mem \in [Heap -> Values]
      /\ wrote \in SUBSET Heap /\ pc = "ready"
      /\ Marks(st, held, stored) /\ Below(st, wrote) /\ Zeros(mem, wrote)
  BY Types DEF IInv, Call
<1>2. /\ Fits(st, n) /\ Fits(s1, CurSize) /\ n \in Sizes /\ CurSize \in Sizes
      /\ n \in Nat /\ CurSize \in Nat /\ Masked \in Values /\ InstructionLimit \in Nat
  BY SizeAssumption DEF Call, Sizes
<1>3. /\ s1 \in StateType /\ Laid(s1) /\ s1.heap_high >= st.heap_high
      /\ s1.heap_high >= BlockAt(st) + n
      /\ s1.reads = st.reads /\ s1.plains = st.plains /\ s1.plain = st.plain
      /\ BlockAt(st) \in Heap
  BY <1>1, <1>2, AllocatedFacts, AllocFacts DEF Laid
<1> HIDE DEF s1
<1>4. /\ s2 \in StateType /\ Laid(s2) /\ s2.heap_high >= s1.heap_high
      /\ s2.heap_high >= BlockAt(s1) + CurSize
      /\ s2.reads = s1.reads /\ s2.plains = s1.plains /\ s2.plain = s1.plain
      /\ BlockAt(s1) \in Heap /\ Len(s2.allocs) \in Nat
  BY <1>2, <1>3, AllocatedFacts, AllocFacts, CountFacts DEF Laid
<1> HIDE DEF s2
<1>5. /\ st' = [s2 EXCEPT !.capturing = TRUE]
      /\ mem' = Stored(m1, BlockAt(s1), CurSize, Masked)
      /\ wrote' = w1 \cup Touched(BlockAt(s1), CurSize)
      /\ buf' = BlockAt(st) /\ pc' = "deserialize" /\ budget' = InstructionLimit
      /\ scaffolding' = Len(s2.allocs)
      /\ obj' = obj /\ held' = held /\ stored' = stored /\ result' = result
  BY DEF Call, s1, s2
<1>6. /\ st' \in StateType /\ st'.capturing = TRUE
      /\ st'.reads = st.reads /\ st'.plains = st.plains /\ st'.plain = st.plain
      /\ st'.heap_cursor = s2.heap_cursor /\ st'.heap_high = s2.heap_high
      /\ st'.allocs = s2.allocs
  BY <1>3, <1>4, <1>5 DEF StateType
<1>7. Laid(st')
  BY <1>4, <1>6 DEF Laid
<1>8. m1 \in [Heap -> Values] /\ w1 \in SUBSET Heap /\ Zeros(m1, w1)
  BY <1>1, <1>2, StoredFacts
<1> HIDE DEF m1
<1>9. mem' \in [Heap -> Values] /\ wrote' \in SUBSET Heap /\ Zeros(mem', wrote')
  <2> HIDE DEF w1
  <2> QED BY <1>2, <1>5, <1>8, StoredFacts
<1>10. Below(st', wrote')
  <2>1. /\ st.heap_high \in Nat /\ s1.heap_high \in Nat /\ s2.heap_high \in Nat
        /\ Heap \subseteq Nat
    BY <1>1, <1>3, <1>4, BoundFacts DEF Heap
  <2>2. \A b \in Touched(BlockAt(st), n) : b < s2.heap_high
    <3>1. BlockAt(st) \in Nat /\ n \in Nat
      BY <2>1, <1>2, <1>3
    <3>2. s2.heap_high >= s1.heap_high /\ s1.heap_high >= BlockAt(st) + n
      BY <1>3, <1>4
    <3>3. s2.heap_high >= BlockAt(st) + n
      BY <3>1, <3>2, <2>1
    <3> QED BY <3>1, <3>3, <2>1, TouchedBelow
  <2>3. \A b \in Touched(BlockAt(s1), CurSize) : b < s2.heap_high
    <3>1. BlockAt(s1) \in Nat
      BY <2>1, <1>4
    <3> QED BY <3>1, <2>1, <1>2, <1>4, TouchedBelow
  <2>4. \A b \in Heap : b < st.heap_high => b < s2.heap_high
    BY <2>1, <1>3, <1>4
  <2> QED BY <2>2, <2>3, <2>4, <1>1, <1>5, <1>6 DEF Below
<1>11. TypeOK'
  <2>1. scaffolding' \in 0 .. Len(st'.allocs) /\ budget' \in 0 .. InstructionLimit
    BY <1>2, <1>4, <1>5, <1>6
  <2> QED BY <2>1, <1>3, <1>5, <1>6, <1>9, Types DEF IInv, TypeOK, StateType
<1>12. Marks(st', held', stored')
  BY <1>1, <1>5, <1>6 DEF Marks
<1> QED BY <1>5, <1>6, <1>7, <1>9, <1>10, <1>11, <1>12 DEF IInv, Result

\* A decode that ends before the deserializer is called has no view.
LEMMA EarlyEndStep ==
  ASSUME IInv, NoClass \/ \E n \in StreamSizes : Exhausted(n)
  PROVE  IInv'
<1>1. /\ st \in StateType /\ Laid(st) /\ st.capturing = FALSE
      /\ Marks(st, held, stored) /\ Below(st, wrote) /\ Zeros(mem, wrote)
      /\ Len(st.allocs) \in Nat
  BY Types, CountFacts DEF IInv, NoClass, Exhausted
<1>2. /\ pc' = "idle" /\ result'.status \in {"no-class", "error"}
      /\ mem' = mem /\ obj' = obj /\ buf' = buf /\ scaffolding' = scaffolding
      /\ budget' = budget /\ held' = held /\ stored' = stored /\ wrote' = wrote
  BY DEF NoClass, Exhausted, NoResult, machineVars, frame, guestVars
<1>3. /\ st' \in StateType /\ Laid(st') /\ st'.capturing = FALSE
      /\ st'.reads = st.reads /\ st'.plains = st.plains /\ st'.plain = st.plain
      /\ st'.heap_high >= st.heap_high
      /\ Len(st'.allocs) \in Nat /\ Len(st'.allocs) >= Len(st.allocs)
  <2>1. CASE st' = st
    BY <2>1, <1>1, BoundFacts
  <2>2. CASE \E n \in StreamSizes : Fits(st, n) /\ st' = Allocated(st, n)
    <3>1. PICK n \in StreamSizes : Fits(st, n) /\ st' = Allocated(st, n)
      BY <2>2
    <3>2. n \in Sizes
      BY DEF Sizes
    <3>3. /\ Allocated(st, n) \in StateType /\ Laid(Allocated(st, n))
          /\ Allocated(st, n).heap_high >= st.heap_high
          /\ Allocated(st, n).reads = st.reads /\ Allocated(st, n).plains = st.plains
          /\ Allocated(st, n).plain = st.plain /\ Allocated(st, n).capturing = FALSE
          /\ Len(Allocated(st, n).allocs) = Len(st.allocs) + 1
      BY <3>1, <3>2, <1>1, AllocatedFacts
    <3> QED BY <3>1, <3>3, <1>1
  <2>3. st' = st \/ \E n \in StreamSizes : Fits(st, n) /\ st' = Allocated(st, n)
    BY DEF NoClass, Exhausted, machineVars
  <2> QED BY <2>1, <2>2, <2>3
<1>4. Below(st', wrote')
  <2>1. /\ st.heap_high \in Nat /\ st'.heap_high \in Nat /\ Heap \subseteq Nat
    BY <1>1, <1>3, BoundFacts DEF Heap
  <2> QED BY <2>1, <1>1, <1>2, <1>3 DEF Below
<1>5. scaffolding' \in 0 .. Len(st'.allocs)
  BY <1>1, <1>2, <1>3 DEF IInv, TypeOK
<1>6. TypeOK'
  BY <1>2, <1>3, <1>5, Types DEF IInv, TypeOK, StateType
<1>7. Marks(st', held', stored') /\ Zeros(mem', wrote')
  BY <1>1, <1>2, <1>3 DEF Marks
<1>8. Result'
  BY <1>2 DEF Result, Statuses
<1> QED BY <1>2, <1>3, <1>4, <1>6, <1>7, <1>8 DEF IInv

\* The view is taken as the heap and the marks stand.
LEMMA FinishStep == ASSUME IInv, NEW status \in Statuses, Finish(status) PROVE IInv'
<1>1. /\ st \in StateType /\ Laid(st)
      /\ Marks(st, held, stored) /\ Below(st, wrote) /\ Zeros(mem, wrote)
  BY Types DEF IInv
<1>2. /\ st' = [st EXCEPT !.capturing = FALSE] /\ pc' = "idle"
      /\ result'.status = status /\ result'.memory = PlaintextHeap(st, mem)
      /\ mem' = mem /\ obj' = obj /\ buf' = buf /\ scaffolding' = scaffolding
      /\ budget' = budget /\ held' = held /\ stored' = stored /\ wrote' = wrote
  BY DEF Finish, frame, guestVars
<1>3. /\ st' \in StateType /\ st'.capturing = FALSE
      /\ st'.reads = st.reads /\ st'.plains = st.plains /\ st'.plain = st.plain
      /\ st'.heap_cursor = st.heap_cursor /\ st'.heap_high = st.heap_high
      /\ st'.allocs = st.allocs
  BY <1>1, <1>2 DEF StateType
<1>4. TypeOK'
  BY <1>2, <1>3, Types DEF IInv, TypeOK, StateType
<1>5. /\ Laid(st') /\ Marks(st', held', stored')
      /\ Below(st', wrote') /\ Zeros(mem', wrote')
  BY <1>1, <1>2, <1>3 DEF Laid, Marks, Below
<1>6. PlaintextHeap(st', mem') = PlaintextHeap(st, mem)
  BY <1>2, <1>3 DEF PlaintextHeap
<1> QED BY <1>2, <1>3, <1>4, <1>5, <1>6 DEF IInv, Result

-----------------------------------------------------------------------------
(* One lemma per step of the game's code.                                  *)

\* A block more.
LEMMA GuestAllocStep == ASSUME IInv, NEW n \in GuestSizes, GuestAlloc(n) PROVE IInv'
<1>1. /\ st \in StateType /\ Laid(st) /\ Len(st.allocs) \in Nat
      /\ Marks(st, held, stored) /\ Below(st, wrote) /\ Zeros(mem, wrote)
      /\ pc \in {"factory", "deserialize"} /\ budget \in 0 .. InstructionLimit
      /\ scaffolding \in 0 .. Len(st.allocs)
  BY Types, CountFacts DEF IInv, GuestAlloc, GuestStep
<1>2. Fits(st, n) /\ n \in Sizes
  BY DEF GuestAlloc, Sizes
<1>3. /\ st' = Allocated(st, n) /\ pc' = pc /\ result' = result
      /\ mem' = mem /\ obj' = obj /\ buf' = buf /\ scaffolding' = scaffolding
      /\ held' = held /\ stored' = stored /\ wrote' = wrote
  BY DEF GuestAlloc, frame
<1>4. /\ st' \in StateType /\ Laid(st') /\ st'.capturing = st.capturing
      /\ st'.reads = st.reads /\ st'.plains = st.plains /\ st'.plain = st.plain
      /\ st'.heap_high >= st.heap_high
      /\ Len(st'.allocs) = Len(st.allocs) + 1
  BY <1>1, <1>2, <1>3, AllocatedFacts
<1>5. budget' \in 0 .. InstructionLimit /\ scaffolding' \in 0 .. Len(st'.allocs)
  BY <1>1, <1>3, <1>4, SizeAssumption DEF GuestAlloc, GuestStep
<1>6. TypeOK'
  BY <1>3, <1>4, <1>5, Types DEF IInv, TypeOK, StateType
<1>7. /\ st.heap_high \in Nat /\ st'.heap_high \in Nat /\ Heap \subseteq Nat
      /\ HeapBase + OutSize \in Nat
  BY <1>1, <1>4, BoundFacts, SizeAssumption DEF Heap
<1>8. Below(st', wrote') /\ Marks(st', held', stored') /\ Zeros(mem', wrote')
  <2>1. Marks(st', held', stored')
    BY <1>1, <1>3, <1>4 DEF Marks
  <2>2. Zeros(mem', wrote')
    BY <1>1, <1>3
  <2>3. ASSUME NEW a \in Heap
        PROVE  /\ a \in wrote' \/ st'.reads[a] => a < st'.heap_high
               /\ st'.plains[a] => a \in wrote'
    <3>1. /\ a \in wrote \/ st.reads[a] => a < st.heap_high
          /\ st.plains[a] => a \in wrote
      BY <1>1 DEF Below
    <3>2. a < st.heap_high => a < st'.heap_high
      BY <1>4, <1>7
    <3> QED BY <1>3, <1>4, <3>1, <3>2
  <2> QED BY <2>1, <2>2, <2>3 DEF Below
<1>9. pc' = "factory" => HeapBase + OutSize <= st'.heap_high
  BY <1>3, <1>4, <1>7 DEF IInv
<1>10. Result'
  BY <1>1, <1>3 DEF Result
<1> QED BY <1>3, <1>4, <1>6, <1>8, <1>9, <1>10 DEF IInv

\* What the deserializer reads, it holds.
LEMMA GuestReadStep ==
  ASSUME IInv, NEW a \in Heap, NEW n \in FieldWidths, GuestRead(a, n)
  PROVE  IInv'
<1>1. /\ st \in StateType /\ Laid(st)
      /\ Marks(st, held, stored) /\ Below(st, wrote) /\ Zeros(mem, wrote)
      /\ pc \in {"factory", "deserialize"} /\ budget \in 0 .. InstructionLimit
      /\ scaffolding \in 0 .. Len(st.allocs) /\ held \in SUBSET Heap
      /\ st.capturing <=> pc = "deserialize"
      /\ n \in Nat /\ InstructionLimit \in Nat
  BY Types, SizeAssumption DEF IInv, GuestRead, GuestStep
<1>2. /\ st' = IF pc = "deserialize" THEN OnRead(st, a, n) ELSE st
      /\ held' = IF pc = "deserialize" THEN held \cup Touched(a, n) ELSE held
      /\ budget' = budget - 1 /\ budget > 0
      /\ pc' = pc /\ result' = result /\ mem' = mem /\ obj' = obj /\ buf' = buf
      /\ scaffolding' = scaffolding /\ stored' = stored /\ wrote' = wrote
  BY <1>1 DEF GuestRead, GuestStep, Capturing, frame
<1>3. /\ st' \in StateType /\ st'.capturing = st.capturing
      /\ st'.plains = st.plains /\ st'.plain = st.plain
      /\ st'.heap_cursor = st.heap_cursor /\ st'.heap_high = st.heap_high
      /\ st'.allocs = st.allocs
  <2>1. CASE pc = "deserialize"
    <3>1. st' = OnRead(st, a, n)
      BY <2>1, <1>2
    <3>2. /\ OnRead(st, a, n) \in StateType
          /\ OnRead(st, a, n).plains = st.plains /\ OnRead(st, a, n).plain = st.plain
          /\ OnRead(st, a, n).capturing = st.capturing
          /\ OnRead(st, a, n).heap_cursor = st.heap_cursor
          /\ OnRead(st, a, n).heap_high = st.heap_high
          /\ OnRead(st, a, n).allocs = st.allocs
      BY <1>1, OnReadFacts
    <3> QED BY <3>1, <3>2
  <2>2. CASE pc # "deserialize"
    BY <2>2, <1>1, <1>2
  <2> QED BY <2>1, <2>2
<1>4. \A b \in Touched(a, n) : b < st.heap_high
  <2> DEFINE blocks == 1 .. Len(st.allocs)
  <2>1. Within(a, n, blocks) /\ blocks \in SUBSET (1 .. Len(st.allocs))
    BY DEF GuestRead
  <2> HIDE DEF blocks
  <2> QED BY <2>1, <1>1, WithinFacts
<1>5. /\ \A b \in Heap : st'.reads[b] <=> b \in held'
      /\ \A b \in Heap : st'.reads[b] => st.reads[b] \/ b \in Touched(a, n)
  <2>1. CASE pc = "deserialize"
    <3>1. st'.reads = [b \in Heap |-> b \in Touched(a, n) \/ st.reads[b]]
      <4>1. OnRead(st, a, n).reads = [b \in Heap |-> b \in Touched(a, n) \/ st.reads[b]]
        BY <1>1, OnReadMarks
      <4> QED BY <4>1, <2>1, <1>2
    <3>2. \A b \in Heap : st'.reads[b] <=> b \in Touched(a, n) \/ st.reads[b]
      BY <3>1
    <3>3. held' = held \cup Touched(a, n)
      BY <2>1, <1>2
    <3> QED BY <3>2, <3>3, <1>1 DEF Marks
  <2>2. CASE pc # "deserialize"
    BY <2>2, <1>1, <1>2 DEF Marks
  <2> QED BY <2>1, <2>2
<1>6. TypeOK'
  <2>1. budget' \in 0 .. InstructionLimit /\ held' \in SUBSET Heap
    BY <1>1, <1>2 DEF Touched
  <2> QED BY <2>1, <1>2, <1>3, Types DEF IInv, TypeOK, StateType
<1>7. Below(st', wrote')
  BY <1>1, <1>2, <1>3, <1>4, <1>5 DEF Below
<1>8. Marks(st', held', stored')
  BY <1>1, <1>2, <1>3, <1>5 DEF Marks
<1>9. Laid(st')
  BY <1>1, <1>3 DEF Laid
<1>10. Result'
  BY <1>1, <1>2 DEF Result
<1> QED BY <1>1, <1>2, <1>3, <1>6, <1>7, <1>8, <1>9, <1>10 DEF IInv

\* What a write by the game leaves as it was, whichever kind it is.
LEMMA WriteFacts ==
  ASSUME IInv, NEW a \in Heap, NEW n \in Nat, NEW v \in Values,
         GuestStep, Within(a, n, OwnBlocks), Write(a, n, v),
         UNCHANGED <<pc, frame, result>>,
         stored' \in [Heap -> Values \cup {Null}], Marks(st', held', stored')
  PROVE  IInv'
<1>1. /\ st \in StateType /\ Laid(st) /\ mem \in [Heap -> Values]
      /\ Marks(st, held, stored) /\ Below(st, wrote) /\ Zeros(mem, wrote)
      /\ pc \in {"factory", "deserialize"} /\ budget \in 0 .. InstructionLimit
      /\ scaffolding \in 0 .. Len(st.allocs)
      /\ held \in SUBSET Heap /\ wrote \in SUBSET Heap
      /\ InstructionLimit \in Nat
  BY Types, SizeAssumption DEF IInv, GuestStep
<1>2. /\ st' = IF st.capturing THEN OnWrite(st, a, n, v) ELSE st
      /\ mem' = Stored(mem, a, n, v)
      /\ wrote' = wrote \cup Touched(a, n) /\ held' = held \ Touched(a, n)
      /\ budget' = budget - 1 /\ budget > 0
      /\ pc' = pc /\ result' = result /\ obj' = obj /\ buf' = buf
      /\ scaffolding' = scaffolding
  BY DEF Write, GuestStep, Capturing, frame
<1>3. /\ st' \in StateType /\ st'.capturing = st.capturing
      /\ st'.heap_cursor = st.heap_cursor /\ st'.heap_high = st.heap_high
      /\ st'.allocs = st.allocs
      /\ \A b \in Heap : st'.reads[b] => st.reads[b]
      /\ \A b \in Heap : b \notin Touched(a, n) => st'.plains[b] = st.plains[b]
  BY <1>1, <1>2, OnWriteFacts
<1>4. mem' \in [Heap -> Values] /\ wrote' \in SUBSET Heap /\ Zeros(mem', wrote')
  BY <1>1, <1>2, StoredFacts
<1>5. \A b \in Touched(a, n) : b < st.heap_high
  BY <1>1, WithinFacts DEF OwnBlocks
<1>6. TypeOK'
  <2>1. budget' \in 0 .. InstructionLimit /\ held' \in SUBSET Heap
    BY <1>1, <1>2
  <2> QED BY <2>1, <1>2, <1>3, <1>4, Types DEF IInv, TypeOK, StateType
<1>7. Below(st', wrote')
  BY <1>1, <1>2, <1>3, <1>5 DEF Below
<1>8. Laid(st')
  BY <1>1, <1>3 DEF Laid
<1>9. Result'
  BY <1>1, <1>2 DEF Result
<1>10. pc' \in {"factory", "ready"} => held' = {}
  BY <1>2 DEF IInv
<1> QED BY <1>2, <1>3, <1>4, <1>6, <1>7, <1>8, <1>9, <1>10 DEF IInv

\* A store is recorded with its value: the game never stores a lone byte that
\* it holds.
LEMMA StoreFieldStep ==
  ASSUME IInv, NEW a \in Heap, NEW n \in FieldWidths, NEW v \in FieldValues,
         StoreField(a, n, v)
  PROVE  IInv'
<1>1. /\ st \in StateType /\ Marks(st, held, stored)
      /\ pc \in {"factory", "deserialize"}
      /\ st.capturing <=> pc = "deserialize"
      /\ stored \in [Heap -> Values \cup {Null}]
      /\ n \in Nat /\ v \in Values /\ v # Null
  BY Types, SizeAssumption, HeapAssumption DEF IInv, StoreField, GuestStep
<1>2. /\ st' = IF pc = "deserialize" THEN OnWrite(st, a, n, v) ELSE st
      /\ held' = held \ Touched(a, n)
      /\ stored' = IF pc = "deserialize"
                   THEN [b \in Heap |-> IF b \in Touched(a, n) THEN v ELSE stored[b]]
                   ELSE stored
  BY <1>1 DEF StoreField, Write, Capturing
<1>3. stored' \in [Heap -> Values \cup {Null}]
  BY <1>1, <1>2
<1>4. Marks(st', held', stored')
  <2>1. CASE pc = "factory"
    BY <2>1, <1>1, <1>2 DEF IInv
  <2>2. CASE pc = "deserialize"
    <3>1. ~ ObfuscationPass(st, a, n)
      BY <1>1 DEF ObfuscationPass, StoreField, Marks
    <3>2. ASSUME NEW b \in Heap
          PROVE  /\ st'.reads[b] <=> b \in held'
                 /\ st'.plains[b] <=> stored'[b] # Null
                 /\ st'.plains[b] => st'.plain[b] = stored'[b]
      <4>1. /\ st'.reads[b] <=> b \notin Touched(a, n) /\ st.reads[b]
            /\ b \notin Touched(a, n) => /\ st'.plains[b] = st.plains[b]
                                         /\ st'.plain[b] = st.plain[b]
            /\ b \in Touched(a, n) => st'.plains[b] /\ st'.plain[b] = v
        BY <2>2, <3>1, <1>1, <1>2, OnWriteFacts
      <4>2. stored'[b] = IF b \in Touched(a, n) THEN v ELSE stored[b]
        BY <2>2, <1>2
      <4> QED BY <4>1, <4>2, <1>1, <1>2 DEF Marks
    <3> QED BY <3>2 DEF Marks
  <2> QED BY <2>1, <2>2, <1>1
<1> QED BY <1>1, <1>3, <1>4, WriteFacts DEF StoreField

\* The masking of a byte that was read changes no record.
LEMMA MaskByteStep == ASSUME IInv, NEW a \in held, MaskByte(a) PROVE IInv'
<1>1. /\ st \in StateType /\ Marks(st, held, stored)
      /\ pc = "deserialize" /\ st.capturing = TRUE
      /\ a \in Heap /\ Masked \in Values
      /\ stored \in [Heap -> Values \cup {Null}]
  BY Types, SizeAssumption DEF IInv, MaskByte, GuestStep
<1>2. /\ st' = OnWrite(st, a, 1, Masked) /\ held' = held \ Touched(a, 1)
      /\ stored' = stored
  BY <1>1 DEF MaskByte, Write, Capturing
<1>3. ObfuscationPass(st, a, 1)
  BY <1>1 DEF ObfuscationPass, Marks
<1>4. Marks(st', held', stored')
  BY <1>1, <1>2, <1>3, OnWriteFacts DEF Marks
<1> QED BY <1>1, <1>2, <1>4, WriteFacts DEF MaskByte

\* IInv holds in every reachable state.
LEMMA Invariance == Spec => []IInv
<1>1. IInv /\ [Next]_vars => IInv'
  <2> SUFFICES ASSUME IInv, [Next]_vars PROVE IInv'
    OBVIOUS
  <2>1. CASE Host
    BY <2>1, BeginStep, CallStep, EarlyEndStep, FactoryReturnsStep, FinishStep
       DEF Host, Returns
  <2>2. CASE Guest
    BY <2>2, GuestAllocStep, GuestReadStep, StoreFieldStep, MaskByteStep DEF Guest
  <2>3. CASE UNCHANGED vars
    BY <2>3 DEF vars, machineVars, frame, guestVars, IInv, TypeOK, Laid, Marks,
                Below, Zeros, Result, PlaintextHeap
  <2> QED BY <2>1, <2>2, <2>3 DEF Next
<1> QED BY <1>1, InitIInv, PTL DEF Spec

-----------------------------------------------------------------------------
\* For a heap of any size, the decoder's state keeps its types.
THEOREM DecoderTypeCorrect == Spec => []TypeOK
<1>1. IInv => TypeOK
  BY DEF IInv
<1> QED BY <1>1, Invariance, PTL

\* For a heap of any size and any allocation sizes that do not wrap, the bump
\* allocator hands out aligned blocks of the heap that share no byte
\* (machine.rs:74-84).
THEOREM HandsOutBlocksApart == Spec => []BlocksApart
<1>1. IInv => BlocksApart
  <2> SUFFICES ASSUME IInv, NEW i \in 1 .. Len(st.allocs)
               PROVE  Past(st.allocs[i]) <= HeapEnd
    BY DEF BlocksApart, IInv, Laid
  <2>1. st \in StateType /\ Laid(st)
    BY Types DEF IInv
  <2>2. st.allocs[i] \in Nat \X Nat /\ Past(st.allocs[i]) <= st.heap_cursor
    BY <2>1 DEF StateType, Laid
  <2>3. Past(st.allocs[i]) \in Nat
    BY <2>2 DEF Past, Larger
  <2> QED BY <2>1, <2>2, <2>3, BoundFacts
<1> QED BY <1>1, Invariance, PTL

\* For a heap of any size, memory not yet handed out is zero and unmarked, so
\* a reset that stops at heap_high is complete (machine.rs:286-299).
THEOREM FreshMemoryIsZero == Spec => []FreshIsZero
<1>1. IInv => FreshIsZero
  <2> SUFFICES ASSUME IInv, NEW a \in Heap, a >= st.heap_high
               PROVE  mem[a] = 0 /\ ~ st.reads[a] /\ ~ st.plains[a]
    BY DEF FreshIsZero
  <2>1. st.heap_high \in Nat /\ a \in Nat
    BY Types, BoundFacts DEF IInv, Heap
  <2> QED BY <2>1 DEF IInv, Below, Zeros
<1> QED BY <1>1, Invariance, PTL

\* Whatever the game's code does within its habits, for any number of decodes,
\* of any outcome, the view of each holds what its own deserializer stored and
\* nothing of an earlier one (decoder.rs:320-390, machine.rs:286-331).
THEOREM ViewsAreOwn == Spec => []ResultIsOwn
<1>1. IInv => ResultIsOwn
  <2> SUFFICES ASSUME IInv, pc = "idle", result.status \in Statuses
               PROVE  LET view == PlaintextHeap(st, mem)
                          fields == {a \in Heap : stored[a] # Null}
                      IN  /\ view.written = fields
                          /\ \A a \in fields : view.bytes[a] = stored[a]
                          /\ \A a \in DOMAIN view.bytes : a \notin wrote => view.bytes[a] = 0
    BY DEF ResultIsOwn, IInv, Result
  <2>1. /\ st \in StateType /\ Laid(st) /\ Marks(st, held, stored)
        /\ Below(st, wrote) /\ Zeros(mem, wrote)
    BY Types DEF IInv
  <2>2. /\ HeapBase \in Nat /\ st.heap_cursor \in Nat /\ st.heap_cursor <= HeapEnd
        /\ HeapEnd \in Nat /\ st.heap_high = st.heap_cursor
    BY <2>1, BoundFacts
  <2> DEFINE below == HeapBase .. st.heap_cursor - 1
  <2>3. below \subseteq Heap /\ \A a \in Heap : st.plains[a] => a \in below
    BY <2>1, <2>2 DEF Heap, Below
  <2>4. PlaintextHeap(st, mem).written = {a \in below : st.plains[a]}
    BY DEF PlaintextHeap
  <2>5. PlaintextHeap(st, mem).bytes
          = [a \in below |-> IF st.plains[a] THEN st.plain[a] ELSE mem[a]]
    BY DEF PlaintextHeap
  <2> HIDE DEF below
  <2>6. {a \in below : st.plains[a]} = {a \in Heap : stored[a] # Null}
    BY <2>1, <2>3 DEF Marks
  <2>7. ASSUME NEW a \in Heap, stored[a] # Null
        PROVE  PlaintextHeap(st, mem).bytes[a] = stored[a]
    BY <2>7, <2>1, <2>3, <2>5 DEF Marks
  <2>8. ASSUME NEW a \in below, a \notin wrote
        PROVE  PlaintextHeap(st, mem).bytes[a] = 0
    <3>1. mem[a] = 0
      BY <2>8, <2>1, <2>3 DEF Zeros
    <3>2. ~ st.plains[a]
      BY <2>8, <2>1, <2>3 DEF Below
    <3> QED BY <3>1, <3>2, <2>5
  <2> QED BY <2>4, <2>5, <2>6, <2>7, <2>8
<1> QED BY <1>1, Invariance, PTL

-----------------------------------------------------------------------------
(* Net ids: numbers                                                        *)

\* A set of numbers that is not empty has a least one.
LEMMA LeastExists ==
  ASSUME NEW S \in SUBSET Nat, S # {}
  PROVE  \E m \in S : \A n \in S : m <= n
<1>1. \E x \in S : \A y \in S : ~ (<<y, x>> \in OpToRel(<, Nat))
  BY NatLessThanWellFounded, WFMin
<1>2. PICK x \in S : \A y \in S : ~ (<<y, x>> \in OpToRel(<, Nat))
  BY <1>1
<1>3. \A y \in S : ~ (y < x)
  BY <1>2 DEF OpToRel
<1> QED
  BY <1>3

\* A set of numbers that has 0 and with each number the next has them all.
LEMMA CountsUp ==
  ASSUME NEW S \in SUBSET Nat, 0 \in S, \A n \in S : n + 1 \in S
  PROVE  S = Nat
<1> SUFFICES ASSUME NEW z \in Nat \ S PROVE FALSE
  OBVIOUS
<1> DEFINE T == Nat \ S
<1>1. T \in SUBSET Nat /\ T # {}
  OBVIOUS
<1> HIDE DEF T
<1>2. PICK x \in T : \A y \in T : x <= y
  BY <1>1, LeastExists
<1>3. x \in Nat /\ x \notin S /\ x # 0
  BY DEF T
<1>4. x - 1 \in Nat /\ (x - 1) + 1 = x /\ ~ (x <= x - 1)
  BY <1>3
<1>5. x - 1 \in S
  BY <1>2, <1>4 DEF T
<1> QED
  BY <1>3, <1>4, <1>5

\* Of numbers up to some number Min and Max give the least and the greatest.
LEMMA EndsOf ==
  ASSUME NEW top \in Nat, NEW S \in SUBSET (0 .. top), S # {}
  PROVE  /\ Min(S) \in S /\ \A x \in S : Min(S) <= x
         /\ Max(S) \in S /\ \A x \in S : x <= Max(S)
<1>1. \E m \in S : \A n \in S : m <= n
  BY LeastExists
<1>2. \E m \in S : \A n \in S : m >= n
  <2> DEFINE T == {top - n : n \in S}
  <2>1. T \in SUBSET Nat /\ T # {}
    <3>1. \A n \in S : top - n \in Nat
      OBVIOUS
    <3> QED
      BY <3>1
  <2>2. PICK t \in T : \A u \in T : t <= u
    <3> HIDE DEF T
    <3> QED
      BY <2>1, LeastExists
  <2>3. PICK m \in S : t = top - m
    OBVIOUS
  <2>4. \A n \in S : top - m <= top - n
    BY <2>2, <2>3
  <2>5. \A n \in S : m >= n
    BY <2>4
  <2> QED
    BY <2>5
<1>3. Min(S) \in S /\ \A x \in S : Min(S) <= x
  BY <1>1 DEF Min
<1>4. Max(S) \in S /\ \A x \in S : Max(S) >= x
  BY <1>2 DEF Max
<1> QED
  BY <1>3, <1>4

\* A division that leaves a remainder is the only one.
LEMMA DividesOnce ==
  ASSUME NEW k \in Nat \ {0}, NEW n \in Nat, NEW r \in 0 .. k - 1
  PROVE  (k * n + r) \div k = n /\ (k * n + r) % k = r
<1>1. PICK x : x = k * n + r
  OBVIOUS
<1>2. PICK q, s : q = x \div k /\ s = x % k
  OBVIOUS
<1>3. k * n \in Nat /\ x \in Nat /\ r \in Nat
  BY <1>1
<1>4. q \in Int /\ s \in 0 .. k - 1 /\ x = k * q + s
  BY <1>2, <1>3
<1>5. k * q \in Int
  BY <1>4
<1>6. ~ n < q
  <2> SUFFICES ASSUME n + 1 <= q PROVE FALSE
    BY <1>4
  <2>1. k * (n + 1) <= k * q /\ k * (n + 1) = k * n + k
    BY <1>4
  <2> QED
    BY <1>1, <1>3, <1>4, <1>5, <2>1
<1>7. ~ q < n
  <2> SUFFICES ASSUME q + 1 <= n PROVE FALSE
    BY <1>4
  <2>1. k * (q + 1) <= k * n /\ k * (q + 1) = k * q + k
    BY <1>4
  <2> QED
    BY <1>1, <1>3, <1>4, <1>5, <2>1
<1>8. q = n
  BY <1>4, <1>6, <1>7
<1>9. s = r
  BY <1>1, <1>3, <1>4, <1>8
<1> QED
  BY <1>1, <1>2, <1>8, <1>9

\* What a division leaves.
LEMMA DividesInto ==
  ASSUME NEW k \in Nat \ {0}, NEW x \in Nat
  PROVE  /\ x \div k \in Nat /\ x % k \in 0 .. k - 1 /\ x = k * (x \div k) + (x % k)
         /\ x < k <=> x \div k = 0
         /\ x < k => x % k = x
<1>1. PICK q, s : q = x \div k /\ s = x % k
  OBVIOUS
<1>2. q \in Int /\ s \in 0 .. k - 1 /\ x = k * q + s
  BY <1>1
<1>3. q >= 0
  <2> SUFFICES ASSUME q + 1 <= 0 PROVE FALSE
    BY <1>2
  <2>1. k * (q + 1) <= 0 /\ k * (q + 1) = k * q + k /\ k * q \in Int
    BY <1>2
  <2> QED
    BY <1>2, <2>1
<1>4. ASSUME q >= 1 PROVE x >= k
  <2>1. k * q >= k /\ k * q \in Int
    BY <1>2, <1>4
  <2> QED
    BY <1>2, <2>1
<1>5. ASSUME q = 0 PROVE x = s /\ x < k
  <2>1. k * q = 0
    BY <1>5
  <2> QED
    BY <1>2, <1>5, <2>1
<1> QED
  BY <1>1, <1>2, <1>3, <1>4, <1>5

\* Whole divisors more leave as much.
LEMMA LeavesAsMuch ==
  ASSUME NEW k \in Nat \ {0}, NEW x \in Nat, NEW m \in Nat, m % k = 0
  PROVE  (x + m) % k = x % k
<1>1. PICK q, s, j : q = x \div k /\ s = x % k /\ j = m \div k
  OBVIOUS
<1>2. q \in Nat /\ s \in 0 .. k - 1 /\ x = k * q + s /\ j \in Nat /\ m = k * j
  <2>1. m \div k \in Nat /\ m = k * (m \div k) + (m % k)
    BY DividesInto
  <2>2. k * (m \div k) \in Nat
    BY <2>1
  <2>3. m = k * (m \div k)
    BY <2>1, <2>2
  <2>4. x \div k \in Nat /\ x % k \in 0 .. k - 1 /\ x = k * (x \div k) + (x % k)
    BY DividesInto
  <2> QED
    BY <1>1, <2>1, <2>3, <2>4, Zenon
<1>3. q + j \in Nat /\ k * (q + j) = k * q + k * j
  BY <1>2
<1>4. (k * (q + j) + s) % k = s
  BY <1>2, <1>3, DividesOnce
<1>5. x + m = k * (q + j) + s
  <2>1. k * q \in Nat /\ k * j \in Nat
    BY <1>2
  <2> QED
    BY <1>2, <1>3, <2>1
<1> QED
  BY <1>1, <1>4, <1>5

-----------------------------------------------------------------------------
(* The bit that is flipped *)

LEMMA Flips ==
  ASSUME NEW v \in NetIdSpace
  PROVE  /\ FlipBit(v) \in NetIdSpace /\ FlipBit(FlipBit(v)) = v
         /\ FlipBit(v) % LowSize = v % LowSize /\ FlipBit(v) % Groups = v % Groups
<1>0. /\ Groups \in Nat \ {0, 1} /\ LowSize \in Nat \ {0} /\ MaskSize \in Nat \ {0} /\ IdSize \in Nat \ {0}
      /\ MaskSize % LowSize = 0 /\ MaskSize % Groups = 0 /\ IdSize % (2 * MaskSize) = 0
      /\ v \in Nat /\ v < IdSize
  BY NetIdAssumption DEF NetIdSpace
<1>1. PICK M, q, r, h : M = MaskSize /\ q = v \div M /\ r = v % M /\ h = IdSize \div (2 * M)
  OBVIOUS
<1>2. M \in Nat \ {0} /\ q \in Nat /\ r \in 0 .. M - 1 /\ v = M * q + r
  BY <1>0, <1>1, DividesInto
<1>3. h \in Nat /\ IdSize = (2 * M) * h
  <2>1. 2 * M \in Nat \ {0} /\ IdSize \in Nat
    BY <1>0, <1>1
  <2>2. h \in Nat /\ IdSize = (2 * M) * h + (IdSize % (2 * M))
    BY <1>1, <2>1, DividesInto
  <2>3. (2 * M) * h \in Nat
    BY <2>1, <2>2
  <2> QED
    BY <1>0, <1>1, <2>2, <2>3
<1>4. (2 * M) * h = M * (2 * h)
  BY <1>2, <1>3
<1>5. q < 2 * h
  <2> SUFFICES ASSUME 2 * h <= q PROVE FALSE
    BY <1>2, <1>3
  <2>1. M * (2 * h) <= M * q /\ M * q \in Nat /\ M * (2 * h) \in Nat
    BY <1>2, <1>3
  <2> QED
    BY <1>0, <1>2, <1>3, <1>4, <2>1
<1>6. \A p \in Nat : (M * p + r) \div M = p
  BY <1>2, DividesOnce
<1>7. \A p \in Nat : p < 2 * h => M * p + r < IdSize /\ M * p + r \in Nat
  <2> TAKE p \in Nat
  <2> HAVE p < 2 * h
  <2>1. M * (p + 1) <= M * (2 * h) /\ M * (p + 1) = M * p + M /\ M * p \in Nat
    BY <1>2, <1>3
  <2> QED
    BY <1>2, <1>3, <1>4, <2>1
<1>8. \A p \in Nat : M * (p + 1) + r = (M * p + r) + M /\ M * p + r \in Nat
  BY <1>2
<1>9. CASE q % 2 = 1
  <2>1. PICK p \in Nat : q = p + 1 /\ p % 2 = 0
    <3>1. q - 1 \in Nat /\ q = (q - 1) + 1 /\ (q - 1) % 2 = 0
      BY <1>2, <1>9
    <3> QED
      BY <3>1
  <2>2. PICK w : w = M * p + r
    OBVIOUS
  <2>3. v = w + M /\ w \in Nat /\ w \div M = p /\ w < IdSize
    <3>1. p < 2 * h
      BY <1>2, <1>3, <1>5, <2>1
    <3>2. M * (p + 1) + r = w + M /\ w \in Nat /\ w \div M = p /\ w < IdSize
      BY <1>6, <1>7, <1>8, <2>2, <3>1
    <3> QED
      BY <1>2, <2>1, <3>2
  <2>4. FlipBit(v) = w
    BY <1>1, <1>9, <2>3, <1>2 DEF FlipBit
  <2>5. FlipBit(w) = v
    BY <1>1, <1>2, <2>1, <2>3 DEF FlipBit
  <2>6. v % LowSize = w % LowSize /\ v % Groups = w % Groups
    BY <1>0, <1>1, <2>3, LeavesAsMuch
  <2> QED
    BY <1>0, <2>3, <2>4, <2>5, <2>6 DEF NetIdSpace
<1>10. CASE q % 2 = 0
  <2>1. PICK w : w = M * (q + 1) + r
    OBVIOUS
  <2>2. q + 1 \in Nat /\ q + 1 < 2 * h /\ (q + 1) % 2 = 1
    BY <1>2, <1>3, <1>5, <1>10
  <2>3. w = v + M /\ w \in Nat /\ w \div M = q + 1 /\ w < IdSize
    BY <1>2, <1>6, <1>7, <1>8, <2>1, <2>2
  <2>4. FlipBit(v) = w
    BY <1>1, <1>10, <2>3 DEF FlipBit
  <2>5. FlipBit(w) = v
    BY <1>0, <1>1, <1>2, <2>2, <2>3 DEF FlipBit
  <2>6. w % LowSize = v % LowSize /\ w % Groups = v % Groups
    BY <1>0, <1>1, <2>3, LeavesAsMuch
  <2> QED
    BY <1>0, <2>3, <2>4, <2>5, <2>6 DEF NetIdSpace
<1> QED
  BY <1>2, <1>9, <1>10

LEMMA Masks ==
  ASSUME NEW v \in NetIdSpace
  PROVE  /\ Mask(v) \in NetIdSpace /\ Mask(Mask(v)) = v /\ Mask(v) % Groups = v % Groups
         /\ (IF v % LowSize = 0 THEN v ELSE FlipBit(v)) = Mask(v)
BY Flips DEF Mask

-----------------------------------------------------------------------------
(* Net ids: what the game's reader makes of bytes *)

ByteMeanings == [last : BOOLEAN, group : 0 .. Groups - 1]
Final(g) == [last |-> TRUE, group |-> g]
Further(g) == [last |-> FALSE, group |-> g]
Reads == reading \in [RawBytes -> {Refused} \cup ByteMeanings]

\* The groups of v, the low one first.
Digits(v, n, q) ==
  /\ n \in Nat \ {0} /\ q \in [1 .. n -> Nat] /\ q[1] = v /\ q[n] < Groups
  /\ \A i \in 1 .. n - 1 : q[i] >= Groups /\ q[i + 1] = q[i] \div Groups

UpFrom(f, bytes, n) ==
  f = [i \in 1 .. n |-> reading[bytes[i]].group + IF i = n THEN 0 ELSE Groups * f[i + 1]]

LEMMA GroupFacts ==
  /\ Groups \in Nat \ {0, 1} /\ IdSize \in Nat \ {0}
  /\ \A g \in 0 .. Groups - 1 : Final(g) # Refused /\ Further(g) # Refused /\ Final(g) \in ByteMeanings /\ Further(g) \in ByteMeanings
  /\ Refused.last = FALSE
  /\ \A m \in {Refused} \cup ByteMeanings : (m.last => m = Final(m.group) /\ m.group \in 0 .. Groups - 1)
  /\ \A m \in {Refused} \cup ByteMeanings : ~ m.last /\ m # Refused => m = Further(m.group) /\ m.group \in 0 .. Groups - 1
BY NetIdAssumption DEF Refused, ByteMeanings, Final, Further

\* Of bytes that end with a final one, as many are taken as say that another follows.
LEMMA TakesToTheFinal ==
  ASSUME Reads, NEW bytes \in Seq(RawBytes), NEW n \in 1 .. Len(bytes),
         reading[bytes[n]].last, \A i \in 1 .. n - 1 : ~ reading[bytes[i]].last
  PROVE  /\ (\E i \in 1 .. n - 1 : reading[bytes[i]] = Refused) => Read(bytes).used = 0
         /\ (\A i \in 1 .. n - 1 : reading[bytes[i]] # Refused) => Read(bytes).used = n
         /\ \A v \in NetIdSpace : \A f :
              (/\ \A i \in 1 .. n - 1 : reading[bytes[i]] # Refused
               /\ UpFrom(f, bytes, n) /\ \A h : UpFrom(h, bytes, n) => h[1] = v) =>
              Read(bytes).stored = Mask(v)
<1> DEFINE ends == {i \in DOMAIN bytes : reading[bytes[i]].last}
<1>1. n \in ends /\ Len(bytes) \in Nat /\ ends \in SUBSET (0 .. Len(bytes)) /\ \A i \in ends : i >= n
  <2>1. DOMAIN bytes = 1 .. Len(bytes) /\ Len(bytes) \in Nat
    OBVIOUS
  <2> QED
    BY <2>1
<1>2. Min(ends) = n /\ ends # {}
  <2>1. PICK m : m = Min(ends)
    OBVIOUS
  <2>2. m \in ends /\ m <= n
    BY <1>1, <2>1, EndsOf
  <2>3. m \in Nat /\ m >= n
    BY <1>1, <2>2
  <2> QED
    BY <1>1, <2>1, <2>2, <2>3
<1>3. reading[bytes[n]] # Refused
  BY GroupFacts
<1> DEFINE m == IF ends = {} THEN 0 ELSE Min(ends)
           from(k) == CHOOSE f : f = [i \in 1 .. k |-> reading[bytes[i]].group + IF i = k THEN 0 ELSE Groups * f[i + 1]]
           value(k) == from(k)[1] % IdSize
<1>4. Read(bytes) = IF m = 0 \/ \E i \in 1 .. m : reading[bytes[i]] = Refused THEN [used |-> 0, stored |-> 0]
                    ELSE [used |-> m, stored |-> IF value(m) % LowSize = 0 THEN value(m) ELSE FlipBit(value(m))]
  BY Zenon DEF Read
<1>5. from(n) = CHOOSE f : UpFrom(f, bytes, n)
  BY DEF UpFrom
<1>m. m = n
  BY <1>2
<1> HIDE DEF from, ends, m
<1>v. value(n) = from(n)[1] % IdSize
  OBVIOUS
<1> HIDE DEF value
<1>6. /\ (\E i \in 1 .. n - 1 : reading[bytes[i]] = Refused) => Read(bytes) = [used |-> 0, stored |-> 0]
      /\ (\A i \in 1 .. n - 1 : reading[bytes[i]] # Refused) =>
           Read(bytes) = [used |-> n, stored |-> IF value(n) % LowSize = 0 THEN value(n) ELSE FlipBit(value(n))]
  BY <1>3, <1>4, <1>m
<1>7. ASSUME NEW v \in NetIdSpace, NEW f, UpFrom(f, bytes, n), \A h : UpFrom(h, bytes, n) => h[1] = v
      PROVE  (IF value(n) % LowSize = 0 THEN value(n) ELSE FlipBit(value(n))) = Mask(v)
  <2>1. UpFrom(from(n), bytes, n)
    BY <1>5, <1>7, Zenon
  <2>2. from(n)[1] = v
    BY <1>7, <2>1
  <2>3. value(n) = v
    <3>1. v \in Nat /\ v < IdSize /\ IdSize \in Nat \ {0}
      BY GroupFacts DEF NetIdSpace
    <3>2. v % IdSize = v
      BY <3>1, DividesInto
    <3> QED
      BY <1>v, <2>2, <3>2
  <2> QED
    BY <2>3, Masks
<1> QED
  BY <1>6, <1>7

\* What is written in groups is read back.
LEMMA ReadsDigits ==
  ASSUME Reads, NEW bytes \in Seq(RawBytes), NEW v \in NetIdSpace, NEW q, Digits(v, Len(bytes), q),
         \A i \in 1 .. Len(bytes) - 1 : reading[bytes[i]] = Further(q[i] % Groups),
         reading[bytes[Len(bytes)]] = Final(q[Len(bytes)])
  PROVE  Read(bytes) = [used |-> Len(bytes), stored |-> Mask(v)]
<1>1. PICK n : n = Len(bytes)
  OBVIOUS
<1>2. /\ n \in Nat \ {0} /\ n \in 1 .. Len(bytes) /\ q \in [1 .. n -> Nat] /\ q[1] = v /\ q[n] < Groups
      /\ \A i \in 1 .. n - 1 : q[i] \in Nat /\ q[i + 1] \in Nat /\ q[i + 1] = q[i] \div Groups
      /\ \A i \in 1 .. n - 1 : reading[bytes[i]] = Further(q[i] % Groups)
      /\ reading[bytes[n]] = Final(q[n])
  BY <1>1 DEF Digits
<1>3. \A i \in 1 .. n - 1 : q[i] % Groups \in 0 .. Groups - 1 /\ q[i] = Groups * q[i + 1] + (q[i] % Groups)
  BY <1>2, GroupFacts, DividesInto
<1>4. /\ \A i \in 1 .. n - 1 : ~ reading[bytes[i]].last /\ reading[bytes[i]].group = q[i] % Groups
                               /\ reading[bytes[i]] # Refused
      /\ reading[bytes[n]].last /\ reading[bytes[n]].group = q[n]
  <2>1. \A g \in 0 .. Groups - 1 : /\ Further(g) # Refused /\ ~ Further(g).last /\ Further(g).group = g
                                   /\ Final(g).last /\ Final(g).group = g
    BY GroupFacts DEF Further, Final
  <2>2. q[n] \in 0 .. Groups - 1
    BY <1>2, GroupFacts
  <2> QED
    BY <1>2, <1>3, <2>1, <2>2
<1>5. UpFrom(q, bytes, n)
  <2>1. \A i \in 1 .. n : q[i] = reading[bytes[i]].group + IF i = n THEN 0 ELSE Groups * q[i + 1]
    <3> TAKE i \in 1 .. n
    <3>1. CASE i = n
      BY <1>2, <1>4, <3>1
    <3>2. CASE i # n
      <4>1. i \in 1 .. n - 1
        BY <1>2, <3>2
      <4>2. PICK x, y : x = Groups * q[i + 1] /\ y = q[i] % Groups
        OBVIOUS
      <4>3. x \in Nat /\ y \in Nat
        <5>1. y \in 0 .. Groups - 1
          BY <1>3, <4>1, <4>2
        <5>2. q[i + 1] \in Nat /\ Groups \in Nat
          BY <1>2, <4>1, GroupFacts
        <5> QED
          BY <4>2, <5>1, <5>2
      <4>4. q[i] = x + y /\ reading[bytes[i]].group = y
        BY <1>3, <1>4, <4>1, <4>2, Zenon
      <4>5. reading[bytes[i]].group + (IF i = n THEN 0 ELSE Groups * q[i + 1]) = y + x
        BY <3>2, <4>2, <4>4
      <4> QED
        BY <4>3, <4>4, <4>5
    <3> QED
      BY <3>1, <3>2
  <2> QED
    BY <1>2, <2>1 DEF UpFrom
<1>6. ASSUME NEW h, UpFrom(h, bytes, n) PROVE h[1] = v
  <2> DEFINE Good == {k \in Nat : k < n => h[n - k] = q[n - k]}
  <2>1. \A i \in 1 .. n : h[i] = reading[bytes[i]].group + IF i = n THEN 0 ELSE Groups * h[i + 1]
    BY <1>6 DEF UpFrom
  <2>2. \A i \in 1 .. n : q[i] = reading[bytes[i]].group + IF i = n THEN 0 ELSE Groups * q[i + 1]
    BY <1>5 DEF UpFrom
  <2>3. 0 \in Good
    BY <1>2, <2>1, <2>2
  <2>4. ASSUME NEW k \in Good PROVE k + 1 \in Good
    <3> SUFFICES ASSUME k + 1 < n PROVE h[n - (k + 1)] = q[n - (k + 1)]
      OBVIOUS
    <3>1. PICK i : i = n - (k + 1)
      OBVIOUS
    <3>2. i \in 1 .. n /\ i # n /\ i + 1 = n - k /\ k < n
      BY <1>2, <3>1
    <3>3. h[i + 1] = q[i + 1]
      BY <3>2
    <3>4. h[i] = q[i]
      BY <2>1, <2>2, <3>2, <3>3
    <3> QED
      BY <3>1, <3>4
  <2>5. Good = Nat
    <3>1. Good \in SUBSET Nat
      OBVIOUS
    <3> HIDE DEF Good
    <3> QED
      BY <2>3, <2>4, <3>1, CountsUp
  <2>6. n - 1 \in Nat /\ n - (n - 1) = 1 /\ n - 1 < n
    BY <1>2
  <2>7. \A k \in Nat : k < n => h[n - k] = q[n - k]
    BY <2>5
  <2>8. h[n - (n - 1)] = q[n - (n - 1)]
    BY <2>6, <2>7
  <2> QED
    BY <1>2, <2>6, <2>8
<1>7. Read(bytes).used = n /\ Read(bytes).stored = Mask(v)
  <2>1. (\A i \in 1 .. n - 1 : ~ reading[bytes[i]].last) /\ reading[bytes[n]].last
        /\ \A i \in 1 .. n - 1 : reading[bytes[i]] # Refused
    BY <1>4
  <2>2. Read(bytes).used = n
    BY <1>2, <2>1, TakesToTheFinal
  <2>3. \A u \in NetIdSpace : \A f :
              (/\ \A i \in 1 .. n - 1 : reading[bytes[i]] # Refused
               /\ UpFrom(f, bytes, n) /\ \A h : UpFrom(h, bytes, n) => h[1] = u) =>
              Read(bytes).stored = Mask(u)
    BY <1>2, <2>1, TakesToTheFinal
  <2> QED
    BY <1>5, <1>6, <2>1, <2>2, <2>3
<1>8. Read(bytes) = [used |-> Read(bytes).used, stored |-> Read(bytes).stored]
  BY DEF Read
<1> QED
  BY <1>1, <1>7, <1>8

-----------------------------------------------------------------------------
(* Net ids: how an id is written *)

LEMMA DividesDown ==
  ASSUME NEW v \in Nat, v # 0
  PROVE  v \div Groups \in Nat /\ v \div Groups < v
<1>1. PICK q, r : q = v \div Groups /\ r = v % Groups
  OBVIOUS
<1>2. Groups \in Nat \ {0, 1} /\ q \in Nat /\ r \in 0 .. Groups - 1 /\ v = Groups * q + r
  BY <1>1, GroupFacts, DividesInto
<1>3. Groups * q >= 2 * q /\ Groups * q \in Nat
  BY <1>2
<1> QED
  BY <1>1, <1>2, <1>3

WritesUpTo(f, top, last, more) ==
  f = [v \in 0 .. top |-> IF v < Groups THEN <<last[v]>> ELSE <<more[v % Groups]>> \o f[v \div Groups]]
CountsUpTo(f, top) == f = [v \in 0 .. top |-> IF v = 0 THEN 0 ELSE 1 + f[v \div Groups]]

LEMMA WritingIsDefined ==
  ASSUME NEW last, NEW more, NEW top \in Nat
  PROVE  \E f : WritesUpTo(f, top, last, more)
<1> DEFINE Good == {k \in Nat : \E f : WritesUpTo(f, k, last, more)}
<1>1. 0 \in Good
  <2> DEFINE f == [v \in 0 .. 0 |-> <<last[v]>>]
  <2>1. \A v \in 0 .. 0 : v < Groups
    BY GroupFacts
  <2>2. f = [v \in 0 .. 0 |-> IF v < Groups THEN <<last[v]>> ELSE <<more[v % Groups]>> \o f[v \div Groups]]
    BY <2>1
  <2>3. WritesUpTo(f, 0, last, more)
    BY <2>2, Zenon DEF WritesUpTo
  <2> QED
    BY <2>3
<1>2. ASSUME NEW k \in Good PROVE k + 1 \in Good
  <2>1. PICK f : WritesUpTo(f, k, last, more)
    OBVIOUS
  <2> DEFINE end == IF k + 1 < Groups THEN <<last[k + 1]>> ELSE <<more[(k + 1) % Groups]>> \o f[(k + 1) \div Groups]
             h == [v \in 0 .. k + 1 |-> IF v = k + 1 THEN end ELSE f[v]]
             Of(v) == IF v < Groups THEN <<last[v]>> ELSE <<more[v % Groups]>> \o h[v \div Groups]
  <2>2. \A v \in 0 .. k : h[v] = f[v]
    OBVIOUS
  <2>3. h[k + 1] = end
    OBVIOUS
  <2>4. \A v \in 0 .. k + 1 : v >= Groups => v \div Groups \in 0 .. k
    <3> TAKE v \in 0 .. k + 1
    <3> HAVE v >= Groups
    <3>1. v \in Nat /\ v # 0
      BY GroupFacts
    <3> QED
      BY <3>1, DividesDown
  <2> HIDE DEF end
  <2>5. \A v \in 0 .. k : h[v] = Of(v)
    <3> TAKE v \in 0 .. k
    <3> HIDE DEF h
    <3>1. f[v] = IF v < Groups THEN <<last[v]>> ELSE <<more[v % Groups]>> \o f[v \div Groups]
      BY <2>1, Zenon DEF WritesUpTo
    <3>2. CASE v < Groups
      BY <2>2, <3>1, <3>2
    <3>3. CASE ~ v < Groups
      <4>1. v \div Groups \in 0 .. k
        BY <2>4, <3>3, GroupFacts
      <4> QED
        BY <2>2, <3>1, <3>3, <4>1
    <3> QED
      BY <3>2, <3>3
  <2>6. h[k + 1] = Of(k + 1)
    <3> HIDE DEF h
    <3>1. CASE k + 1 < Groups
      BY <2>3, <3>1 DEF end
    <3>2. CASE ~ k + 1 < Groups
      <4>1. (k + 1) \div Groups \in 0 .. k
        BY <2>4, <3>2, GroupFacts
      <4> QED
        BY <2>2, <2>3, <3>2, <4>1 DEF end
    <3> QED
      BY <3>1, <3>2
  <2>7. \A v \in 0 .. k + 1 : h[v] = Of(v)
    <3> HIDE DEF h, Of
    <3> QED
      BY <2>5, <2>6
  <2>8. h = [v \in 0 .. k + 1 |-> Of(v)]
    <3>1. h = [v \in 0 .. k + 1 |-> h[v]]
      BY Zenon
    <3> HIDE DEF h, Of
    <3> QED
      BY <2>7, <3>1
  <2>9. WritesUpTo(h, k + 1, last, more)
    <3> HIDE DEF h
    <3> QED
      BY <2>8, Zenon DEF WritesUpTo
  <2> QED
    <3> HIDE DEF h
    <3> QED
      BY <2>9
<1>3. Good = Nat
  <2>1. Good \in SUBSET Nat
    OBVIOUS
  <2> HIDE DEF Good
  <2> QED
    BY <1>1, <1>2, <2>1, CountsUp
<1> QED
  BY <1>3

LEMMA CountingIsDefined ==
  ASSUME NEW top \in Nat
  PROVE  \E f : CountsUpTo(f, top)
<1> DEFINE Good == {k \in Nat : \E f : CountsUpTo(f, k)}
<1>1. 0 \in Good
  <2> DEFINE f == [v \in 0 .. 0 |-> 0]
  <2>1. f = [v \in 0 .. 0 |-> IF v = 0 THEN 0 ELSE 1 + f[v \div Groups]]
    OBVIOUS
  <2>2. CountsUpTo(f, 0)
    BY <2>1, Zenon DEF CountsUpTo
  <2> QED
    BY <2>2
<1>2. ASSUME NEW k \in Good PROVE k + 1 \in Good
  <2>1. PICK f : CountsUpTo(f, k)
    OBVIOUS
  <2> DEFINE h == [v \in 0 .. k + 1 |-> IF v = k + 1 THEN 1 + f[(k + 1) \div Groups] ELSE f[v]]
             Of(v) == IF v = 0 THEN 0 ELSE 1 + h[v \div Groups]
  <2>2. \A v \in 0 .. k : h[v] = f[v]
    OBVIOUS
  <2>3. h[k + 1] = 1 + f[(k + 1) \div Groups]
    OBVIOUS
  <2>4. \A v \in 0 .. k + 1 : v # 0 => v \div Groups \in 0 .. k
    <3> TAKE v \in 0 .. k + 1
    <3> HAVE v # 0
    <3>1. v \in Nat /\ v # 0
      OBVIOUS
    <3> QED
      BY <3>1, DividesDown
  <2>5. \A v \in 0 .. k : h[v] = Of(v)
    <3> TAKE v \in 0 .. k
    <3> HIDE DEF h
    <3>1. f[v] = IF v = 0 THEN 0 ELSE 1 + f[v \div Groups]
      BY <2>1, Zenon DEF CountsUpTo
    <3> QED
      BY <2>2, <2>4, <3>1
  <2>6. h[k + 1] = Of(k + 1)
    <3> HIDE DEF h
    <3>1. (k + 1) \div Groups \in 0 .. k /\ k + 1 # 0
      BY <2>4
    <3> QED
      BY <2>2, <2>3, <3>1
  <2>7. \A v \in 0 .. k + 1 : h[v] = Of(v)
    <3> HIDE DEF h, Of
    <3> QED
      BY <2>5, <2>6
  <2>8. h = [v \in 0 .. k + 1 |-> Of(v)]
    <3>1. h = [v \in 0 .. k + 1 |-> h[v]]
      BY Zenon
    <3> HIDE DEF h, Of
    <3> QED
      BY <2>7, <3>1
  <2>9. CountsUpTo(h, k + 1)
    <3> HIDE DEF h
    <3> QED
      BY <2>8, Zenon DEF CountsUpTo
  <2> QED
    <3> HIDE DEF h
    <3> QED
      BY <2>9
<1>3. Good = Nat
  <2>1. Good \in SUBSET Nat
    OBVIOUS
  <2> HIDE DEF Good
  <2> QED
    BY <1>1, <1>2, <2>1, CountsUp
<1> QED
  BY <1>3

\* Every id has groups: as many as are tally and as are written.
Written(v, n, q, from, last, more) ==
  /\ DOMAIN from[v] = 1 .. n
  /\ from[v] = [i \in 1 .. n |-> IF i < n THEN more[q[i] % Groups] ELSE last[q[i]]]

LEMMA WritesTheGroups ==
  ASSUME NEW last \in [0 .. Groups - 1 -> RawBytes], NEW more \in [0 .. Groups - 1 -> RawBytes], NEW top \in Nat,
         NEW from, WritesUpTo(from, top, last, more),
         NEW tally, CountsUpTo(tally, top)
  PROVE  \A v \in 0 .. top : \E n, q : /\ Digits(v, n, q) /\ Written(v, n, q, from, last, more)
                                       /\ 1 + tally[v \div Groups] = n
<1> DEFINE P(v) == \E n, q : /\ Digits(v, n, q) /\ Written(v, n, q, from, last, more)
                             /\ 1 + tally[v \div Groups] = n
           Good == {k \in Nat : \A v \in 0 .. k : v <= top => P(v)}
<1>1. \A v \in 0 .. top : /\ v < Groups => from[v] = <<last[v]>>
                          /\ v >= Groups => from[v] = <<more[v % Groups]>> \o from[v \div Groups]
                          /\ tally[v] = IF v = 0 THEN 0 ELSE 1 + tally[v \div Groups]
  <2> TAKE v \in 0 .. top
  <2>1. from[v] = IF v < Groups THEN <<last[v]>> ELSE <<more[v % Groups]>> \o from[v \div Groups]
    BY Zenon DEF WritesUpTo
  <2>2. tally[v] = IF v = 0 THEN 0 ELSE 1 + tally[v \div Groups]
    BY Zenon DEF CountsUpTo
  <2> QED
    BY <2>1, <2>2, GroupFacts
<1>2. ASSUME NEW v \in 0 .. top, v < Groups PROVE P(v)
  <2> DEFINE q == [i \in 1 .. 1 |-> v]
  <2>1. v \in Nat /\ v \div Groups = 0 /\ 0 \in 0 .. top
    <3>1. v \in Nat /\ 0 \in 0 .. top
      OBVIOUS
    <3> QED
      BY <1>2, <3>1, GroupFacts, DividesInto
  <2>2. Digits(v, 1, q)
    BY <1>2, <2>1 DEF Digits
  <2>3. Written(v, 1, q, from, last, more)
    <3>1. from[v] = <<last[v]>>
      BY <1>1, <1>2
    <3>2. <<last[v]>> = [i \in 1 .. 1 |-> IF i < 1 THEN more[q[i] % Groups] ELSE last[q[i]]]
      OBVIOUS
    <3> QED
      BY <3>1, <3>2 DEF Written
  <2>4. 1 + tally[v \div Groups] = 1
    <3>1. tally[0] = 0
      <4>1. \A u \in 0 .. top : tally[u] = IF u = 0 THEN 0 ELSE 1 + tally[u \div Groups]
        BY <1>1
      <4> QED
        BY <2>1, <4>1
    <3> QED
      BY <2>1, <3>1
  <2> HIDE DEF q
  <2> QED
    BY <2>2, <2>3, <2>4
<1>3. ASSUME NEW v \in 0 .. top, v >= Groups, P(v \div Groups) PROVE P(v)
  <2>1. PICK w : w = v \div Groups
    OBVIOUS
  <2>2. PICK m, p : Digits(w, m, p) /\ Written(w, m, p, from, last, more) /\ 1 + tally[w \div Groups] = m
    BY <1>3, <2>1
  <2> DEFINE n == m + 1
             q == [i \in 1 .. m + 1 |-> IF i = 1 THEN v ELSE p[i - 1]]
  <2>3. m \in Nat \ {0} /\ p \in [1 .. m -> Nat] /\ p[1] = w /\ p[m] < Groups
        /\ \A i \in 1 .. m - 1 : p[i] >= Groups /\ p[i + 1] = p[i] \div Groups
    BY <2>2 DEF Digits
  <2>4. q[1] = v /\ (\A i \in 1 .. m : q[i + 1] = p[i]) /\ q \in [1 .. n -> Nat]
    BY <2>3
  <2>5. Digits(v, n, q)
    <3> HIDE DEF q
    <3>1. n \in Nat \ {0} /\ q[n] < Groups
      BY <2>3, <2>4
    <3>2. ASSUME NEW i \in 1 .. n - 1 PROVE q[i] >= Groups /\ q[i + 1] = q[i] \div Groups
      <4>1. CASE i = 1
        BY <1>3, <2>1, <2>3, <2>4, <4>1
      <4>2. CASE i # 1
        <5>1. i - 1 \in 1 .. m - 1 /\ i - 1 \in 1 .. m /\ i \in 1 .. m /\ (i - 1) + 1 = i
          BY <2>3, <4>2
        <5>2. q[i] = p[i - 1] /\ q[i + 1] = p[i]
          BY <2>4, <5>1
        <5>3. p[i - 1] >= Groups /\ p[(i - 1) + 1] = p[i - 1] \div Groups
          BY <2>3, <5>1
        <5> QED
          BY <5>1, <5>2, <5>3
      <4> QED
        BY <4>1, <4>2
    <3> QED
      BY <2>4, <3>1, <3>2 DEF Digits
  <2>6. Written(v, n, q, from, last, more)
    <3> HIDE DEF q
    <3>1. from[v] = <<more[v % Groups]>> \o from[w] /\ DOMAIN from[w] = 1 .. m
          /\ from[w] = [i \in 1 .. m |-> IF i < m THEN more[p[i] % Groups] ELSE last[p[i]]]
      BY <1>1, <1>3, <2>1, <2>2 DEF Written
    <3>2. PICK s : s = from[w]
      OBVIOUS
    <3>3. s \in Seq(RawBytes) /\ Len(s) = m
      <4>1. \A i \in 1 .. m : p[i] % Groups \in 0 .. Groups - 1 /\ p[i] \in Nat
        BY <2>3, GroupFacts, DividesInto
      <4>2. p[m] \in 0 .. Groups - 1
        BY <2>3, GroupFacts
      <4>3. ASSUME NEW i \in 1 .. m PROVE (IF i < m THEN more[p[i] % Groups] ELSE last[p[i]]) \in RawBytes
        <5>1. CASE i < m
          BY <4>1, <5>1
        <5>2. CASE ~ i < m
          <6>1. i = m
            BY <2>3, <5>2
          <6> QED
            BY <4>2, <6>1, <5>2
        <5> QED
          BY <5>1, <5>2
      <4>4. s \in [1 .. m -> RawBytes]
        BY <3>1, <3>2, <4>3
      <4> QED
        BY <2>3, <4>4
    <3>4. PICK b : b = more[v % Groups]
      OBVIOUS
    <3>5. b \in RawBytes
      <4>1. v \in Nat
        OBVIOUS
      <4>2. v % Groups \in 0 .. Groups - 1
        BY <4>1, GroupFacts, DividesInto
      <4> QED
        BY <3>4, <4>2
    <3>6. PICK t : t = <<b>> \o s
      OBVIOUS
    <3>7. t \in Seq(RawBytes) /\ Len(t) = n /\ t[1] = b /\ \A i \in 1 .. m : t[i + 1] = s[i]
      BY <2>3, <3>3, <3>5, <3>6
    <3>8. t = [i \in 1 .. n |-> IF i < n THEN more[q[i] % Groups] ELSE last[q[i]]]
      <4>1. ASSUME NEW i \in 1 .. n PROVE t[i] = IF i < n THEN more[q[i] % Groups] ELSE last[q[i]]
        <5>1. CASE i = 1
          BY <2>3, <2>4, <3>4, <3>7, <5>1
        <5>2. CASE i # 1
          <6>1. PICK j \in 1 .. m : i = j + 1
            <7>1. i - 1 \in 1 .. m /\ i = (i - 1) + 1
              BY <2>3, <5>2
            <7> QED
              BY <7>1
          <6>2. q[i] = p[j] /\ t[i] = s[j] /\ (i < n <=> j < m)
            BY <2>3, <2>4, <3>7, <6>1
          <6>3. s[j] = IF j < m THEN more[p[j] % Groups] ELSE last[p[j]]
            BY <3>1, <3>2
          <6> QED
            BY <6>2, <6>3
        <5> QED
          BY <5>1, <5>2
      <4>2. t = [i \in 1 .. n |-> t[i]]
        BY <3>7
      <4> QED
        BY <4>1, <4>2
    <3>9. from[v] = t /\ DOMAIN t = 1 .. n
      <4>1. from[v] = t
        BY <3>1, <3>2, <3>4, <3>6, Zenon
      <4>2. DOMAIN t = 1 .. n
        BY <3>7
      <4> QED
        BY <4>1, <4>2
    <3> QED
      BY <3>8, <3>9, Zenon DEF Written
  <2>7. 1 + tally[v \div Groups] = n
    <3>1. v \in Nat /\ w \in Nat /\ w # 0 /\ w \in 0 .. top
      <4>1. v \in Nat /\ v # 0 /\ v <= top
        BY <1>3, GroupFacts
      <4>2. w \in Nat /\ w < v
        BY <2>1, <4>1, DividesDown
      <4>3. w # 0
        BY <1>3, <2>1, <4>1, GroupFacts, DividesInto
      <4> QED
        BY <4>1, <4>2, <4>3
    <3>2. tally[w] = 1 + tally[w \div Groups]
      BY <1>1, <3>1
    <3> QED
      BY <2>1, <2>2, <2>3, <3>2
  <2> HIDE DEF q, n
  <2> QED
    BY <2>5, <2>6, <2>7
<1> HIDE DEF P
<1>4. 0 \in Good
  <2>1. 0 < Groups /\ 0 \in 0 .. top
    BY GroupFacts
  <2> QED
    BY <1>2, <2>1
<1>5. ASSUME NEW k \in Good PROVE k + 1 \in Good
  <2>1. k \in Nat /\ \A v \in 0 .. k : v <= top => P(v)
    OBVIOUS
  <2>2. ASSUME NEW v \in 0 .. k + 1, v <= top PROVE P(v)
    <3>1. CASE v < Groups
      BY <1>2, <2>2, <3>1
    <3>2. CASE v >= Groups
      <4>1. v \in Nat /\ v # 0
        BY <3>2, GroupFacts
      <4>2. v \div Groups \in Nat /\ v \div Groups < v
        BY <4>1, DividesDown
      <4>3. v \div Groups \in 0 .. k /\ v \div Groups <= top
        BY <2>1, <2>2, <4>1, <4>2
      <4>4. P(v \div Groups)
        BY <2>1, <4>3
      <4> QED
        BY <1>3, <2>2, <3>2, <4>4
    <3> QED
      BY <3>1, <3>2, GroupFacts
  <2> QED
    BY <2>1, <2>2
<1>6. Good = Nat
  <2>1. Good \in SUBSET Nat
    OBVIOUS
  <2> HIDE DEF Good
  <2> QED
    BY <1>4, <1>5, <2>1, CountsUp
<1>7. \A v \in 0 .. top : P(v)
  <2>1. top \in Good
    BY <1>6
  <2> QED
    BY <2>1
<1> QED
  BY <1>7 DEF P

-----------------------------------------------------------------------------
(* Net ids: what is learned of the reader *)

LEMMA GroupIds ==
  ASSUME NEW g \in 0 .. Groups - 1
  PROVE  g \in NetIdSpace /\ g % Groups = g
<1>1. g \in Nat /\ g < Groups /\ Groups \in Nat \ {0, 1}
  BY GroupFacts
<1>2. g % Groups = g
  BY <1>1, DividesInto
<1>3. Groups <= MaskSize /\ MaskSize \in Nat \ {0}
  <2>1. MaskSize \in Nat \ {0} /\ MaskSize % Groups = 0
    BY NetIdAssumption
  <2>2. ASSUME MaskSize < Groups PROVE FALSE
    <3>1. MaskSize % Groups = MaskSize
      BY <1>1, <2>1, <2>2, DividesInto
    <3> QED
      BY <2>1, <3>1
  <2> QED
    BY <1>1, <2>1, <2>2
<1>4. 2 * MaskSize <= IdSize /\ IdSize \in Nat
  <2>1. IdSize \in Nat \ {0} /\ IdSize % (2 * MaskSize) = 0 /\ 2 * MaskSize \in Nat \ {0}
    BY NetIdAssumption
  <2>2. ASSUME IdSize < 2 * MaskSize PROVE FALSE
    <3>1. IdSize % (2 * MaskSize) = IdSize
      BY <2>1, <2>2, DividesInto
    <3> QED
      BY <2>1, <3>1
  <2> QED
    BY <2>1, <2>2
<1> QED
  BY <1>1, <1>2, <1>3, <1>4 DEF NetIdSpace

\* No byte of these is the final one: nothing is read.
LEMMA ReadsOn ==
  ASSUME NEW bytes \in Seq(RawBytes), \A i \in 1 .. Len(bytes) : ~ reading[bytes[i]].last
  PROVE  Read(bytes).used = 0
<1> DEFINE ends == {i \in DOMAIN bytes : reading[bytes[i]].last}
           m == IF ends = {} THEN 0 ELSE Min(ends)
           from(k) == CHOOSE f : f = [i \in 1 .. k |-> reading[bytes[i]].group + IF i = k THEN 0 ELSE Groups * f[i + 1]]
           value(k) == from(k)[1] % IdSize
<1>1. Read(bytes) = IF m = 0 \/ \E i \in 1 .. m : reading[bytes[i]] = Refused THEN [used |-> 0, stored |-> 0]
                    ELSE [used |-> m, stored |-> IF value(m) % LowSize = 0 THEN value(m) ELSE FlipBit(value(m))]
  BY Zenon DEF Read
<1>2. DOMAIN bytes = 1 .. Len(bytes)
  OBVIOUS
<1>3. ends = {}
  BY <1>2
<1>4. m = 0
  BY <1>3
<1> HIDE DEF m
<1>5. Read(bytes) = [used |-> 0, stored |-> 0]
  BY <1>1, <1>4
<1> QED
  BY <1>5

\* What the reader makes of one byte.
LEMMA ReadsOne ==
  ASSUME Reads, NEW b \in RawBytes
  PROVE  /\ \A g \in 0 .. Groups - 1 : reading[b] = Final(g) =>
              Read(<<b>>).used = 1 /\ Mask(Read(<<b>>).stored) = g
         /\ (\A g \in 0 .. Groups - 1 : reading[b] # Final(g)) => Read(<<b>>).used = 0
<1>1. <<b>> \in Seq(RawBytes) /\ Len(<<b>>) = 1 /\ <<b>>[1] = b
  OBVIOUS
<1>2. ASSUME NEW g \in 0 .. Groups - 1, reading[b] = Final(g)
      PROVE  Read(<<b>>).used = 1 /\ Mask(Read(<<b>>).stored) = g
  <2>1. Final(g).last /\ Final(g).group = g
    BY DEF Final
  <2> DEFINE f == [i \in 1 .. 1 |-> g]
  <2>2. UpFrom(f, <<b>>, 1)
    BY <1>1, <1>2, <2>1 DEF UpFrom
  <2>3. ASSUME NEW h, UpFrom(h, <<b>>, 1) PROVE h[1] = g
    <3>1. h[1] = reading[<<b>>[1]].group + IF 1 = 1 THEN 0 ELSE Groups * h[2]
      BY <2>3 DEF UpFrom
    <3> QED
      BY <1>1, <1>2, <2>1, <3>1
  <2>4. /\ (\A i \in 1 .. 1 - 1 : reading[<<b>>[i]] # Refused) => Read(<<b>>).used = 1
        /\ \A v \in NetIdSpace : \A k :
              (/\ \A i \in 1 .. 1 - 1 : reading[<<b>>[i]] # Refused
               /\ UpFrom(k, <<b>>, 1) /\ \A h : UpFrom(h, <<b>>, 1) => h[1] = v) =>
              Read(<<b>>).stored = Mask(v)
    <3>1. 1 \in 1 .. Len(<<b>>) /\ reading[<<b>>[1]].last /\ \A i \in 1 .. 1 - 1 : ~ reading[<<b>>[i]].last
      BY <1>1, <1>2, <2>1
    <3> QED
      BY <1>1, <3>1, TakesToTheFinal
  <2>5. \A i \in 1 .. 1 - 1 : reading[<<b>>[i]] # Refused
    OBVIOUS
  <2>6. g \in NetIdSpace
    BY GroupIds
  <2> HIDE DEF f
  <2>7. Read(<<b>>).stored = Mask(g) /\ Read(<<b>>).used = 1
    BY <2>2, <2>3, <2>4, <2>5, <2>6
  <2> QED
    BY <2>6, <2>7, Masks
<1>3. ASSUME \A g \in 0 .. Groups - 1 : reading[b] # Final(g) PROVE Read(<<b>>).used = 0
  <2>1. reading[b] \in {Refused} \cup ByteMeanings
    BY DEF Reads
  <2>2. ~ reading[b].last
    BY <1>3, <2>1, GroupFacts
  <2>3. PICK w : w = <<b>>
    OBVIOUS
  <2>4. w \in Seq(RawBytes) /\ \A i \in 1 .. Len(w) : ~ reading[w[i]].last
    BY <1>1, <2>2, <2>3
  <2>5. Read(w).used = 0
    BY <2>4, ReadsOn
  <2> QED
    BY <2>3, <2>5, Zenon
<1> QED
  BY <1>2, <1>3

\* What it makes of a byte and the one that ends with group 0.
LEMMA ReadsTwo ==
  ASSUME Reads, NEW b \in RawBytes, NEW z \in RawBytes, reading[z] = Final(0)
  PROVE  /\ \A g \in 0 .. Groups - 1 : reading[b] = Further(g) =>
              Read(<<b, z>>).used = 2 /\ Mask(Read(<<b, z>>).stored) = g
         /\ (\A g \in 0 .. Groups - 1 : reading[b] # Further(g)) => Read(<<b, z>>).used # 2
<1>1. <<b, z>> \in Seq(RawBytes) /\ Len(<<b, z>>) = 2 /\ <<b, z>>[1] = b /\ <<b, z>>[2] = z
  OBVIOUS
<1>2. 0 \in 0 .. Groups - 1 /\ Final(0).last /\ Final(0).group = 0
  BY GroupFacts DEF Final
<1>3. PICK w : w = <<b, z>>
  OBVIOUS
<1>4. w \in Seq(RawBytes) /\ Len(w) = 2 /\ w[1] = b /\ w[2] = z
  BY <1>1, <1>3
<1>5. ASSUME NEW g \in 0 .. Groups - 1, reading[b] = Further(g)
      PROVE  Read(w).used = 2 /\ Mask(Read(w).stored) = g
  <2>1. ~ Further(g).last /\ Further(g).group = g /\ Further(g) # Refused /\ g \in Nat
    BY GroupFacts DEF Further
  <2> DEFINE f == [i \in 1 .. 2 |-> IF i = 1 THEN g ELSE 0]
  <2>2. UpFrom(f, w, 2)
    <3>1. ASSUME NEW i \in 1 .. 2 PROVE f[i] = reading[w[i]].group + IF i = 2 THEN 0 ELSE Groups * f[i + 1]
      <4>1. CASE i = 1
        <5>1. f[i] = g /\ f[i + 1] = 0 /\ reading[w[i]].group = g
          BY <1>4, <1>5, <2>1, <4>1
        <5>2. Groups * 0 = 0
          BY GroupFacts
        <5> QED
          BY <2>1, <4>1, <5>1, <5>2
      <4>2. CASE i = 2
        BY <1>2, <1>4, <4>2
      <4> QED
        BY <4>1, <4>2
    <3> QED
      BY <3>1 DEF UpFrom
  <2>3. ASSUME NEW h, UpFrom(h, w, 2) PROVE h[1] = g
    <3>1. \A i \in 1 .. 2 : h[i] = reading[w[i]].group + IF i = 2 THEN 0 ELSE Groups * h[i + 1]
      BY <2>3 DEF UpFrom
    <3>2. h[2] = 0
      BY <1>2, <1>4, <3>1
    <3>3. h[1] = g + Groups * h[2]
      BY <1>4, <1>5, <2>1, <3>1
    <3>4. Groups * 0 = 0
      BY GroupFacts
    <3> QED
      BY <2>1, <3>2, <3>3, <3>4
  <2>4. /\ (\A i \in 1 .. 2 - 1 : reading[w[i]] # Refused) => Read(w).used = 2
        /\ \A v \in NetIdSpace : \A k :
              (/\ \A i \in 1 .. 2 - 1 : reading[w[i]] # Refused
               /\ UpFrom(k, w, 2) /\ \A h : UpFrom(h, w, 2) => h[1] = v) =>
              Read(w).stored = Mask(v)
    <3>1. 2 \in 1 .. Len(w) /\ reading[w[2]].last /\ \A i \in 1 .. 2 - 1 : ~ reading[w[i]].last
      BY <1>2, <1>4, <1>5, <2>1
    <3> QED
      BY <1>4, <3>1, TakesToTheFinal
  <2>5. \A i \in 1 .. 2 - 1 : reading[w[i]] # Refused
    BY <1>4, <1>5, <2>1
  <2>6. g \in NetIdSpace
    BY GroupIds
  <2> HIDE DEF f
  <2>7. Read(w).stored = Mask(g) /\ Read(w).used = 2
    BY <2>2, <2>3, <2>4, <2>5, <2>6
  <2> QED
    BY <2>6, <2>7, Masks
<1>6. ASSUME \A g \in 0 .. Groups - 1 : reading[b] # Further(g) PROVE Read(w).used # 2
  <2>1. reading[b] \in {Refused} \cup ByteMeanings
    BY DEF Reads
  <2>2. CASE reading[b].last
    <3>1. 1 \in 1 .. Len(w) /\ reading[w[1]].last /\ \A i \in 1 .. 1 - 1 : ~ reading[w[i]].last
      BY <1>4, <2>2
    <3>2. (\A i \in 1 .. 1 - 1 : reading[w[i]] # Refused) => Read(w).used = 1
      BY <1>4, <3>1, TakesToTheFinal
    <3> QED
      BY <3>2
  <2>3. CASE ~ reading[b].last
    <3>1. reading[b] = Refused
      BY <1>6, <2>1, <2>3, GroupFacts
    <3>2. 2 \in 1 .. Len(w) /\ reading[w[2]].last /\ (\A i \in 1 .. 2 - 1 : ~ reading[w[i]].last)
          /\ \E i \in 1 .. 2 - 1 : reading[w[i]] = Refused
      BY <1>2, <1>4, <2>3, <3>1
    <3>3. Read(w).used = 0
      BY <1>4, <3>2, TakesToTheFinal
    <3> QED
      BY <3>3
  <2> QED
    BY <2>2, <2>3
<1> QED
  BY <1>3, <1>5, <1>6

-----------------------------------------------------------------------------
(* Net ids: learning *)

\* A table of one form has only bytes of that form, for their groups.
Truly(table, m, f) ==
  /\ table \in [0 .. Groups - 1 -> {Unset} \cup RawBytes]
  /\ \A g \in 0 .. Groups - 1 : table[g] # Unset => f[table[g]] = m[g]
\* And has every group of which a byte below top says it.
Fully(table, m, f, top) ==
  \A g \in 0 .. Groups - 1, b \in RawBytes : b < top /\ f[b] = m[g] => table[g] # Unset

Finals == [g \in 0 .. Groups - 1 |-> Final(g)]
Furthers == [g \in 0 .. Groups - 1 |-> Further(g)]

CodecTyped ==
  /\ Reads /\ trial \in [last : BOOLEAN, byte : 0 .. 2 * Groups] /\ learned \in {"no", "ok", "error"}
  /\ codec \in [last : [0 .. Groups - 1 -> {Unset} \cup RawBytes], more : [0 .. Groups - 1 -> {Unset} \cup RawBytes]]

TablesAreTrue ==
  /\ Truly(codec.last, Finals, reading) /\ Truly(codec.more, Furthers, reading)
  /\ Fully(codec.last, Finals, reading, IF trial.last THEN trial.byte ELSE 2 * Groups)
  /\ ~ trial.last => Fully(codec.more, Furthers, reading, trial.byte) /\ codec.last[0] # Unset

Decided ==
  learned # "no" =>
    /\ learned = "ok" <=> ByteMeanings \subseteq Range(reading)
    /\ learned = "ok" => Unset \notin Range(codec.last) \cup Range(codec.more)

CodecInv == CodecTyped /\ TablesAreTrue /\ Decided

LEMMA KeepsTheFirst ==
  ASSUME NEW m, NEW f, NEW table, Truly(table, m, f), NEW top \in 0 .. 2 * Groups - 1, Fully(table, m, f, top),
         NEW next,
         \A g \in 0 .. Groups - 1 : f[top] = m[g] => next = KeptFirst(table, g, top),
         (\A g \in 0 .. Groups - 1 : f[top] # m[g]) => next = table
  PROVE  Truly(next, m, f) /\ Fully(next, m, f, top + 1)
<1>1. top \in RawBytes /\ top # Unset /\ Groups \in Nat \ {0, 1}
  BY GroupFacts DEF RawBytes, Unset
<1>2. CASE \A g \in 0 .. Groups - 1 : f[top] # m[g]
  <2>1. next = table
    BY <1>2
  <2>2. \A g \in 0 .. Groups - 1, b \in RawBytes : b < top + 1 /\ f[b] = m[g] => b < top
    BY <1>1, <1>2 DEF RawBytes
  <2> QED
    BY <2>1, <2>2 DEF Fully
<1>3. ASSUME NEW g \in 0 .. Groups - 1, f[top] = m[g] PROVE Truly(next, m, f) /\ Fully(next, m, f, top + 1)
  <2>1. next = IF table[g] = Unset THEN [table EXCEPT ![g] = top] ELSE table
    BY <1>3 DEF KeptFirst
  <2>2. table \in [0 .. Groups - 1 -> {Unset} \cup RawBytes]
    BY DEF Truly
  <2>3. next \in [0 .. Groups - 1 -> {Unset} \cup RawBytes] /\ next[g] # Unset
        /\ \A h \in 0 .. Groups - 1 : (next[h] = table[h] \/ (h = g /\ next[h] = top)) /\ (table[h] # Unset => next[h] # Unset)
    BY <1>1, <2>1, <2>2
  <2>4. Truly(next, m, f)
    BY <1>3, <2>3 DEF Truly
  <2>5. ASSUME NEW h \in 0 .. Groups - 1, NEW b \in RawBytes, b < top + 1, f[b] = m[h] PROVE next[h] # Unset
    <3>1. CASE b < top
      BY <2>3, <2>5, <3>1 DEF Fully
    <3>2. CASE ~ b < top
      <4>1. b = top
        BY <1>1, <2>5, <3>2 DEF RawBytes
      <4>2. next = KeptFirst(table, h, top)
        BY <2>5, <4>1
      <4> QED
        BY <1>1, <2>2, <4>2 DEF KeptFirst
    <3> QED
      BY <3>1, <3>2
  <2> QED
    BY <2>4, <2>5 DEF Fully
<1> QED
  BY <1>2, <1>3

LEMMA FormFacts ==
  /\ \A g \in 0 .. Groups - 1 : Finals[g] = Final(g) /\ Furthers[g] = Further(g)
  /\ \A g \in 0 .. Groups - 1 : Final(g).last /\ ~ Further(g).last /\ Final(g).group = g /\ Further(g).group = g
BY DEF Finals, Furthers, Final, Further

LEMMA CodecStarts == CodecInit => CodecInv
<1> SUFFICES ASSUME CodecInit PROVE CodecInv
  OBVIOUS
<1>0. Groups \in Nat \ {0, 1}
  BY GroupFacts
<1>1. reading \in [RawBytes -> {Refused} \cup ByteMeanings]
  <2>1. reading \in Readers
    BY DEF CodecInit
  <2> QED
    BY <2>1 DEF Readers, ByteMeanings
<1>2. codec = [last |-> [g \in 0 .. Groups - 1 |-> Unset], more |-> [g \in 0 .. Groups - 1 |-> Unset]]
      /\ trial = [last |-> TRUE, byte |-> 0] /\ learned = "no"
  BY DEF CodecInit, CodecStart
<1>3. CodecTyped
  BY <1>0, <1>1, <1>2 DEF CodecTyped, Reads
<1>4. TablesAreTrue
  BY <1>0, <1>2 DEF TablesAreTrue, Truly, Fully, RawBytes
<1>5. Decided
  BY <1>2 DEF Decided
<1> QED
  BY <1>3, <1>4, <1>5 DEF CodecInv

\* A group without a byte is one that no byte says.
LEMMA UnsetIsUnsaid ==
  ASSUME CodecInv, trial.byte \notin RawBytes
  PROVE  /\ \A g \in 0 .. Groups - 1 : codec.last[g] = Unset => Final(g) \notin Range(reading)
         /\ \A g \in 0 .. Groups - 1 : ~ trial.last /\ codec.more[g] = Unset => Further(g) \notin Range(reading)
<1>1. Groups \in Nat \ {0, 1} /\ DOMAIN reading = RawBytes /\ trial.byte \in 0 .. 2 * Groups /\ trial.last \in BOOLEAN
  BY GroupFacts DEF CodecInv, CodecTyped, Reads
<1>2. \A b \in RawBytes : b < trial.byte /\ b < 2 * Groups
  BY <1>1 DEF RawBytes
<1>3. \A m \in Range(reading) : \E b \in RawBytes : m = reading[b]
  BY <1>1 DEF Range
<1>4. ASSUME NEW g \in 0 .. Groups - 1, codec.last[g] = Unset, Final(g) \in Range(reading) PROVE FALSE
  <2>1. PICK b \in RawBytes : reading[b] = Finals[g]
    BY <1>3, <1>4, FormFacts
  <2>2. Fully(codec.last, Finals, reading, IF trial.last THEN trial.byte ELSE 2 * Groups)
    BY DEF CodecInv, TablesAreTrue
  <2> QED
    BY <1>2, <1>4, <2>1, <2>2 DEF Fully
<1>5. ASSUME NEW g \in 0 .. Groups - 1, ~ trial.last, codec.more[g] = Unset, Further(g) \in Range(reading) PROVE FALSE
  <2>1. PICK b \in RawBytes : reading[b] = Furthers[g]
    BY <1>3, <1>5, FormFacts
  <2>2. Fully(codec.more, Furthers, reading, trial.byte)
    BY <1>5 DEF CodecInv, TablesAreTrue
  <2> QED
    BY <1>2, <1>5, <2>1, <2>2 DEF Fully
<1> QED
  BY <1>4, <1>5

LEMMA TerminalIsTried == CodecInv /\ TryTerminal => CodecInv'
<1> SUFFICES ASSUME CodecInv, TryTerminal PROVE CodecInv'
  OBVIOUS
<1>0. Groups \in Nat \ {0, 1} /\ Reads
  BY GroupFacts DEF CodecInv, CodecTyped
<1>1. PICK b : b = trial.byte
  OBVIOUS
<1>2. PICK table, others : table = codec.last /\ others = codec.more
  OBVIOUS
<1>3. PICK w, value : w = Read(<<b>>).used /\ value = Mask(Read(<<b>>).stored)
  OBVIOUS
<1>4. learned = "no" /\ trial.last /\ b \in RawBytes /\ trial \in [last : BOOLEAN, byte : 0 .. 2 * Groups]
      /\ codec = [last |-> table, more |-> others]
  BY <1>1, <1>2 DEF TryTerminal, CodecInv, CodecTyped
<1>5. codec' = (IF w = 1 /\ value < Groups THEN [codec EXCEPT !.last = KeptFirst(@, value, b)] ELSE codec)
      /\ trial' = [trial EXCEPT !.byte = @ + 1] /\ reading' = reading /\ learned' = learned
  BY <1>1, <1>3, Zenon DEF TryTerminal, NextTrial
<1>6. PICK next : next = IF w = 1 /\ value < Groups THEN KeptFirst(table, value, b) ELSE table
  OBVIOUS
<1>7. codec' = [last |-> next, more |-> others]
  BY <1>4, <1>5, <1>6
<1>8. trial'.last = TRUE /\ trial'.byte = b + 1 /\ trial' \in [last : BOOLEAN, byte : 0 .. 2 * Groups]
  BY <1>0, <1>1, <1>4, <1>5 DEF RawBytes
<1>9. Truly(table, Finals, reading) /\ Truly(others, Furthers, reading) /\ Fully(table, Finals, reading, b)
  BY <1>1, <1>2, <1>4 DEF CodecInv, TablesAreTrue
<1>10. /\ \A g \in 0 .. Groups - 1 : reading[b] = Finals[g] => next = KeptFirst(table, g, b)
       /\ (\A g \in 0 .. Groups - 1 : reading[b] # Finals[g]) => next = table
  <2>1. ASSUME NEW g \in 0 .. Groups - 1, reading[b] = Finals[g] PROVE next = KeptFirst(table, g, b)
    <3>1. w = 1 /\ value = g
      BY <1>0, <1>3, <1>4, <2>1, FormFacts, ReadsOne
    <3> QED
      BY <1>0, <1>6, <3>1
  <2>2. ASSUME \A g \in 0 .. Groups - 1 : reading[b] # Finals[g] PROVE next = table
    <3>1. w = 0
      BY <1>0, <1>3, <1>4, <2>2, FormFacts, ReadsOne
    <3> QED
      BY <1>6, <3>1
  <2> QED
    BY <2>1, <2>2
<1>11. Truly(next, Finals, reading) /\ Fully(next, Finals, reading, b + 1)
  <2>1. b \in 0 .. 2 * Groups - 1
    BY <1>4 DEF RawBytes
  <2> QED
    BY <1>9, <1>10, <2>1, KeepsTheFirst
<1>12. codec'.last = next /\ codec'.more = others
  BY <1>7
<1>13. CodecTyped'
  <2>1. Reads' /\ learned' \in {"no", "ok", "error"}
    BY <1>0, <1>4, <1>5 DEF Reads
  <2>2. next \in [0 .. Groups - 1 -> {Unset} \cup RawBytes] /\ others \in [0 .. Groups - 1 -> {Unset} \cup RawBytes]
    BY <1>9, <1>11 DEF Truly
  <2> QED
    BY <1>7, <1>8, <2>1, <2>2 DEF CodecTyped
<1>14. TablesAreTrue'
  BY <1>5, <1>8, <1>9, <1>11, <1>12 DEF TablesAreTrue
<1>15. Decided'
  BY <1>4, <1>5 DEF Decided
<1> QED
  BY <1>13, <1>14, <1>15 DEF CodecInv

LEMMA TerminalsAreDone == CodecInv /\ TerminalsDone => CodecInv'
<1> SUFFICES ASSUME CodecInv, TerminalsDone PROVE CodecInv'
  OBVIOUS
<1>0. Groups \in Nat \ {0, 1} /\ Reads /\ 0 \in 0 .. Groups - 1
  BY GroupFacts DEF CodecInv, CodecTyped
<1>1. learned = "no" /\ trial.last /\ trial.byte \notin RawBytes /\ reading' = reading /\ codec' = codec
  BY DEF TerminalsDone
<1>2. trial.byte = 2 * Groups
  BY <1>0, <1>1 DEF CodecInv, CodecTyped, RawBytes
<1>3. CASE codec.last[0] = Unset
  <2>1. learned' = "error" /\ trial' = trial
    BY <1>3 DEF TerminalsDone
  <2>2. Final(0) \notin Range(reading)
    BY <1>0, <1>1, <1>3, UnsetIsUnsaid
  <2>3. Final(0) \in ByteMeanings
    BY <1>0, GroupFacts
  <2>4. Decided'
    BY <1>1, <2>1, <2>2, <2>3 DEF Decided
  <2>5. CodecTyped'
    BY <1>1, <2>1 DEF CodecInv, CodecTyped, Reads
  <2>6. TablesAreTrue'
    BY <1>1, <2>1 DEF CodecInv, TablesAreTrue
  <2> QED
    BY <2>4, <2>5, <2>6 DEF CodecInv
<1>4. CASE codec.last[0] # Unset
  <2>1. learned' = learned /\ trial' = [last |-> FALSE, byte |-> 0]
    BY <1>4 DEF TerminalsDone
  <2>2. Decided'
    BY <1>1, <2>1 DEF Decided
  <2>3. CodecTyped'
    BY <1>0, <1>1, <2>1 DEF CodecInv, CodecTyped, Reads
  <2>4. Fully(codec.last, Finals, reading, 2 * Groups) /\ Fully(codec.more, Furthers, reading, 0)
    BY <1>0, <1>1, <1>2 DEF CodecInv, TablesAreTrue, Fully, RawBytes
  <2>5. Truly(codec.last, Finals, reading) /\ Truly(codec.more, Furthers, reading)
    BY DEF CodecInv, TablesAreTrue
  <2>6. trial'.last = FALSE /\ trial'.byte = 0
    BY <2>1
  <2>7. TablesAreTrue'
    BY <1>1, <1>4, <2>4, <2>5, <2>6 DEF TablesAreTrue
  <2> QED
    BY <2>2, <2>3, <2>7 DEF CodecInv
<1> QED
  BY <1>3, <1>4

LEMMA ContinuationIsTried == CodecInv /\ TryContinuation => CodecInv'
<1> SUFFICES ASSUME CodecInv, TryContinuation PROVE CodecInv'
  OBVIOUS
<1>0. Groups \in Nat \ {0, 1} /\ Reads /\ 0 \in 0 .. Groups - 1
  BY GroupFacts DEF CodecInv, CodecTyped
<1>1. PICK b : b = trial.byte
  OBVIOUS
<1>2. PICK table, others, z : table = codec.last /\ others = codec.more /\ z = codec.last[0]
  OBVIOUS
<1>3. PICK w, value : w = Read(<<b, z>>).used /\ value = Mask(Read(<<b, z>>).stored)
  OBVIOUS
<1>4. learned = "no" /\ ~ trial.last /\ b \in RawBytes /\ trial \in [last : BOOLEAN, byte : 0 .. 2 * Groups]
      /\ codec = [last |-> table, more |-> others]
  BY <1>1, <1>2 DEF TryContinuation, CodecInv, CodecTyped
<1>5. codec' = (IF b \notin Range(table) /\ w = 2 THEN [codec EXCEPT !.more = KeptFirst(@, value % Groups, b)] ELSE codec)
      /\ trial' = [trial EXCEPT !.byte = @ + 1] /\ reading' = reading /\ learned' = learned
  BY <1>1, <1>2, <1>3, Zenon DEF TryContinuation, NextTrial
<1>6. PICK next : next = IF b \notin Range(table) /\ w = 2 THEN KeptFirst(others, value % Groups, b) ELSE others
  OBVIOUS
<1>7. codec' = [last |-> table, more |-> next]
  BY <1>4, <1>5, <1>6
<1>8. trial'.last = FALSE /\ trial'.byte = b + 1 /\ trial' \in [last : BOOLEAN, byte : 0 .. 2 * Groups]
  BY <1>0, <1>1, <1>4, <1>5 DEF RawBytes
<1>9. Truly(table, Finals, reading) /\ Truly(others, Furthers, reading) /\ Fully(others, Furthers, reading, b)
      /\ Fully(table, Finals, reading, 2 * Groups) /\ z # Unset /\ z = table[0]
  BY <1>1, <1>2, <1>4 DEF CodecInv, TablesAreTrue
<1>10. z \in RawBytes /\ reading[z] = Final(0)
  BY <1>0, <1>9, FormFacts DEF Truly
<1>11. /\ \A g \in 0 .. Groups - 1 : reading[b] = Furthers[g] => next = KeptFirst(others, g, b)
       /\ (\A g \in 0 .. Groups - 1 : reading[b] # Furthers[g]) => next = others
  <2>1. ASSUME NEW g \in 0 .. Groups - 1, reading[b] = Furthers[g] PROVE next = KeptFirst(others, g, b)
    <3>1. reading[b] = Further(g)
      BY <2>1, FormFacts
    <3>2. w = 2 /\ value = g
      BY <1>0, <1>3, <1>4, <1>10, <3>1, ReadsTwo
    <3>3. b \notin Range(table)
      <4> SUFFICES ASSUME b \in Range(table) PROVE FALSE
        OBVIOUS
      <4>1. PICK h \in 0 .. Groups - 1 : b = table[h]
        BY <1>9 DEF Truly, Range
      <4>2. b # Unset
        BY <1>0, <1>4 DEF RawBytes, Unset
      <4>3. reading[b] = Final(h)
        BY <1>9, <4>1, <4>2, FormFacts DEF Truly
      <4> QED
        BY <3>1, <4>3, FormFacts
    <3>4. value % Groups = g
      BY <3>2, GroupIds
    <3> QED
      BY <1>6, <3>2, <3>3, <3>4
  <2>2. ASSUME \A g \in 0 .. Groups - 1 : reading[b] # Furthers[g] PROVE next = others
    <3>1. w # 2
      BY <1>0, <1>3, <1>4, <1>10, <2>2, FormFacts, ReadsTwo
    <3> QED
      BY <1>6, <3>1
  <2> QED
    BY <2>1, <2>2
<1>12. Truly(next, Furthers, reading) /\ Fully(next, Furthers, reading, b + 1)
  <2>1. b \in 0 .. 2 * Groups - 1
    BY <1>4 DEF RawBytes
  <2> QED
    BY <1>9, <1>11, <2>1, KeepsTheFirst
<1>13. codec'.last = table /\ codec'.more = next
  BY <1>7
<1>14. CodecTyped'
  <2>1. Reads' /\ learned' \in {"no", "ok", "error"}
    BY <1>0, <1>4, <1>5 DEF Reads
  <2>2. table \in [0 .. Groups - 1 -> {Unset} \cup RawBytes] /\ next \in [0 .. Groups - 1 -> {Unset} \cup RawBytes]
    BY <1>9, <1>12 DEF Truly
  <2> QED
    BY <1>7, <1>8, <2>1, <2>2 DEF CodecTyped
<1>15. TablesAreTrue'
  BY <1>5, <1>8, <1>9, <1>12, <1>13 DEF TablesAreTrue
<1>16. Decided'
  BY <1>4, <1>5 DEF Decided
<1> QED
  BY <1>14, <1>15, <1>16 DEF CodecInv

LEMMA LearningEnds == CodecInv /\ Learned => CodecInv'
<1> SUFFICES ASSUME CodecInv, Learned PROVE CodecInv'
  OBVIOUS
<1>0. Groups \in Nat \ {0, 1} /\ Reads
  BY GroupFacts DEF CodecInv, CodecTyped
<1>1. ~ trial.last /\ trial.byte \notin RawBytes /\ reading' = reading /\ codec' = codec /\ trial' = trial
  BY DEF Learned
<1>2. learned' = IF Unset \in Range(codec.last) \cup Range(codec.more) THEN "error" ELSE "ok"
  BY Zenon DEF Learned
<1>3. Truly(codec.last, Finals, reading) /\ Truly(codec.more, Furthers, reading)
  BY DEF CodecInv, TablesAreTrue
<1>4. DOMAIN codec.last = 0 .. Groups - 1 /\ DOMAIN codec.more = 0 .. Groups - 1
  BY <1>3 DEF Truly
<1>5. CASE Unset \in Range(codec.last) \cup Range(codec.more)
  <2>1. \E g \in 0 .. Groups - 1 : codec.last[g] = Unset \/ codec.more[g] = Unset
    BY <1>4, <1>5 DEF Range
  <2>2. \E g \in 0 .. Groups - 1 : Final(g) \notin Range(reading) \/ Further(g) \notin Range(reading)
    BY <1>1, <2>1, UnsetIsUnsaid
  <2>3. ~ ByteMeanings \subseteq Range(reading)
    BY <2>2, GroupFacts
  <2>4. learned' = "error"
    BY <1>2, <1>5
  <2>5. Decided'
    BY <1>1, <2>3, <2>4 DEF Decided
  <2>6. CodecTyped' /\ TablesAreTrue'
    <3>1. CodecTyped'
      BY <1>1, <2>4 DEF CodecInv, CodecTyped, Reads
    <3>2. TablesAreTrue'
      BY <1>1 DEF CodecInv, TablesAreTrue
    <3> QED
      BY <3>1, <3>2
  <2> QED
    BY <2>5, <2>6 DEF CodecInv
<1>6. CASE Unset \notin Range(codec.last) \cup Range(codec.more)
  <2>1. \A g \in 0 .. Groups - 1 : codec.last[g] # Unset /\ codec.more[g] # Unset
    BY <1>4, <1>6 DEF Range
  <2>2. \A g \in 0 .. Groups - 1 : \E b, c \in RawBytes : reading[b] = Final(g) /\ reading[c] = Further(g)
    <3> TAKE g \in 0 .. Groups - 1
    <3>1. codec.last[g] \in RawBytes /\ codec.more[g] \in RawBytes
      BY <1>3, <2>1 DEF Truly
    <3>2. reading[codec.last[g]] = Final(g) /\ reading[codec.more[g]] = Further(g)
      BY <1>3, <2>1, FormFacts DEF Truly
    <3> QED
      BY <3>1, <3>2
  <2>3. ByteMeanings \subseteq Range(reading)
    <3>1. DOMAIN reading = RawBytes
      BY <1>0 DEF Reads
    <3> SUFFICES ASSUME NEW m \in ByteMeanings PROVE m \in Range(reading)
      OBVIOUS
    <3>2. PICK g \in 0 .. Groups - 1 : m = Final(g) \/ m = Further(g)
      BY DEF ByteMeanings, Final, Further
    <3>3. PICK b \in RawBytes : m = reading[b]
      BY <2>2, <3>2
    <3> QED
      BY <3>1, <3>3 DEF Range
  <2>4. learned' = "ok"
    BY <1>2, <1>6
  <2>5. Decided'
    BY <1>1, <1>6, <2>3, <2>4 DEF Decided
  <2>6. CodecTyped' /\ TablesAreTrue'
    <3>1. CodecTyped'
      BY <1>1, <2>4 DEF CodecInv, CodecTyped, Reads
    <3>2. TablesAreTrue'
      BY <1>1 DEF CodecInv, TablesAreTrue
    <3> QED
      BY <3>1, <3>2
  <2> QED
    BY <2>5, <2>6 DEF CodecInv
<1> QED
  BY <1>5, <1>6

LEMMA CodecIsTrue == CodecSpec => []CodecInv
<1>1. CodecInv /\ [CodecNext]_codecPart => CodecInv'
  <2> SUFFICES ASSUME CodecInv, [CodecNext]_codecPart PROVE CodecInv'
    OBVIOUS
  <2>1. CASE UNCHANGED codecPart
    <3>1. reading' = reading /\ codec' = codec /\ trial' = trial /\ learned' = learned
      BY <2>1 DEF codecPart
    <3>2. CodecTyped'
      BY <3>1 DEF CodecInv, CodecTyped, Reads
    <3>3. TablesAreTrue'
      BY <3>1 DEF CodecInv, TablesAreTrue
    <3>4. Decided'
      BY <3>1 DEF CodecInv, Decided
    <3> QED
      BY <3>2, <3>3, <3>4 DEF CodecInv
  <2> QED
    BY <2>1, TerminalIsTried, TerminalsAreDone, ContinuationIsTried, LearningEnds DEF CodecNext
<1> QED
  BY <1>1, CodecStarts, PTL DEF CodecSpec

-----------------------------------------------------------------------------
(* Net ids: writing, and finding what is written *)

TablesAreWhole ==
  /\ Reads
  /\ codec.last \in [0 .. Groups - 1 -> RawBytes] /\ codec.more \in [0 .. Groups - 1 -> RawBytes]
  /\ \A g \in 0 .. Groups - 1 : reading[codec.last[g]] = Final(g) /\ reading[codec.more[g]] = Further(g)

LEMMA LearnedIsWhole ==
  ASSUME CodecInv, learned = "ok"
  PROVE  TablesAreWhole
<1>1. Truly(codec.last, Finals, reading) /\ Truly(codec.more, Furthers, reading)
  BY DEF CodecInv, TablesAreTrue
<1>2. Unset \notin Range(codec.last) \cup Range(codec.more)
  BY DEF CodecInv, Decided
<1>3. \A g \in 0 .. Groups - 1 : codec.last[g] # Unset /\ codec.more[g] # Unset
  BY <1>1, <1>2 DEF Truly, Range
<1>4. codec.last \in [0 .. Groups - 1 -> RawBytes] /\ codec.more \in [0 .. Groups - 1 -> RawBytes]
  BY <1>1, <1>3 DEF Truly
<1>5. \A g \in 0 .. Groups - 1 : reading[codec.last[g]] = Final(g) /\ reading[codec.more[g]] = Further(g)
  BY <1>1, <1>3, FormFacts DEF Truly
<1>6. Reads
  BY DEF CodecInv, CodecTyped
<1> QED
  BY <1>4, <1>5, <1>6 DEF TablesAreWhole

\* An id is written in as many bytes as are tally, and the bytes mean its groups.
LEMMA Encoded ==
  ASSUME TablesAreWhole, NEW id \in NetIdSpace
  PROVE  /\ encode(id) \in Seq(RawBytes) /\ Len(encode(id)) = groups(id) /\ groups(id) \in Nat \ {0}
         /\ encode(id)[1] = Cipher(first_varint_byte(id)) /\ first_varint_byte(id) \in RawBytes
         /\ first_varint_byte(id) % Groups = id % Groups
         /\ Read(encode(id)) = [used |-> Len(encode(id)), stored |-> id]
<1>0. Groups \in Nat \ {0, 1} /\ IdSize \in Nat \ {0}
  BY GroupFacts
<1>1. PICK top, last, more, v : top = IdSize - 1 /\ last = codec.last /\ more = codec.more /\ v = Mask(id)
  OBVIOUS
<1>2. /\ top \in Nat /\ NetIdSpace = 0 .. top /\ v \in 0 .. top /\ Mask(v) = id /\ v % Groups = id % Groups
      /\ last \in [0 .. Groups - 1 -> RawBytes] /\ more \in [0 .. Groups - 1 -> RawBytes]
  BY <1>0, <1>1, Masks DEF NetIdSpace, TablesAreWhole
<1>3. PICK from : WritesUpTo(from, top, last, more) /\ encode(id) = from[v]
  <2> DEFINE f == CHOOSE h : h = [u \in NetIdSpace |-> IF u < Groups THEN <<last[u]>> ELSE <<more[u % Groups]>> \o h[u \div Groups]]
  <2>1. encode(id) = f[v]
    BY <1>1, Zenon DEF encode
  <2>2. f = CHOOSE h : WritesUpTo(h, top, last, more)
    BY <1>2, Zenon DEF WritesUpTo
  <2>3. WritesUpTo(f, top, last, more)
    <3> HIDE DEF f
    <3> QED
      BY <1>2, <2>2, WritingIsDefined, Zenon
  <2> HIDE DEF f
  <2> QED
    BY <2>1, <2>3
<1>4. PICK tally : CountsUpTo(tally, top) /\ groups(id) = 1 + tally[v \div Groups]
  <2> DEFINE f == CHOOSE h : h = [u \in NetIdSpace |-> IF u = 0 THEN 0 ELSE 1 + h[u \div Groups]]
  <2>1. groups(id) = 1 + f[v \div Groups]
    BY <1>1, Zenon DEF groups
  <2>2. f = CHOOSE h : CountsUpTo(h, top)
    BY <1>2, Zenon DEF CountsUpTo
  <2>3. CountsUpTo(f, top)
    <3> HIDE DEF f
    <3> QED
      BY <1>2, <2>2, CountingIsDefined, Zenon
  <2> HIDE DEF f
  <2> QED
    BY <2>1, <2>3
<1>5. PICK n, q : Digits(v, n, q) /\ Written(v, n, q, from, last, more) /\ 1 + tally[v \div Groups] = n
  BY <1>2, <1>3, <1>4, WritesTheGroups
<1>6. PICK w : w = encode(id)
  OBVIOUS
<1>7. w = [i \in 1 .. n |-> IF i < n THEN more[q[i] % Groups] ELSE last[q[i]]]
  BY <1>3, <1>5, <1>6 DEF Written
<1>8. n \in Nat \ {0} /\ q \in [1 .. n -> Nat] /\ q[1] = v /\ q[n] < Groups
      /\ \A i \in 1 .. n - 1 : q[i] >= Groups
  BY <1>5 DEF Digits
<1>9. \A i \in 1 .. n : q[i] \in Nat /\ q[i] % Groups \in 0 .. Groups - 1
  BY <1>0, <1>8, DividesInto
<1>10. q[n] \in 0 .. Groups - 1
  BY <1>0, <1>8
<1>11. (\A i \in 1 .. n - 1 : w[i] = more[q[i] % Groups] /\ w[i] \in RawBytes) /\ w[n] = last[q[n]] /\ w[n] \in RawBytes
  BY <1>2, <1>7, <1>8, <1>9, <1>10
<1>12. w \in Seq(RawBytes) /\ Len(w) = n
  <2>1. \A i \in 1 .. n : w[i] \in RawBytes
    BY <1>8, <1>11
  <2>2. w \in [1 .. n -> RawBytes]
    BY <1>7, <2>1
  <2> QED
    BY <1>8, <2>2
<1>13. Read(w) = [used |-> Len(w), stored |-> id]
  <2>1. \A i \in 1 .. n - 1 : reading[w[i]] = Further(q[i] % Groups)
    BY <1>1, <1>8, <1>9, <1>11 DEF TablesAreWhole
  <2>2. reading[w[n]] = Final(q[n])
    BY <1>1, <1>10, <1>11 DEF TablesAreWhole
  <2>3. Reads /\ v \in NetIdSpace
    BY <1>2 DEF TablesAreWhole
  <2>4. PICK m : m = Len(w)
    OBVIOUS
  <2>5. Digits(v, Len(w), q) /\ (\A i \in 1 .. Len(w) - 1 : reading[w[i]] = Further(q[i] % Groups))
        /\ reading[w[Len(w)]] = Final(q[Len(w)])
    BY <1>5, <1>12, <2>1, <2>2
  <2>6. Read(w) = [used |-> Len(w), stored |-> Mask(v)]
    BY <1>12, <2>3, <2>5, ReadsDigits
  <2> QED
    BY <1>2, <2>6
<1>14. w[1] = Cipher(first_varint_byte(id)) /\ first_varint_byte(id) \in RawBytes /\ first_varint_byte(id) % Groups = id % Groups
  <2>1. CASE v >= Groups
    <3>1. n # 1
      BY <1>0, <1>2, <1>8, <2>1
    <3>2. w[1] = more[v % Groups]
      BY <1>8, <1>11, <3>1
    <3>3. PICK r : r = v % Groups
      OBVIOUS
    <3>4. r \in 0 .. Groups - 1 /\ r = id % Groups
      BY <1>0, <1>2, <3>3, DividesInto
    <3>5. first_varint_byte(id) = Groups + r
      BY <1>1, <2>1, <3>3 DEF first_varint_byte
    <3>6. (Groups + r) % Groups = r
      <4>1. Groups * 1 = Groups
        BY <1>0
      <4>2. (Groups * 1 + r) % Groups = r
        BY <1>0, <3>4, DividesOnce
      <4> QED
        BY <4>1, <4>2
    <3>7. Groups + r \in RawBytes /\ Groups + r >= Groups /\ (Groups + r) - Groups = r
      BY <1>0, <3>4 DEF RawBytes
    <3>8. Cipher(Groups + r) = more[r]
      BY <1>1, <3>7 DEF Cipher
    <3> QED
      BY <3>2, <3>3, <3>4, <3>5, <3>6, <3>7, <3>8
  <2>2. CASE v < Groups
    <3>1. n = 1
      <4> SUFFICES ASSUME n # 1 PROVE FALSE
        OBVIOUS
      <4>1. 1 \in 1 .. n - 1
        BY <1>8
      <4> QED
        BY <1>0, <1>2, <1>8, <2>2, <4>1
    <3>2. w[1] = last[v]
      BY <1>8, <1>11, <3>1
    <3>3. first_varint_byte(id) = v
      BY <1>0, <1>1, <1>2, <2>2 DEF first_varint_byte
    <3>4. v % Groups = id % Groups /\ v \in RawBytes /\ ~ v >= Groups
      BY <1>0, <1>2, <2>2 DEF RawBytes
    <3> QED
      BY <1>1, <3>2, <3>3, <3>4 DEF Cipher
  <2> QED
    BY <1>0, <1>2, <2>1, <2>2
<1> QED
  BY <1>4, <1>5, <1>6, <1>8, <1>12, <1>13, <1>14

\* A payload byte stands for one plain byte, and the full table says which.
LEMMA Deciphers ==
  ASSUME TablesAreWhole
  PROVE  \A b \in RawBytes : Cipher(b) \in RawBytes /\ Cipher(b) \in DOMAIN FullTable /\ FullTable[Cipher(b)] = b
<1>0. Groups \in Nat \ {0, 1}
  BY GroupFacts
<1>1. \A b \in RawBytes : /\ b >= Groups => b - Groups \in 0 .. Groups - 1 /\ Cipher(b) = codec.more[b - Groups]
                          /\ ~ b >= Groups => b \in 0 .. Groups - 1 /\ Cipher(b) = codec.last[b]
  BY <1>0 DEF RawBytes, Cipher
<1>2. \A b \in RawBytes : Cipher(b) \in RawBytes
  BY <1>1 DEF TablesAreWhole
<1>3. \A b \in RawBytes : /\ b >= Groups => b - Groups \in 0 .. Groups - 1 /\ reading[Cipher(b)] = Further(b - Groups)
                          /\ ~ b >= Groups => b \in 0 .. Groups - 1 /\ reading[Cipher(b)] = Final(b)
  BY <1>1 DEF TablesAreWhole
<1>4. ASSUME NEW b \in RawBytes, NEW c \in RawBytes, Cipher(b) = Cipher(c) PROVE b = c
  <2>1. b \in Nat /\ c \in Nat
    BY <1>0 DEF RawBytes
  <2>2. CASE b >= Groups /\ c >= Groups
    <3>1. Further(b - Groups) = Further(c - Groups) /\ b - Groups \in 0 .. Groups - 1 /\ c - Groups \in 0 .. Groups - 1
      BY <1>3, <1>4, <2>2
    <3>2. b - Groups = c - Groups
      BY <3>1, FormFacts
    <3> QED
      BY <1>0, <2>1, <3>2
  <2>3. CASE ~ b >= Groups /\ ~ c >= Groups
    <3>1. Final(b) = Final(c) /\ b \in 0 .. Groups - 1 /\ c \in 0 .. Groups - 1
      BY <1>3, <1>4, <2>3
    <3> QED
      BY <3>1, FormFacts
  <2>4. CASE b >= Groups /\ ~ c >= Groups
    BY <1>3, <1>4, <2>4, FormFacts
  <2>5. CASE ~ b >= Groups /\ c >= Groups
    BY <1>3, <1>4, <2>5, FormFacts
  <2> QED
    BY <2>2, <2>3, <2>4, <2>5
<1>5. {b \in RawBytes : Cipher(b) # Unset} = RawBytes
  BY <1>0, <1>2 DEF RawBytes, Unset
<1>6. FullTable = [c \in {Cipher(b) : b \in RawBytes} |-> CHOOSE b \in RawBytes : Cipher(b) = c]
  <2> DEFINE plain == {b \in RawBytes : Cipher(b) # Unset}
             Of(S) == [c \in {Cipher(b) : b \in S} |-> CHOOSE b \in S : Cipher(b) = c]
  <2>1. FullTable = Of(plain)
    BY Zenon DEF FullTable
  <2>2. plain = RawBytes
    BY <1>5
  <2> HIDE DEF plain
  <2>3. FullTable = Of(RawBytes)
    <3> HIDE DEF Of
    <3> QED
      BY <2>1, <2>2
  <2> QED
    BY <2>3, Zenon
<1>7. ASSUME NEW b \in RawBytes PROVE Cipher(b) \in DOMAIN FullTable /\ FullTable[Cipher(b)] = b
  <2>1. Cipher(b) \in {Cipher(d) : d \in RawBytes}
    OBVIOUS
  <2>2. FullTable[Cipher(b)] = CHOOSE d \in RawBytes : Cipher(d) = Cipher(b)
    BY <1>6, <2>1, Zenon
  <2>3. DOMAIN FullTable = {Cipher(d) : d \in RawBytes}
    BY <1>6, Zenon
  <2>4. (CHOOSE d \in RawBytes : Cipher(d) = Cipher(b)) = b
    <3>1. PICK e : e = CHOOSE d \in RawBytes : Cipher(d) = Cipher(b)
      OBVIOUS
    <3>2. e \in RawBytes /\ Cipher(e) = Cipher(b)
      BY <3>1, Zenon
    <3>3. e = b
      BY <1>4, <3>2
    <3> QED
      BY <3>1, <3>3
  <2> QED
    BY <2>1, <2>2, <2>3, <2>4
<1> QED
  BY <1>2, <1>7

-----------------------------------------------------------------------------
(* Net ids: champions found *)

FieldPayload(id, tail) == <<0, 0>> \o encode(id) \o [k \in 1 .. tail |-> 0]

LEMMA FirstByteIsThere ==
  ASSUME TablesAreWhole, NEW id \in NetIdSpace, NEW tail \in Nat, NEW n, n = groups(id)
  PROVE  byte_at(FieldPayload(id, tail), -(n + tail)) = Cipher(first_varint_byte(id))
<1>1. PICK e, zeros : e = encode(id) /\ zeros = [k \in 1 .. tail |-> 0]
  OBVIOUS
<1>2. e \in Seq(RawBytes) /\ Len(e) = n /\ n \in Nat \ {0} /\ e[1] = Cipher(first_varint_byte(id))
  BY <1>1, Encoded
<1>3. zeros \in Seq(Int) /\ Len(zeros) = tail
  BY <1>1
<1>4. e \in Seq(Int)
  <2>1. RawBytes \subseteq Int
    BY GroupFacts DEF RawBytes
  <2>2. e = [i \in 1 .. n |-> e[i]] /\ \A i \in 1 .. n : e[i] \in RawBytes
    BY <1>2
  <2>3. e \in [1 .. n -> Int]
    BY <2>1, <2>2
  <2> QED
    BY <1>2, <2>3
<1>5. PICK front : front = <<0, 0>> \o e
  OBVIOUS
<1>6. front \in Seq(Int) /\ Len(front) = 2 + n /\ front[3] = e[1]
  BY <1>2, <1>4, <1>5
<1>7. PICK all : all = front \o zeros
  OBVIOUS
<1>8. Len(all) = 2 + n + tail /\ all[3] = front[3]
  <2>1. Len(all) = Len(front) + Len(zeros)
    <3>1. front \in Seq(Int) /\ zeros \in Seq(Int)
      BY <1>3, <1>6
    <3> QED
      BY <1>7, <3>1
  <2>2. 3 \in 1 .. Len(front)
    BY <1>2, <1>6
  <2>3. all[3] = front[3]
    BY <1>3, <1>6, <1>7, <2>2
  <2> QED
    BY <1>3, <1>6, <2>1, <2>3
<1>9. FieldPayload(id, tail) = all
  BY <1>1, <1>5, <1>7, Zenon DEF FieldPayload
<1>10. Len(all) + 1 + (-(n + tail)) = 3
  BY <1>2, <1>8
<1> QED
  BY <1>2, <1>6, <1>8, <1>9, <1>10 DEF byte_at

LEMMA RunsAreApart ==
  ASSUME NEW ids \in IdRuns
  PROVE  /\ DOMAIN ids = 1 .. NumChampions /\ 1 \in DOMAIN ids /\ \A i \in DOMAIN ids : ids[i] \in NetIdSpace
         /\ \A i, j \in DOMAIN ids : ids[i] % Groups = ids[j] % Groups => i = j
<1>0. Groups \in Nat \ {0, 1} /\ IdSize \in Nat \ {0} /\ NumChampions \in 1 .. Groups
  BY NetIdAssumption
<1>1. PICK first \in NetIdSpace : first + NumChampions - 1 \in NetIdSpace /\ ids = Run(first)
  BY DEF IdRuns
<1>2. DOMAIN ids = 1 .. NumChampions /\ \A i \in 1 .. NumChampions : ids[i] = first + i - 1 /\ ids[i] \in NetIdSpace /\ ids[i] \in Nat
  BY <1>0, <1>1 DEF Run, NetIdSpace
<1>3. ASSUME NEW i \in 1 .. NumChampions, NEW j \in 1 .. NumChampions, ids[i] % Groups = ids[j] % Groups, j < i PROVE FALSE
  <2>1. PICK x, y : x = ids[i] /\ y = ids[j]
    OBVIOUS
  <2>2. PICK a, b, r : a = x \div Groups /\ b = y \div Groups /\ r = x % Groups
    OBVIOUS
  <2>3. x \in Nat /\ y \in Nat /\ x - y = i - j
    BY <1>1, <1>2, <2>1 DEF NetIdSpace
  <2>4. a \in Nat /\ r \in 0 .. Groups - 1 /\ x = Groups * a + r
    BY <1>0, <2>2, <2>3, DividesInto
  <2>5. b \in Nat /\ y = Groups * b + r
    <3>1. y % Groups = r
      BY <1>3, <2>1, <2>2
    <3> QED
      BY <1>0, <2>2, <2>3, <3>1, DividesInto
  <2>6. Groups * a \in Nat /\ Groups * b \in Nat
    BY <1>0, <2>4, <2>5
  <2>7. CASE a > b
    <3>1. Groups * (b + 1) <= Groups * a /\ Groups * (b + 1) = Groups * b + Groups
      BY <1>0, <2>4, <2>5, <2>7
    <3> QED
      BY <1>0, <2>3, <2>4, <2>5, <2>6, <3>1
  <2>8. CASE a <= b
    <3>1. Groups * a <= Groups * b
      BY <1>0, <2>4, <2>5, <2>8
    <3> QED
      BY <1>0, <1>3, <2>3, <2>4, <2>5, <2>6, <3>1
  <2> QED
    BY <2>4, <2>5, <2>7, <2>8
<1> QED
  BY <1>0, <1>2, <1>3

\* Of a payload whose id takes as many bytes as the roster's, the champions that are
\* found have its first byte.
LEMMA FoundByTheFirst ==
  ASSUME TablesAreWhole, NEW ids \in IdRuns, NEW tail \in Nat, NEW id \in NetIdSpace,
         first_byte_position(ids, tail) # NoPosition, groups(id) = groups(ids[1]), NEW named,
         named = KillerIn(FieldPayload(id, tail), ids, tail, FullTable)
  PROVE  /\ named # 0 => named \in DOMAIN ids /\ first_varint_byte(id) = first_varint_byte(ids[named])
         /\ (\E i \in DOMAIN ids : ids[i] = id) => named \in DOMAIN ids /\ ids[named] = id
<1>1. PICK n, p : n = groups(ids[1]) /\ p = first_byte_position(ids, tail)
  OBVIOUS
<1>2. p = -(n + tail)
  <2>1. p = IF \A i \in DOMAIN ids : groups(ids[i]) = n THEN -(n + tail) ELSE NoPosition
    BY <1>1, Zenon DEF first_byte_position
  <2> QED
    BY <1>1, <2>1
<1>3. PICK payload : payload = FieldPayload(id, tail)
  OBVIOUS
<1>4. byte_at(payload, p) = Cipher(first_varint_byte(id)) /\ first_varint_byte(id) \in RawBytes
  BY <1>1, <1>2, <1>3, Encoded, FirstByteIsThere
<1>5. byte_at(payload, p) \in DOMAIN FullTable /\ FullTable[byte_at(payload, p)] = first_varint_byte(id)
  BY <1>4, Deciphers
<1> DEFINE of == {i \in DOMAIN ids : /\ p # NoPosition /\ byte_at(payload, p) \in DOMAIN FullTable
                                     /\ first_varint_byte(ids[i]) = FullTable[byte_at(payload, p)]}
           same == {i \in DOMAIN ids : first_varint_byte(ids[i]) = first_varint_byte(id)}
<1>6. named = IF of = {} THEN 0 ELSE Max(of)
  BY <1>1, <1>3, Zenon DEF KillerIn
<1>7. of = same
  BY <1>1, <1>5
<1> HIDE DEF of
<1>8. named = IF same = {} THEN 0 ELSE Max(same)
  BY <1>6, <1>7
<1>9. same # {} => Max(same) \in same
  <2>1. DOMAIN ids = 1 .. NumChampions /\ NumChampions \in Nat
    BY RunsAreApart, NetIdAssumption
  <2>2. same \in SUBSET (0 .. NumChampions)
    BY <2>1
  <2> HIDE DEF same
  <2> QED
    BY <2>1, <2>2, EndsOf
<1>10. ASSUME named # 0 PROVE named \in DOMAIN ids /\ first_varint_byte(id) = first_varint_byte(ids[named])
  <2>1. named \in same
    BY <1>8, <1>9, <1>10
  <2> QED
    BY <2>1
<1>11. ASSUME NEW i \in DOMAIN ids, ids[i] = id PROVE named \in DOMAIN ids /\ ids[named] = id
  <2>1. i \in same
    BY <1>11
  <2>2. named \in same
    BY <1>8, <1>9, <2>1
  <2>3. named \in DOMAIN ids /\ first_varint_byte(ids[named]) = first_varint_byte(id)
    BY <2>2
  <2>4. ids[named] % Groups = id % Groups
    <3>1. ids[named] \in NetIdSpace
      BY <2>3, RunsAreApart
    <3>2. first_varint_byte(ids[named]) % Groups = ids[named] % Groups /\ first_varint_byte(id) % Groups = id % Groups
      BY <3>1, Encoded
    <3> QED
      BY <2>3, <3>2
  <2> QED
    BY <1>11, <2>3, <2>4, RunsAreApart
<1> QED
  BY <1>10, <1>11

\* A roster's field is found: of a position there is, what is there is what is said, and
\* names the champion; without one the ids take unlike numbers of bytes.
RosterIsFound(ids, tail) ==
  IF first_byte_position(ids, tail) = NoPosition
  THEN \E i \in DOMAIN ids : Len(encode(ids[i])) # Len(encode(ids[1]))
  ELSE /\ \A i \in DOMAIN ids :
            /\ byte_at(FieldPayload(ids[i], tail), first_byte_position(ids, tail)) = Cipher(first_varint_byte(ids[i]))
            /\ KillerIn(FieldPayload(ids[i], tail), ids, tail, FullTable) = i
       /\ \A id \in NetIdSpace :
            Len(encode(id)) = Len(encode(ids[1])) /\ KillerIn(FieldPayload(id, tail), ids, tail, FullTable) # 0 =>
              first_varint_byte(id) = first_varint_byte(ids[KillerIn(FieldPayload(id, tail), ids, tail, FullTable)])

LEMMA FindsTheRoster ==
  ASSUME TablesAreWhole, NEW ids \in IdRuns, NEW tail \in Nat
  PROVE  RosterIsFound(ids, tail)
<1>1. PICK n, p : n = groups(ids[1]) /\ p = first_byte_position(ids, tail)
  OBVIOUS
<1>2. p = IF \A i \in DOMAIN ids : groups(ids[i]) = n THEN -(n + tail) ELSE NoPosition
  BY <1>1, Zenon DEF first_byte_position
<1>3. DOMAIN ids = 1 .. NumChampions /\ 1 \in DOMAIN ids /\ \A i \in DOMAIN ids : ids[i] \in NetIdSpace
  BY RunsAreApart
<1>4. \A id \in NetIdSpace : Len(encode(id)) = groups(id) /\ groups(id) \in Nat \ {0}
  BY Encoded
<1>5. CASE p = NoPosition
  <2>1. n \in Nat \ {0}
    BY <1>1, <1>3, <1>4
  <2>2. -(n + tail) # NoPosition
    BY <2>1 DEF NoPosition
  <2>3. PICK i \in DOMAIN ids : groups(ids[i]) # n
    BY <1>2, <1>5, <2>2
  <2>4. Len(encode(ids[i])) # Len(encode(ids[1]))
    BY <1>1, <1>3, <1>4, <2>3
  <2> QED
    BY <1>1, <1>5, <2>4 DEF RosterIsFound
<1>6. CASE p # NoPosition
  <2>1. (\A i \in DOMAIN ids : groups(ids[i]) = n) /\ p = -(n + tail)
    BY <1>2, <1>6
  <2>2. ASSUME NEW i \in DOMAIN ids
        PROVE  /\ byte_at(FieldPayload(ids[i], tail), p) = Cipher(first_varint_byte(ids[i]))
               /\ KillerIn(FieldPayload(ids[i], tail), ids, tail, FullTable) = i
    <3>1. PICK id : id = ids[i]
      OBVIOUS
    <3>2. id \in NetIdSpace /\ groups(id) = n
      BY <1>3, <2>1, <3>1
    <3>3. byte_at(FieldPayload(id, tail), p) = Cipher(first_varint_byte(id))
      BY <2>1, <3>2, FirstByteIsThere
    <3>4. PICK named : named = KillerIn(FieldPayload(id, tail), ids, tail, FullTable)
      OBVIOUS
    <3>5. named \in DOMAIN ids /\ ids[named] = id
      BY <1>1, <1>6, <3>1, <3>2, <3>4, FoundByTheFirst
    <3>6. named = i
      BY <3>1, <3>5, RunsAreApart
    <3> QED
      BY <3>1, <3>3, <3>4, <3>6, Zenon
  <2>3. ASSUME NEW id \in NetIdSpace, Len(encode(id)) = Len(encode(ids[1])),
               KillerIn(FieldPayload(id, tail), ids, tail, FullTable) # 0
        PROVE  first_varint_byte(id) = first_varint_byte(ids[KillerIn(FieldPayload(id, tail), ids, tail, FullTable)])
    <3>1. groups(id) = groups(ids[1])
      BY <1>3, <1>4, <2>3
    <3>2. PICK named : named = KillerIn(FieldPayload(id, tail), ids, tail, FullTable)
      OBVIOUS
    <3>3. first_varint_byte(id) = first_varint_byte(ids[named])
      BY <1>1, <1>6, <2>3, <3>1, <3>2, FoundByTheFirst
    <3> QED
      BY <3>2, <3>3, Zenon
  <2> QED
    BY <1>1, <1>6, <2>2, <2>3, Zenon DEF RosterIsFound
<1> QED
  BY <1>5, <1>6

\* NetIdCodec (emulator/decoder.rs) is learned exactly from a reader that knows every
\* group in both forms, and what it writes is read back whole; and the roster's field is
\* where first_byte_position of explore.rs says, with the byte of first_varint_byte.
THEOREM NetIdsAreFound == CodecSpec => []IdsAreFound
<1>1. CodecInv => IdsAreFound
  <2> SUFFICES ASSUME CodecInv PROVE IdsAreFound
    OBVIOUS
  <2>1. learned # "no" => (learned = "ok" <=> [last : BOOLEAN, group : 0 .. Groups - 1] \subseteq Range(reading))
    BY DEF CodecInv, Decided, ByteMeanings
  <2>2. ASSUME learned = "ok", NEW id \in NetIdSpace PROVE Read(encode(id)) = [used |-> Len(encode(id)), stored |-> id]
    BY <2>2, LearnedIsWhole, Encoded
  <2>3. ASSUME learned = "ok", NEW ids \in IdRuns, NEW tail \in 0 .. TAIL_MAX - 1 PROVE RosterIsFound(ids, tail)
    <3>1. tail \in Nat
      BY NetIdAssumption
    <3> QED
      BY <2>3, <3>1, LearnedIsWhole, FindsTheRoster
  <2> QED
    BY <2>1, <2>2, <2>3, Zenon DEF IdsAreFound, RosterIsFound, FieldPayload
<1> QED
  BY <1>1, CodecIsTrue, PTL
=============================================================================
