------------------------------ MODULE Machine ------------------------------
(***************************************************************************)
(* The emulated heap of src/src/emulator/machine.rs: MachineState with its *)
(* bump allocator and its plaintext capture, and reset_heap.               *)
(*                                                                         *)
(* MachineState is one record, as in the code, and its methods are         *)
(* operators from state to state, so that a caller's sequence of calls is  *)
(* their composition.  An address is a number below AddrMod (2^64) and     *)
(* arithmetic on addresses wraps there, as a release build does it.        *)
(* plain and flags cover the whole heap: where the code has not grown its  *)
(* vectors yet they read as 0.                                             *)
(***************************************************************************)
EXTENDS Integers, Sequences

CONSTANTS
  HeapBase,   \* HEAP_BASE
  HeapSize,   \* HEAP_SIZE, 0x400_0000
  Align,      \* the alignment of a block, 16
  AddrMod,    \* 2^64
  Values,     \* what a byte may hold; 0 among them
  Null        \* no pointer: what alloc answers when the heap is exhausted

HeapEnd == HeapBase + HeapSize
Heap    == HeapBase .. HeapEnd - 1

ASSUME HeapAssumption ==
  /\ HeapBase \in Nat \ {0} /\ HeapSize \in Nat /\ Align \in Nat \ {0}
  /\ AddrMod \in Nat /\ HeapEnd + Align <= AddrMod
  /\ HeapBase % Align = 0
  /\ 0 \in Values
  /\ Null \notin (0 .. AddrMod - 1) \cup Values

VARIABLES
  st,    \* MachineState
  mem    \* the bytes of the heap as the emulated code sees them

machineVars == <<st, mem>>

Zeroed   == [a \in Heap |-> 0]
Unmarked == [a \in Heap |-> FALSE]

-----------------------------------------------------------------------------
(* MachineState.  Of the flags of a byte, reads is FLAG_READ and plains is *)
(* FLAG_PLAIN.                                                             *)

NewState ==
  [heap_cursor |-> HeapBase, heap_high |-> HeapBase, capturing |-> FALSE,
   plain |-> Zeroed, reads |-> Unmarked, plains |-> Unmarked, allocs |-> <<>>]

Larger(a, b) == IF a >= b THEN a ELSE b

\* (c + 15) & !15
RoundUp(c) == c + ((Align - (c % Align)) % Align)

BlockAt(s)      == RoundUp(s.heap_cursor)
BlockEnd(s, sz) == (BlockAt(s) + Larger(sz, 1)) % AddrMod

Fits(s, sz) == BlockEnd(s, sz) <= HeapEnd

Mutant_Allocated_zero_size_free(s, sz) ==
  [s EXCEPT !.heap_cursor = (BlockAt(s) + sz) % AddrMod,
            !.heap_high = Larger(s.heap_high, BlockEnd(s, sz)),
            !.allocs = Append(s.allocs, <<BlockAt(s), sz>>)]

\* alloc: the state after it, when the block fits.
Allocated(s, sz) ==
  [s EXCEPT !.heap_cursor = BlockEnd(s, sz),
            !.heap_high = Larger(s.heap_high, BlockEnd(s, sz)),
            !.allocs = Append(s.allocs, <<BlockAt(s), sz>>)]

\* The heap bytes of an access; an access outside the heap touches none.
Touched(a, n) == IF a \in Heap THEN Heap \cap (a .. a + n - 1) ELSE {}

\* on_read
OnRead(s, a, n) ==
  [s EXCEPT !.reads = [b \in Heap |-> b \in Touched(a, n) \/ s.reads[b]]]

Mutant_ObfuscationPass_any_width(s, a, n) == a \in Heap /\ s.reads[a]

\* A one-byte write to a byte that was read since its last write.
ObfuscationPass(s, a, n) == n = 1 /\ a \in Heap /\ s.reads[a]

\* on_write: every other write records its value.
OnWrite(s, a, n, v) ==
  LET t == [s EXCEPT !.reads = [b \in Heap |-> b \notin Touched(a, n) /\ s.reads[b]]]
  IN  IF ObfuscationPass(s, a, n)
      THEN t
      ELSE [t EXCEPT !.plain  = [b \in Heap |-> IF b \in Touched(a, n) THEN v ELSE s.plain[b]],
                     !.plains = [b \in Heap |-> b \in Touched(a, n) \/ s.plains[b]]]

-----------------------------------------------------------------------------
(* Machine *)

Used(s) == HeapBase .. s.heap_high - 1

Mutant_Reset_keeps_flags(s) ==
  [s EXCEPT !.heap_cursor = HeapBase, !.heap_high = HeapBase, !.allocs = <<>>]

\* reset_heap: what was used is forgotten ...
Reset(s) ==
  [s EXCEPT !.heap_cursor = HeapBase, !.heap_high = HeapBase, !.allocs = <<>>,
            !.plain  = [a \in Heap |-> IF a \in Used(s) THEN 0 ELSE s.plain[a]],
            !.reads  = [a \in Heap |-> a \notin Used(s) /\ s.reads[a]],
            !.plains = [a \in Heap |-> a \notin Used(s) /\ s.plains[a]]]

\* ... and zeroed.
ClearedMem(s, m) == [a \in Heap |-> IF a \in Used(s) THEN 0 ELSE m[a]]

\* A store of n bytes.
Stored(m, a, n, v) == [b \in Heap |-> IF b \in Touched(a, n) THEN v ELSE m[b]]

\* plaintext_heap up to the cursor: the bytes, recorded ones substituted, and
\* which of them were recorded.
PlaintextHeap(s, m) ==
  [bytes   |-> [a \in HeapBase .. s.heap_cursor - 1 |-> IF s.plains[a] THEN s.plain[a] ELSE m[a]],
   written |-> {a \in HeapBase .. s.heap_cursor - 1 : s.plains[a]}]
=============================================================================
