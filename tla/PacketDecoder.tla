--------------------------- MODULE PacketDecoder ---------------------------
(***************************************************************************)
(* PacketDecoder::decode of src/src/emulator/decoder.rs: one block after   *)
(* the other on one Machine, each through the game's factory and the       *)
(* deserializer of its class.                                              *)
(*                                                                         *)
(* The game's own code is not in src/: it allocates, writes what it has    *)
(* allocated, stores and reads fields, and masks stored fields in place.   *)
(* What it is taken to respect is what docs/DECODING.md section 5 says of  *)
(* it: a byte it has read and means to write back alone, it writes back    *)
(* masked.  Each of its accesses runs the hooks of Machine::new.  How far  *)
(* it moves the cursor of its stream is left out: that only tells Partial  *)
(* from Clean (decoder.rs:372), and a call may end with either.  So is an  *)
(* object whose class cannot be read (decoder.rs:349), which ends a decode *)
(* with nothing to show, as NoClass does.                                  *)
(***************************************************************************)
EXTENDS Machine

CONSTANTS
  OutSize,            \* the factory's out-pointer, 16
  StreamSizes,        \* lengths of a re-framed payload
  CurSize,            \* the cursor handed to the deserializer, 8
  GuestSizes,         \* sizes the game's code asks operator new for
  FieldWidths,        \* widths of its stores and reads
  FieldValues,        \* what it stores in a field
  Masked,             \* what masking leaves in a byte
  InstructionLimit    \* INSTRUCTION_LIMIT, in steps of the game's code

\* Two of these are about the game's code: alloc does not notice a size that
\* carries its sum past 2^64, and no game asks for one here.
ASSUME SizeAssumption ==
  /\ OutSize \in Nat /\ CurSize \in Nat
  /\ StreamSizes \subseteq Nat /\ GuestSizes \subseteq Nat
  /\ \A n \in {OutSize, CurSize} \cup StreamSizes \cup GuestSizes :
       HeapEnd + Align + n < AddrMod
  /\ FieldWidths \subseteq Nat \ {0}
  /\ FieldValues \subseteq Values /\ Masked \in Values
  /\ InstructionLimit \in Nat

VARIABLES
  pc,        \* "idle", "factory", "ready" or "deserialize"
  obj,       \* the packet object, Null before it exists
  buf,       \* the stream buffer
  scaffolding,  \* blocks allocated before the deserializer is called
  budget,    \* steps the current call may still take
  held,      \* bytes the game has read and not written since
  stored,    \* what the deserializer last stored in each byte, Null if nothing
  wrote,     \* bytes anyone has written in this decode
  result     \* the last decode's: [status, memory, allocs]

guestVars == <<budget, held, stored, wrote>>
frame == <<obj, buf, scaffolding>>
vars == <<machineVars, pc, frame, guestVars, result>>

NoMemory == [bytes |-> <<>>, written |-> {}]
NoResult(status) == [status |-> status, memory |-> NoMemory, allocs |-> <<>>]

Init ==
  /\ st = NewState /\ mem = Zeroed
  /\ pc = "idle" /\ obj = Null /\ buf = Null /\ scaffolding = 0
  /\ budget = 0 /\ held = {} /\ wrote = {}
  /\ stored = [a \in Heap |-> Null]
  /\ result = NoResult("none")

-----------------------------------------------------------------------------
(* decode, up to the factory *)

\* The heap is reset, then the factory's out-pointer allocated; a netid past
\* max_netid is not even shown to the factory.
Begin(known) ==
  /\ pc = "idle"
  /\ Fits(Reset(st), OutSize)
  /\ st' = Allocated(Reset(st), OutSize) /\ mem' = ClearedMem(st, mem)
  /\ IF known
     THEN pc' = "factory" /\ result' = NoResult("none")
     ELSE pc' = "idle" /\ result' = NoResult("no-class")
  /\ obj' = Null /\ buf' = Null /\ scaffolding' = 0
  /\ budget' = InstructionLimit /\ held' = {} /\ wrote' = {}
  /\ stored' = [a \in Heap |-> Null]

\* The factory has made an object, the last block it allocated, and written
\* its address through the out-pointer.
FactoryReturns ==
  /\ pc = "factory" /\ Len(st.allocs) > 1
  /\ obj' = st.allocs[Len(st.allocs)][1] /\ pc' = "ready"
  /\ mem' = Stored(mem, HeapBase, OutSize, Masked)
  /\ wrote' = wrote \cup Touched(HeapBase, OutSize)
  /\ UNCHANGED <<st, buf, scaffolding, budget, held, stored, result>>

\* It answered 0, or did not return.
NoClass ==
  /\ pc = "factory"
  /\ pc' = "idle" /\ result' = NoResult("no-class")
  /\ UNCHANGED <<machineVars, frame, guestVars>>

\* The stream and the cursor are allocated and written, capture is switched
\* on, and the class's deserializer is called.
Call(n) ==
  LET s1 == Allocated(st, n)
      s2 == Allocated(s1, CurSize)
  IN  /\ pc = "ready"
      /\ Fits(st, n) /\ Fits(s1, CurSize)
      /\ st' = [s2 EXCEPT !.capturing = TRUE]
      /\ mem' = Stored(Stored(mem, BlockAt(st), n, Masked), BlockAt(s1), CurSize, Masked)
      /\ wrote' = wrote \cup Touched(BlockAt(st), n) \cup Touched(BlockAt(s1), CurSize)
      /\ buf' = BlockAt(st) /\ pc' = "deserialize" /\ budget' = InstructionLimit
      /\ scaffolding' = Len(s2.allocs)
      /\ UNCHANGED <<obj, held, stored, result>>

\* `m.alloc(..)?`: the heap is exhausted, the decode is an error.
Exhausted(n) ==
  /\ pc = "ready"
  /\ IF Fits(st, n)
     THEN ~ Fits(Allocated(st, n), CurSize) /\ st' = Allocated(st, n)
     ELSE UNCHANGED st
  /\ pc' = "idle" /\ result' = NoResult("error")
  /\ UNCHANGED <<mem, frame, guestVars>>

-----------------------------------------------------------------------------
(* The game's code, in the factory and in the deserializer.                *)

Capturing == st.capturing

Mutant_GuestStep_unlimited == pc \in {"factory", "deserialize"} /\ UNCHANGED budget

GuestStep ==
  /\ pc \in {"factory", "deserialize"}
  /\ budget > 0 /\ budget' = budget - 1

\* The blocks operator new has given the game; the first and the last two of
\* the scaffolding are the decoder's.
OwnBlocks == (2 .. Len(st.allocs)) \ {scaffolding - 1, scaffolding}

\* The n bytes at a lie in one block of the set.
Within(a, n, blocks) ==
  \E i \in blocks : LET block == st.allocs[i] IN
    block[1] <= a /\ a + n <= block[1] + block[2]

\* operator new; when the heap is exhausted the game gets 0 and faults.
GuestAlloc(n) ==
  /\ GuestStep /\ Fits(st, n)
  /\ st' = Allocated(st, n)
  /\ UNCHANGED <<mem, pc, frame, held, stored, wrote, result>>

\* The hooks on a read of the heap.
GuestRead(a, n) ==
  /\ GuestStep
  /\ Within(a, n, 1 .. Len(st.allocs))
  /\ st' = IF Capturing THEN OnRead(st, a, n) ELSE st
  /\ held' = IF pc = "deserialize" THEN held \cup Touched(a, n) ELSE held
  /\ UNCHANGED <<mem, pc, frame, stored, wrote, result>>

\* The hooks on a write.
Write(a, n, v) ==
  /\ st' = IF Capturing THEN OnWrite(st, a, n, v) ELSE st
  /\ mem' = Stored(mem, a, n, v)
  /\ wrote' = wrote \cup Touched(a, n)
  /\ held' = held \ Touched(a, n)

\* A field gets a value: by one store, of one byte only if it is not a byte
\* that is waiting to be masked.
StoreField(a, n, v) ==
  /\ GuestStep
  /\ Within(a, n, OwnBlocks)
  /\ n = 1 => a \notin held
  /\ Write(a, n, v)
  /\ stored' = IF pc = "deserialize"
               THEN [b \in Heap |-> IF b \in Touched(a, n) THEN v ELSE stored[b]]
               ELSE stored
  /\ UNCHANGED <<pc, frame, result>>

\* A byte that was read is written back masked, or unmasked.
MaskByte(a) ==
  /\ GuestStep /\ a \in held
  /\ Within(a, 1, OwnBlocks)
  /\ Write(a, 1, Masked)
  /\ UNCHANGED <<pc, frame, stored, result>>

-----------------------------------------------------------------------------
(* decode, after the deserializer *)

\* `Fault` when the call did not return: an unmapped access, or the limit.
Statuses == {"clean", "partial", "rejected", "fault"}

\* Capture is switched off, the outcome classified and the heap taken up to
\* its cursor, with the deserializer's own blocks.
Finish(status) ==
  /\ pc = "deserialize"
  /\ st' = [st EXCEPT !.capturing = FALSE]
  /\ pc' = "idle"
  /\ result' = [status |-> status, memory |-> PlaintextHeap(st, mem),
                allocs |-> SubSeq(st.allocs, scaffolding + 1, Len(st.allocs))]
  /\ UNCHANGED <<mem, frame, guestVars>>

Returns ==
  \/ FactoryReturns \/ NoClass
  \/ \E status \in Statuses : Finish(status)

Host ==
  \/ \E known \in BOOLEAN : Begin(known)
  \/ \E n \in StreamSizes : Call(n) \/ Exhausted(n)
  \/ Returns

Guest ==
  \/ \E n \in GuestSizes : GuestAlloc(n)
  \/ \E a \in Heap, n \in FieldWidths :
       \/ GuestRead(a, n)
       \/ \E v \in FieldValues : StoreField(a, n, v)
  \/ \E a \in held : MaskByte(a)

Next == Host \/ Guest

Spec == Init /\ [][Next]_vars

\* The call runs on one thread until it returns or its instructions are used
\* up (emu_start's count), and decode carries on from there; nothing says that
\* another block follows.
FairSpec ==
  /\ Spec
  /\ WF_vars(pc # "idle" /\ Next)

-----------------------------------------------------------------------------
TypeOK ==
  /\ st \in [heap_cursor : 0 .. AddrMod - 1, heap_high : HeapBase .. HeapEnd,
             capturing : BOOLEAN, plain : [Heap -> Values],
             reads : [Heap -> BOOLEAN], plains : [Heap -> BOOLEAN],
             allocs : Seq(Nat \X Nat)]
  /\ mem \in [Heap -> Values]
  /\ pc \in {"idle", "factory", "ready", "deserialize"}
  /\ obj \in Heap \cup {Null} /\ buf \in Heap \cup {Null}
  /\ scaffolding \in 0 .. Len(st.allocs)
  /\ budget \in 0 .. InstructionLimit
  /\ held \in SUBSET Heap /\ wrote \in SUBSET Heap
  /\ stored \in [Heap -> Values \cup {Null}]
  /\ result.status \in Statuses \cup {"none", "no-class", "error"}

\* Where a block ends; a block of no bytes still takes one.
Past(block) == block[1] + Larger(block[2], 1)

\* Blocks handed out since the last reset are aligned, lie inside the heap one
\* after the other, and so never share a byte: an array's entry size is read
\* off the block that starts at its address (machine.rs:68-71, decoder.rs:99).
BlocksApart ==
  \A i \in 1 .. Len(st.allocs) :
    /\ st.allocs[i][1] % Align = 0
    /\ st.allocs[i][1] >= (IF i = 1 THEN HeapBase ELSE Past(st.allocs[i - 1]))
    /\ Past(st.allocs[i]) <= HeapEnd

\* Memory that has not been handed out since the last reset is zero and
\* unmarked, so every block is allocated zeroed (machine.rs:272, 284-285).
FreshIsZero ==
  \A a \in Heap : a >= st.heap_high => mem[a] = 0 /\ ~ st.reads[a] /\ ~ st.plains[a]

\* The view a decode returns is its own: the bytes its deserializer stored, at
\* the values it stored last, whatever masking came after; every other byte
\* as someone wrote it in this decode, or zero.  Nothing of an earlier
\* decode, whatever way that one ended, is in it (docs/DECODING.md:141-152).
ResultIsOwn ==
  pc = "idle" /\ result.status \in Statuses =>
    LET view == result.memory
        fields == {a \in Heap : stored[a] # Null}
    IN  /\ view.written = fields
        /\ \A a \in fields : view.bytes[a] = stored[a]
        /\ \A a \in DOMAIN view.bytes : a \notin wrote => view.bytes[a] = 0

\* Every decode is answered: the game's code is stopped when its instructions
\* are used up (machine.rs:51-52, decoder.rs:34-35).
DecodeAnswers == (pc # "idle") ~> (pc = "idle")

=============================================================================
