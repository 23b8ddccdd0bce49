----------------------------- MODULE StubEmulator -----------------------------
(***************************************************************************)
(* StubEmulator of src/src/emulator/unicorn.rs in the hands of             *)
(* parse_and_decode of src/src/replay_info.rs: the packets of two classes  *)
(* put one by one through the game's own decrypt functions, and what is    *)
(* taken out of the struct each of them fills.                             *)
(*                                                                         *)
(* The struct lies at the same address in every call of a batch and is not *)
(* cleared.  A value is named after the hit whose decoding wrote it; 0 is  *)
(* what there was before, and a value that will be written over is masked. *)
(* The name and the path are pointers: what they lead to may by then have  *)
(* been written over in part by the calls that followed.  The guest writes *)
(* the fields it is asked for and returns: what it writes beyond them, at  *)
(* the byte past the hook's range (its end is inclusive) for one, and that *)
(* nothing limits a call (unicorn.rs:138-180) are left out.                *)
(***************************************************************************)
EXTENDS Integers, Sequences, FiniteSets

CONSTANTS
  WardWrites,       \* the fields, in the order ward decryption writes them
  X_WRITE_COUNT,    \* writes to x before the one that counts
  BATCH_SIZE,
  NumHits           \* bound: hits of either class

Hooked == {"id", "owner_id", "x"}
Masked == -1

\* The write of a field that counts, by how many came before it.
Counts(f) == IF f = "x" THEN X_WRITE_COUNT ELSE 0

\* The configuration counts the game's writes right: the one that counts is the
\* last, and the name is written once.
ASSUME StubAssumption ==
  /\ X_WRITE_COUNT \in Nat /\ BATCH_SIZE \in Nat \ {0} /\ NumHits \in Nat
  /\ WardWrites \in Seq(Hooked \cup {"name"})
  /\ \A f \in Hooked \cup {"name"} :
       Cardinality({k \in 1 .. Len(WardWrites) : WardWrites[k] = f}) = Counts(f) + 1

VARIABLES
  pass,             \* "wards", "paths", "json" or "error"
  hit,              \* the hit at hand
  pc,               \* writes done and one more, 0 between two calls
  struct,           \* the memory of the packet struct
  hooks,            \* a write hook per call: writes counted, values taken
  ward_packets, path_packets

stubPart == <<pass, hit, pc, struct, hooks, ward_packets, path_packets>>

CleanStruct == [f \in Hooked \cup {"name", "payload"} |-> 0]
NewHook == [count |-> [f \in Hooked |-> 0], got |-> [f \in Hooked |-> 0]]

StubInit ==
  /\ pass = "wards" /\ hit = 1 /\ pc = 0
  /\ struct = CleanStruct /\ hooks = <<>>
  /\ ward_packets = <<>> /\ path_packets = <<>>

Calling == pass \in {"wards", "paths"} /\ pc > 0
Writes  == IF pass = "wards" THEN WardWrites ELSE <<"payload">>

\* Every BATCH_SIZE hits there is a new emulator.
FirstOfBatch == (hit - 1) % BATCH_SIZE = 0

Mutant_Hooked_anew == IF hooks = <<>> THEN <<NewHook>> ELSE hooks

\* A call adds its hook to those of the calls before it.
HookedAnew == Append(hooks, NewHook)

\* setup_args and, of a ward's call, the hook.
SetupArgs ==
  /\ pass \in {"wards", "paths"} /\ pc = 0 /\ hit <= NumHits
  /\ pc' = 1
  /\ struct' = IF FirstOfBatch THEN CleanStruct ELSE struct
  /\ hooks' = IF pass = "paths" THEN <<>> ELSE IF FirstOfBatch THEN <<NewHook>> ELSE HookedAnew
  /\ UNCHANGED <<pass, hit, ward_packets, path_packets>>

\* A payload too long for the heap ends the decoding of the whole replay.
NoRoom ==
  /\ pass \in {"wards", "paths"} /\ pc = 0 /\ hit <= NumHits
  /\ pass' = "error"
  /\ UNCHANGED <<hit, pc, struct, hooks, ward_packets, path_packets>>

\* The hook's closure.
Noticed(h, f, v) ==
  IF f \notin Hooked THEN h
  ELSE [count |-> [h.count EXCEPT ![f] = @ + 1],
        got   |-> IF h.count[f] = Counts(f) THEN [h.got EXCEPT ![f] = v] ELSE h.got]

\* The next write, which every hook sees.
WriteField ==
  /\ Calling /\ pc <= Len(Writes)
  /\ LET f == Writes[pc]
         v == IF \E k \in pc + 1 .. Len(Writes) : Writes[k] = f THEN Masked ELSE hit
     IN  /\ struct' = [struct EXCEPT ![f] = v]
         /\ hooks' = [i \in DOMAIN hooks |-> Noticed(hooks[i], f, v)]
  /\ pc' = pc + 1
  /\ UNCHANGED <<pass, hit, ward_packets, path_packets>>

Called == pc' = 0 /\ hit' = hit + 1

\* The function returns, or stops at a fault: emu_start's result is dropped.
WardReturns ==
  /\ Calling /\ pass = "wards" /\ Called
  /\ LET got == hooks[Len(hooks)].got
     IN  ward_packets' = Append(ward_packets,
           [hit |-> hit, id |-> got["id"], owner_id |-> got["owner_id"], x |-> got["x"],
            name |-> struct["name"], whole |-> pc > Len(Writes)])
  /\ UNCHANGED <<pass, struct, hooks, path_packets>>

\* The name or the path lies where nothing can be read.  A ward's ends the
\* decoding of the whole replay.
Unreadable ==
  /\ Calling /\ pass = "wards" /\ pass' = "error"
  /\ UNCHANGED <<hit, pc, struct, hooks, ward_packets, path_packets>>

\* A path that cannot be read or parsed is passed over, as one from where no
\* payload was ever put is.
PathReturns ==
  /\ Calling /\ pass = "paths" /\ Called
  /\ \/ UNCHANGED path_packets
     \/ /\ struct["payload"] # 0
        /\ path_packets' = Append(path_packets,
             [hit |-> hit, path |-> struct["payload"], whole |-> pc > Len(Writes)])
  /\ UNCHANGED <<pass, struct, hooks, ward_packets>>

PassOver ==
  /\ pass \in {"wards", "paths"} /\ pc = 0 /\ hit = NumHits + 1
  /\ pass' = IF pass = "wards" THEN "paths" ELSE "json"
  /\ hit' = 1
  /\ UNCHANGED <<pc, struct, hooks, ward_packets, path_packets>>

StubNext ==
  \/ SetupArgs \/ NoRoom \/ WriteField
  \/ WardReturns \/ Unreadable \/ PathReturns \/ PassOver

StubSpec == StubInit /\ [][StubNext]_stubPart

-----------------------------------------------------------------------------
Batch(h) == (h - 1) \div BATCH_SIZE
Earlier(h) == {k \in 1 .. h : Batch(k) = Batch(h)}

\* What a hook took is the packet's own, and all of it if the function came to
\* its end, whatever hooks earlier calls left behind (unicorn.rs:138).  A name
\* or a path may be that of another packet when the function did not write it,
\* but only of one of the same batch (replay_info.rs:217-220: "heap state from
\* earlier packets in the same batch can affect decode, but not packets in later
\* batches").
StaleWithinBatch ==
  /\ \A i \in DOMAIN ward_packets : LET p == ward_packets[i] IN
       /\ {p.id, p.owner_id, p.x} \subseteq {0, p.hit}
       /\ p.name \in {0} \cup Earlier(p.hit)
       /\ p.whole => {p.id, p.owner_id, p.x, p.name} = {p.hit}
  /\ \A i \in DOMAIN path_packets : LET p == path_packets[i] IN
       p.path \in Earlier(p.hit) /\ (p.whole => p.path = p.hit)
=============================================================================
