-------------------------- MODULE ReplayInfoProofs --------------------------
(***************************************************************************)
(* Proofs about the first format's emulator (StubEmulator) and about what  *)
(* build_output_json makes of its packets (OutputJson): that no value of   *)
(* an earlier batch gets into a packet, that the ticks follow the paths,   *)
(* and that the wards are told apart by where they stand.                  *)
(*                                                                         *)
(* And about the two readers of a movement packet's bytes (PathBuffer):    *)
(* that read gives what the game meant or nothing, and parse the first of  *)
(* it, with every change back taken for one forward.                       *)
(***************************************************************************)
EXTENDS PathBuffer, StubEmulator, OutputJson, FiniteSetTheorems,
  WellFoundedInduction, TLAPS

Fields == Hooked \cup {"name", "payload"}
Hook == [count : [Hooked -> Nat], got : [Hooked -> Int]]

WardPackets == [hit : Nat, id : Int, owner_id : Int, x : Int, name : Int, whole : BOOLEAN]
PathPackets == [hit : Nat, path : Int, whole : BOOLEAN]

\* What a packet may hold.
OwnWard(p) ==
  /\ {p.id, p.owner_id, p.x} \subseteq {0, p.hit}
  /\ p.name \in {0} \cup Earlier(p.hit)
  /\ p.whole => {p.id, p.owner_id, p.x, p.name} = {p.hit}

OwnPath(p) == p.path \in Earlier(p.hit) /\ (p.whole => p.path = p.hit)

StubTyped ==
  /\ pass \in {"wards", "paths", "json", "error"} /\ hit \in Nat \ {0} /\ pc \in Nat
  /\ Calling => pc <= Len(Writes) + 1
  /\ struct \in [Fields -> Int]
  /\ hooks \in Seq(Hook)

PacketsOwn ==
  /\ ward_packets \in Seq(WardPackets) /\ \A i \in DOMAIN ward_packets : OwnWard(ward_packets[i])
  /\ path_packets \in Seq(PathPackets) /\ \A i \in DOMAIN path_packets : OwnPath(path_packets[i])

\* Unless the next call is the first of a batch, the struct holds what calls of the
\* same batch wrote; what the name and the path pointers were was never masked.
OfTheBatch ==
  /\ pass \in {"wards", "paths"} /\ (pc > 0 \/ ~ FirstOfBatch) =>
       \A f \in Fields : struct[f] \in {0, Masked} \cup Earlier(hit)
  /\ struct["name"] # Masked /\ struct["payload"] # Masked

\* The last write of a field leaves the packet's own value.
LastWritten ==
  Calling => \A k \in 1 .. pc - 1 :
    (\A m \in k + 1 .. Len(Writes) : Writes[m] # Writes[k]) => struct[Writes[k]] = hit

\* The writes of f that are done.
Done(f) == {k \in 1 .. pc - 1 : WardWrites[k] = f}

\* The hook of the call under way has counted right and takes the last.
HookCounts ==
  Calling /\ pass = "wards" =>
    /\ hooks # <<>>
    /\ LET h == hooks[Len(hooks)] IN \A f \in Hooked :
         /\ h.count[f] = Cardinality(Done(f)) /\ h.got[f] \in {0, hit}
         /\ Cardinality(Done(f)) > Counts(f) => h.got[f] = hit

StubInv == StubTyped /\ PacketsOwn /\ OfTheBatch /\ LastWritten /\ HookCounts

LEMMA StubInitInv == StubInit => StubInv
<1> SUFFICES ASSUME StubInit PROVE StubInv
  OBVIOUS
<1>1. /\ pass = "wards" /\ hit = 1 /\ pc = 0 /\ struct = CleanStruct /\ hooks = <<>>
      /\ ward_packets = <<>> /\ path_packets = <<>>
  BY DEF StubInit
<1>2. StubTyped
  BY <1>1 DEF StubTyped, Calling, CleanStruct, Fields
<1>3. PacketsOwn
  BY <1>1 DEF PacketsOwn
<1>4. OfTheBatch
  BY <1>1 DEF OfTheBatch, CleanStruct, Fields, Masked
<1> QED
  BY <1>1, <1>2, <1>3, <1>4 DEF StubInv, LastWritten, HookCounts, Calling

\* Two hits in a row are of one batch unless the second is the first of its own.
LEMMA BatchGrows ==
  ASSUME NEW h \in Nat \ {0}, h % BATCH_SIZE # 0
  PROVE  Earlier(h) \subseteq Earlier(h + 1)
<1> DEFINE B == BATCH_SIZE  q == (h - 1) \div B  r == (h - 1) % B
<1>1. B \in Nat \ {0}
  BY StubAssumption
<1>2. q \in Nat /\ r \in 0 .. B - 1 /\ h - 1 = B * q + r
  BY <1>1
<1>3. r # B - 1
  <2> SUFFICES ASSUME r = B - 1 PROVE FALSE
    OBVIOUS
  <2> HIDE DEF B, q, r
  <2>1. h = B * (q + 1)
    BY <1>1, <1>2
  <2>2. \A n \in Nat : (B * n) % B = 0
    BY <1>1
  <2>3. h % B = 0
    BY <1>2, <2>1, <2>2
  <2> QED
    BY <2>3 DEF B
<1>4. h \div B = q
  BY <1>1, <1>2, <1>3
<1> QED
  BY <1>4 DEF Earlier, Batch

LEMMA OwnHitEarlier ==
  ASSUME NEW h \in Nat \ {0}
  PROVE  h \in Earlier(h)
  BY DEF Earlier

\* The count that takes the value is that of the last write.
LEMMA CountLast ==
  ASSUME NEW c \in 1 .. Len(WardWrites), NEW f \in Hooked \cup {"name"}, WardWrites[c] = f,
         Cardinality({k \in 1 .. c - 1 : WardWrites[k] = f}) = Counts(f),
         NEW m \in c + 1 .. Len(WardWrites), WardWrites[m] = f
  PROVE  FALSE
<1> DEFINE D == {k \in 1 .. c - 1 : WardWrites[k] = f}
           A == {k \in 1 .. Len(WardWrites) : WardWrites[k] = f}
<1>1. Len(WardWrites) \in Nat /\ Cardinality(A) = Counts(f) + 1 /\ Counts(f) \in Nat
  BY StubAssumption DEF Counts
<1>2. IsFiniteSet(A)
  <2>1. IsFiniteSet(1 .. Len(WardWrites))
    BY <1>1, FS_Interval
  <2> QED
    BY <2>1, FS_Subset
<1>3. D \in SUBSET A /\ c \in A /\ m \in A /\ c \notin D /\ m \notin D /\ m # c
  BY <1>1
<1>4. IsFiniteSet(D)
  BY <1>2, <1>3, FS_Subset
<1>5. IsFiniteSet(D \cup {c}) /\ Cardinality(D \cup {c}) = Counts(f) + 1
  BY <1>3, <1>4, FS_AddElement
<1>6. Cardinality((D \cup {c}) \cup {m}) = Counts(f) + 2
  <2> DEFINE Dc == D \cup {c}
  <2>1. IsFiniteSet(Dc) /\ m \notin Dc /\ Cardinality(Dc) = Counts(f) + 1
    BY <1>3, <1>5
  <2> HIDE DEF Dc
  <2>2. Cardinality(Dc \cup {m}) = Counts(f) + 1 + 1
    BY <2>1, FS_AddElement
  <2> QED
    BY <1>1, <2>2 DEF Dc
<1>7. (D \cup {c}) \cup {m} \in SUBSET A
  BY <1>3
<1>8. Counts(f) + 2 <= Counts(f) + 1
  BY <1>1, <1>2, <1>6, <1>7, FS_Subset
<1> QED
  BY <1>1, <1>8

\* One more write is done.
LEMMA DoneGrows ==
  ASSUME NEW c \in 1 .. Len(WardWrites), NEW f
  PROVE  LET D == {k \in 1 .. c - 1 : WardWrites[k] = f}
             E == {k \in 1 .. (c + 1) - 1 : WardWrites[k] = f}
         IN  /\ Cardinality(D) \in Nat
             /\ WardWrites[c] = f => Cardinality(E) = Cardinality(D) + 1
             /\ WardWrites[c] # f => E = D
<1> DEFINE D == {k \in 1 .. c - 1 : WardWrites[k] = f}
           E == {k \in 1 .. (c + 1) - 1 : WardWrites[k] = f}
<1>1. Len(WardWrites) \in Nat
  BY StubAssumption
<1>2. IsFiniteSet(D)
  <2>1. IsFiniteSet(1 .. c - 1)
    BY <1>1, FS_Interval
  <2> QED
    BY <2>1, FS_Subset
<1>3. Cardinality(D) \in Nat
  BY <1>2, FS_CardinalityType
<1>4. WardWrites[c] = f => E = D \cup {c} /\ c \notin D
  BY <1>1
<1>5. WardWrites[c] # f => E = D
  BY <1>1
<1>6. WardWrites[c] = f => Cardinality(E) = Cardinality(D) + 1
  BY <1>2, <1>4, FS_AddElement
<1> QED
  BY <1>3, <1>5, <1>6

\* At the end every field has been written as often as it should.
LEMMA AllDone ==
  ASSUME NEW c \in Nat, c = Len(WardWrites) + 1, NEW f \in Hooked \cup {"name"}
  PROVE  Cardinality({k \in 1 .. c - 1 : WardWrites[k] = f}) = Counts(f) + 1 /\ Counts(f) \in Nat
<1>1. Len(WardWrites) \in Nat
  BY StubAssumption
<1>2. c - 1 = Len(WardWrites)
  BY <1>1
<1> QED
  BY <1>2, StubAssumption DEF Counts


-----------------------------------------------------------------------------
\* The fields a call writes are fields of the struct.
LEMMA WritesFields ==
  ASSUME NEW k \in 1 .. Len(Writes)
  PROVE  /\ Writes[k] \in Fields
         /\ pass # "wards" => Writes[k] = "payload" /\ Len(Writes) = 1
         /\ pass = "wards" => Writes = WardWrites /\ Writes[k] \in Hooked \cup {"name"}
<1>1. CASE pass = "wards"
  <2>1. Writes = WardWrites /\ WardWrites \in Seq(Hooked \cup {"name"})
    BY <1>1, StubAssumption DEF Writes
  <2>2. WardWrites[k] \in Hooked \cup {"name"}
    BY <2>1
  <2> QED
    BY <1>1, <2>1, <2>2 DEF Fields
<1>2. CASE pass # "wards"
  <2>1. Writes = <<"payload">> /\ k = 1
    BY <1>2 DEF Writes
  <2> QED
    BY <1>2, <2>1 DEF Fields
<1> QED
  BY <1>1, <1>2

LEMMA SetupArgsInv ==
  ASSUME StubInv, SetupArgs
  PROVE  StubInv'
<1> USE DEF StubInv
<1>1. /\ pass \in {"wards", "paths"} /\ pc = 0 /\ pc' = 1
      /\ struct' = IF FirstOfBatch THEN CleanStruct ELSE struct
      /\ hooks' = IF pass = "paths" THEN <<>> ELSE IF FirstOfBatch THEN <<NewHook>> ELSE HookedAnew
      /\ UNCHANGED <<pass, hit, ward_packets, path_packets>>
  BY DEF SetupArgs
<1>2. NewHook \in Hook /\ CleanStruct \in [Fields -> Int]
  BY DEF NewHook, Hook, CleanStruct, Fields
<1>3. Len(Writes)' \in Nat /\ 1 <= Len(Writes)' + 1
  BY StubAssumption DEF Writes
<1>4. hooks' \in Seq(Hook) /\ (pass = "wards" => hooks' # <<>> /\ hooks'[Len(hooks')] = NewHook)
  <2> DEFINE h == NewHook
  <2>1. h \in Hook /\ hooks \in Seq(Hook)
    BY <1>2 DEF StubTyped
  <2>2. hooks' = <<>> \/ hooks' = <<h>> \/ hooks' = Append(hooks, h)
    BY <1>1 DEF HookedAnew
  <2>3. pass = "wards" => hooks' = <<h>> \/ hooks' = Append(hooks, h)
    BY <1>1 DEF HookedAnew
  <2> HIDE DEF h
  <2>4. <<>> \in Seq(Hook) /\ <<h>> \in Seq(Hook) /\ Append(hooks, h) \in Seq(Hook)
    BY <2>1
  <2>5. hooks' \in Seq(Hook)
    BY <2>4, <2>2
  <2>6. <<h>> # <<>> /\ <<h>>[Len(<<h>>)] = h
    OBVIOUS
  <2>7. Append(hooks, h) # <<>> /\ Append(hooks, h)[Len(Append(hooks, h))] = h
    BY <2>1
  <2>8. pass = "wards" => hooks' # <<>> /\ hooks'[Len(hooks')] = h
    BY <2>6, <2>7, <2>3
  <2> QED
    BY <2>5, <2>8 DEF h
<1>5. StubTyped'
  <2>1. struct' \in [Fields -> Int]
    BY <1>1, <1>2 DEF StubTyped
  <2> QED
    BY <1>1, <1>3, <1>4, <2>1 DEF StubTyped, Calling
<1>6. PacketsOwn'
  BY <1>1 DEF PacketsOwn
<1>7. OfTheBatch'
  <2>1. CASE FirstOfBatch
    <3>1. struct' = CleanStruct
      BY <1>1, <2>1
    <3> QED
      BY <3>1 DEF OfTheBatch, CleanStruct, Fields, Masked
  <2>2. CASE ~ FirstOfBatch
    BY <1>1, <2>2 DEF OfTheBatch
  <2> QED
    BY <2>1, <2>2
<1>8. LastWritten'
  BY <1>1 DEF LastWritten
<1>9. HookCounts'
  <2>1. \A f : Done(f)' = {}
    BY <1>1 DEF Done
  <2>2. Cardinality({}) = 0
    BY FS_EmptySet
  <2>3. \A f \in Hooked : /\ NewHook.count[f] = 0 /\ NewHook.got[f] = 0
                          /\ Counts(f) \in Nat
    BY StubAssumption DEF NewHook, Counts
  <2> SUFFICES ASSUME pass = "wards"
               PROVE  /\ hooks' # <<>>
                      /\ LET h == hooks'[Len(hooks')] IN \A f \in Hooked :
                           /\ h.count[f] = Cardinality(Done(f)') /\ h.got[f] \in {0, hit}
                           /\ Cardinality(Done(f)') > Counts(f) => h.got[f] = hit
    BY <1>1 DEF HookCounts
  <2>4. hooks' # <<>> /\ hooks'[Len(hooks')] = NewHook
    BY <1>4
  <2>5. \A f \in Hooked : /\ NewHook.count[f] = Cardinality(Done(f)') /\ NewHook.got[f] \in {0, hit}
                          /\ ~ (Cardinality(Done(f)') > Counts(f))
    BY <2>1, <2>2, <2>3
  <2> QED
    BY <2>4, <2>5
<1> QED
  BY <1>5, <1>6, <1>7, <1>8, <1>9

\* A hook that sees a write keeps its shape.
LEMMA NoticedTyped ==
  ASSUME NEW h \in Hook, NEW f, NEW v \in Int
  PROVE  /\ Noticed(h, f, v) \in Hook
         /\ \A g \in Hooked :
              /\ Noticed(h, f, v).count[g] = IF g = f THEN h.count[g] + 1 ELSE h.count[g]
              /\ Noticed(h, f, v).got[g] = IF g = f /\ h.count[g] = Counts(g) THEN v ELSE h.got[g]
<1>1. h.count \in [Hooked -> Nat] /\ h.got \in [Hooked -> Int]
  BY DEF Hook
<1>2. CASE f \notin Hooked
  BY <1>2 DEF Noticed
<1>3. CASE f \in Hooked
  <2> DEFINE c == [h.count EXCEPT ![f] = @ + 1]
             o == IF h.count[f] = Counts(f) THEN [h.got EXCEPT ![f] = v] ELSE h.got
  <2>1. Noticed(h, f, v) = [count |-> c, got |-> o]
    BY <1>3 DEF Noticed
  <2>2. c \in [Hooked -> Nat] /\ o \in [Hooked -> Int]
    BY <1>1, <1>3
  <2>3. \A g \in Hooked : /\ c[g] = IF g = f THEN h.count[g] + 1 ELSE h.count[g]
                          /\ o[g] = IF g = f /\ h.count[g] = Counts(g) THEN v ELSE h.got[g]
    BY <1>1, <1>3
  <2> HIDE DEF c, o
  <2> QED
    BY <2>1, <2>2, <2>3 DEF Hook
<1> QED
  BY <1>2, <1>3

LEMMA WriteFieldInv ==
  ASSUME StubInv, WriteField
  PROVE  StubInv'
<1> USE DEF StubInv
<1> DEFINE f == Writes[pc]
           v == IF \E k \in pc + 1 .. Len(Writes) : Writes[k] = f THEN Masked ELSE hit
<1>1. /\ Calling /\ pc <= Len(Writes) /\ pc' = pc + 1
      /\ struct' = [struct EXCEPT ![f] = v]
      /\ hooks' = [i \in DOMAIN hooks |-> Noticed(hooks[i], f, v)]
      /\ UNCHANGED <<pass, hit, ward_packets, path_packets>>
  BY DEF WriteField
<1>2. /\ pass \in {"wards", "paths"} /\ pc \in Nat \ {0} /\ hit \in Nat \ {0}
      /\ struct \in [Fields -> Int] /\ hooks \in Seq(Hook) /\ Len(Writes) \in Nat
      /\ pc \in 1 .. Len(Writes) /\ Writes' = Writes /\ Calling'
  BY <1>1, StubAssumption DEF Calling, StubTyped, Writes
<1>3. /\ f \in Fields /\ (pass = "wards" => f \in Hooked \cup {"name"} /\ Writes = WardWrites)
      /\ pass # "wards" => f = "payload" /\ Len(Writes) = 1
  BY <1>2, WritesFields
<1>4. v \in Int /\ v \in {Masked, hit}
  BY <1>2 DEF Masked
<1>5. f \in {"name", "payload"} => v = hit
  <2>1. CASE pass = "wards"
    <3> SUFFICES ASSUME f = "name", NEW k \in pc + 1 .. Len(Writes), Writes[k] = f PROVE FALSE
      BY <1>3, <2>1 DEF Hooked
    <3> DEFINE D == {j \in 1 .. pc - 1 : WardWrites[j] = "name"}
               E == {j \in 1 .. (pc + 1) - 1 : WardWrites[j] = "name"}
               A == {j \in 1 .. Len(WardWrites) : WardWrites[j] = "name"}
    <3>1. Len(WardWrites) \in Nat /\ pc \in 1 .. Len(WardWrites) /\ WardWrites[pc] = "name"
      BY <1>2, <1>3, <2>1
    <3>2. Cardinality(A) = 1 /\ Counts("name") = 0
      <4>1. Cardinality(A) = Counts("name") + 1
        BY StubAssumption
      <4>2. Counts("name") = 0
        BY DEF Counts
      <4> QED
        BY <4>1, <4>2
    <3>3. IsFiniteSet(A)
      <4>1. IsFiniteSet(1 .. Len(WardWrites))
        BY <3>1, FS_Interval
      <4> QED
        BY <4>1, FS_Subset
    <3>4. E \in SUBSET A
      BY <3>1
    <3>5. Cardinality(E) <= 1
      BY <3>2, <3>3, <3>4, FS_Subset
    <3>6. Cardinality(D) \in Nat /\ Cardinality(E) = Cardinality(D) + 1
      BY <3>1, DoneGrows
    <3>7. Cardinality(D) = Counts("name")
      <4> HIDE DEF D, E
      <4> QED
        BY <3>2, <3>5, <3>6
    <3>8. k \in pc + 1 .. Len(WardWrites) /\ WardWrites[k] = "name"
      BY <1>3, <2>1
    <3> QED
      BY <3>1, <3>7, <3>8, CountLast
  <2>2. CASE pass # "wards"
    <3> HIDE DEF f, v
    <3>1. Len(Writes) = 1
      BY <1>3, <2>2
    <3>2. pc \in 1 .. Len(Writes)
      BY <1>2
    <3>3. Len(Writes) = 1 /\ pc = 1
      BY <3>1, <3>2
    <3>4. \A k \in pc + 1 .. Len(Writes) : FALSE
      BY <3>3
    <3> QED
      BY <3>4 DEF v
  <2> QED
    BY <2>1, <2>2
<1>6. \A g \in Fields : struct'[g] = IF g = f THEN v ELSE struct[g]
  BY <1>1, <1>2, <1>3
<1>7. \A k \in 1 .. Len(Writes) : Writes[k] \in Fields
  BY WritesFields
<1>8. (\A k \in pc + 1 .. Len(Writes) : Writes[k] # f) => v = hit
  OBVIOUS
<1>9. /\ DOMAIN hooks' = DOMAIN hooks /\ hooks' \in Seq(Hook) /\ Len(hooks') = Len(hooks)
      /\ \A i \in DOMAIN hooks : hooks'[i] = Noticed(hooks[i], f, v)
  <2> HIDE DEF f, v
  <2>1. \A i \in DOMAIN hooks : Noticed(hooks[i], f, v) \in Hook
    BY <1>2, <1>4, NoticedTyped
  <2> QED
    BY <1>1, <1>2, <2>1
<1>10. pass = "wards" => f \in Hooked \cup {"name"} /\ f = WardWrites[pc] /\ pc \in 1 .. Len(WardWrites)
  BY <1>2, <1>3
<1>11. ASSUME pass = "wards", NEW g \in Hooked, g = f, Cardinality(Done(g)) = Counts(g)
       PROVE  v = hit
  BY <1>3, <1>10, <1>11, CountLast DEF Done
<1> HIDE DEF f, v
<1>12. StubTyped'
  <2>1. struct' \in [Fields -> Int]
    BY <1>1, <1>2, <1>4
  <2> QED
    BY <1>1, <1>2, <1>9, <2>1 DEF StubTyped
<1>13. PacketsOwn'
  BY <1>1 DEF PacketsOwn
<1>14. OfTheBatch'
  <2>1. hit \in Earlier(hit) /\ hit # Masked
    BY <1>2, OwnHitEarlier DEF Masked
  <2>2. \A g \in Fields : struct[g] \in {0, Masked} \cup Earlier(hit)
    BY <1>2 DEF OfTheBatch
  <2>3. \A g \in Fields : struct'[g] \in {0, Masked} \cup Earlier(hit)
    BY <1>4, <1>6, <2>1, <2>2
  <2>4. struct'["name"] # Masked /\ struct'["payload"] # Masked
    BY <1>5, <1>6, <2>1 DEF OfTheBatch, Fields
  <2>5. Earlier(hit)' = Earlier(hit)
    BY <1>1 DEF Earlier, Batch
  <2> QED
    BY <2>3, <2>4, <2>5 DEF OfTheBatch
<1>15. LastWritten'
  <2> SUFFICES ASSUME NEW k \in 1 .. (pc + 1) - 1,
                      \A m \in k + 1 .. Len(Writes) : Writes[m] # Writes[k]
               PROVE  struct'[Writes[k]] = hit
    BY <1>1, <1>2 DEF LastWritten
  <2>1. CASE k = pc
    BY <1>2, <1>3, <1>6, <1>8, <2>1 DEF f
  <2>2. CASE k # pc
    <3>1. k \in 1 .. pc - 1 /\ k \in 1 .. Len(Writes) /\ pc \in k + 1 .. Len(Writes)
      BY <1>2, <2>2
    <3>2. Writes[k] # f /\ struct[Writes[k]] = hit
      BY <1>1, <3>1 DEF LastWritten, f
    <3> QED
      BY <1>6, <1>7, <3>1, <3>2
  <2> QED
    BY <2>1, <2>2
<1>16. HookCounts'
  <2> SUFFICES ASSUME pass = "wards"
               PROVE  /\ hooks' # <<>>
                      /\ LET h == hooks'[Len(hooks')] IN \A g \in Hooked :
                           /\ h.count[g] = Cardinality(Done(g)') /\ h.got[g] \in {0, hit}
                           /\ Cardinality(Done(g)') > Counts(g) => h.got[g] = hit
    BY <1>1, <1>2 DEF HookCounts
  <2> DEFINE n == Len(hooks)  h == hooks[n]  h1 == hooks'[n]
  <2>1. /\ hooks # <<>>
        /\ \A g \in Hooked : /\ h.count[g] = Cardinality(Done(g)) /\ h.got[g] \in {0, hit}
                             /\ Cardinality(Done(g)) > Counts(g) => h.got[g] = hit
    BY <1>1 DEF HookCounts
  <2>2. n \in DOMAIN hooks /\ h \in Hook /\ hooks' # <<>>
    BY <1>2, <1>9, <2>1
  <2>3. \A g \in Hooked :
          /\ h1.count[g] = IF g = f THEN h.count[g] + 1 ELSE h.count[g]
          /\ h1.got[g] = IF g = f /\ h.count[g] = Counts(g) THEN v ELSE h.got[g]
    BY <1>4, <1>9, <2>2, NoticedTyped
  <2>4. ASSUME NEW g \in Hooked
        PROVE  /\ Cardinality(Done(g)) \in Nat
               /\ g = f => Cardinality(Done(g)') = Cardinality(Done(g)) + 1
               /\ g # f => Cardinality(Done(g)') = Cardinality(Done(g))
    <3> DEFINE D == {k \in 1 .. pc - 1 : WardWrites[k] = g}
               E == {k \in 1 .. (pc + 1) - 1 : WardWrites[k] = g}
    <3>1. Done(g)' = E /\ Done(g) = D
      BY <1>1 DEF Done
    <3>2. /\ Cardinality(D) \in Nat
          /\ WardWrites[pc] = g => Cardinality(E) = Cardinality(D) + 1
          /\ WardWrites[pc] # g => E = D
      <4>1. pc \in 1 .. Len(WardWrites)
        BY <1>10
      <4> QED
        BY <4>1, DoneGrows
    <3>3. f = WardWrites[pc]
      BY <1>10
    <3> HIDE DEF D, E
    <3> QED
      BY <3>1, <3>2, <3>3
  <2>5. \A g \in Hooked : Counts(g) \in Nat
    BY StubAssumption DEF Counts
  <2> HIDE DEF h, h1
  <2>6. ASSUME NEW g \in Hooked
        PROVE  /\ h1.count[g] = Cardinality(Done(g)') /\ h1.got[g] \in {0, hit}
               /\ Cardinality(Done(g)') > Counts(g) => h1.got[g] = hit
    <3>1. CASE g = f
      <4> DEFINE d == Cardinality(Done(g))  d1 == Cardinality(Done(g)')
      <4>1. d = Counts(g) => v = hit
        BY <1>11, <3>1
      <4>2. h.count[g] = d /\ h.got[g] \in {0, hit} /\ (d > Counts(g) => h.got[g] = hit)
        BY <2>1
      <4>3. d \in Nat /\ d1 = d + 1 /\ Counts(g) \in Nat
        BY <2>4, <2>5, <3>1
      <4>4. h1.count[g] = h.count[g] + 1 /\ h1.got[g] = IF h.count[g] = Counts(g) THEN v ELSE h.got[g]
        BY <2>3, <3>1
      <4> HIDE DEF d, d1
      <4>5. h1.count[g] = d1 /\ h1.got[g] \in {0, hit} /\ (d1 > Counts(g) => h1.got[g] = hit)
        BY <4>1, <4>2, <4>3, <4>4
      <4> QED
        BY <4>5 DEF d, d1
    <3>2. CASE g # f
      BY <2>1, <2>3, <2>4, <2>5, <3>2
    <3> QED
      BY <3>1, <3>2
  <2> QED
    BY <1>9, <2>2, <2>6 DEF h1
<1> QED
  BY <1>12, <1>13, <1>14, <1>15, <1>16

\* A call that returns leaves the struct to the next of its batch.
LEMMA CalledInv ==
  ASSUME StubInv, Calling, Called, UNCHANGED <<pass, struct>>, hooks' = hooks
  PROVE  (StubTyped /\ OfTheBatch /\ LastWritten /\ HookCounts)'
<1> USE DEF StubInv
<1>1. pc' = 0 /\ hit' = hit + 1 /\ hit \in Nat \ {0} /\ pc > 0 /\ pass \in {"wards", "paths"}
  BY DEF Called, Calling, StubTyped
<1>2. ~ Calling' /\ StubTyped'
  BY <1>1 DEF Calling, StubTyped
<1>3. OfTheBatch'
  <2>1. \A f \in Fields : struct[f] \in {0, Masked} \cup Earlier(hit)
    BY <1>1 DEF OfTheBatch
  <2>2. FirstOfBatch' <=> hit % BATCH_SIZE = 0
    BY <1>1 DEF FirstOfBatch
  <2>3. ~ FirstOfBatch' => Earlier(hit) \subseteq Earlier(hit + 1)
    BY <1>1, <2>2, BatchGrows
  <2>4. Earlier(hit)' = Earlier(hit + 1)
    BY <1>1 DEF Earlier, Batch
  <2> QED
    BY <1>1, <2>1, <2>3, <2>4 DEF OfTheBatch
<1> QED
  BY <1>2, <1>3 DEF LastWritten, HookCounts

LEMMA WardReturnsInv ==
  ASSUME StubInv, WardReturns
  PROVE  StubInv'
<1> USE DEF StubInv
<1> DEFINE got == hooks[Len(hooks)].got
           p == [hit |-> hit, id |-> got["id"], owner_id |-> got["owner_id"], x |-> got["x"],
                 name |-> struct["name"], whole |-> pc > Len(Writes)]
<1>1. /\ Calling /\ pass = "wards" /\ Called /\ UNCHANGED <<pass, struct, hooks, path_packets>>
      /\ ward_packets' = Append(ward_packets, p)
  BY DEF WardReturns
<1>2. (StubTyped /\ OfTheBatch /\ LastWritten /\ HookCounts)'
  BY <1>1, CalledInv
<1>3. /\ hit \in Nat \ {0} /\ pc \in Nat \ {0} /\ struct \in [Fields -> Int] /\ Writes = WardWrites
      /\ Len(WardWrites) \in Nat /\ pc <= Len(WardWrites) + 1
  BY <1>1, StubAssumption DEF StubTyped, Calling, Writes
<1>4. \A f \in Hooked : got[f] \in {0, hit} /\ (Cardinality(Done(f)) > Counts(f) => got[f] = hit)
  BY <1>1 DEF HookCounts
<1>5. "id" \in Hooked /\ "owner_id" \in Hooked /\ "x" \in Hooked
  BY DEF Hooked
<1>6. struct["name"] \in {0} \cup Earlier(hit) /\ struct["name"] \in Int
  BY <1>1, <1>3 DEF OfTheBatch, Fields, Calling
<1>7. ASSUME pc > Len(WardWrites)
      PROVE  /\ \A f \in Hooked : got[f] = hit
             /\ struct["name"] = hit
  <2>1. pc = Len(WardWrites) + 1
    BY <1>3, <1>7
  <2>2. \A f \in Hooked : Cardinality(Done(f)) = Counts(f) + 1 /\ Counts(f) \in Nat
    BY <1>3, <2>1, AllDone DEF Done
  <2>3. \A f \in Hooked : got[f] = hit
    BY <1>4, <2>2
  <2> DEFINE N == {k \in 1 .. pc - 1 : WardWrites[k] = "name"}
  <2>4. Cardinality(N) = 1 /\ IsFiniteSet(N)
    <3>1. Cardinality(N) = Counts("name") + 1
      BY <1>3, <2>1, AllDone
    <3>2. IsFiniteSet(1 .. pc - 1)
      BY <1>3, FS_Interval
    <3>3. IsFiniteSet(N)
      BY <3>2, FS_Subset
    <3> QED
      BY <3>1, <3>3 DEF Counts
  <2>5. PICK k : N = {k}
    BY <2>4, FS_Singleton
  <2>6. k \in 1 .. pc - 1 /\ WardWrites[k] = "name" /\ \A m \in k + 1 .. Len(WardWrites) : WardWrites[m] # "name"
    BY <1>3, <2>1, <2>5
  <2>7. struct["name"] = hit
    BY <1>1, <1>3, <2>6 DEF LastWritten
  <2> QED
    BY <2>3, <2>7
<1>8. /\ p.hit = hit /\ p.id = got["id"] /\ p.owner_id = got["owner_id"] /\ p.x = got["x"]
      /\ p.name = struct["name"] /\ (p.whole <=> pc > Len(WardWrites))
      /\ p \in WardPackets
  <2>1. got["id"] \in Int /\ got["owner_id"] \in Int /\ got["x"] \in Int
    BY <1>3, <1>4, <1>5
  <2> DEFINE w == pc > Len(Writes)
  <2>2. w \in BOOLEAN /\ (w <=> pc > Len(WardWrites))
    BY <1>3
  <2> HIDE DEF got, w
  <2>3. p \in WardPackets
    BY <1>3, <1>6, <2>1, <2>2 DEF WardPackets, w
  <2> QED
    BY <2>2, <2>3 DEF w
<1> HIDE DEF p, got
<1>9. OwnWard(p)
  BY <1>4, <1>5, <1>6, <1>7, <1>8 DEF OwnWard
<1>10. ward_packets \in Seq(WardPackets) /\ \A i \in DOMAIN ward_packets : OwnWard(ward_packets[i])
  BY DEF PacketsOwn
<1>11. ward_packets' \in Seq(WardPackets) /\ \A i \in DOMAIN ward_packets' : OwnWard(ward_packets'[i])
  <2>1. /\ ward_packets' \in Seq(WardPackets) /\ DOMAIN ward_packets' = 1 .. Len(ward_packets) + 1
        /\ \A i \in 1 .. Len(ward_packets) : ward_packets'[i] = ward_packets[i]
        /\ ward_packets'[Len(ward_packets) + 1] = p /\ Len(ward_packets) \in Nat
    BY <1>1, <1>8, <1>10
  <2>2. \A i \in 1 .. Len(ward_packets) : OwnWard(ward_packets'[i])
    BY <1>10, <2>1
  <2> QED
    BY <1>9, <2>1, <2>2
<1>12. PacketsOwn'
  BY <1>1, <1>11 DEF PacketsOwn
<1> QED
  BY <1>2, <1>12

LEMMA PathReturnsInv ==
  ASSUME StubInv, PathReturns
  PROVE  StubInv'
<1> USE DEF StubInv
<1> DEFINE p == [hit |-> hit, path |-> struct["payload"], whole |-> pc > Len(Writes)]
<1>1. /\ Calling /\ pass = "paths" /\ Called /\ UNCHANGED <<pass, struct, hooks, ward_packets>>
      /\ \/ UNCHANGED path_packets
         \/ struct["payload"] # 0 /\ path_packets' = Append(path_packets, p)
  BY DEF PathReturns
<1>2. (StubTyped /\ OfTheBatch /\ LastWritten /\ HookCounts)'
  BY <1>1, CalledInv
<1>3. CASE UNCHANGED path_packets
  BY <1>1, <1>2, <1>3 DEF PacketsOwn
<1>4. CASE struct["payload"] # 0 /\ path_packets' = Append(path_packets, p)
  <2>1. /\ hit \in Nat \ {0} /\ pc \in Nat \ {0} /\ struct \in [Fields -> Int] /\ Writes = <<"payload">>
    BY <1>1 DEF StubTyped, Calling, Writes
  <2>2. struct["payload"] \in Earlier(hit) /\ struct["payload"] \in Int
    BY <1>1, <1>4, <2>1 DEF OfTheBatch, Fields, Calling
  <2>3. pc > Len(Writes) => struct["payload"] = hit
    <3>1. pc > Len(Writes) => 1 \in 1 .. pc - 1 /\ Writes[1] = "payload" /\ 1 + 1 .. Len(Writes) = {}
      BY <2>1
    <3> QED
      BY <1>1, <3>1 DEF LastWritten
  <2> DEFINE w == pc > Len(Writes)
  <2>4. w \in BOOLEAN /\ (w <=> pc > Len(Writes))
    BY <2>1
  <2> HIDE DEF w
  <2>5. p \in PathPackets
    BY <2>1, <2>2, <2>4 DEF PathPackets, w
  <2>6. p.hit = hit /\ p.path = struct["payload"] /\ (p.whole <=> pc > Len(Writes)) /\ p \in PathPackets
    BY <2>4, <2>5 DEF w
  <2>7. OwnPath(p)
    BY <2>2, <2>3, <2>6 DEF OwnPath
  <2> HIDE DEF p
  <2>8. path_packets \in Seq(PathPackets) /\ \A i \in DOMAIN path_packets : OwnPath(path_packets[i])
    BY DEF PacketsOwn
  <2>9. /\ path_packets' \in Seq(PathPackets) /\ DOMAIN path_packets' = 1 .. Len(path_packets) + 1
        /\ \A i \in 1 .. Len(path_packets) : path_packets'[i] = path_packets[i]
        /\ path_packets'[Len(path_packets) + 1] = p /\ Len(path_packets) \in Nat
    BY <1>4, <2>6, <2>8
  <2>10. \A i \in DOMAIN path_packets' : OwnPath(path_packets'[i])
    BY <2>7, <2>8, <2>9
  <2>11. PacketsOwn'
    BY <1>1, <2>9, <2>10 DEF PacketsOwn
  <2> QED
    BY <1>2, <2>11
<1> QED
  BY <1>1, <1>3, <1>4

LEMMA PassOverInv ==
  ASSUME StubInv, PassOver
  PROVE  StubInv'
<1> USE DEF StubInv
<1>1. /\ pc = 0 /\ hit' = 1 /\ UNCHANGED <<pc, struct, hooks, ward_packets, path_packets>>
      /\ pass' \in {"paths", "json"}
  BY DEF PassOver
<1>2. ~ Calling' /\ FirstOfBatch' /\ StubTyped'
  <2>1. 0 % BATCH_SIZE = 0
    BY StubAssumption
  <2> QED
    BY <1>1, <2>1 DEF Calling, FirstOfBatch, StubTyped
<1>3. OfTheBatch'
  BY <1>1, <1>2 DEF OfTheBatch
<1>4. PacketsOwn'
  BY <1>1 DEF PacketsOwn
<1> QED
  BY <1>2, <1>3, <1>4 DEF LastWritten, HookCounts

LEMMA StubStepInv == StubInv /\ [StubNext]_stubPart => StubInv'
<1> SUFFICES ASSUME StubInv, [StubNext]_stubPart PROVE StubInv'
  OBVIOUS
<1>1. CASE NoRoom \/ Unreadable
  <2>1. pass' = "error" /\ UNCHANGED <<hit, pc, struct, hooks, ward_packets, path_packets>>
    BY <1>1 DEF NoRoom, Unreadable
  <2> QED
    BY <2>1 DEF StubInv, StubTyped, PacketsOwn, OfTheBatch, LastWritten, HookCounts, Calling
<1>2. CASE UNCHANGED stubPart
  <2>1. UNCHANGED <<pass, hit, pc, struct, hooks, ward_packets, path_packets>>
    BY <1>2 DEF stubPart
  <2> QED
    BY <2>1 DEF StubInv, StubTyped, PacketsOwn, OfTheBatch, LastWritten, HookCounts, Calling, Writes,
                FirstOfBatch, Done
<1> QED
  BY <1>1, <1>2, SetupArgsInv, WriteFieldInv, WardReturnsInv, PathReturnsInv, PassOverInv DEF StubNext

\* Whatever hooks earlier calls left behind, what a hook took is its own packet's, and
\* the name and the path are of a packet of the same batch (unicorn.rs:138,
\* replay_info.rs:217-220).
THEOREM StaleValuesStayInTheBatch == StubSpec => []StaleWithinBatch
<1>1. StubInv => StaleWithinBatch
  BY DEF StubInv, PacketsOwn, StaleWithinBatch, OwnWard, OwnPath
<1> QED
  BY <1>1, StubInitInv, StubStepInv, PTL DEF StubSpec

-----------------------------------------------------------------------------
(* The positions                                                           *)

PathRecord  == [id : PathUnits, at : Nat, from : Int, to : Int, speed : Nat]
StateRecord == [timestamp : Nat, taken : Nat, read : Nat, pos : UNION {[D -> Int] : D \in SUBSET PathPlayers}]

\* The n-th path is unit u's latest among the first m.
Latest(u, m, n) == n \in Of(u, m) /\ \A k \in Of(u, m) : k <= n

PathsTyped ==
  /\ paths \in Seq(PathRecord)
  /\ \A i, j \in 1 .. Len(paths) : i <= j => paths[i].at <= paths[j].at

PlayersLatest ==
  /\ DOMAIN players_path_state = {u \in PathPlayers : Of(u, Len(paths)) # {}}
  /\ \A u \in DOMAIN players_path_state : Latest(u, Len(paths), players_path_state[u])

\* What a state is once it is taken.
StateTrue(s) ==
  /\ s.read \in 1 .. Len(paths) /\ s.taken = paths[s.read].at
  /\ s.taken - s.timestamp >= Second
  /\ DOMAIN s.pos = {u \in PathPlayers : Of(u, s.read) # {}}
  /\ \A u \in DOMAIN s.pos : \E n \in Of(u, s.read) :
       Latest(u, s.read, n) /\ s.pos[u] = get_pos(paths[n], s.taken)

StatesTrue ==
  /\ states \in Seq(StateRecord) /\ tick \in Nat
  /\ \A s \in {states[i] : i \in 1 .. Len(states)} : StateTrue(s)
  /\ \A i \in 1 .. Len(states) : states[i].timestamp = (IF i = 1 THEN 0 ELSE states[i - 1].taken)
  /\ \A i, j \in 1 .. Len(states) : j <= i =>
       states[j].taken <= states[i].taken /\ states[j].read <= states[i].read
  /\ tick = IF states = <<>> THEN 0 ELSE states[Len(states)].taken

PathInv == PathsTyped /\ PlayersLatest /\ StatesTrue

LEMMA PathInitInv == PathInit => PathInv
<1> SUFFICES ASSUME PathInit PROVE PathInv
  OBVIOUS
<1>1. paths = <<>> /\ players_path_state = <<>> /\ tick = 0 /\ states = <<>>
  BY DEF PathInit
<1>2. PathsTyped
  BY <1>1 DEF PathsTyped
<1>3. PlayersLatest
  <2>1. DOMAIN players_path_state = {}
    BY <1>1
  <2>2. \A u : Of(u, Len(paths)) = {}
    BY <1>1 DEF Of
  <2> QED
    BY <2>1, <2>2 DEF PlayersLatest
<1>4. StatesTrue
  BY <1>1 DEF StatesTrue
<1> QED
  BY <1>2, <1>3, <1>4 DEF PathInv

\* Along a path a unit is never past the end, and never goes back.
LEMMA WalkForward ==
  ASSUME NEW p \in PathRecord, NEW t \in Nat, NEW v \in Nat, t <= v
  PROVE  /\ Progress(p, get_pos(p, t)) \in 0 .. Length(p)
         /\ Progress(p, get_pos(p, t)) <= Progress(p, get_pos(p, v))
<1>1. p.at \in Nat /\ p.from \in Int /\ p.to \in Int /\ p.speed \in Nat /\ Second \in Nat
  BY PathAssumption DEF PathRecord
<1> DEFINE far(w) == p.speed * (w - p.at)
<1>2. ASSUME NEW w \in Nat
      PROVE  /\ w - p.at <= Second => Progress(p, get_pos(p, w)) = 0
             /\ w - p.at > Second /\ (p.speed = 0 \/ far(w) > Length(p)) => Progress(p, get_pos(p, w)) = Length(p)
             /\ w - p.at > Second /\ ~ (p.speed = 0 \/ far(w) > Length(p)) =>
                  Progress(p, get_pos(p, w)) = far(w) /\ far(w) \in 0 .. Length(p)
  <2>1. Length(p) \in Nat /\ Sign(p) \in {1, -1} /\ Sign(p) * (p.to - p.from) = Length(p)
    BY <1>1 DEF Length, Sign
  <2>2. far(w) \in Int
    BY <1>1
  <2>3. w - p.at > Second => far(w) >= 0
    BY <1>1
  <2>4. CASE w - p.at <= Second
    BY <1>1, <2>1, <2>4 DEF get_pos, Progress
  <2>5. CASE w - p.at > Second /\ (p.speed = 0 \/ far(w) > Length(p))
    BY <1>1, <2>1, <2>5 DEF get_pos, Progress
  <2>6. CASE w - p.at > Second /\ ~ (p.speed = 0 \/ far(w) > Length(p))
    <3> DEFINE d == far(w)
    <3>1. get_pos(p, w) = p.from + Sign(p) * p.speed * (w - p.at)
      BY <1>1, <2>6 DEF get_pos
    <3>2. Sign(p) * p.speed * (w - p.at) = Sign(p) * d
      BY <1>1, <2>1
    <3>3. d \in Int /\ 0 <= d /\ d <= Length(p)
      BY <2>1, <2>2, <2>3, <2>6
    <3> HIDE DEF d
    <3>4. Progress(p, get_pos(p, w)) = d
      BY <1>1, <2>1, <3>1, <3>2, <3>3 DEF Progress
    <3>5. ~ (w - p.at <= Second)
      BY <1>1, <2>6
    <3>6. Progress(p, get_pos(p, w)) = far(w) /\ far(w) \in 0 .. Length(p)
      BY <2>1, <3>3, <3>4 DEF d
    <3> HIDE DEF far
    <3> QED
      BY <2>6, <3>5, <3>6
  <2>7. w - p.at <= Second \/ w - p.at > Second
    BY <1>1
  <2> HIDE DEF far
  <2> QED
    BY <2>4, <2>5, <2>6, <2>7
<1>3. Length(p) \in Nat
  BY <1>1 DEF Length
<1>4. far(t) <= far(v) /\ far(t) \in Int /\ far(v) \in Int
  BY <1>1
<1> HIDE DEF far
<1>5. Progress(p, get_pos(p, t)) \in 0 .. Length(p) /\ Progress(p, get_pos(p, v)) \in 0 .. Length(p)
  BY <1>1, <1>2, <1>3
<1>6. CASE t - p.at <= Second
  BY <1>1, <1>2, <1>5, <1>6
<1>7. CASE t - p.at > Second
  <2>1. v - p.at > Second
    BY <1>1, <1>7
  <2>2. CASE p.speed = 0 \/ far(t) > Length(p)
    BY <1>2, <1>3, <1>4, <1>5, <1>7, <2>1, <2>2
  <2>3. CASE ~ (p.speed = 0 \/ far(t) > Length(p))
    BY <1>2, <1>3, <1>4, <1>5, <1>7, <2>1, <2>3
  <2> QED
    BY <2>2, <2>3
<1> QED
  BY <1>1, <1>5, <1>6, <1>7

\* A packet leaves the paths before it, and who was latest among them, as they were.
LEMMA PathPacketKeeps ==
  ASSUME PathInv, NEW x \in PathUnits, NEW time \in Nat, NEW from \in Int, NEW to \in Int,
         NEW speed \in Nat, PathPacket(x, time, from, to, speed)
  PROVE  /\ PathsTyped' /\ Len(paths') = Len(paths) + 1 /\ Len(paths) \in Nat
         /\ paths'[Len(paths) + 1].id = x /\ paths'[Len(paths) + 1].at = time
         /\ \A i \in 1 .. Len(paths) : paths'[i] = paths[i] /\ paths[i].at <= time
         /\ \A u, m : m \in 0 .. Len(paths) => Of(u, m)' = Of(u, m)
         /\ \A u : Of(u, Len(paths))' = IF u = x THEN Of(u, Len(paths)) \cup {Len(paths) + 1}
                                        ELSE Of(u, Len(paths))
<1> DEFINE r == [id |-> x, at |-> time, from |-> from, to |-> to, speed |-> speed]
           n == Len(paths)
<1>1. /\ paths' = Append(paths, r) /\ (paths # <<>> => time >= paths[Len(paths)].at)
      /\ paths \in Seq(PathRecord) /\ \A i, j \in 1 .. Len(paths) : i <= j => paths[i].at <= paths[j].at
  BY DEF PathPacket, PathInv, PathsTyped
<1>2. r \in PathRecord /\ r.id = x /\ r.at = time
  BY DEF PathRecord
<1> HIDE DEF r
<1>3. /\ paths' \in Seq(PathRecord) /\ Len(paths') = n + 1 /\ n \in Nat /\ paths'[n + 1] = r
      /\ \A i \in 1 .. n : paths'[i] = paths[i]
  BY <1>1, <1>2
<1>4. \A i \in 1 .. n : paths[i].at \in Nat /\ paths[i].at <= time
  <2>1. \A i \in 1 .. n : paths[i].at \in Nat
    <3>1. \A i \in 1 .. n : paths[i] \in PathRecord
      BY <1>1
    <3> QED
      BY <3>1 DEF PathRecord
  <2>2. ASSUME NEW i \in 1 .. n
        PROVE  paths[i].at <= time
    <3>1. n \in 1 .. n /\ i <= n /\ paths # <<>>
      BY <1>1, <1>3
    <3> QED
      BY <1>1, <2>1, <3>1
  <2> QED
    BY <2>1, <2>2
<1>5. \A i, j \in 1 .. n + 1 : i <= j => paths'[i].at <= paths'[j].at
  <2> SUFFICES ASSUME NEW i \in 1 .. n + 1, NEW j \in 1 .. n + 1, i <= j
               PROVE  paths'[i].at <= paths'[j].at
    OBVIOUS
  <2>1. CASE j = n + 1
    <3>1. i = n + 1 \/ i \in 1 .. n
      BY <1>3
    <3> QED
      BY <1>2, <1>3, <1>4, <2>1, <3>1
  <2>2. CASE j # n + 1
    <3>1. i \in 1 .. n /\ j \in 1 .. n
      BY <1>3, <2>2
    <3> QED
      BY <1>1, <1>3, <3>1
  <2> QED
    BY <2>1, <2>2
<1>6. \A u, m : m \in 0 .. n => Of(u, m)' = Of(u, m)
  BY <1>3 DEF Of
<1>7. \A u : Of(u, Len(paths))' = IF u = x THEN Of(u, n) \cup {n + 1} ELSE Of(u, n)
  <2> SUFFICES ASSUME NEW u
               PROVE  {i \in 1 .. n + 1 : paths'[i].id = u}
                        = IF u = x THEN Of(u, n) \cup {n + 1} ELSE Of(u, n)
    BY <1>3 DEF Of
  <2>1. \A i : i \in 1 .. n + 1 <=> i \in 1 .. n \/ i = n + 1
    BY <1>3
  <2>2. paths'[n + 1].id = x
    BY <1>2, <1>3
  <2> QED
    BY <1>3, <2>1, <2>2 DEF Of
<1> QED
  BY <1>2, <1>3, <1>4, <1>5, <1>6, <1>7 DEF PathsTyped

\* What was true of a state stays true as paths are added.
LEMMA StateStaysTrue ==
  ASSUME PathInv, NEW x \in PathUnits, NEW time \in Nat, NEW from \in Int, NEW to \in Int,
         NEW speed \in Nat, PathPacket(x, time, from, to, speed), NEW s, StateTrue(s)
  PROVE  StateTrue(s)' /\ s.taken <= time
<1> DEFINE m == s.read
<1>1. /\ \A i \in 1 .. Len(paths) : paths'[i] = paths[i] /\ paths[i].at <= time
      /\ Len(paths') = Len(paths) + 1 /\ Len(paths) \in Nat
      /\ \A u, k : k \in 0 .. Len(paths) => Of(u, k)' = Of(u, k)
  BY PathPacketKeeps
<1>2. /\ m \in 1 .. Len(paths) /\ s.taken = paths[m].at /\ s.taken - s.timestamp >= Second
      /\ DOMAIN s.pos = {u \in PathPlayers : Of(u, m) # {}}
      /\ \A u \in DOMAIN s.pos : \E n \in Of(u, m) :
           (n \in Of(u, m) /\ \A k \in Of(u, m) : k <= n) /\ s.pos[u] = get_pos(paths[n], s.taken)
  BY DEF StateTrue, Latest
<1>3. m \in 1 .. Len(paths') /\ s.taken = paths'[m].at /\ s.taken <= time
  BY <1>1, <1>2
<1>4. \A u : Of(u, s.read)' = Of(u, m)
  BY <1>1, <1>2
<1>5. \A u, n : n \in Of(u, m) => paths'[n] = paths[n]
  BY <1>1, <1>2 DEF Of
<1>6. \A u \in DOMAIN s.pos : \E n \in Of(u, m) :
        (n \in Of(u, m) /\ \A k \in Of(u, m) : k <= n) /\ s.pos[u] = get_pos(paths'[n], s.taken)
  BY <1>2, <1>5
<1> QED
  BY <1>2, <1>3, <1>4, <1>6 DEF StateTrue, Latest

LEMMA PathPacketInv ==
  ASSUME PathInv, NEW x \in PathUnits, NEW time \in Nat, NEW from \in Int, NEW to \in Int,
         NEW speed \in Nat, PathPacket(x, time, from, to, speed)
  PROVE  PathInv'
<1> DEFINE n == Len(paths)
<1>1. /\ PathsTyped' /\ Len(paths') = n + 1 /\ n \in Nat
      /\ paths'[n + 1].id = x /\ paths'[n + 1].at = time
      /\ \A u : Of(u, Len(paths))' = IF u = x THEN Of(u, n) \cup {n + 1} ELSE Of(u, n)
  BY PathPacketKeeps
<1>2. /\ players_path_state' =
           IF x \notin PathPlayers THEN players_path_state
           ELSE [k \in DOMAIN players_path_state \cup {x} |->
                   IF k = x THEN n + 1 ELSE players_path_state[k]]
      /\ IF time - tick < Second THEN UNCHANGED <<tick, states>>
         ELSE /\ tick' = time
              /\ states' = Append(states,
                   [timestamp |-> tick, taken |-> time, read |-> n + 1,
                    pos |-> [k \in DOMAIN players_path_state' |->
                               get_pos(paths'[players_path_state'[k]], time)]])
  BY DEF PathPacket
<1>3. /\ DOMAIN players_path_state = {u \in PathPlayers : Of(u, n) # {}}
      /\ \A u \in DOMAIN players_path_state : /\ players_path_state[u] \in Of(u, n)
                                             /\ \A k \in Of(u, n) : k <= players_path_state[u]
  BY DEF PathInv, PlayersLatest, Latest
<1>4. \A u : Of(u, n) \subseteq 1 .. n
  BY DEF Of
<1> DEFINE last == players_path_state'
<1>5. DOMAIN last = {u \in PathPlayers : Of(u, Len(paths))' # {}}
  <2>1. \A u : Of(u, Len(paths))' # {} <=> u = x \/ Of(u, n) # {}
    BY <1>1
  <2>2. CASE x \notin PathPlayers
    BY <1>2, <1>3, <2>1, <2>2
  <2>3. CASE x \in PathPlayers
    BY <1>2, <1>3, <2>1, <2>3
  <2> QED
    BY <2>2, <2>3
<1>6. \A u \in DOMAIN last : /\ last[u] \in Of(u, Len(paths))'
                            /\ \A k \in Of(u, Len(paths))' : k <= last[u]
  <2> SUFFICES ASSUME NEW u \in DOMAIN last
               PROVE  last[u] \in Of(u, Len(paths))' /\ \A k \in Of(u, Len(paths))' : k <= last[u]
    OBVIOUS
  <2>1. CASE u = x
    <3>1. x \in PathPlayers /\ last[u] = n + 1 /\ Of(u, Len(paths))' = Of(u, n) \cup {n + 1}
      BY <1>1, <1>2, <1>5, <2>1
    <3> QED
      BY <1>1, <1>4, <3>1
  <2>2. CASE u # x
    <3>1. u \in DOMAIN players_path_state /\ last[u] = players_path_state[u] /\ Of(u, Len(paths))' = Of(u, n)
      BY <1>1, <1>2, <2>2
    <3> QED
      BY <1>3, <3>1
  <2> QED
    BY <2>1, <2>2
<1>7. PlayersLatest'
  BY <1>5, <1>6 DEF PlayersLatest, Latest
<1>8. /\ states \in Seq(StateRecord) /\ tick \in Nat
      /\ \A s \in {states[i] : i \in 1 .. Len(states)} : StateTrue(s)
      /\ \A i \in 1 .. Len(states) : states[i].timestamp = (IF i = 1 THEN 0 ELSE states[i - 1].taken)
      /\ \A i, j \in 1 .. Len(states) : j <= i =>
           states[j].taken <= states[i].taken /\ states[j].read <= states[i].read
      /\ tick = IF states = <<>> THEN 0 ELSE states[Len(states)].taken
  BY DEF PathInv, StatesTrue
<1>9. \A s \in {states[i] : i \in 1 .. Len(states)} :
        StateTrue(s)' /\ s.taken <= time /\ s.read \in 1 .. n
  BY <1>8, StateStaysTrue DEF StateTrue
<1>10. CASE time - tick < Second
  <2>1. tick' = tick /\ states' = states
    BY <1>2, <1>10
  <2>2. \A s \in {states'[i] : i \in 1 .. Len(states')} : StateTrue(s)'
    BY <1>9, <2>1
  <2>3. StatesTrue'
    BY <1>8, <2>1, <2>2 DEF StatesTrue
  <2> QED
    BY <1>1, <1>7, <2>3 DEF PathInv
<1>11. CASE ~ (time - tick < Second)
  <2>1. PICK s : s = [timestamp |-> tick, taken |-> time, read |-> n + 1,
                      pos |-> [k \in DOMAIN last |-> get_pos(paths'[last[k]], time)]]
    OBVIOUS
  <2>2. tick' = time /\ states' = Append(states, s)
    BY <1>2, <1>11, <2>1
  <2>3. /\ s.timestamp = tick /\ s.taken = time /\ s.read = n + 1 /\ DOMAIN s.pos = DOMAIN last
        /\ \A u \in DOMAIN last : s.pos[u] = get_pos(paths'[last[u]], time)
    BY <2>1
  <2>4. s \in StateRecord
    <3>1. \A u \in DOMAIN last : get_pos(paths'[last[u]], time) \in Int
      <4> SUFFICES ASSUME NEW u \in DOMAIN last
                   PROVE  get_pos(paths'[last[u]], time) \in Int
        OBVIOUS
      <4>1. last[u] \in 1 .. Len(paths')
        BY <1>6 DEF Of
      <4>2. paths'[last[u]] \in PathRecord
        BY <1>1, <4>1 DEF PathsTyped
      <4>3. \A r \in PathRecord : get_pos(r, time) \in Int
        BY PathAssumption DEF PathRecord, get_pos, Sign
      <4> QED
        BY <4>2, <4>3
    <3> DEFINE pos == [k \in DOMAIN last |-> get_pos(paths'[last[k]], time)]
    <3>2. pos \in [DOMAIN last -> Int] /\ DOMAIN last \in SUBSET PathPlayers
      BY <1>5, <3>1
    <3> HIDE DEF pos, last
    <3>3. pos \in UNION {[D -> Int] : D \in SUBSET PathPlayers}
      BY <3>2
    <3> QED
      BY <1>1, <1>8, <2>1, <3>3 DEF StateRecord, pos
  <2>5. StateTrue(s)'
    <3>1. Len(paths)' = s.read /\ \A u : Of(u, Len(paths))' = Of(u, s.read)'
      BY <1>1, <2>3
    <3>2. s.read \in 1 .. Len(paths') /\ s.taken = paths'[s.read].at /\ s.taken - s.timestamp >= Second
      BY <1>1, <1>8, <1>11, <2>3, PathAssumption
    <3>3. \A u \in DOMAIN s.pos : \E k \in Of(u, s.read)' :
            (k \in Of(u, s.read)' /\ \A j \in Of(u, s.read)' : j <= k) /\ s.pos[u] = get_pos(paths'[k], s.taken)
      BY <1>6, <2>3, <3>1
    <3> QED
      BY <1>5, <2>3, <3>1, <3>2, <3>3 DEF StateTrue, Latest
  <2>6. /\ states' \in Seq(StateRecord) /\ Len(states') = Len(states) + 1 /\ Len(states) \in Nat
        /\ states'[Len(states) + 1] = s /\ \A i \in 1 .. Len(states) : states'[i] = states[i]
    BY <1>8, <2>2, <2>4
  <2>7. ASSUME NEW i \in 1 .. Len(states')
        PROVE  /\ states'[i].timestamp = (IF i = 1 THEN 0 ELSE states'[i - 1].taken)
               /\ states'[i].taken <= time /\ states'[i].read <= n + 1
    <3>1. CASE i = Len(states) + 1
      <4>1. states'[i] = s
        BY <2>6, <3>1
      <4>2. s.timestamp = (IF i = 1 THEN 0 ELSE states'[i - 1].taken)
        BY <1>8, <2>3, <2>6, <3>1
      <4> QED
        BY <1>1, <2>3, <4>1, <4>2
    <3>2. CASE i # Len(states) + 1
      <4>1. i \in 1 .. Len(states) /\ states'[i] = states[i] /\ (i # 1 => states'[i - 1] = states[i - 1])
        BY <2>6, <3>2
      <4>2. states[i].taken <= time /\ states[i].read \in 1 .. n
        BY <1>9, <4>1
      <4> QED
        BY <1>1, <1>8, <4>1, <4>2
    <3> QED
      BY <3>1, <3>2
  <2>8. ASSUME NEW i \in 1 .. Len(states'), NEW j \in 1 .. Len(states'), j <= i
        PROVE  states'[j].taken <= states'[i].taken /\ states'[j].read <= states'[i].read
    <3>1. CASE i = Len(states) + 1
      <4>1. states'[i] = s
        BY <2>6, <3>1
      <4> QED
        BY <2>3, <2>7, <4>1
    <3>2. CASE i # Len(states) + 1
      <4>1. i \in 1 .. Len(states) /\ j \in 1 .. Len(states)
        BY <2>6, <2>8, <3>2
      <4> QED
        BY <1>8, <2>6, <2>8, <4>1
    <3> QED
      BY <3>1, <3>2
  <2>9. tick' = IF states' = <<>> THEN 0 ELSE states'[Len(states')].taken
    <3>1. states' # <<>>
      BY <2>6
    <3> QED
      BY <2>2, <2>3, <2>6, <3>1
  <2>10. \A r \in {states'[i] : i \in 1 .. Len(states')} : StateTrue(r)'
    <3> SUFFICES ASSUME NEW i \in 1 .. Len(states'), NEW r, r = states'[i]
                 PROVE  StateTrue(r)'
      OBVIOUS
    <3>1. CASE i = Len(states) + 1
      BY <2>5, <2>6, <3>1
    <3>2. CASE i # Len(states) + 1
      <4>1. i \in 1 .. Len(states) /\ states'[i] = states[i]
        BY <2>6, <3>2
      <4> QED
        BY <1>9, <4>1
    <3> QED
      BY <3>1, <3>2
  <2>11. StatesTrue'
    <3>1. tick' \in Nat
      BY <2>2
    <3> QED
      BY <2>6, <2>7, <2>8, <2>9, <2>10, <3>1 DEF StatesTrue
  <2> QED
    BY <1>1, <1>7, <2>11 DEF PathInv
<1> QED
  BY <1>10, <1>11

LEMMA PathStepInv == PathInv /\ [PathNext]_pathPart => PathInv'
<1> SUFFICES ASSUME PathInv, [PathNext]_pathPart PROVE PathInv'
  OBVIOUS
<1>1. CASE PathNext
  <2>1. PICK u \in PathUnits, time \in 0 .. LastTime, from, to \in Ends, speed \in Paces :
          PathPacket(u, time, from, to, speed)
    BY <1>1 DEF PathNext
  <2>2. time \in Nat /\ from \in Int /\ to \in Int /\ speed \in Nat
    BY PathAssumption
  <2> QED
    BY <2>1, <2>2, PathPacketInv
<1>2. CASE UNCHANGED pathPart
  <2>1. UNCHANGED <<paths, players_path_state, tick, states>>
    BY <1>2 DEF pathPart
  <2> QED
    <3>1. \A u, n : Of(u, n)' = Of(u, n)
      BY <2>1 DEF Of
    <3>2. PathsTyped'
      BY <2>1 DEF PathInv, PathsTyped
    <3>3. PlayersLatest'
      BY <2>1 DEF PathInv, PlayersLatest, Latest, Of
    <3>4. \A s : StateTrue(s) => StateTrue(s)'
      BY <2>1, <3>1 DEF StateTrue, Latest
    <3>5. StatesTrue'
      BY <2>1, <3>4 DEF PathInv, StatesTrue
    <3> QED
      BY <3>2, <3>3, <3>5 DEF PathInv
<1> QED
  BY <1>1, <1>2

\* The states show the players that have been heard of, each on the latest of its
\* paths and never further back on it than before (replay_info.rs:117-147).
THEOREM TicksFollowThePaths == PathSpec => []TicksFollowPaths
<1>1. ASSUME PathInv PROVE TicksFollowPaths
  <2> USE <1>1
  <2>1. /\ states \in Seq(StateRecord)
        /\ \A i \in 1 .. Len(states) : StateTrue(states[i])
        /\ \A i \in 1 .. Len(states) : states[i].timestamp = (IF i = 1 THEN 0 ELSE states[i - 1].taken)
        /\ \A i, j \in 1 .. Len(states) : j <= i =>
             states[j].taken <= states[i].taken /\ states[j].read <= states[i].read
    BY DEF PathInv, StatesTrue
  <2> SUFFICES ASSUME NEW i \in 1 .. Len(states), NEW u \in DOMAIN states[i].pos
               PROVE  \E n \in Of(u, states[i].read) : LET p == paths[n]  s == states[i] IN
                        /\ \A k \in Of(u, s.read) : k <= n
                        /\ Progress(p, s.pos[u]) \in 0 .. Length(p)
                        /\ \A j \in 1 .. i - 1 : states[j].read >= n =>
                             Progress(p, states[j].pos[u]) <= Progress(p, s.pos[u])
    <3>1. DOMAIN states = 1 .. Len(states)
      BY <2>1
    <3>2. \A i \in 1 .. Len(states) :
            /\ states[i].taken - states[i].timestamp >= Second
            /\ DOMAIN states[i].pos = {u \in PathPlayers : Of(u, states[i].read) # {}}
      BY <2>1 DEF StateTrue
    <3> QED
      BY <2>1, <3>1, <3>2 DEF TicksFollowPaths
  <2>2. PICK n \in Of(u, states[i].read) :
          /\ \A k \in Of(u, states[i].read) : k <= n
          /\ states[i].pos[u] = get_pos(paths[n], states[i].taken)
    BY <2>1 DEF StateTrue, Latest
  <2> DEFINE p == paths[n]  t == states[i].taken
  <2>3. n \in 1 .. Len(paths) /\ paths[n] \in PathRecord /\ states[i].taken \in Nat /\ states[i].read \in Nat
    <3>1. states[i] \in StateRecord
      BY <2>1
    <3>2. n \in 1 .. states[i].read /\ states[i].read \in 1 .. Len(paths)
      BY <2>1, <2>2 DEF Of, StateTrue
    <3> QED
      BY <3>1, <3>2 DEF StateRecord, PathInv, PathsTyped
  <2>4. Progress(p, states[i].pos[u]) \in 0 .. Length(p)
    BY <2>2, <2>3, WalkForward
  <2>5. ASSUME NEW j \in 1 .. i - 1, states[j].read >= n
        PROVE  Progress(p, states[j].pos[u]) <= Progress(p, states[i].pos[u])
    <3>1. j \in 1 .. Len(states) /\ j <= i
      BY <2>1
    <3>2. states[j] \in StateRecord /\ StateTrue(states[j]) /\ states[j].taken <= t
      BY <2>1, <3>1
    <3>3. states[j].read \in 1 .. Len(paths) /\ states[j].taken \in Nat
      BY <3>2 DEF StateRecord, StateTrue
    <3>4. states[j].read <= states[i].read
      BY <2>1, <3>1
    <3>5. n \in Of(u, states[j].read) /\ Of(u, states[j].read) \subseteq Of(u, states[i].read)
      BY <2>2, <2>3, <2>5, <3>3, <3>4 DEF Of
    <3>6. u \in DOMAIN states[j].pos
      BY <2>1, <3>2, <3>5 DEF StateTrue
    <3>7. PICK m \in Of(u, states[j].read) :
            /\ \A k \in Of(u, states[j].read) : k <= m
            /\ states[j].pos[u] = get_pos(paths[m], states[j].taken)
      BY <3>2, <3>6 DEF StateTrue, Latest
    <3>8. m = n
      <4>1. n <= m /\ m <= n
        BY <2>2, <3>5, <3>7
      <4>2. m \in Nat
        BY <3>3, <3>7 DEF Of
      <4> QED
        BY <2>3, <4>1, <4>2
    <3> QED
      BY <2>2, <2>3, <3>2, <3>3, <3>7, <3>8, WalkForward
  <2> QED
    BY <2>2, <2>4, <2>5
<1> QED
  BY <1>1, PathInitInv, PathStepInv, PTL DEF PathSpec

-----------------------------------------------------------------------------
(* The wards                                                               *)

WardRecord == [id : WardIds, spot : Spots, at : Nat, players : BOOLEAN]

PlacedTyped ==
  /\ told \in Nat /\ panicked \in BOOLEAN
  /\ standing \subseteq WardRecord /\ fallen \subseteq [ward : WardRecord, until : Nat]
  /\ corpses \subseteq [spot : Spots, at : Nat]
  /\ placed \in [DOMAIN placed -> WardRecord] /\ pos_to_id \in [DOMAIN pos_to_id -> WardIds]
  /\ json_wards \subseteq [ward : WardRecord, duration : Int]

\* The game's wards: one to an id and to a time, none of which stands that has
\* fallen.
GameTrue ==
  /\ \A w \in Put : w.at < told
  /\ \A f \in fallen : f.ward.at < f.until /\ f.until < told /\ f.ward \notin standing
  /\ \A v, w \in Put : v.id = w.id \/ v.at = w.at => v = w
  /\ \A f, g \in fallen : f.ward = g.ward \/ f.until = g.until => f = g
  /\ \A c \in corpses : c.at < told /\ \A w \in Put : w.at # c.at

\* What has been told of a ward is true, but that it may have stood for longer.
HeardTrue ==
  /\ \A id \in DOMAIN placed :
       /\ placed[id].id = id /\ placed[id].at < told
       /\ \E w \in PutAt(id, placed[id].spot) : w.at <= placed[id].at /\ w.players = placed[id].players
  /\ \A spot \in DOMAIN pos_to_id : PutAt(pos_to_id[spot], spot) # {}

RecordsDiffer ==
  /\ \A r \in json_wards :
       /\ r.duration > 0 /\ r.ward.at + r.duration < told
       /\ \E w \in PutAt(r.ward.id, r.ward.spot) : w.at <= r.ward.at
       /\ EndOf(r) \in corpses
  /\ \A r, s \in json_wards : r.ward.at + r.duration = s.ward.at + s.duration => r = s
  /\ panicked => \E w \in Put : ~ w.players

RecordedAt(spot) == {r \in json_wards : r.ward.spot = spot} = RecordsDue(spot)

\* The wards put at the spot since the last corpse there.
Unclaimed(spot) == {w \in OnSpot(Put, spot) : \A d \in OnSpot(corpses, spot) : d.at < w.at}

\* The first of them is the one that the maps lead to.
LeadsTo(spot) ==
  /\ spot \notin DOMAIN pos_to_id => Unclaimed(spot) = {}
  /\ spot \in DOMAIN pos_to_id => \E w \in FirstOf(Unclaimed(spot)) : pos_to_id[spot] = w.id
  /\ \A w \in Unclaimed(spot) : w.id \in DOMAIN placed /\ placed[w.id] = w

SpotsTrue == \A spot \in Spots : Undisturbed(spot) /\ ~ panicked => RecordedAt(spot) /\ LeadsTo(spot)

PlacedInv == PlacedTyped /\ GameTrue /\ HeardTrue /\ RecordsDiffer /\ SpotsTrue

LEMMA PlacedInitInv == PlacedInit => PlacedInv
<1> SUFFICES ASSUME PlacedInit PROVE PlacedInv
  OBVIOUS
<1>1. /\ told = 0 /\ standing = {} /\ fallen = {} /\ corpses = {}
      /\ placed = <<>> /\ pos_to_id = <<>> /\ json_wards = {} /\ panicked = FALSE
  BY DEF PlacedInit
<1>2. DOMAIN placed = {} /\ DOMAIN pos_to_id = {} /\ Put = {}
  BY <1>1 DEF Put
<1>3. PlacedTyped
  <2>1. placed \in [{} -> WardRecord] /\ pos_to_id \in [{} -> WardIds]
    BY <1>1
  <2> QED
    BY <1>1, <1>2, <2>1 DEF PlacedTyped
<1>4. GameTrue /\ HeardTrue /\ RecordsDiffer
  BY <1>1, <1>2 DEF GameTrue, HeardTrue, RecordsDiffer
<1>5. SpotsTrue
  BY <1>1, <1>2 DEF SpotsTrue, RecordedAt, LeadsTo, RecordsDue, Unclaimed, OnSpot
<1> QED
  BY <1>3, <1>4, <1>5 DEF PlacedInv

\* What is put at a spot stays so.
LEMMA PutStays ==
  ASSUME Put \subseteq Put', NEW id, NEW spot
  PROVE  PutAt(id, spot) \subseteq PutAt(id, spot)'
  BY DEF Put, PutAt

\* A spot that is undisturbed has been all along.
LEMMA UndisturbedBefore ==
  ASSUME Put \subseteq Put', corpses \subseteq corpses', \A c \in corpses : c.at < told, told \in Nat,
         \A c \in corpses : c.at \in Nat, \A f \in fallen' \ fallen : f.until = told,
         NEW spot, Undisturbed(spot)'
  PROVE  Undisturbed(spot)
<1> SUFFICES ASSUME NEW c \in corpses, NEW w \in Put, c.spot = spot, w.spot = spot, w.at < c.at
             PROVE  \E f \in fallen : f.ward = w /\ f.until <= c.at
  BY DEF Undisturbed, OnSpot
<1>1. PICK f \in fallen' : f.ward = w /\ f.until <= c.at
  BY DEF Undisturbed, OnSpot
<1>2. f.until # told
  BY <1>1
<1> QED
  BY <1>1, <1>2

\* What a corpse records is settled when it lies there.
LEMMA SinceStays ==
  ASSUME Put \subseteq Put', corpses \subseteq corpses', \A c \in corpses : c.at < told, told \in Nat,
         \A c \in corpses : c.at \in Nat,
         \A w \in Put' \ Put : w.at = told, \A c \in corpses' \ corpses : c.at = told
  PROVE  \A c \in corpses : Since(c)' = Since(c)
<1> SUFFICES ASSUME NEW c \in corpses PROVE Since(c)' = Since(c)
  OBVIOUS
<1>1. c.at < told /\ ~ told < c.at
  OBVIOUS
<1>2. \A d : d \in corpses' /\ d.at < c.at <=> d \in corpses /\ d.at < c.at
  BY <1>1
<1>3. \A w : w \in Put' /\ w.at < c.at <=> w \in Put /\ w.at < c.at
  BY <1>1
<1> QED
  BY <1>2, <1>3 DEF Since, OnSpot

\* When the wards were put and went, and when corpses lay down.
LEMMA GameTimes ==
  ASSUME PlacedInv
  PROVE  /\ \A v \in Put : v \in WardRecord /\ v.at \in Nat /\ v.at < told
         /\ \A c \in corpses : c.at \in Nat /\ c.at < told
         /\ \A f \in fallen : f.until \in Nat /\ f.until < told /\ f.ward \in Put
<1> USE DEF PlacedInv
<1>1. \A v \in Put : v \in WardRecord
  BY DEF Put, PlacedTyped
<1> QED
  BY <1>1 DEF WardRecord, GameTrue, PlacedTyped, Put

LEMMA DueStays ==
  ASSUME corpses' = corpses, \A c \in corpses : Since(c)' = Since(c)
  PROVE  \A spot : RecordsDue(spot)' = RecordsDue(spot)
<1>1. \A spot : \A c \in OnSpot(corpses, spot) : FirstOf(Since(c)') = FirstOf(Since(c))
  BY DEF OnSpot
<1> QED
  BY <1>1 DEF RecordsDue, OnSpot, FirstOf, Record

\* A placement that is told.
LEMMA PlacementKeeps ==
  ASSUME PlacedInv, Put \subseteq Put', told' = told + 1,
         NEW w \in WardRecord, w.at = told, Placement(w),
         \E v \in Put' : v.id = w.id /\ v.spot = w.spot /\ v.players = w.players /\ v.at <= w.at
  PROVE  /\ placed' \in [DOMAIN placed' -> WardRecord] /\ pos_to_id' \in [DOMAIN pos_to_id' -> WardIds]
         /\ HeardTrue'
<1> USE DEF PlacedInv
<1>1. w.id \in WardIds /\ told \in Nat
  BY DEF WardRecord, PlacedTyped
<1>2. /\ DOMAIN placed' = DOMAIN placed \cup {w.id} /\ DOMAIN pos_to_id' = DOMAIN pos_to_id \cup {w.spot}
      /\ \A id \in DOMAIN placed' : placed'[id] = IF id \in DOMAIN placed THEN placed[id] ELSE w
      /\ \A spot \in DOMAIN pos_to_id' :
           pos_to_id'[spot] = IF spot \in DOMAIN pos_to_id THEN pos_to_id[spot] ELSE w.id
  BY DEF Placement, With
<1>3. placed' \in [DOMAIN placed' -> WardRecord] /\ pos_to_id' \in [DOMAIN pos_to_id' -> WardIds]
  <2>1. placed \in [DOMAIN placed -> WardRecord] /\ pos_to_id \in [DOMAIN pos_to_id -> WardIds]
    BY DEF PlacedTyped
  <2>2. placed' \in [DOMAIN placed \cup {w.id} -> WardRecord]
    BY <2>1 DEF Placement, With
  <2>3. pos_to_id' \in [DOMAIN pos_to_id \cup {w.spot} -> WardIds]
    BY <1>1, <2>1 DEF Placement, With
  <2> QED
    BY <1>2, <2>2, <2>3
<1>4. ASSUME NEW id \in DOMAIN placed'
      PROVE  /\ placed'[id].id = id /\ placed'[id].at < told'
             /\ \E v \in {u \in Put' : u.id = id /\ u.spot = placed'[id].spot} :
                  v.at <= placed'[id].at /\ v.players = placed'[id].players
  <2>1. CASE id \in DOMAIN placed
    <3>1. placed'[id] = placed[id]
      BY <1>2, <2>1
    <3>2. placed[id].at \in Nat
      <4>1. placed[id] \in WardRecord
        BY <2>1 DEF PlacedTyped
      <4> QED
        BY <4>1 DEF WardRecord
    <3>3. /\ placed[id].id = id /\ placed[id].at < told
          /\ \E v \in PutAt(id, placed[id].spot) : v.at <= placed[id].at /\ v.players = placed[id].players
      BY <2>1 DEF HeardTrue
    <3>4. \E v \in {u \in Put' : u.id = id /\ u.spot = placed[id].spot} :
            v.at <= placed[id].at /\ v.players = placed[id].players
      BY <3>3 DEF PutAt, Put
    <3> QED
      BY <1>1, <3>1, <3>2, <3>3, <3>4
  <2>2. CASE id \notin DOMAIN placed
    <3>1. id = w.id /\ placed'[id] = w
      BY <1>2, <2>2
    <3> QED
      BY <1>1, <3>1
  <2> QED
    BY <2>1, <2>2
<1>5. ASSUME NEW spot \in DOMAIN pos_to_id'
      PROVE  {v \in Put' : v.id = pos_to_id'[spot] /\ v.spot = spot} # {}
  <2>1. CASE spot \in DOMAIN pos_to_id
    <3>1. pos_to_id'[spot] = pos_to_id[spot]
      BY <1>2, <2>1
    <3>2. PutAt(pos_to_id[spot], spot) # {}
      BY <2>1 DEF HeardTrue
    <3> QED
      BY <3>1, <3>2 DEF PutAt, Put
  <2>2. CASE spot \notin DOMAIN pos_to_id
    BY <1>2, <2>2
  <2> QED
    BY <2>1, <2>2
<1> QED
  BY <1>3, <1>4, <1>5 DEF HeardTrue, PutAt, Put

LEMMA NewWardInv ==
  ASSUME PlacedInv, NEW id \in WardIds, NEW spot \in Spots, NEW players \in BOOLEAN, NewWard(id, spot, players)
  PROVE  PlacedInv'
<1> USE DEF PlacedInv
<1> DEFINE w == [id |-> id, spot |-> spot, at |-> told, players |-> players]
<1>1. /\ ~ panicked /\ told' = told + 1 /\ \A v \in Put : v.id # id
      /\ standing' = standing \cup {w} /\ fallen' = fallen /\ corpses' = corpses
      /\ Placement(w) /\ UNCHANGED <<json_wards, panicked>>
  BY DEF NewWard, Telling, Placement
<1>2. w \in WardRecord /\ w.id = id /\ w.spot = spot /\ w.at = told /\ told \in Nat
  BY DEF WardRecord, PlacedTyped
<1> HIDE DEF w
<1>3. Put' = Put \cup {w} /\ w \notin Put
  BY <1>1, <1>2 DEF Put
<1>4. /\ placed' \in [DOMAIN placed' -> WardRecord] /\ pos_to_id' \in [DOMAIN pos_to_id' -> WardIds]
      /\ HeardTrue'
  BY <1>1, <1>2, <1>3, PlacementKeeps
<1>5. PlacedTyped'
  BY <1>1, <1>2, <1>4 DEF PlacedTyped
<1>6. /\ \A v \in Put : v.at \in Nat /\ v.at < told
      /\ \A c \in corpses : c.at \in Nat /\ c.at < told
      /\ \A f \in fallen : f.until \in Nat /\ f.until < told /\ f.ward \in Put
  BY GameTimes
<1>7. GameTrue'
  <2>1. \A v \in Put' : v.at < told'
    BY <1>1, <1>2, <1>3, <1>6
  <2>2. \A f \in fallen' : f.ward.at < f.until /\ f.until < told' /\ f.ward \notin standing'
    BY <1>1, <1>2, <1>3, <1>6 DEF GameTrue
  <2>3. \A u, v \in Put' : u.id = v.id \/ u.at = v.at => u = v
    <3>1. \A v \in Put : v.id # w.id /\ v.at # w.at
      BY <1>1, <1>2, <1>6
    <3> QED
      BY <1>3, <3>1 DEF GameTrue
  <2>4. \A c \in corpses' : c.at < told' /\ \A v \in Put' : v.at # c.at
    BY <1>1, <1>2, <1>3, <1>6 DEF GameTrue
  <2> QED
    BY <1>1, <2>1, <2>2, <2>3, <2>4 DEF GameTrue
<1>8. RecordsDiffer'
  <2>1. \A r \in json_wards : r.ward.at + r.duration \in Int /\ r.ward.at + r.duration < told
    BY DEF RecordsDiffer, PlacedTyped, WardRecord
  <2>2. \A r \in json_wards : \E v \in Put' : v.id = r.ward.id /\ v.spot = r.ward.spot /\ v.at <= r.ward.at
    BY <1>3 DEF RecordsDiffer, PutAt
  <2> QED
    BY <1>1, <1>2, <1>3, <2>1, <2>2 DEF RecordsDiffer, PutAt
<1>9. ASSUME NEW s \in Spots, Undisturbed(s)', ~ panicked'
      PROVE  RecordedAt(s)' /\ LeadsTo(s)'
  <2>1. Undisturbed(s)
    BY <1>1, <1>2, <1>3, <1>6, <1>9, UndisturbedBefore
  <2>2. RecordedAt(s) /\ LeadsTo(s)
    BY <1>1, <2>1 DEF SpotsTrue
  <2>3. RecordedAt(s)'
    <3>1. \A c \in corpses : Since(c)' = Since(c)
      BY <1>1, <1>2, <1>3, <1>6, SinceStays
    <3> QED
      BY <1>1, <2>2, <3>1, DueStays DEF RecordedAt
  <2>4. /\ DOMAIN placed' = DOMAIN placed \cup {id} /\ DOMAIN pos_to_id' = DOMAIN pos_to_id \cup {spot}
        /\ \A i \in DOMAIN placed' : placed'[i] = IF i \in DOMAIN placed THEN placed[i] ELSE w
        /\ \A q \in DOMAIN pos_to_id' : pos_to_id'[q] = IF q \in DOMAIN pos_to_id THEN pos_to_id[q] ELSE id
    BY <1>1, <1>2 DEF Placement, With
  <2>5. CASE s = spot
    <3>1. Unclaimed(s)' = Unclaimed(s) \cup {w}
      BY <1>1, <1>2, <1>3, <1>6, <2>5 DEF Unclaimed, OnSpot
    <3>2. \A v \in Unclaimed(s) : v.at < w.at
      BY <1>2, <1>6 DEF Unclaimed, OnSpot
    <3>3. id \notin DOMAIN placed
      BY <1>1 DEF HeardTrue, PutAt
    <3>4. \A v \in Unclaimed(s)' : v.id \in DOMAIN placed' /\ placed'[v.id] = v
      BY <1>2, <2>2, <2>4, <3>1, <3>3 DEF LeadsTo
    <3>5. \E v \in FirstOf(Unclaimed(s)') : pos_to_id'[s] = v.id
      <4>1. CASE s \in DOMAIN pos_to_id
        <5>1. PICK v \in FirstOf(Unclaimed(s)) : pos_to_id[s] = v.id
          BY <2>2, <4>1 DEF LeadsTo
        <5>2. v \in FirstOf(Unclaimed(s)')
          <6>1. v.at < w.at /\ v.at \in Nat /\ w.at \in Nat
            BY <1>2, <1>6, <3>2, <5>1 DEF FirstOf, Unclaimed, OnSpot
          <6> QED
            BY <3>1, <5>1, <6>1 DEF FirstOf
        <5> QED
          BY <2>4, <4>1, <5>1, <5>2
      <4>2. CASE s \notin DOMAIN pos_to_id
        <5>1. Unclaimed(s)' = {w}
          BY <2>2, <3>1, <4>2 DEF LeadsTo
        <5>2. w \in FirstOf(Unclaimed(s)')
          BY <1>2, <5>1 DEF FirstOf
        <5> QED
          BY <1>2, <2>4, <2>5, <4>2, <5>2
      <4> QED
        BY <4>1, <4>2
    <3>6. s \in DOMAIN pos_to_id'
      BY <2>4, <2>5
    <3> QED
      BY <2>3, <3>4, <3>5, <3>6 DEF LeadsTo, FirstOf
  <2>6. CASE s # spot
    <3>1. Unclaimed(s)' = Unclaimed(s)
      BY <1>1, <1>2, <1>3, <2>6 DEF Unclaimed, OnSpot
    <3>2. s \in DOMAIN pos_to_id' <=> s \in DOMAIN pos_to_id
      BY <2>4, <2>6
    <3> QED
      BY <2>2, <2>3, <2>4, <3>1, <3>2 DEF LeadsTo, FirstOf
  <2> QED
    BY <2>5, <2>6
<1> QED
  BY <1>4, <1>5, <1>7, <1>8, <1>9 DEF SpotsTrue

LEMMA ToldAgainInv ==
  ASSUME PlacedInv, NEW w \in standing, ToldAgain(w)
  PROVE  PlacedInv'
<1> USE DEF PlacedInv
<1> DEFINE x == [w EXCEPT !.at = told]
<1>1. /\ ~ panicked /\ told' = told + 1 /\ Placement(x)
      /\ UNCHANGED <<standing, fallen, corpses, json_wards, panicked>>
  BY DEF ToldAgain, Telling, Placement
<1>2. told \in Nat /\ w \in WardRecord /\ w \in Put /\ w.at < told /\ w.at \in Nat
  BY DEF PlacedTyped, WardRecord, Put, GameTrue
<1>3. x \in WardRecord /\ x.id = w.id /\ x.spot = w.spot /\ x.at = told /\ x.players = w.players
  BY <1>2 DEF WardRecord
<1> HIDE DEF x
<1>4. Put' = Put
  BY <1>1 DEF Put
<1>5. /\ placed' \in [DOMAIN placed' -> WardRecord] /\ pos_to_id' \in [DOMAIN pos_to_id' -> WardIds]
      /\ HeardTrue'
  <2>1. \E v \in Put' : v.id = x.id /\ v.spot = x.spot /\ v.players = x.players /\ v.at <= x.at
    BY <1>2, <1>3, <1>4
  <2> QED
    BY <1>1, <1>3, <1>4, <2>1, PlacementKeeps
<1>6. PlacedTyped'
  BY <1>1, <1>2, <1>5 DEF PlacedTyped
<1>7. GameTrue'
  BY <1>1, <1>2, <1>4, GameTimes DEF GameTrue
<1>8. RecordsDiffer'
  <2>1. \A r \in json_wards : r.ward.at + r.duration \in Int /\ r.ward.at + r.duration < told
    BY DEF RecordsDiffer, PlacedTyped, WardRecord
  <2>2. \A i, q : PutAt(i, q)' = PutAt(i, q)
    BY <1>4 DEF PutAt
  <2> QED
    BY <1>1, <1>2, <1>4, <2>1, <2>2 DEF RecordsDiffer
<1>9. ASSUME NEW s \in Spots, Undisturbed(s)', ~ panicked'
      PROVE  RecordedAt(s)' /\ LeadsTo(s)'
  <2>1. Undisturbed(s)
    BY <1>1, <1>4, <1>9 DEF Undisturbed, OnSpot
  <2>2. RecordedAt(s) /\ LeadsTo(s)
    BY <1>1, <2>1 DEF SpotsTrue
  <2>3. RecordedAt(s)' /\ Unclaimed(s)' = Unclaimed(s)
    <3>1. \A c \in corpses : Since(c)' = Since(c)
      BY <1>1, <1>4 DEF Since, OnSpot
    <3>2. RecordsDue(s)' = RecordsDue(s)
      BY <1>1, <3>1, DueStays
    <3> QED
      BY <1>1, <1>4, <2>2, <3>2 DEF RecordedAt, Unclaimed, OnSpot
  <2>4. /\ DOMAIN placed' = DOMAIN placed \cup {w.id} /\ DOMAIN pos_to_id' = DOMAIN pos_to_id \cup {w.spot}
        /\ \A i \in DOMAIN placed : placed'[i] = placed[i]
        /\ \A q \in DOMAIN pos_to_id : pos_to_id'[q] = pos_to_id[q]
    BY <1>1, <1>3 DEF Placement, With
  <2>5. s = w.spot => s \in DOMAIN pos_to_id
    <3> SUFFICES ASSUME s = w.spot PROVE w \in Unclaimed(s)
      BY <2>2 DEF LeadsTo
    <3>1. ASSUME NEW d \in corpses, d.spot = s, ~ d.at < w.at
          PROVE  FALSE
      <4>1. d.at # w.at /\ d.at \in Nat
        BY <1>2, GameTimes DEF GameTrue
      <4>2. w.at < d.at
        BY <1>2, <3>1, <4>1
      <4>3. PICK f \in fallen : f.ward = w
        BY <1>2, <2>1, <3>1, <4>2 DEF Undisturbed, OnSpot
      <4> QED
        BY <4>3 DEF GameTrue
    <3> QED
      BY <1>2, <3>1 DEF Unclaimed, OnSpot
  <2>6. s \in DOMAIN pos_to_id' <=> s \in DOMAIN pos_to_id
    BY <2>4, <2>5
  <2> QED
    BY <2>2, <2>3, <2>4, <2>6 DEF LeadsTo
<1> QED
  BY <1>5, <1>6, <1>7, <1>8, <1>9 DEF SpotsTrue

\* A corpse takes away the ward its spot leads to, and nothing of other spots.
LEMMA CorpseKeeps ==
  ASSUME PlacedInv, ~ panicked, told' = told + 1, Put' = Put, NEW spot \in Spots, CorpseLies(spot)
  PROVE  /\ placed' \in [DOMAIN placed' -> WardRecord] /\ pos_to_id' \in [DOMAIN pos_to_id' -> WardIds]
         /\ json_wards' \subseteq [ward : WardRecord, duration : Int] /\ panicked' \in BOOLEAN
         /\ HeardTrue' /\ RecordsDiffer'
         /\ spot \notin DOMAIN pos_to_id'
         /\ \A s : s # spot => /\ s \in DOMAIN pos_to_id' <=> s \in DOMAIN pos_to_id
                               /\ s \in DOMAIN pos_to_id => pos_to_id'[s] = pos_to_id[s]
                               /\ {r \in json_wards' : r.ward.spot = s} = {r \in json_wards : r.ward.spot = s}
         /\ \A id \in DOMAIN placed : placed[id].spot # spot => id \in DOMAIN placed' /\ placed'[id] = placed[id]
         /\ spot \notin DOMAIN pos_to_id => UNCHANGED <<placed, json_wards, panicked>>
         /\ \A w : ((spot \in DOMAIN pos_to_id /\ pos_to_id[spot] = w.id)
                     /\ (w.id \in DOMAIN placed /\ placed[w.id] = w) /\ ~ panicked')
                   => json_wards' = json_wards \cup {[ward |-> w, duration |-> told - w.at]}
<1> USE DEF PlacedInv
<1>1. /\ pos_to_id' = [x \in DOMAIN pos_to_id \ {spot} |-> pos_to_id[x]]
      /\ told \in Nat /\ placed \in [DOMAIN placed -> WardRecord] /\ pos_to_id \in [DOMAIN pos_to_id -> WardIds]
      /\ json_wards \subseteq [ward : WardRecord, duration : Int]
      /\ CorpsePacket(spot) /\ corpses' = corpses \cup {[spot |-> spot, at |-> told]}
  BY DEF CorpseLies, CorpsePacket, Without, PlacedTyped
<1>2. /\ pos_to_id' \in [DOMAIN pos_to_id' -> WardIds] /\ spot \notin DOMAIN pos_to_id'
      /\ \A s : s # spot => /\ s \in DOMAIN pos_to_id' <=> s \in DOMAIN pos_to_id
                            /\ s \in DOMAIN pos_to_id => pos_to_id'[s] = pos_to_id[s]
  BY <1>1
<1>3. \A id, s : PutAt(id, s)' = PutAt(id, s)
  BY DEF PutAt, Put
<1>4. \A s \in DOMAIN pos_to_id' : {v \in Put' : v.id = pos_to_id'[s] /\ v.spot = s} # {}
  <2>1. \A s \in DOMAIN pos_to_id' : PutAt(pos_to_id[s], s) # {} /\ pos_to_id'[s] = pos_to_id[s]
    BY <1>1 DEF HeardTrue
  <2> QED
    BY <2>1 DEF PutAt, Put
<1>5. \A r \in json_wards : /\ r.duration > 0 /\ r.ward.at + r.duration \in Int /\ r.ward.at + r.duration < told
                            /\ \E v \in PutAt(r.ward.id, r.ward.spot) : v.at <= r.ward.at
                            /\ EndOf(r) \in corpses
  BY <1>1 DEF RecordsDiffer, WardRecord
<1>6. \A id \in DOMAIN placed : /\ placed[id].id = id /\ placed[id].at < told /\ placed[id].at \in Nat
                                /\ \E v \in Put : /\ v.id = id /\ v.spot = placed[id].spot /\ v.at <= placed[id].at
                                                   /\ v.players = placed[id].players
  BY <1>1 DEF HeardTrue, PutAt, Put, WardRecord
<1>7. CASE spot \notin DOMAIN pos_to_id \/ pos_to_id[spot] \notin DOMAIN placed
  <2>1. UNCHANGED <<placed, json_wards, panicked>>
    BY <1>1, <1>7 DEF CorpsePacket
  <2>2. HeardTrue'
    <3>1. \A id \in DOMAIN placed : \E v \in {u \in Put' : u.id = id /\ u.spot = placed[id].spot} :
            v.at <= placed[id].at /\ v.players = placed[id].players
      BY <1>6
    <3>2. \A id \in DOMAIN placed : placed[id].id = id /\ placed[id].at < told'
      BY <1>1, <1>6
    <3> QED
      BY <1>4, <2>1, <3>1, <3>2 DEF HeardTrue, PutAt, Put
  <2>3. RecordsDiffer'
    BY <1>1, <1>3, <1>5, <2>1 DEF RecordsDiffer
  <2>4. \A w : ~ ((spot \in DOMAIN pos_to_id /\ pos_to_id[spot] = w.id)
                  /\ (w.id \in DOMAIN placed /\ placed[w.id] = w) /\ ~ panicked')
    BY <1>7
  <2>5. /\ placed' \in [DOMAIN placed' -> WardRecord]
        /\ json_wards' \subseteq [ward : WardRecord, duration : Int] /\ panicked' \in BOOLEAN
    BY <1>1, <2>1 DEF PlacedTyped
  <2> QED
    BY <1>2, <2>1, <2>2, <2>3, <2>4, <2>5
<1>8. CASE spot \in DOMAIN pos_to_id /\ pos_to_id[spot] \in DOMAIN placed
  <2> DEFINE w == placed[pos_to_id[spot]]
             rec == [ward |-> w, duration |-> told - w.at]
  <2>1. /\ placed' = [x \in DOMAIN placed \ {w.id} |-> placed[x]] /\ panicked' = ~ w.players
        /\ json_wards' = IF w.players THEN json_wards \cup {rec} ELSE json_wards
    BY <1>1, <1>8 DEF CorpsePacket, Without
  <2>2. w \in WardRecord /\ w.id = pos_to_id[spot] /\ w.at < told /\ w.at \in Nat /\ w.players \in BOOLEAN
    BY <1>1, <1>6, <1>8 DEF WardRecord
  <2>3. PICK v \in Put : v.id = w.id /\ v.spot = w.spot /\ v.at <= w.at /\ v.players = w.players
    BY <1>6, <1>8, <2>2
  <2>4. w.spot = spot
    <3>1. PICK u \in Put : u.id = w.id /\ u.spot = spot
      BY <1>8, <2>2 DEF HeardTrue, PutAt, Put
    <3>2. u = v
      BY <2>3, <3>1 DEF GameTrue
    <3> QED
      BY <2>3, <3>1, <3>2
  <2>5. \A x : spot \in DOMAIN pos_to_id /\ pos_to_id[spot] = x.id /\ x.id \in DOMAIN placed /\ placed[x.id] = x
               => x = w
    OBVIOUS
  <2>6. rec.ward = w /\ rec.duration = told - w.at /\ rec \in [ward : WardRecord, duration : Int]
    BY <1>1, <2>2
  <2> HIDE DEF w
  <2>7. HeardTrue'
    <3>1. ASSUME NEW id \in DOMAIN placed'
          PROVE  /\ placed'[id].id = id /\ placed'[id].at < told'
                 /\ \E u \in {y \in Put' : y.id = id /\ y.spot = placed'[id].spot} :
                      u.at <= placed'[id].at /\ u.players = placed'[id].players
      <4>1. id \in DOMAIN placed /\ placed'[id] = placed[id]
        BY <2>1
      <4> QED
        BY <1>1, <1>6, <4>1
    <3> QED
      BY <1>4, <3>1 DEF HeardTrue, PutAt, Put
  <2>8. RecordsDiffer'
    <3> HIDE DEF rec
    <3>1. rec.duration > 0 /\ rec.ward.at + rec.duration = told
      BY <1>1, <2>2, <2>6
    <3>2. /\ \E u \in Put' : u.id = rec.ward.id /\ u.spot = rec.ward.spot /\ u.at <= rec.ward.at
          /\ EndOf(rec) \in corpses'
      BY <1>1, <2>3, <2>4, <2>6, <3>1 DEF EndOf
    <3>3. \A r \in json_wards' : r \in json_wards \/ r = rec
      BY <2>1
    <3>4. ASSUME NEW r \in json_wards'
          PROVE  /\ r.duration > 0 /\ r.ward.at + r.duration < told'
                 /\ \E u \in Put' : u.id = r.ward.id /\ u.spot = r.ward.spot /\ u.at <= r.ward.at
                 /\ EndOf(r) \in corpses'
      <4>1. CASE r = rec
        BY <1>1, <3>1, <3>2, <4>1
      <4>2. CASE r \in json_wards
        BY <1>1, <1>5, <4>2 DEF PutAt, Put
      <4> QED
        BY <3>3, <4>1, <4>2
    <3>5. \A r, q \in json_wards' : r.ward.at + r.duration = q.ward.at + q.duration => r = q
      <4>1. \A r, q \in json_wards : r.ward.at + r.duration = q.ward.at + q.duration => r = q
        BY DEF RecordsDiffer
      <4> QED
        BY <1>1, <1>5, <3>1, <3>3, <4>1
    <3>6. panicked' => \E u \in Put' : ~ u.players
      BY <2>1, <2>3
    <3> QED
      BY <3>4, <3>5, <3>6 DEF RecordsDiffer, PutAt, Put
  <2>9. \A s : s # spot => {r \in json_wards' : r.ward.spot = s} = {r \in json_wards : r.ward.spot = s}
    <3> HIDE DEF rec
    <3> QED
      BY <2>1, <2>4, <2>6
  <2>10. \A id \in DOMAIN placed : placed[id].spot # spot => id \in DOMAIN placed' /\ placed'[id] = placed[id]
    <3> SUFFICES ASSUME NEW id \in DOMAIN placed, placed[id].spot # spot
                 PROVE  id # w.id
      BY <2>1
    <3>1. w = placed[w.id]
      BY <2>2 DEF w
    <3> QED
      BY <2>4, <3>1
  <2>11. placed' \in [DOMAIN placed' -> WardRecord]
    BY <1>1, <2>1
  <2>12. json_wards' \subseteq [ward : WardRecord, duration : Int] /\ panicked' \in BOOLEAN
    <3> HIDE DEF rec
    <3> QED
      BY <1>1, <2>1, <2>2, <2>6
  <2>13. ~ panicked' => json_wards' = json_wards \cup {rec}
    BY <2>1, <2>2
  <2>14. \A x : ((spot \in DOMAIN pos_to_id /\ pos_to_id[spot] = x.id)
                  /\ (x.id \in DOMAIN placed /\ placed[x.id] = x) /\ ~ panicked')
                => json_wards' = json_wards \cup {[ward |-> x, duration |-> told - x.at]}
    BY <2>5, <2>13
  <2> HIDE DEF rec
  <2> QED
    BY <1>2, <1>8, <2>7, <2>8, <2>9, <2>10, <2>11, <2>12, <2>14
<1> QED
  BY <1>7, <1>8

\* What a corpse records, and that its spot leads nowhere from then on.
LEMMA CorpseSpots ==
  ASSUME PlacedInv, ~ panicked, told' = told + 1, Put' = Put, \A f \in fallen' \ fallen : f.until = told,
         NEW spot \in Spots, CorpseLies(spot)
  PROVE  SpotsTrue'
<1> USE DEF PlacedInv
<1>0. PICK c : c = [spot |-> spot, at |-> told]
  OBVIOUS
<1>1. corpses' = corpses \cup {c} /\ c.spot = spot /\ c.at = told /\ told \in Nat
  BY <1>0 DEF CorpseLies, PlacedTyped
<1>2. /\ spot \notin DOMAIN pos_to_id'
      /\ \A s : s # spot =>
           /\ s \in DOMAIN pos_to_id' <=> s \in DOMAIN pos_to_id
           /\ s \in DOMAIN pos_to_id => pos_to_id'[s] = pos_to_id[s]
           /\ {r \in json_wards' : r.ward.spot = s} = {r \in json_wards : r.ward.spot = s}
      /\ \A id \in DOMAIN placed : placed[id].spot # spot => id \in DOMAIN placed' /\ placed'[id] = placed[id]
  BY CorpseKeeps
<1>3. spot \notin DOMAIN pos_to_id => UNCHANGED <<placed, json_wards, panicked>>
  BY CorpseKeeps
<1>4. \A w : ((spot \in DOMAIN pos_to_id /\ pos_to_id[spot] = w.id)
               /\ (w.id \in DOMAIN placed /\ placed[w.id] = w) /\ ~ panicked')
             => json_wards' = json_wards \cup {[ward |-> w, duration |-> told - w.at]}
  BY CorpseKeeps
<1>5. \A v \in corpses : Since(v)' = Since(v)
  BY <1>1, GameTimes, SinceStays
<1>6. ASSUME NEW s \in Spots, Undisturbed(s)', ~ panicked'
      PROVE  RecordedAt(s)' /\ LeadsTo(s)'
  <2>1. Undisturbed(s)
    BY <1>1, <1>6, GameTimes, UndisturbedBefore
  <2>2. RecordedAt(s) /\ LeadsTo(s)
    BY <2>1 DEF SpotsTrue
  <2>3. CASE s # spot
    <3>1. OnSpot(corpses, s)' = OnSpot(corpses, s) /\ Unclaimed(s)' = Unclaimed(s)
      BY <1>1, <2>3 DEF OnSpot, Unclaimed
    <3>2. RecordsDue(s)' = RecordsDue(s)
      <4>1. \A v \in OnSpot(corpses, s) : FirstOf(Since(v)') = FirstOf(Since(v))
        BY <1>5 DEF OnSpot
      <4> QED
        BY <3>1, <4>1 DEF RecordsDue, FirstOf, Record
    <3>3. \A w \in Unclaimed(s) : w.spot # spot
      BY <2>3 DEF Unclaimed, OnSpot
    <3>4. LeadsTo(s)'
      BY <1>2, <2>2, <2>3, <3>1, <3>3 DEF LeadsTo, FirstOf
    <3> QED
      BY <1>2, <2>2, <2>3, <3>2, <3>4 DEF RecordedAt
  <2>4. CASE s = spot
    <3>1. Since(c)' = Unclaimed(s)
      <4>1. \A d : d \in corpses' /\ d.at < told <=> d \in corpses
        BY <1>1, GameTimes
      <4>2. \A w \in Put : w.at < told
        BY GameTimes
      <4> QED
        BY <1>1, <2>4, <4>1, <4>2 DEF Since, Unclaimed, OnSpot
    <3>2. RecordsDue(s)' = RecordsDue(s) \cup {Record(w, told) : w \in FirstOf(Unclaimed(s))}
      <4>1. OnSpot(corpses, s)' = OnSpot(corpses, s) \cup {c}
        BY <1>1, <2>4 DEF OnSpot
      <4>2. \A v \in OnSpot(corpses, s) : FirstOf(Since(v)') = FirstOf(Since(v))
        BY <1>5 DEF OnSpot
      <4>3. {Record(w, c.at) : w \in FirstOf(Since(c)')} = {Record(w, told) : w \in FirstOf(Unclaimed(s))}
        BY <1>1, <3>1
      <4> DEFINE X == OnSpot(corpses, s)
                 before(v) == {Record(w, v.at) : w \in FirstOf(Since(v))}
                 after(v)  == {Record(w, v.at) : w \in FirstOf(Since(v)')}
                 new == {Record(w, told) : w \in FirstOf(Unclaimed(s))}
      <4>4. RecordsDue(s)' = UNION {after(v) : v \in X \cup {c}} /\ RecordsDue(s) = UNION {before(v) : v \in X}
        BY <4>1 DEF RecordsDue, FirstOf, Record
      <4>5. (\A v \in X : after(v) = before(v)) /\ after(c) = new
        BY <4>2, <4>3
      <4> HIDE DEF X, before, after, new
      <4>6. RecordsDue(s)' = RecordsDue(s) \cup new
        BY <4>4, <4>5
      <4> QED
        BY <4>6 DEF new
    <3>3. Unclaimed(s)' = {}
      <4>1. \A w \in Put : ~ told < w.at
        BY <1>1, GameTimes
      <4> QED
        BY <1>1, <2>4, <4>1 DEF Unclaimed, OnSpot
    <3>4. LeadsTo(s)'
      BY <1>2, <2>4, <3>3 DEF LeadsTo
    <3>5. CASE s \in DOMAIN pos_to_id
      <4>1. PICK w \in FirstOf(Unclaimed(s)) : pos_to_id[s] = w.id
        BY <2>2, <3>5 DEF LeadsTo
      <4>2. w \in Unclaimed(s) /\ w.spot = s /\ w.id \in DOMAIN placed /\ placed[w.id] = w
        BY <2>2, <4>1 DEF LeadsTo, FirstOf, Unclaimed, OnSpot
      <4>3. json_wards' = json_wards \cup {Record(w, told)} /\ Record(w, told).ward.spot = s
        BY <1>4, <1>6, <2>4, <3>5, <4>1, <4>2 DEF Record
      <4>4. FirstOf(Unclaimed(s)) = {w}
        <5>1. ASSUME NEW v \in FirstOf(Unclaimed(s)) PROVE v = w
          <6>1. v \in Put /\ w \in Put /\ v.at <= w.at /\ w.at <= v.at
            BY <4>1, <5>1 DEF FirstOf, Unclaimed, OnSpot
          <6>2. v.at = w.at
            BY <6>1, GameTimes
          <6> QED
            BY <6>1, <6>2 DEF GameTrue
        <5> QED
          BY <4>1, <5>1
      <4>5. RecordsDue(s)' = RecordsDue(s) \cup {Record(w, told)}
        BY <3>2, <4>4
      <4>6. {r \in json_wards' : r.ward.spot = s} = {r \in json_wards : r.ward.spot = s} \cup {Record(w, told)}
        BY <4>3
      <4> QED
        BY <2>2, <3>4, <4>5, <4>6 DEF RecordedAt
    <3>6. CASE s \notin DOMAIN pos_to_id
      <4>1. Unclaimed(s) = {} /\ json_wards' = json_wards
        BY <1>3, <2>2, <2>4, <3>6 DEF LeadsTo
      <4>2. RecordsDue(s)' = RecordsDue(s)
        BY <3>2, <4>1 DEF FirstOf
      <4> QED
        BY <2>2, <3>4, <4>1, <4>2 DEF RecordedAt
    <3> QED
      BY <3>5, <3>6
  <2> QED
    BY <2>3, <2>4
<1> QED
  BY <1>6 DEF SpotsTrue

LEMMA WardFallsInv ==
  ASSUME PlacedInv, NEW w \in standing, NEW spot \in Spots, WardFalls(w, spot)
  PROVE  PlacedInv'
<1> USE DEF PlacedInv
<1> DEFINE gone == [ward |-> w, until |-> told]
           c == [spot |-> spot, at |-> told]
<1>1. /\ ~ panicked /\ told' = told + 1 /\ CorpseLies(spot)
      /\ standing' = standing \ {w} /\ fallen' = fallen \cup {gone} /\ corpses' = corpses \cup {c}
  BY DEF WardFalls, Telling, CorpseLies
<1>2. told \in Nat /\ w \in WardRecord /\ w \in Put /\ w.at < told /\ w.at \in Nat
  BY DEF PlacedTyped, WardRecord, Put, GameTrue
<1>3. /\ gone \in [ward : WardRecord, until : Nat] /\ gone.ward = w /\ gone.until = told
      /\ c \in [spot : Spots, at : Nat] /\ c.at = told
  BY <1>2
<1> HIDE DEF gone, c
<1>4. Put' = Put
  BY <1>1, <1>3 DEF Put
<1>5. /\ placed' \in [DOMAIN placed' -> WardRecord] /\ pos_to_id' \in [DOMAIN pos_to_id' -> WardIds]
      /\ json_wards' \subseteq [ward : WardRecord, duration : Int] /\ panicked' \in BOOLEAN
      /\ HeardTrue' /\ RecordsDiffer'
  BY <1>1, <1>4, CorpseKeeps
<1>6. PlacedTyped'
  BY <1>1, <1>2, <1>3, <1>5 DEF PlacedTyped
<1>7. GameTrue'
  <2>1. \A v \in Put' : v.at < told'
    BY <1>1, <1>2, <1>4, GameTimes
  <2>2. \A f \in fallen' : f.ward.at < f.until /\ f.until < told' /\ f.ward \notin standing'
    BY <1>1, <1>2, <1>3, GameTimes DEF GameTrue
  <2>3. \A f, g \in fallen' : f.ward = g.ward \/ f.until = g.until => f = g
    <3>1. \A f \in fallen : f.ward # gone.ward /\ f.until # gone.until
      BY <1>2, <1>3, GameTimes DEF GameTrue
    <3> QED
      BY <1>1, <3>1 DEF GameTrue
  <2>4. \A d \in corpses' : d.at < told' /\ \A v \in Put' : v.at # d.at
    BY <1>1, <1>2, <1>3, <1>4, GameTimes DEF GameTrue
  <2> QED
    BY <1>4, <2>1, <2>2, <2>3, <2>4 DEF GameTrue
<1>8. SpotsTrue'
  <2>1. \A f \in fallen' \ fallen : f.until = told
    BY <1>1, <1>3
  <2> QED
    BY <1>1, <1>4, <2>1, CorpseSpots
<1> QED
  BY <1>5, <1>6, <1>7, <1>8

LEMMA StrayCorpseInv ==
  ASSUME PlacedInv, NEW spot \in Spots, StrayCorpse(spot)
  PROVE  PlacedInv'
<1> USE DEF PlacedInv
<1> DEFINE c == [spot |-> spot, at |-> told]
<1>1. /\ ~ panicked /\ told' = told + 1 /\ CorpseLies(spot) /\ UNCHANGED <<standing, fallen>>
      /\ corpses' = corpses \cup {c}
  BY DEF StrayCorpse, Telling, CorpseLies
<1>2. told \in Nat /\ Put' = Put
  BY <1>1 DEF PlacedTyped, Put
<1>3. c \in [spot : Spots, at : Nat] /\ c.at = told
  BY <1>2
<1> HIDE DEF c
<1>4. /\ placed' \in [DOMAIN placed' -> WardRecord] /\ pos_to_id' \in [DOMAIN pos_to_id' -> WardIds]
      /\ json_wards' \subseteq [ward : WardRecord, duration : Int] /\ panicked' \in BOOLEAN
      /\ HeardTrue' /\ RecordsDiffer'
  BY <1>1, <1>2, CorpseKeeps
<1>5. PlacedTyped'
  BY <1>1, <1>2, <1>3, <1>4 DEF PlacedTyped
<1>6. GameTrue'
  BY <1>1, <1>2, <1>3, GameTimes DEF GameTrue
<1>7. SpotsTrue'
  BY <1>1, <1>2, CorpseSpots
<1> QED
  BY <1>4, <1>5, <1>6, <1>7

LEMMA PlacedStepInv == PlacedInv /\ [PlacedNext]_placedPart => PlacedInv'
<1> SUFFICES ASSUME PlacedInv, [PlacedNext]_placedPart PROVE PlacedInv'
  OBVIOUS
<1>1. ASSUME NEW id \in WardIds, NEW spot \in Spots, NEW players \in BOOLEAN, NewWard(id, spot, players)
      PROVE  PlacedInv'
  BY <1>1, NewWardInv
<1>2. ASSUME NEW w \in standing, ToldAgain(w) PROVE PlacedInv'
  BY <1>2, ToldAgainInv
<1>3. ASSUME NEW w \in standing, NEW spot \in Spots, WardFalls(w, spot) PROVE PlacedInv'
  BY <1>3, WardFallsInv
<1>4. ASSUME NEW spot \in Spots, StrayCorpse(spot) PROVE PlacedInv'
  BY <1>4, StrayCorpseInv
<1>5. CASE UNCHANGED placedPart
  <2>1. UNCHANGED <<told, standing, fallen, corpses, placed, pos_to_id, json_wards, panicked>>
    BY <1>5 DEF placedPart
  <2>2. PlacedTyped' /\ GameTrue' /\ HeardTrue' /\ RecordsDiffer'
    BY <2>1 DEF PlacedInv, PlacedTyped, GameTrue, HeardTrue, RecordsDiffer, PutAt, Put
  <2>3. \A spot : /\ RecordsDue(spot)' = RecordsDue(spot) /\ Unclaimed(spot)' = Unclaimed(spot)
                  /\ Undisturbed(spot)' <=> Undisturbed(spot)
    <3>1. \A c \in corpses : Since(c)' = Since(c)
      BY <2>1 DEF Since, OnSpot, Put
    <3> QED
      BY <2>1, <3>1, DueStays DEF Unclaimed, Undisturbed, OnSpot, Put
  <2>4. SpotsTrue'
    BY <2>1, <2>3 DEF PlacedInv, SpotsTrue, RecordedAt, LeadsTo, FirstOf
  <2> QED
    BY <2>2, <2>4 DEF PlacedInv
<1> QED
  BY <1>1, <1>2, <1>3, <1>4, <1>5 DEF PlacedNext

\* Where corpses lie on the spots of their own wards, and on no other ward's that
\* stands, the wards due to be recorded are those that fell.
LEMMA FallenAreDue ==
  ASSUME PlacedInv, NEW spot, Undisturbed(spot), NoneDrifted(spot)
  PROVE  RecordsDue(spot) = {Record(f.ward, f.until) : f \in {g \in fallen : g.ward.spot = spot}}
<1> USE DEF PlacedInv
<1>1. ASSUME NEW c \in OnSpot(corpses, spot), NEW w \in Since(c)
      PROVE  \E f \in fallen : f.ward = w /\ f.until = c.at
  <2>1. w \in OnSpot(Put, spot) /\ w.at < c.at /\ c \in corpses /\ c.spot = spot /\ w.spot = spot
    BY DEF Since, OnSpot
  <2>2. PICK f \in fallen : f.ward = w /\ f.until <= c.at
    BY <2>1 DEF Undisturbed
  <2>3. [spot |-> spot, at |-> f.until] \in OnSpot(corpses, spot)
    BY <2>1, <2>2 DEF NoneDrifted, OnSpot
  <2>4. ~ f.until < c.at
    <3>1. f.until < c.at => f.until < w.at
      BY <2>1, <2>3 DEF Since
    <3>2. w.at < f.until /\ w.at \in Nat /\ f.until \in Nat
      BY <2>1, <2>2, GameTimes DEF GameTrue, OnSpot
    <3> QED
      BY <3>1, <3>2
  <2> QED
    BY <2>1, <2>2, <2>4, GameTimes
<1>2. ASSUME NEW f \in fallen, f.ward.spot = spot
      PROVE  \E c \in OnSpot(corpses, spot) : c.at = f.until /\ f.ward \in FirstOf(Since(c))
  <2> DEFINE c == [spot |-> spot, at |-> f.until]
  <2>1. c \in OnSpot(corpses, spot) /\ c.spot = spot /\ c.at = f.until
    BY <1>2 DEF NoneDrifted, OnSpot
  <2> HIDE DEF c
  <2>2. f.ward \in OnSpot(Put, spot) /\ f.ward.at < f.until /\ f.ward.at \in Nat /\ f.until \in Nat
    BY <1>2, GameTimes DEF OnSpot, GameTrue
  <2>3. ASSUME NEW d \in OnSpot(corpses, spot), d.at < f.until
        PROVE  d.at < f.ward.at
    <3>1. d \in corpses /\ d.at \in Nat /\ d.at # f.ward.at
      BY <2>2, GameTimes DEF OnSpot, GameTrue
    <3>2. f.ward.at < d.at => \E g \in fallen : g.ward = f.ward /\ g.until <= d.at
      BY <2>2 DEF Undisturbed
    <3>3. ~ f.ward.at < d.at
      <4>1. \A g \in fallen : g.ward = f.ward => g = f
        BY DEF GameTrue
      <4> QED
        BY <2>2, <2>3, <3>1, <3>2, <4>1
    <3> QED
      BY <2>2, <3>1, <3>3
  <2>4. f.ward \in Since(c)
    BY <2>1, <2>2, <2>3 DEF Since
  <2>5. \A v \in Since(c) : v = f.ward
    <3> SUFFICES ASSUME NEW v \in Since(c) PROVE v = f.ward
      OBVIOUS
    <3>1. PICK g \in fallen : g.ward = v /\ g.until = c.at
      BY <1>1, <2>1
    <3> QED
      BY <2>1, <3>1 DEF GameTrue
  <2> QED
    BY <2>1, <2>2, <2>4, <2>5 DEF FirstOf
<1>3. ASSUME NEW r \in RecordsDue(spot)
      PROVE  r \in {Record(f.ward, f.until) : f \in {g \in fallen : g.ward.spot = spot}}
  <2>1. PICK c \in OnSpot(corpses, spot) : \E w \in Since(c) : r = Record(w, c.at)
    BY DEF RecordsDue, FirstOf
  <2>2. PICK w \in Since(c) : r = Record(w, c.at)
    BY <2>1
  <2>3. PICK f \in fallen : f.ward = w /\ f.until = c.at
    BY <1>1, <2>2
  <2>4. w.spot = spot
    BY <2>2 DEF Since, OnSpot
  <2> QED
    BY <2>2, <2>3, <2>4
<1>4. ASSUME NEW f \in fallen, f.ward.spot = spot
      PROVE  Record(f.ward, f.until) \in RecordsDue(spot)
  <2>1. PICK c \in OnSpot(corpses, spot) : c.at = f.until /\ f.ward \in FirstOf(Since(c))
    BY <1>2, <1>4
  <2> QED
    BY <2>1 DEF RecordsDue
<1> QED
  BY <1>3, <1>4

\* On a spot where no corpse comes to lie while a ward stands there, a corpse records
\* the first of the wards put there since the corpse before, up to its own time; if
\* no corpse drifted off the spot, these are the wards that fell there, each with the
\* time it stood.  Elsewhere a record is of a ward that was placed there by then, and
\* ends with a corpse that lay there; and the run ends early only for a ward that is
\* no player's, however many wards and spots there are, however far corpses drift and
\* however long the game (replay_info.rs:73-99).
THEOREM WardsAreKnownByPlace == PlacedSpec => []WardsByPlace
<1>1. PlacedInv => WardsByPlace
  <2> SUFFICES ASSUME PlacedInv PROVE WardsByPlace
    OBVIOUS
  <2>1. ASSUME NEW spot \in Spots, Undisturbed(spot), ~ panicked
        PROVE  LET recorded == {r \in json_wards : r.ward.spot = spot} IN
               /\ recorded = RecordsDue(spot)
               /\ NoneDrifted(spot) =>
                    recorded = {Record(f.ward, f.until) : f \in {g \in fallen : g.ward.spot = spot}}
    BY <2>1, FallenAreDue DEF PlacedInv, SpotsTrue, RecordedAt
  <2> QED
    BY <2>1 DEF PlacedInv, RecordsDiffer, WardsByPlace, EndOf
<1> QED
  BY <1>1, PlacedInitInv, PlacedStepInv, PTL DEF PlacedSpec

-----------------------------------------------------------------------------
(* The bytes of a movement packet: sequences one after another             *)

\* A set of numbers has a least one.
LEMMA LeastExists ==
  ASSUME NEW S \in SUBSET Nat, S # {}
  PROVE  \E m \in S : \A n \in S : m <= n
<1>1. \E x \in S : \A y \in S : ~ (<<y, x>> \in OpToRel(<, Nat))
  BY NatLessThanWellFounded, WFMin
<1>2. PICK x \in S : \A y \in S : ~ (<<y, x>> \in OpToRel(<, Nat))
  BY <1>1
<1>3. \A y \in S : ~ (y < x)
  BY <1>2 DEF OpToRel
<1> QED
  BY <1>3

\* So a set that has 0 and each next number has all of them.
LEMMA UpFromZero ==
  ASSUME NEW S \in SUBSET Nat, 0 \in S, \A m \in S : m + 1 \in S
  PROVE  S = Nat
<1> SUFFICES ASSUME NEW z \in Nat \ S PROVE FALSE
  OBVIOUS
<1> DEFINE T == Nat \ S
<1>1. PICK x \in T : \A y \in T : x <= y
  <2>1. T \in SUBSET Nat /\ T # {}
    OBVIOUS
  <2> HIDE DEF T
  <2> QED
    BY <2>1, LeastExists
<1>2. x \in Nat /\ x \notin S /\ x # 0
  OBVIOUS
<1>3. x - 1 \in Nat /\ x - 1 < x /\ (x - 1) + 1 = x
  BY <1>2
<1>4. x - 1 \notin T
  BY <1>1, <1>2, <1>3
<1> QED
  BY <1>2, <1>3, <1>4

\* Two sequences, one after the other.
LEMMA JoinedTwo ==
  ASSUME NEW X, NEW a \in Seq(X), NEW b \in Seq(X)
  PROVE  /\ a \o b \in Seq(X) /\ Len(a) \in Nat /\ Len(b) \in Nat /\ Len(a \o b) = Len(a) + Len(b)
         /\ \A k \in 1 .. Len(a) : (a \o b)[k] = a[k]
         /\ \A k \in 1 .. Len(b) : (a \o b)[Len(a) + k] = b[k]
         /\ <<>> \o a = a
<1>1. a \o b \in Seq(X) /\ Len(a) \in Nat /\ Len(b) \in Nat /\ Len(a \o b) = Len(a) + Len(b)
  OBVIOUS
<1>2. \A k \in 1 .. Len(a) : (a \o b)[k] = a[k]
  OBVIOUS
<1>3. ASSUME NEW k \in 1 .. Len(b) PROVE (a \o b)[Len(a) + k] = b[k]
  <2>1. Len(a) + k \in 1 .. Len(a \o b) /\ ~ (Len(a) + k <= Len(a)) /\ (Len(a) + k) - Len(a) = k
    BY <1>1, <1>3
  <2> QED
    BY <1>1, <1>3, <2>1
<1>4. <<>> \o a = a
  OBVIOUS
<1> QED
  BY <1>1, <1>2, <1>3, <1>4

\* The same, for one name.
Glued(X, a, b, c) ==
  /\ c \in Seq(X) /\ Len(c) = Len(a) + Len(b)
  /\ \A k \in 1 .. Len(a) : c[k] = a[k]
  /\ \A k \in 1 .. Len(b) : c[Len(a) + k] = b[k]

\* Joining two sequences gives what Glued says.
LEMMA TwoAreGlued ==
  ASSUME NEW X, NEW a \in Seq(X), NEW b \in Seq(X)
  PROVE  Glued(X, a, b, a \o b)
<1>1. a \o b \in Seq(X) /\ Len(a \o b) = Len(a) + Len(b)
  BY JoinedTwo
<1>2. \A k \in 1 .. Len(a) : (a \o b)[k] = a[k]
  BY JoinedTwo
<1>3. \A k \in 1 .. Len(b) : (a \o b)[Len(a) + k] = b[k]
  BY JoinedTwo
<1> QED
  BY <1>1, <1>2, <1>3, Zenon DEF Glued

\* What the sequences of a sequence are one after another, up to each of them.
Joins(f, seqs) ==
  /\ DOMAIN f = 0 .. Len(seqs) /\ f[0] = <<>>
  /\ \A i \in 1 .. Len(seqs) : f[i] = f[i - 1] \o seqs[i]

\* Sequences that are joined one by one give the same however many follow.
BothJoin(s, t, n, f, g) ==
  /\ Len(s) \in Nat /\ Len(t) \in Nat /\ n \in Nat /\ n <= Len(s) /\ n <= Len(t)
  /\ \A i \in 1 .. n : s[i] = t[i]
  /\ Joins(f, s) /\ Joins(g, t)

LEMMA JoinsAgree ==
  ASSUME NEW s, NEW t, NEW n, NEW f, NEW g, BothJoin(s, t, n, f, g)
  PROVE  f[n] = g[n]
<1> USE DEF BothJoin
<1> DEFINE S == {k \in Nat : k <= n => f[k] = g[k]}
<1>1. 0 \in S
  BY DEF Joins
<1>2. ASSUME NEW k \in S PROVE k + 1 \in S
  <2> SUFFICES ASSUME k + 1 <= n PROVE f[k + 1] = g[k + 1]
    OBVIOUS
  <2>1. f[k] = g[k] /\ s[k + 1] = t[k + 1]
    OBVIOUS
  <2>2. k + 1 \in 1 .. Len(s) /\ k + 1 \in 1 .. Len(t) /\ (k + 1) - 1 = k
    OBVIOUS
  <2>3. f[k + 1] = f[k] \o s[k + 1] /\ g[k + 1] = g[k] \o t[k + 1]
    BY <2>2 DEF Joins
  <2> QED
    BY <2>1, <2>3
<1>3. S = Nat
  <2> HIDE DEF S
  <2>1. S \in SUBSET Nat
    BY DEF S
  <2> QED
    BY <1>1, <1>2, <2>1, UpFromZero
<1> QED
  BY <1>3

\* A sequence of sequences can be joined one by one.
LEMMA JoinsExist ==
  ASSUME NEW X, NEW s \in Seq(Seq(X))
  PROVE  \E f \in [0 .. Len(s) -> Seq(X)] : Joins(f, s)
<1> DEFINE Upto(f, k) == /\ f \in [0 .. k -> Seq(X)] /\ f[0] = <<>>
                         /\ \A i \in 1 .. k : f[i] = f[i - 1] \o s[i]
           S == {k \in Nat : k <= Len(s) => \E f : Upto(f, k)}
<1>1. 0 \in S
  <2> DEFINE f == [i \in 0 .. 0 |-> <<>>]
  <2>1. f \in [0 .. 0 -> Seq(X)] /\ f[0] = <<>>
    OBVIOUS
  <2>2. Upto(f, 0)
    BY <2>1
  <2> HIDE DEF f, Upto
  <2> QED
    BY <2>2
<1>2. ASSUME NEW k \in S PROVE k + 1 \in S
  <2> SUFFICES ASSUME k + 1 <= Len(s) PROVE \E f : Upto(f, k + 1)
    <3> HIDE DEF Upto
    <3> QED
      OBVIOUS
  <2>0. k \in Nat
    <3> HIDE DEF Upto
    <3> QED
      OBVIOUS
  <2>1. PICK f : Upto(f, k)
    <3>1. \E f : Upto(f, k)
      <4> HIDE DEF Upto
      <4> QED
        OBVIOUS
    <3> QED
      BY <3>1, Zenon
  <2> DEFINE g == [i \in 0 .. k + 1 |-> IF i = k + 1 THEN f[k] \o s[k + 1] ELSE f[i]]
  <2>2. s[k + 1] \in Seq(X) /\ f[k] \in Seq(X)
    BY <2>1
  <2>3. f[k] \o s[k + 1] \in Seq(X)
    BY <2>2
  <2>4. g \in [0 .. k + 1 -> Seq(X)] /\ g[0] = <<>>
    BY <2>1, <2>3
  <2>5. ASSUME NEW i \in 1 .. k + 1 PROVE g[i] = g[i - 1] \o s[i]
    <3>1. CASE i = k + 1
      <4>1. g[i] = f[k] \o s[k + 1] /\ g[i - 1] = f[k]
        <5>1. k + 1 \in 0 .. k + 1 /\ (k + 1) - 1 = k /\ k \in 0 .. k + 1 /\ k # k + 1
          BY <2>0
        <5> QED
          BY <3>1, <5>1
      <4> QED
        BY <3>1, <4>1
    <3>2. CASE i \in 1 .. k
      <4>1. g[i] = f[i] /\ g[i - 1] = f[i - 1]
        BY <2>0, <3>2
      <4>2. f[i] = f[i - 1] \o s[i]
        BY <2>1, <3>2
      <4> QED
        BY <4>1, <4>2
    <3>3. i = k + 1 \/ i \in 1 .. k
      BY <2>0, <2>5
    <3> QED
      BY <3>1, <3>2, <3>3
  <2>6. Upto(g, k + 1)
    BY <2>4, <2>5
  <2> HIDE DEF g, Upto
  <2> QED
    BY <2>6
<1>3. S = Nat
  <2> HIDE DEF S
  <2>1. S \in SUBSET Nat
    BY DEF S
  <2> QED
    BY <1>1, <1>2, <2>1, UpFromZero
<1>4. \E f : Upto(f, Len(s))
  <2>1. Len(s) \in Nat
    OBVIOUS
  <2> HIDE DEF Upto
  <2> QED
    BY <1>3, <2>1
<1>5. PICK f : Upto(f, Len(s))
  BY <1>4, Zenon
<1> QED
  BY <1>5 DEF Joins

\* FlattenSeq joins them all.
LEMMA FlattenJoins ==
  ASSUME NEW X, NEW s \in Seq(Seq(X))
  PROVE  \E f \in [0 .. Len(s) -> Seq(X)] : Joins(f, s) /\ FlattenSeq(s) = f[Len(s)]
<1>1. PICK f \in [0 .. Len(s) -> Seq(X)] : Joins(f, s)
  BY JoinsExist
<1>0. Len(s) \in Nat /\ \A i \in 1 .. Len(s) : s[i] \in Seq(X)
  OBVIOUS
<1>2. CASE Len(s) = 0
  <2>1. s = <<>> /\ FlattenSeq(s) = s
    BY <1>2 DEF FlattenSeq
  <2> QED
    BY <1>1, <1>2, <2>1 DEF Joins
<1>3. CASE Len(s) # 0
  <2> DEFINE flatten == CHOOSE flatten : flatten = [i \in 1 .. Len(s) |-> IF i = 1 THEN s[i] ELSE flatten[i - 1] \o s[i]]
             h == [i \in 1 .. Len(s) |-> f[i]]
  <2>1. h = [i \in 1 .. Len(s) |-> IF i = 1 THEN s[i] ELSE h[i - 1] \o s[i]]
    <3>1. ASSUME NEW i \in 1 .. Len(s) PROVE f[i] = IF i = 1 THEN s[i] ELSE h[i - 1] \o s[i]
      <4>1. CASE i = 1
        <5>1. f[1] = <<>> \o s[1]
          BY <1>0, <1>1, <3>1, <4>1, 1 - 1 = 0 DEF Joins
        <5>2. s[1] \in Seq(X)
          BY <1>0, <3>1, <4>1
        <5>3. f[1] = s[1]
          BY <5>1, <5>2, JoinedTwo
        <5> QED
          BY <4>1, <5>3
      <4>2. CASE i # 1
        <5>1. f[i] = f[i - 1] \o s[i]
          BY <1>1, <3>1 DEF Joins
        <5>2. i - 1 \in 1 .. Len(s)
          BY <3>1, <4>2
        <5> QED
          BY <4>2, <5>1, <5>2
      <4> QED
        BY <4>1, <4>2
    <3> QED
      BY <3>1, Zenon
  <2>2. flatten = [i \in 1 .. Len(s) |-> IF i = 1 THEN s[i] ELSE flatten[i - 1] \o s[i]]
    <3> HIDE DEF h
    <3> QED
      BY <2>1, Zenon
  <2>3. FlattenSeq(s) = flatten[Len(s)]
    BY <1>3 DEF FlattenSeq
  <2> HIDE DEF flatten, h
  <2> DEFINE S == {k \in Nat : k + 1 <= Len(s) => flatten[k + 1] = f[k + 1]}
  <2>4. 0 \in S
    <3> SUFFICES ASSUME 1 <= Len(s) PROVE flatten[1] = f[1]
      OBVIOUS
    <3>1. flatten[1] = s[1]
      BY <2>2
    <3>2. f[1] = <<>> \o s[1]
      BY <1>0, <1>1, 1 \in 1 .. Len(s), 1 - 1 = 0 DEF Joins
    <3>3. s[1] \in Seq(X)
      BY <1>0
    <3>4. f[1] = s[1]
      BY <3>2, <3>3, JoinedTwo
    <3> QED
      BY <3>1, <3>4
  <2>5. ASSUME NEW k \in S PROVE k + 1 \in S
    <3> SUFFICES ASSUME k + 2 <= Len(s) PROVE flatten[k + 2] = f[k + 2]
      OBVIOUS
    <3>1. k + 2 \in 1 .. Len(s) /\ k + 2 # 1 /\ (k + 2) - 1 = k + 1
      OBVIOUS
    <3>2. flatten[k + 2] = flatten[k + 1] \o s[k + 2]
      BY <2>2, <3>1
    <3>3. f[k + 2] = f[k + 1] \o s[k + 2]
      BY <1>1, <3>1 DEF Joins
    <3>4. flatten[k + 1] = f[k + 1]
      OBVIOUS
    <3> QED
      BY <3>2, <3>3, <3>4
  <2>6. S = Nat
    <3> HIDE DEF S
    <3>1. S \in SUBSET Nat
      BY DEF S
    <3> QED
      BY <2>4, <2>5, <3>1, UpFromZero
  <2>7. Len(s) - 1 \in S /\ (Len(s) - 1) + 1 = Len(s)
    <3> HIDE DEF S
    <3> QED
      BY <1>0, <1>3, <2>6
  <2>8. flatten[Len(s)] = f[Len(s)]
    BY <2>7
  <2> QED
    BY <1>1, <2>3, <2>8
<1> QED
  BY <1>2, <1>3

\* Each is found behind those before it.
Placed(f, s, i) ==
  \A j \in 1 .. i : /\ Len(f[j]) <= Len(f[i])
                    /\ \A k \in 1 .. Len(s[j]) : f[i][Len(f[j - 1]) + k] = s[j][k]

\* Each of the joined sequences stands where those before it end.
LEMMA JoinsPlaces ==
  ASSUME NEW X, NEW s \in Seq(Seq(X)), NEW f \in [0 .. Len(s) -> Seq(X)], Joins(f, s)
  PROVE  /\ \A i \in 1 .. Len(s) : Len(f[i]) = Len(f[i - 1]) + Len(s[i])
         /\ \A i \in 0 .. Len(s) : Placed(f, s, i)
<1>1. \A i \in 1 .. Len(s) : f[i] = f[i - 1] \o s[i] /\ f[i - 1] \in Seq(X) /\ s[i] \in Seq(X) /\ f[i] \in Seq(X)
  BY DEF Joins
<1>2. \A i \in 1 .. Len(s) : /\ Len(f[i]) = Len(f[i - 1]) + Len(s[i]) /\ Len(f[i - 1]) \in Nat
                            /\ Len(s[i]) \in Nat /\ Len(f[i]) \in Nat
  <2> SUFFICES ASSUME NEW i \in 1 .. Len(s)
               PROVE  /\ Len(f[i]) = Len(f[i - 1]) + Len(s[i]) /\ Len(f[i - 1]) \in Nat
                      /\ Len(s[i]) \in Nat /\ Len(f[i]) \in Nat
    OBVIOUS
  <2>1. f[i] = f[i - 1] \o s[i] /\ f[i - 1] \in Seq(X) /\ s[i] \in Seq(X) /\ f[i] \in Seq(X)
    BY <1>1
  <2>2. Len(f[i - 1] \o s[i]) = Len(f[i - 1]) + Len(s[i])
    BY ONLY <2>1, JoinedTwo
  <2>3. \A a \in Seq(X) : Len(a) \in Nat
    OBVIOUS
  <2> QED
    BY <2>1, <2>2, <2>3
<1> DEFINE S == {i \in Nat : i <= Len(s) => Placed(f, s, i)}
<1>3. 0 \in S
  BY DEF Placed
<1>4. ASSUME NEW i \in S PROVE i + 1 \in S
  <2> SUFFICES ASSUME i + 1 <= Len(s) PROVE Placed(f, s, i + 1)
    OBVIOUS
  <2> SUFFICES ASSUME NEW j \in 1 .. i + 1
               PROVE  /\ Len(f[j]) <= Len(f[i + 1])
                      /\ \A k \in 1 .. Len(s[j]) : f[i + 1][Len(f[j - 1]) + k] = s[j][k]
    BY DEF Placed
  <2>0. i \in Nat /\ i + 1 \in 1 .. Len(s) /\ (i + 1) - 1 = i
    <3>1. i \in Nat
      OBVIOUS
    <3> QED
      BY <3>1
  <2>1. /\ f[i + 1] = f[i] \o s[i + 1] /\ f[i] \in Seq(X) /\ s[i + 1] \in Seq(X)
        /\ Len(f[i + 1]) = Len(f[i]) + Len(s[i + 1])
    BY <1>1, <1>2, <2>0
  <2>2. Placed(f, s, i) /\ Len(f[i]) \in Nat /\ Len(s[i + 1]) \in Nat
    <3>1. Placed(f, s, i)
      OBVIOUS
    <3> QED
      BY <2>1, <3>1
  <2>3. CASE j = i + 1
    <3>1. \A k \in 1 .. Len(s[i + 1]) : (f[i] \o s[i + 1])[Len(f[i]) + k] = s[i + 1][k]
      <4>1. f[i] \in Seq(X) /\ s[i + 1] \in Seq(X)
        BY <2>1
      <4> DEFINE a == f[i]
                 b == s[i + 1]
      <4>2. a \in Seq(X) /\ b \in Seq(X)
        BY ONLY <4>1
      <4> HIDE DEF a, b
      <4>3. \A k \in 1 .. Len(b) : (a \o b)[Len(a) + k] = b[k]
        BY ONLY <4>2, JoinedTwo
      <4> QED
        BY ONLY <4>3 DEF a, b
    <3>2. \A k \in 1 .. Len(s[j]) : f[i + 1][Len(f[j - 1]) + k] = s[j][k]
      BY <2>0, <2>1, <2>3, <3>1
    <3>3. Len(f[j]) <= Len(f[i + 1])
      <4>1. Len(f[i + 1]) \in Nat
        BY <1>2, <2>0
      <4> QED
        BY <2>3, <4>1
    <3> QED
      BY <3>2, <3>3
  <2>4. CASE j \in 1 .. i
    <3>1. Len(f[j]) <= Len(f[i]) /\ Len(f[j]) \in Nat
      <4>1. j \in 1 .. Len(s)
        BY <2>0, <2>4
      <4> QED
        BY <1>2, <2>2, <2>4, <4>1 DEF Placed
    <3>2. ASSUME NEW k \in 1 .. Len(s[j]) PROVE f[i + 1][Len(f[j - 1]) + k] = s[j][k]
      <4>1. f[i][Len(f[j - 1]) + k] = s[j][k]
        BY <2>2, <2>4, <3>2 DEF Placed
      <4>2. Len(f[j]) = Len(f[j - 1]) + Len(s[j]) /\ Len(f[j - 1]) \in Nat /\ Len(s[j]) \in Nat
        <5>1. j \in 1 .. Len(s)
          BY <2>0, <2>4
        <5> QED
          BY <1>2, <5>1
      <4>3. Len(f[j - 1]) + k \in 1 .. Len(f[i])
        <5>1. Len(f[i]) \in Nat /\ Len(f[j]) <= Len(f[i])
          BY <2>2, <3>1
        <5>2. k \in 1 .. Len(s[j])
          BY <3>2
        <5> DEFINE a == Len(f[j - 1])
                   b == Len(s[j])
                   c == Len(f[j])
                   d == Len(f[i])
        <5>3. d \in Nat /\ c <= d /\ c = a + b /\ a \in Nat /\ b \in Nat /\ k \in 1 .. b
          BY ONLY <4>2, <5>1, <5>2
        <5> HIDE DEF a, b, c, d
        <5>4. a + k \in 1 .. d
          BY ONLY <5>3
        <5> QED
          BY ONLY <5>4 DEF a, d
      <4>4. (f[i] \o s[i + 1])[Len(f[j - 1]) + k] = f[i][Len(f[j - 1]) + k]
        BY <2>1, <4>3, JoinedTwo
      <4> QED
        BY <2>1, <4>1, <4>4
    <3>3. Len(f[i]) <= Len(f[i + 1]) /\ Len(f[i + 1]) \in Nat
      <4>1. Len(f[i]) \in Nat /\ Len(s[i + 1]) \in Nat /\ Len(f[i + 1]) = Len(f[i]) + Len(s[i + 1])
        BY <2>1, <2>2
      <4> DEFINE a == Len(f[i])
                 b == Len(s[i + 1])
                 c == Len(f[i + 1])
      <4>2. a \in Nat /\ b \in Nat /\ c = a + b
        BY ONLY <4>1
      <4> HIDE DEF a, b, c
      <4>3. a <= c /\ c \in Nat
        BY ONLY <4>2
      <4> QED
        BY ONLY <4>3 DEF a, b, c
    <3>4. Len(f[j]) <= Len(f[i + 1])
      BY <2>2, <3>1, <3>3
    <3> QED
      BY <3>2, <3>4
  <2> QED
    BY <2>3, <2>4
<1>5. S = Nat
  <2> HIDE DEF S
  <2>1. S \in SUBSET Nat
    BY DEF S
  <2> QED
    BY <1>3, <1>4, <2>1, UpFromZero
<1>6. Len(s) \in Nat /\ \A i \in 0 .. Len(s) : Placed(f, s, i)
  <2>1. Len(s) \in Nat
    OBVIOUS
  <2> QED
    BY <1>5, <2>1
<1> QED
  BY <1>2, <1>6

-----------------------------------------------------------------------------
(* A byte of the bitmap and its bits                                       *)

\* Whether a byte's bit k is of the set, and the byte the set makes.
In(s, k) == IF \E i \in s : i % Bits = k THEN 1 ELSE 0
Num(s) == In(s, 0) + 2 * In(s, 1) + 4 * In(s, 2) + 8 * In(s, 3)
          + 16 * In(s, 4) + 32 * In(s, 5) + 64 * In(s, 6) + 128 * In(s, 7)

\* The powers of two of a byte's bits.
LEMMA Powers ==
  /\ 2 ^ 0 = 1 /\ 2 ^ 1 = 2 /\ 2 ^ 2 = 4 /\ 2 ^ 3 = 8
  /\ 2 ^ 4 = 16 /\ 2 ^ 5 = 32 /\ 2 ^ 6 = 64 /\ 2 ^ 7 = 128 /\ 2 ^ 8 = 256
  OBVIOUS

\* The two sizes of a byte.
LEMMA BaseIs == (Bits = 4 /\ Base = 16 /\ Word = 256) \/ (Bits = 8 /\ Base = 256 /\ Word = 65536)
<1>1. CASE Bits = 4
  <2>1. Base = 16
    BY <1>1, Powers DEF Base
  <2> QED
    BY <1>1, <2>1 DEF Word
<1>2. CASE Bits = 8
  <2>1. Base = 256
    BY <1>2, Powers DEF Base
  <2> QED
    BY <1>2, <2>1 DEF Word
<1> QED
  BY <1>1, <1>2, BufferAssumption

\* The byte of a set of bits is a number.
LEMMA NumIsNat == \A s : Num(s) \in Nat
  BY DEF Num, In

\* One of a byte's bits more is its power of two more.
LEMMA NumWith ==
  ASSUME NEW j \in Nat, NEW s \in SUBSET {i \in Nat : i \div Bits = j}, NEW x \in s
  PROVE  Num(s) = 2 ^ (x % Bits) + Num(s \ {x})
<1> DEFINE r == x % Bits
<1>1. \A i \in s : i \in Nat /\ i % Bits \in 0 .. Bits - 1 /\ i = Bits * j + (i % Bits)
  BY BaseIs
<1>2. r \in 0 .. 7
  <2>1. x % Bits \in 0 .. Bits - 1 /\ Bits \in {4, 8}
    BY <1>1, BaseIs
  <2> QED
    BY <2>1
<1>3. In(s, r) = 1
  BY DEF In
<1>4. In(s \ {x}, r) = 0
  BY <1>1, BaseIs DEF In
<1>5. \A k \in 0 .. 7 : k # r => In(s \ {x}, k) = In(s, k)
  <2> TAKE k \in 0 .. 7
  <2> HAVE k # r
  <2>1. (\E i \in s : i % Bits = k) <=> (\E i \in s \ {x} : i % Bits = k)
    OBVIOUS
  <2> QED
    BY <2>1 DEF In
<1> DEFINE a(k) == In(s, k)
           b(k) == In(s \ {x}, k)
<1>6. \A k : a(k) \in {0, 1} /\ b(k) \in {0, 1}
  BY DEF In
<1> HIDE DEF r
<1>7. /\ a(r) = 1 /\ b(r) = 0 /\ \A k \in 0 .. 7 : k # r => b(k) = a(k)
  BY <1>3, <1>4, <1>5
<1>8. Num(s) = a(0) + 2 * a(1) + 4 * a(2) + 8 * a(3) + 16 * a(4) + 32 * a(5) + 64 * a(6) + 128 * a(7)
  BY DEF Num
<1>9. Num(s \ {x}) = b(0) + 2 * b(1) + 4 * b(2) + 8 * b(3) + 16 * b(4) + 32 * b(5) + 64 * b(6) + 128 * b(7)
  BY DEF Num
<1> HIDE DEF a, b
<1>10. Num(s) = 2 ^ r + Num(s \ {x})
  <2>0. CASE r = 0
    BY <1>6, <1>7, <1>8, <1>9, <2>0, Powers
  <2>1. CASE r = 1
    BY <1>6, <1>7, <1>8, <1>9, <2>1, Powers
  <2>2. CASE r = 2
    BY <1>6, <1>7, <1>8, <1>9, <2>2, Powers
  <2>3. CASE r = 3
    BY <1>6, <1>7, <1>8, <1>9, <2>3, Powers
  <2>4. CASE r = 4
    BY <1>6, <1>7, <1>8, <1>9, <2>4, Powers
  <2>5. CASE r = 5
    BY <1>6, <1>7, <1>8, <1>9, <2>5, Powers
  <2>6. CASE r = 6
    BY <1>6, <1>7, <1>8, <1>9, <2>6, Powers
  <2>7. CASE r = 7
    BY <1>6, <1>7, <1>8, <1>9, <2>7, Powers
  <2> QED
    BY <1>2, <2>0, <2>1, <2>2, <2>3, <2>4, <2>5, <2>6, <2>7
<1> QED
  BY <1>10 DEF r

\* The bits of a byte.
LEMMA BitOfNum ==
  ASSUME NEW s, NEW k \in 0 .. Bits - 1
  PROVE  (Num(s) \div 2 ^ k) % 2 = 1 <=> \E i \in s : i % Bits = k
<1> DEFINE a(m) == In(s, m)
<1>1. \A m : a(m) \in {0, 1}
  BY DEF In
<1>2. Num(s) = a(0) + 2 * a(1) + 4 * a(2) + 8 * a(3) + 16 * a(4) + 32 * a(5) + 64 * a(6) + 128 * a(7)
  BY DEF Num
<1>3. a(k) = 1 <=> \E i \in s : i % Bits = k
  BY DEF In
<1>4. k \in 0 .. 7
  BY BaseIs
<1> HIDE DEF a
<1>5. (Num(s) \div 2 ^ k) % 2 = a(k)
  <2>0. CASE k = 0
    BY <1>1, <1>2, <2>0, Powers
  <2>1. CASE k = 1
    BY <1>1, <1>2, <2>1, Powers
  <2>2. CASE k = 2
    BY <1>1, <1>2, <2>2, Powers
  <2>3. CASE k = 3
    BY <1>1, <1>2, <2>3, Powers
  <2>4. CASE k = 4
    BY <1>1, <1>2, <2>4, Powers
  <2>5. CASE k = 5
    BY <1>1, <1>2, <2>5, Powers
  <2>6. CASE k = 6
    BY <1>1, <1>2, <2>6, Powers
  <2>7. CASE k = 7
    BY <1>1, <1>2, <2>7, Powers
  <2> QED
    BY <1>4, <2>0, <2>1, <2>2, <2>3, <2>4, <2>5, <2>6, <2>7
<1> QED
  BY <1>3, <1>5

Chosen(s) == CHOOSE x \in s : TRUE

\* The sum is that byte.
LEMMA SumIsNum ==
  ASSUME NEW j \in Nat, NEW S \in SUBSET {i \in Nat : i \div Bits = j}, IsFiniteSet(S)
  PROVE  MapThenSumSet(LAMBDA i : 2 ^ (i % Bits), S) = Num(S)
<1> DEFINE iter == CHOOSE iter : iter = [s \in SUBSET S |->
                     IF s = {} THEN 0 ELSE 2 ^ ((CHOOSE x \in s : TRUE) % Bits) + iter[s \ {CHOOSE x \in s : TRUE}]]
           h == [s \in SUBSET S |-> Num(s)]
<1>1. MapThenSumSet(LAMBDA i : 2 ^ (i % Bits), S) = iter[S]
  BY DEF MapThenSumSet, MapThenFoldSet
<1>2. \A s \in SUBSET S : s # {} => Chosen(s) \in s
  BY DEF Chosen
<1>3. h = [s \in SUBSET S |->
             IF s = {} THEN 0 ELSE 2 ^ ((CHOOSE x \in s : TRUE) % Bits) + h[s \ {CHOOSE x \in s : TRUE}]]
  <2>1. ASSUME NEW s \in SUBSET S
        PROVE  Num(s) = IF s = {} THEN 0 ELSE 2 ^ ((CHOOSE x \in s : TRUE) % Bits) + h[s \ {CHOOSE x \in s : TRUE}]
    <3>1. CASE s = {}
      BY <3>1 DEF Num, In
    <3>2. CASE s # {}
      <4>1. Chosen(s) \in s /\ s \in SUBSET {i \in Nat : i \div Bits = j}
        BY <1>2, <3>2
      <4>2. Num(s) = 2 ^ (Chosen(s) % Bits) + Num(s \ {Chosen(s)})
        BY <4>1, NumWith
      <4>3. h[s \ {Chosen(s)}] = Num(s \ {Chosen(s)})
        OBVIOUS
      <4> HIDE DEF h
      <4> QED
        BY <3>2, <4>2, <4>3, Zenon DEF Chosen
    <3> QED
      BY <3>1, <3>2
  <2> QED
    BY <2>1, Zenon
<1>4. iter = [s \in SUBSET S |->
             IF s = {} THEN 0 ELSE 2 ^ ((CHOOSE x \in s : TRUE) % Bits) + iter[s \ {CHOOSE x \in s : TRUE}]]
  <2> HIDE DEF h
  <2> QED
    BY <1>3, Zenon
<1> HIDE DEF iter, h
<1>5. \A s \in SUBSET S : iter[s] = IF s = {} THEN 0 ELSE 2 ^ (Chosen(s) % Bits) + iter[s \ {Chosen(s)}]
  BY <1>4, Zenon DEF Chosen
<1> DEFINE Good == {k \in Nat : \A s \in SUBSET S : Cardinality(s) = k => iter[s] = Num(s)}
<1>f. \A s \in SUBSET S : IsFiniteSet(s) /\ Cardinality(s) \in Nat
  BY FS_Subset, FS_CardinalityType
<1>6. 0 \in Good
  <2> SUFFICES ASSUME NEW s \in SUBSET S, Cardinality(s) = 0 PROVE iter[s] = Num(s)
    OBVIOUS
  <2>1. s = {}
    BY <1>f, FS_EmptySet
  <2>2. iter[s] = 0
    BY <1>5, <2>1, Zenon
  <2>3. Num(s) = 0
    BY <2>1 DEF Num, In
  <2> QED
    BY <2>2, <2>3
<1>7. ASSUME NEW k \in Good PROVE k + 1 \in Good
  <2> SUFFICES ASSUME NEW s \in SUBSET S, Cardinality(s) = k + 1 PROVE iter[s] = Num(s)
    OBVIOUS
  <2>0. k \in Nat
    OBVIOUS
  <2>1. s # {}
    BY <1>f, <2>0, FS_EmptySet
  <2>2. Chosen(s) \in s /\ s \in SUBSET {i \in Nat : i \div Bits = j}
    BY <1>2, <2>1
  <2>3. Cardinality(s \ {Chosen(s)}) = Cardinality(s) - 1
    BY <1>f, <2>2, FS_RemoveElement
  <2>4. s \ {Chosen(s)} \in SUBSET S /\ Cardinality(s \ {Chosen(s)}) = k
    <3>1. Cardinality(s) = k + 1
      OBVIOUS
    <3>2. Cardinality(s \ {Chosen(s)}) = k
      BY <2>0, <2>3, <3>1
    <3> QED
      BY <3>2
  <2>5. iter[s \ {Chosen(s)}] = Num(s \ {Chosen(s)})
    BY <2>4
  <2>6. iter[s] = 2 ^ (Chosen(s) % Bits) + iter[s \ {Chosen(s)}]
    BY <1>5, <2>1, Zenon
  <2>7. Num(s) = 2 ^ (Chosen(s) % Bits) + Num(s \ {Chosen(s)})
    BY <2>2, NumWith
  <2> QED
    BY <2>5, <2>6, <2>7, Zenon
<1>8. Good = Nat
  <2> HIDE DEF Good
  <2>1. Good \in SUBSET Nat
    BY DEF Good
  <2> QED
    BY <1>6, <1>7, <2>1, UpFromZero
<1>9. iter[S] = Num(S)
  BY <1>8, <1>f
<1> QED
  BY <1>1, <1>9

-----------------------------------------------------------------------------
(* How an entry's bytes are laid out                                       *)

\* What can be in a group, and an entry's coordinates in the order they are written.
Coords == [at : 0 .. Word - 1, by : Int, delta : BOOLEAN]
GroupEntries == [unit : 0 .. Base - 1, extra : {0, 1}, points : Seq([x : Coords, z : Coords])]

Flat(e) == [j \in 1 .. 2 * Len(e.points) |->
              IF j % 2 = 1 THEN e.points[(j + 1) \div 2].x ELSE e.points[j \div 2].z]

\* A number up to 2n is an x's or a z's.
LEMMA Halves == \A n \in Nat : \A j \in 1 .. 2 * n : \E i \in 1 .. n : j = 2 * i - 1 \/ j = 2 * i
<1> SUFFICES ASSUME NEW n \in Nat, NEW j \in 1 .. 2 * n
             PROVE  \E i \in 1 .. n : j = 2 * i - 1 \/ j = 2 * i
  OBVIOUS
<1>1. j \in Int /\ 1 <= j /\ j <= 2 * n
  OBVIOUS
<1>2. CASE j % 2 = 1
  <2>1. (j + 1) \div 2 \in 1 .. n /\ j = 2 * ((j + 1) \div 2) - 1
    BY <1>1, <1>2
  <2> QED
    BY <2>1
<1>3. CASE j % 2 # 1
  <2>1. j \div 2 \in 1 .. n /\ j = 2 * (j \div 2)
    BY <1>1, <1>3
  <2> QED
    BY <2>1
<1> QED
  BY <1>2, <1>3

\* What an entry's parts are.
LEMMA EntryType ==
  ASSUME NEW e \in GroupEntries
  PROVE  /\ Len(e.points) \in Nat /\ e.extra \in {0, 1} /\ e.unit \in 0 .. Base - 1
         /\ \A i \in 1 .. Len(e.points) : e.points[i].x \in Coords /\ e.points[i].z \in Coords
         /\ \A j \in 1 .. 2 * Len(e.points) : Flat(e)[j] \in Coords
         /\ \A i \in 1 .. Len(e.points) :
              Flat(e)[2 * i - 1] = e.points[i].x /\ Flat(e)[2 * i] = e.points[i].z
<1>1. /\ Len(e.points) \in Nat /\ e.extra \in {0, 1} /\ e.unit \in 0 .. Base - 1
      /\ e.points \in Seq([x : Coords, z : Coords])
  BY DEF GroupEntries
<1>2. \A i \in 1 .. Len(e.points) : e.points[i] \in [x : Coords, z : Coords]
  <2> DEFINE T == [x : Coords, z : Coords]
             s == e.points
  <2>1. s \in Seq(T)
    BY <1>1
  <2> HIDE DEF T, s
  <2>2. \A i \in 1 .. Len(s) : s[i] \in T
    BY ONLY <2>1
  <2> QED
    BY <2>2 DEF s, T
<1>3. \A i \in 1 .. Len(e.points) : e.points[i].x \in Coords /\ e.points[i].z \in Coords
  BY <1>2
<1>4. ASSUME NEW i \in 1 .. Len(e.points)
      PROVE  Flat(e)[2 * i - 1] = e.points[i].x /\ Flat(e)[2 * i] = e.points[i].z
  <2>1. /\ 2 * i - 1 \in 1 .. 2 * Len(e.points) /\ (2 * i - 1) % 2 = 1 /\ ((2 * i - 1) + 1) \div 2 = i
        /\ 2 * i \in 1 .. 2 * Len(e.points) /\ (2 * i) % 2 = 0 /\ (2 * i) \div 2 = i
    BY <1>1, <1>4
  <2> QED
    BY <2>1 DEF Flat
<1>5. ASSUME NEW j \in 1 .. 2 * Len(e.points) PROVE Flat(e)[j] \in Coords
  <2>1. PICK i \in 1 .. Len(e.points) : j = 2 * i - 1 \/ j = 2 * i
    BY <1>1, <1>5, Halves
  <2> QED
    BY <1>3, <1>4, <2>1
<1> QED
  BY <1>1, <1>3, <1>4, <1>5

\* The writer's flattened coordinates are Flat.
LEMMA FlatIs ==
  ASSUME NEW e \in GroupEntries
  PROVE  FlattenSeq([i \in 1 .. Len(e.points) |-> <<e.points[i].x, e.points[i].z>>]) = Flat(e)
<1> DEFINE n == Len(e.points)
           s == [i \in 1 .. n |-> <<e.points[i].x, e.points[i].z>>]
<1>1. /\ n \in Nat /\ \A i \in 1 .. n : e.points[i].x \in Coords /\ e.points[i].z \in Coords
      /\ \A i \in 1 .. n : Flat(e)[2 * i - 1] = e.points[i].x /\ Flat(e)[2 * i] = e.points[i].z
  BY EntryType
<1>2. s \in Seq(Seq(Coords)) /\ Len(s) = n
  <2>1. \A i \in 1 .. n : <<e.points[i].x, e.points[i].z>> \in Seq(Coords)
    BY <1>1
  <2> HIDE DEF n
  <2> QED
    BY <1>1, <2>1
<1>3. \A i \in 1 .. n : Len(s[i]) = 2 /\ s[i][1] = e.points[i].x /\ s[i][2] = e.points[i].z
  OBVIOUS
<1> HIDE DEF s
<1>4. PICK f \in [0 .. n -> Seq(Coords)] : Joins(f, s) /\ FlattenSeq(s) = f[n]
  BY <1>2, FlattenJoins
<1>5. /\ \A i \in 1 .. n : Len(f[i]) = Len(f[i - 1]) + 2
      /\ \A j \in 1 .. n : \A k \in 1 .. 2 : f[n][Len(f[j - 1]) + k] = s[j][k]
  <2>1. \A i \in 1 .. Len(s) : Len(f[i]) = Len(f[i - 1]) + Len(s[i])
    BY <1>2, <1>4, JoinsPlaces
  <2>2. \A i \in 0 .. Len(s) : Placed(f, s, i)
    BY <1>2, <1>4, JoinsPlaces
  <2>3. n \in 0 .. Len(s)
    BY <1>1, <1>2
  <2> QED
    BY <1>2, <1>3, <2>1, <2>2, <2>3 DEF Placed
<1> DEFINE S == {i \in Nat : i <= n => Len(f[i]) = 2 * i}
<1>6. 0 \in S
  BY <1>4 DEF Joins
<1>7. ASSUME NEW i \in S PROVE i + 1 \in S
  <2> SUFFICES ASSUME i + 1 <= n PROVE Len(f[i + 1]) = 2 * (i + 1)
    OBVIOUS
  <2>1. i \in Nat /\ i + 1 \in 1 .. n /\ (i + 1) - 1 = i /\ Len(f[i]) = 2 * i
    BY <1>1
  <2>2. Len(f[i + 1]) = Len(f[i]) + 2
    BY <1>5, <2>1
  <2> QED
    BY <2>1, <2>2
<1>8. S = Nat
  <2> HIDE DEF S
  <2>1. S \in SUBSET Nat
    BY DEF S
  <2> QED
    BY <1>6, <1>7, <2>1, UpFromZero
<1>9. \A i \in 0 .. n : Len(f[i]) = 2 * i
  BY <1>1, <1>8
<1>10. f[n] \in Seq(Coords) /\ Len(f[n]) = 2 * n
  BY <1>1, <1>4, <1>9
<1>n. n \in Nat
  BY <1>1
<1> HIDE DEF n, S
<1>11. ASSUME NEW j \in 1 .. 2 * n PROVE f[n][j] = Flat(e)[j]
  <2>1. PICK i \in 1 .. n : j = 2 * i - 1 \/ j = 2 * i
    BY <1>n, <1>11, Halves
  <2>2. i - 1 \in 0 .. n /\ Len(f[i - 1]) = 2 * (i - 1)
    <3>1. i - 1 \in 0 .. n
      BY ONLY <1>n, <2>1
    <3> QED
      BY ONLY <1>9, <3>1
  <2>3. f[n][2 * (i - 1) + 1] = s[i][1] /\ f[n][2 * (i - 1) + 2] = s[i][2]
    <3>1. f[n][Len(f[i - 1]) + 1] = s[i][1] /\ f[n][Len(f[i - 1]) + 2] = s[i][2]
      BY ONLY <1>5, <2>1, 1 \in 1 .. 2, 2 \in 1 .. 2
    <3> QED
      BY ONLY <2>2, <3>1
  <2>4. 2 * (i - 1) + 1 = 2 * i - 1 /\ 2 * (i - 1) + 2 = 2 * i
    BY <2>1
  <2> QED
    BY <1>1, <1>3, <2>1, <2>3, <2>4
<1>12. f[n] = Flat(e)
  <2>1. DOMAIN f[n] = 1 .. 2 * n /\ f[n] = [j \in 1 .. 2 * n |-> f[n][j]]
    <3> DEFINE g == f[n]
    <3>1. g \in Seq(Coords) /\ Len(g) = 2 * n
      BY <1>10
    <3> HIDE DEF g
    <3>2. DOMAIN g = 1 .. 2 * n /\ g = [j \in 1 .. 2 * n |-> g[j]]
      BY ONLY <3>1
    <3> QED
      BY ONLY <3>2 DEF g
  <2>2. DOMAIN Flat(e) = 1 .. 2 * n /\ Flat(e) = [j \in 1 .. 2 * n |-> Flat(e)[j]]
    BY DEF Flat, n
  <2> QED
    BY <1>11, <2>1, <2>2, Zenon
<1> QED
  BY <1>4, <1>12 DEF s, n

\* The bitmap's bits of one byte, and a coordinate's width.
BitmapSet(e, j) == {i \in 0 .. 2 * Len(e.points) - 3 : i \div Bits = j /\ Flat(e)[i + 3].delta}
Wide(c) == IF c.delta THEN 1 ELSE 2
FrontOf(e) == 3 + e.extra + BitmapBytes(Len(e.points))

\* Where an entry's bytes are: its coordinates begin at C[1], C[2], ... and end at
\* the last of C.
LaidOut(e, b, C) ==
  LET n == Len(e.points)
  IN  /\ b \in Seq(Nat) /\ C \in [1 .. 2 * n + 1 -> Nat]
      /\ C[1] = FrontOf(e) /\ Len(b) = C[2 * n + 1]
      /\ \A j \in 1 .. 2 * n : C[j + 1] = C[j] + Wide(Flat(e)[j])
      /\ b[1] = 2 * n + e.extra /\ b[3] = e.unit
      /\ \A i \in 0 .. 2 * n - 3 :
           LET byte == 3 + e.extra + (i \div Bits)
           IN  byte < FrontOf(e) /\ ((b[byte + 1] \div 2 ^ (i % Bits)) % 2 = 1 <=> Flat(e)[i + 3].delta)
      /\ \A j \in 1 .. 2 * n :
           IF Flat(e)[j].delta THEN b[C[j] + 1] = Flat(e)[j].by % Base
           ELSE b[C[j] + 1] = Flat(e)[j].at % Base /\ b[C[j] + 2] = Flat(e)[j].at \div Base

\* The bitmap's size as the game and as the readers reckon it.
LEMMA BitmapSize ==
  ASSUME NEW n \in Nat
  PROVE  /\ (2 * n + Bits - 3) \div Bits = BitmapBytes(n) /\ BitmapBytes(n) \in Nat
         /\ \A i \in 0 .. 2 * n - 3 : i \div Bits \in 0 .. BitmapBytes(n) - 1 /\ i % Bits \in 0 .. Bits - 1
<1>1. CASE Bits = 4
  <2>1. Bits \div 2 = 2
    BY <1>1
  <2>2. BitmapBytes(n) = IF n > 1 THEN (n - 2) \div 2 + 1 ELSE 0
    BY <2>1, Zenon DEF BitmapBytes
  <2>3. (2 * n + 4 - 3) \div 4 = BitmapBytes(n) /\ BitmapBytes(n) \in Nat
    BY <2>2
  <2>4. \A i \in 0 .. 2 * n - 3 : i \div 4 \in 0 .. BitmapBytes(n) - 1 /\ i % 4 \in 0 .. 3
    BY <2>2
  <2> QED
    BY <1>1, <2>3, <2>4
<1>2. CASE Bits = 8
  <2>1. Bits \div 2 = 4
    BY <1>2
  <2>2. BitmapBytes(n) = IF n > 1 THEN (n - 2) \div 4 + 1 ELSE 0
    BY <2>1, Zenon DEF BitmapBytes
  <2>3. (2 * n + 8 - 3) \div 8 = BitmapBytes(n) /\ BitmapBytes(n) \in Nat
    BY <2>2
  <2>4. \A i \in 0 .. 2 * n - 3 : i \div 8 \in 0 .. BitmapBytes(n) - 1 /\ i % 8 \in 0 .. 7
    BY <2>2
  <2> QED
    BY <1>2, <2>3, <2>4
<1> QED
  BY <1>1, <1>2, BaseIs

\* A coordinate's bytes.
LEMMA CoordinateBytes ==
  ASSUME NEW c \in Coords
  PROVE  /\ Coordinate(c) \in Seq(Nat) /\ Len(Coordinate(c)) = Wide(c) /\ Wide(c) \in {1, 2}
         /\ IF c.delta THEN Coordinate(c)[1] = c.by % Base
            ELSE Coordinate(c)[1] = c.at % Base /\ Coordinate(c)[2] = c.at \div Base
<1>1. c.by \in Int /\ c.at \in 0 .. Word - 1 /\ c.delta \in BOOLEAN
  BY DEF Coords
<1>2. c.by % Base \in Nat /\ c.at % Base \in Nat /\ c.at \div Base \in Nat
  <2>1. CASE Base = 16
    BY <1>1, <2>1, BaseIs
  <2>2. CASE Base = 256
    BY <1>1, <2>2, BaseIs
  <2> QED
    BY <2>1, <2>2, BaseIs
<1>3. CASE c.delta
  <2>1. Coordinate(c) = <<c.by % Base>> /\ Wide(c) = 1
    BY <1>3 DEF Coordinate, Wide
  <2> QED
    BY <1>2, <1>3, <2>1
<1>4. CASE ~ c.delta
  <2>1. Coordinate(c) = <<c.at % Base, c.at \div Base>> /\ Wide(c) = 2
    BY <1>4 DEF Coordinate, Wide
  <2> QED
    BY <1>2, <1>4, <2>1
<1> QED
  BY <1>3, <1>4

\* The four parts of an entry.
LEMMA BytesAreParts ==
  ASSUME NEW e \in GroupEntries
  PROVE  BytesOf(e) =
           <<(2 * Len(e.points)) + e.extra, 2, e.unit>> \o [i \in 1 .. e.extra |-> Base - 1]
             \o [j \in 1 .. (2 * Len(e.points) + Bits - 3) \div Bits |-> Num(BitmapSet(e, j - 1))]
             \o FlattenSeq([i \in 1 .. 2 * Len(e.points) |-> Coordinate(Flat(e)[i])])
<1> DEFINE n == Len(e.points)
<1>1. \A j \in 1 .. (2 * n + Bits - 3) \div Bits :
        MapThenSumSet(LAMBDA i : 2 ^ (i % Bits), BitmapSet(e, j - 1)) = Num(BitmapSet(e, j - 1))
  <2> TAKE j \in 1 .. (2 * n + Bits - 3) \div Bits
  <2>1. n \in Nat /\ 0 \in Int /\ 2 * n - 3 \in Int
    BY EntryType
  <2>2. IsFiniteSet(0 .. 2 * n - 3)
    BY <2>1, FS_Interval
  <2>3. IsFiniteSet(BitmapSet(e, j - 1))
    BY <2>2, FS_Subset DEF BitmapSet
  <2>4. j - 1 \in Nat
    BY <2>1, BitmapSize
  <2>5. BitmapSet(e, j - 1) \in SUBSET {i \in Nat : i \div Bits = j - 1}
    BY DEF BitmapSet
  <2> QED
    BY <2>3, <2>4, <2>5, SumIsNum
<1>2. [j \in 1 .. (2 * n + Bits - 3) \div Bits |-> MapThenSumSet(LAMBDA i : 2 ^ (i % Bits), BitmapSet(e, j - 1))]
      = [j \in 1 .. (2 * n + Bits - 3) \div Bits |-> Num(BitmapSet(e, j - 1))]
  BY <1>1, Zenon
<1>3. FlattenSeq([i \in 1 .. n |-> <<e.points[i].x, e.points[i].z>>]) = Flat(e)
  BY FlatIs
<1> QED
  BY <1>2, <1>3, Zenon DEF BytesOf, BitmapSet

\* A sequence of numbers made by a rule.
LEMMA RuleSeq ==
  ASSUME NEW m \in Nat, NEW w, \A j \in 1 .. m : w[j] \in Nat, DOMAIN w = 1 .. m, w = [j \in 1 .. m |-> w[j]]
  PROVE  w \in Seq(Nat) /\ Len(w) = m
  OBVIOUS

\* The writer's bytes of an entry are laid out as LaidOut says.
LEMMA EntryIsLaid ==
  ASSUME NEW e \in GroupEntries
  PROVE  \E C : LaidOut(e, BytesOf(e), C)
<1> DEFINE n == Len(e.points)
           H == <<(2 * n) + e.extra, 2, e.unit>>
           X == [i \in 1 .. e.extra |-> Base - 1]
           m == (2 * n + Bits - 3) \div Bits
           B == [j \in 1 .. m |-> Num(BitmapSet(e, j - 1))]
           D == [i \in 1 .. 2 * n |-> Coordinate(Flat(e)[i])]
           K == FlattenSeq(D)
           b == BytesOf(e)
<1>1. b = ((H \o X) \o B) \o K
  BY BytesAreParts
<1>2. /\ n \in Nat /\ e.extra \in {0, 1} /\ e.unit \in Nat
      /\ \A j \in 1 .. 2 * n : Flat(e)[j] \in Coords
  <2>1. e.unit \in 0 .. Base - 1 /\ Base \in Nat
    BY EntryType, BaseIs
  <2> QED
    BY <2>1, EntryType
<1>3. m = BitmapBytes(n) /\ m \in Nat
  BY <1>2, BitmapSize
<1>4. H \in Seq(Nat) /\ Len(H) = 3 /\ H[1] = 2 * n + e.extra /\ H[3] = e.unit
  <2>1. 2 * n + e.extra \in Nat
    BY <1>2
  <2> HIDE DEF n
  <2> QED
    BY <1>2, <2>1
<1>5. X \in Seq(Nat) /\ Len(X) = e.extra
  <2>1. Base - 1 \in Nat
    BY BaseIs
  <2>2. e.extra \in Nat
    BY <1>2
  <2> QED
    BY <2>1, <2>2, RuleSeq
<1>6. B \in Seq(Nat) /\ Len(B) = m
  <2> HIDE DEF m
  <2> QED
    BY <1>3, NumIsNat, RuleSeq
<1>7. D \in Seq(Seq(Nat)) /\ Len(D) = 2 * n /\ \A j \in 1 .. 2 * n : D[j] = Coordinate(Flat(e)[j])
  <2>1. \A j \in 1 .. 2 * n : Coordinate(Flat(e)[j]) \in Seq(Nat)
    BY <1>2, CoordinateBytes
  <2>2. 2 * n \in Nat
    BY <1>2
  <2> HIDE DEF n
  <2> QED
    BY <2>1, <2>2
<1> HIDE DEF H, X, m, B, D, K, b, n
<1>8. PICK f \in [0 .. 2 * n -> Seq(Nat)] : Joins(f, D) /\ K = f[2 * n]
  BY <1>7, FlattenJoins DEF K
<1>9. /\ \A j \in 1 .. 2 * n : Len(f[j]) = Len(f[j - 1]) + Len(D[j])
      /\ \A j \in 1 .. 2 * n : /\ Len(f[j]) <= Len(f[2 * n])
                               /\ \A k \in 1 .. Len(D[j]) : f[2 * n][Len(f[j - 1]) + k] = D[j][k]
  <2>1. 2 * n \in 0 .. Len(D)
    BY <1>2, <1>7
  <2>2. f \in [0 .. Len(D) -> Seq(Nat)]
    BY <1>7, <1>8
  <2>3. \A i \in 1 .. Len(D) : Len(f[i]) = Len(f[i - 1]) + Len(D[i])
    BY ONLY <1>7, <1>8, <2>2, JoinsPlaces
  <2>4. \A i \in 0 .. Len(D) : Placed(f, D, i)
    BY ONLY <1>7, <1>8, <2>2, JoinsPlaces
  <2> QED
    BY <1>7, <2>1, <2>3, <2>4 DEF Placed
<1>10. \A j \in 0 .. 2 * n : Len(f[j]) \in Nat /\ f[j] \in Seq(Nat)
  BY <1>8
<1>k. K \in Seq(Nat) /\ Len(K) = Len(f[2 * n])
  <2>1. 2 * n \in 0 .. 2 * n
    BY <1>2
  <2> QED
    BY <1>8, <2>1
<1> DEFINE C == [j \in 1 .. 2 * n + 1 |-> FrontOf(e) + Len(f[j - 1])]
<1>11. FrontOf(e) = (3 + e.extra) + m /\ FrontOf(e) \in Nat /\ 3 + e.extra \in Nat
  BY <1>2, <1>3 DEF FrontOf, n
<1>g. /\ H \o X \in Seq(Nat) /\ (H \o X) \o B \in Seq(Nat)
      /\ Glued(Nat, H, X, H \o X) /\ Glued(Nat, H \o X, B, (H \o X) \o B)
      /\ Glued(Nat, (H \o X) \o B, K, b)
  <2>1. Glued(Nat, H, X, H \o X)
    BY <1>4, <1>5, TwoAreGlued
  <2>2. H \o X \in Seq(Nat)
    BY <2>1 DEF Glued
  <2>3. Glued(Nat, H \o X, B, (H \o X) \o B)
    BY <1>6, <2>2, TwoAreGlued
  <2>4. (H \o X) \o B \in Seq(Nat)
    BY <2>3 DEF Glued
  <2>5. Glued(Nat, (H \o X) \o B, K, b)
    BY <1>1, <1>k, <2>4, TwoAreGlued
  <2> QED
    BY <2>1, <2>2, <2>3, <2>4, <2>5
<1> DEFINE HX == H \o X
           HXB == (H \o X) \o B
<1>g2. Glued(Nat, H, X, HX) /\ Glued(Nat, HX, B, HXB) /\ Glued(Nat, HXB, K, b)
  BY <1>g
<1> HIDE DEF HX, HXB
<1>12. Len(HX) = 3 + e.extra /\ \A k \in 1 .. 3 : HX[k] = H[k]
  BY ONLY <1>4, <1>5, <1>g2 DEF Glued
<1>13. /\ Len(HXB) = FrontOf(e)
       /\ \A k \in 1 .. 3 + e.extra : HXB[k] = HX[k]
       /\ \A k \in 1 .. m : HXB[(3 + e.extra) + k] = B[k]
  BY ONLY <1>6, <1>11, <1>12, <1>g2 DEF Glued
<1>14. /\ b \in Seq(Nat) /\ Len(b) = FrontOf(e) + Len(K)
       /\ \A k \in 1 .. FrontOf(e) : b[k] = HXB[k]
       /\ \A k \in 1 .. Len(K) : b[FrontOf(e) + k] = K[k]
  BY ONLY <1>13, <1>g2 DEF Glued
<1>15. b[1] = 2 * n + e.extra /\ b[3] = e.unit
  <2>1. \A k \in {1, 3} : b[k] = H[k]
    <3>1. \A k \in {1, 3} : k \in 1 .. 3 /\ k \in 1 .. 3 + e.extra /\ k \in 1 .. FrontOf(e)
      BY <1>2, <1>3, <1>11
    <3> QED
      BY <1>12, <1>13, <1>14, <3>1
  <2> QED
    BY <1>4, <2>1
<1>16. C \in [1 .. 2 * n + 1 -> Nat] /\ C[1] = FrontOf(e) /\ Len(b) = C[2 * n + 1]
  <2>1. \A j \in 1 .. 2 * n + 1 : FrontOf(e) + Len(f[j - 1]) \in Nat
    <3> TAKE j \in 1 .. 2 * n + 1
    <3>1. j - 1 \in 0 .. 2 * n
      BY <1>2
    <3>2. Len(f[j - 1]) \in Nat
      BY <1>10, <3>1
    <3> QED
      BY <1>11, <3>2
  <2>2. Len(f[0]) = 0
    BY <1>8 DEF Joins
  <2>3. 1 \in 1 .. 2 * n + 1 /\ 2 * n + 1 \in 1 .. 2 * n + 1 /\ (2 * n + 1) - 1 = 2 * n
    BY <1>2
  <2> QED
    BY <1>11, <1>14, <1>k, <2>1, <2>2, <2>3
<1>17. \A j \in 1 .. 2 * n : /\ C[j] = FrontOf(e) + Len(f[j - 1]) /\ C[j + 1] = FrontOf(e) + Len(f[j])
                             /\ Len(f[j - 1]) \in Nat /\ Len(f[j]) \in Nat
  <2> TAKE j \in 1 .. 2 * n
  <2>1. j \in 1 .. 2 * n + 1 /\ j + 1 \in 1 .. 2 * n + 1 /\ (j + 1) - 1 = j /\ j - 1 \in 0 .. 2 * n /\ j \in 0 .. 2 * n
    BY <1>2
  <2> QED
    BY <1>10, <2>1
<1> HIDE DEF C
<1>18. \A j \in 1 .. 2 * n : C[j + 1] = C[j] + Wide(Flat(e)[j])
  <2> TAKE j \in 1 .. 2 * n
  <2>1. Len(D[j]) = Wide(Flat(e)[j]) /\ Wide(Flat(e)[j]) \in {1, 2}
    BY <1>2, <1>7, CoordinateBytes
  <2>2. j \in 1 .. 2 * n
    OBVIOUS
  <2> QED
    <3>1. Len(f[j]) = Len(f[j - 1]) + Wide(Flat(e)[j])
      BY ONLY <1>9, <2>1, <2>2
    <3>2. C[j] = FrontOf(e) + Len(f[j - 1]) /\ C[j + 1] = FrontOf(e) + Len(f[j]) /\ Len(f[j - 1]) \in Nat
      BY ONLY <1>17, <2>2
    <3> DEFINE p == Len(f[j - 1])
               q == Len(f[j])
               w == Wide(Flat(e)[j])
               v == FrontOf(e)
               c == C[j]
               d == C[j + 1]
    <3>3. p \in Nat /\ v \in Nat /\ w \in {1, 2} /\ q = p + w /\ c = v + p /\ d = v + q
      BY <1>11, <2>1, <3>1, <3>2
    <3> HIDE DEF p, q, w, v, c, d
    <3>4. d = c + w
      BY ONLY <3>3
    <3> QED
      BY ONLY <3>4 DEF c, d, w
<1>19. ASSUME NEW j \in 1 .. 2 * n
       PROVE  IF Flat(e)[j].delta THEN b[C[j] + 1] = Flat(e)[j].by % Base
              ELSE b[C[j] + 1] = Flat(e)[j].at % Base /\ b[C[j] + 2] = Flat(e)[j].at \div Base
  <2> DEFINE c == Flat(e)[j]
  <2>1. /\ c \in Coords /\ D[j] = Coordinate(c)
    BY <1>2, <1>7
  <2>2. /\ Len(D[j]) = Wide(c) /\ Wide(c) \in {1, 2}
        /\ IF c.delta THEN D[j][1] = c.by % Base
           ELSE D[j][1] = c.at % Base /\ D[j][2] = c.at \div Base
    BY <2>1, CoordinateBytes
  <2> HIDE DEF c
  <2>3. ASSUME NEW k \in 1 .. Len(D[j]) PROVE b[C[j] + k] = D[j][k]
    <3>1. Len(f[j - 1]) + k \in 1 .. Len(K) /\ C[j] + k = FrontOf(e) + (Len(f[j - 1]) + k)
      <4> DEFINE p == Len(f[j - 1])
                 q == Len(f[j])
                 r == Len(D[j])
                 t == Len(K)
                 u == C[j]
                 v == FrontOf(e)
      <4>1. p \in Nat /\ q \in Nat /\ q = p + r /\ q <= t /\ u = v + p /\ v \in Nat /\ k \in 1 .. r /\ r \in {1, 2} /\ t \in Nat
        <5>1. p \in Nat /\ q \in Nat /\ u = v + p /\ v \in Nat
          BY <1>11, <1>17
        <5>2. q = p + r /\ q <= t
          BY <1>9, <1>k
        <5>3. k \in 1 .. r /\ r \in {1, 2}
          BY <2>2, <2>3
        <5>4. t \in Nat
          BY <1>k
        <5> QED
          BY <5>1, <5>2, <5>3, <5>4
      <4> HIDE DEF p, q, r, t, u, v
      <4>2. p + k \in 1 .. t /\ u + k = v + (p + k)
        BY ONLY <4>1
      <4> QED
        BY ONLY <4>2 DEF p, q, r, t, u, v
    <3>2. K[Len(f[j - 1]) + k] = D[j][k]
      BY <1>8, <1>9, <2>3
    <3> QED
      BY <1>14, <3>1, <3>2
  <2>4. CASE c.delta
    <3>1. Len(D[j]) = 1
      BY <2>2, <2>4 DEF Wide
    <3>2. b[C[j] + 1] = D[j][1]
      BY <2>3, <3>1
    <3> QED
      BY <2>2, <2>4, <3>2 DEF c
  <2>5. CASE ~ c.delta
    <3>1. Len(D[j]) = 2
      BY <2>2, <2>5 DEF Wide
    <3>2. b[C[j] + 1] = D[j][1] /\ b[C[j] + 2] = D[j][2]
      BY <2>3, <3>1
    <3> QED
      BY <2>2, <2>5, <3>2 DEF c
  <2> QED
    BY <2>4, <2>5
<1>20. ASSUME NEW i \in 0 .. 2 * n - 3
       PROVE  LET byte == 3 + e.extra + (i \div Bits)
              IN  byte < FrontOf(e) /\ ((b[byte + 1] \div 2 ^ (i % Bits)) % 2 = 1 <=> Flat(e)[i + 3].delta)
  <2> DEFINE d == i \div Bits
             r == i % Bits
  <2>1. d \in 0 .. m - 1 /\ r \in 0 .. Bits - 1
    BY <1>2, <1>3, <1>20, BitmapSize
  <2>2. 3 + e.extra + d < FrontOf(e) /\ (3 + e.extra + d) + 1 = (3 + e.extra) + (d + 1) /\ d + 1 \in 1 .. m
    <3> DEFINE x == 3 + e.extra
               y == FrontOf(e)
    <3>1. d \in 0 .. m - 1 /\ y = x + m /\ x \in Nat /\ m \in Nat
      BY <1>3, <1>11, <2>1
    <3> HIDE DEF d, r, x, y
    <3>2. x + d < y /\ (x + d) + 1 = x + (d + 1) /\ d + 1 \in 1 .. m /\ (d + 1) - 1 = d /\ x + (d + 1) \in 1 .. y
      BY ONLY <3>1
    <3> QED
      BY <3>2 DEF x, y
  <2>3. (d + 1) - 1 = d /\ (3 + e.extra) + (d + 1) \in 1 .. FrontOf(e)
    <3> DEFINE x == 3 + e.extra
               y == FrontOf(e)
    <3>1. d \in 0 .. m - 1 /\ y = x + m /\ x \in Nat /\ m \in Nat
      BY <1>3, <1>11, <2>1
    <3> HIDE DEF d, r, x, y
    <3>2. x + d < y /\ (x + d) + 1 = x + (d + 1) /\ d + 1 \in 1 .. m /\ (d + 1) - 1 = d /\ x + (d + 1) \in 1 .. y
      BY ONLY <3>1
    <3> QED
      BY <3>2 DEF x, y
  <2>4. b[(3 + e.extra) + (d + 1)] = Num(BitmapSet(e, d))
    <3>1. b[(3 + e.extra) + (d + 1)] = B[d + 1]
      BY <1>13, <1>14, <2>2, <2>3
    <3> HIDE DEF d
    <3>2. B[d + 1] = Num(BitmapSet(e, d))
      BY <2>2, <2>3 DEF B
    <3> QED
      BY <3>1, <3>2
  <2>5. (Num(BitmapSet(e, d)) \div 2 ^ r) % 2 = 1 <=> \E x \in BitmapSet(e, d) : x % Bits = r
    BY <2>1, BitOfNum
  <2>6. (\E x \in BitmapSet(e, d) : x % Bits = r) <=> Flat(e)[i + 3].delta
    <3>1. ASSUME NEW x \in BitmapSet(e, d), x % Bits = r PROVE Flat(e)[i + 3].delta
      <4>1. x \in Nat /\ x \div Bits = d /\ Flat(e)[x + 3].delta
        BY DEF BitmapSet
      <4>2. x = i
        <5>1. i \in Nat
          BY <1>20
        <5>2. \A y \in Nat : y = Bits * (y \div Bits) + (y % Bits)
          BY BaseIs
        <5> QED
          BY <3>1, <4>1, <5>1, <5>2
      <4> QED
        BY <4>1, <4>2
    <3>2. ASSUME Flat(e)[i + 3].delta PROVE \E x \in BitmapSet(e, d) : x % Bits = r
      <4>1. i \in BitmapSet(e, d)
        BY <1>20, <3>2 DEF BitmapSet, n
      <4> QED
        BY <4>1
    <3> QED
      BY <3>1, <3>2
  <2> QED
    BY <2>2, <2>4, <2>5, <2>6
<1>21. LaidOut(e, b, C)
  BY <1>14, <1>15, <1>16, <1>18, <1>19, <1>20 DEF LaidOut, n
<1> QED
  BY <1>21 DEF b

-----------------------------------------------------------------------------
(* The walk over an entry's points, and what it reads                      *)

\* A byte of a change, as read takes it and as parse does.
Change(how, byte) == IF how = "read" THEN Signed(byte) ELSE byte

\* One step of the readers' walk over the points.
BitAt(buf, bitmap, i) == (Byte(buf, bitmap + i \div Bits) \div 2 ^ (i % Bits)) % 2 = 1
WideOf(delta) == IF delta THEN 1 ELSE 2
NextOf(buf, how, was, at, delta) ==
  IF delta THEN (was + Change(how, Byte(buf, at))) % Word ELSE Byte(buf, at) + Base * Byte(buf, at + 1)
XChanged(buf, bitmap, i) == i > 1 /\ BitAt(buf, bitmap, 2 * i - 4)
ZChanged(buf, bitmap, i) == i > 1 /\ BitAt(buf, bitmap, 2 * i - 3)
Stepped(buf, bitmap, how, p, i) ==
  [at |-> p.at + WideOf(XChanged(buf, bitmap, i)) + WideOf(ZChanged(buf, bitmap, i)),
   points |-> Append(p.points,
     <<NextOf(buf, how, Last(p.points)[1], p.at, XChanged(buf, bitmap, i)),
       NextOf(buf, how, Last(p.points)[2], p.at + WideOf(XChanged(buf, bitmap, i)), ZChanged(buf, bitmap, i))>>)]
Walks(w, buf, n, start, bitmap, how) ==
  w = [i \in 0 .. n |-> IF i = 0 THEN [at |-> start, points |-> << <<0, 0>> >>]
                        ELSE Stepped(buf, bitmap, how, w[i - 1], i)]

\* There is such a walk over any number of points.
LEMMA WalkExists ==
  ASSUME NEW buf, NEW n \in Nat, NEW start, NEW bitmap, NEW how
  PROVE  \E w : Walks(w, buf, n, start, bitmap, how)
<1> DEFINE S == {m \in Nat : \E w : Walks(w, buf, m, start, bitmap, how)}
<1>1. 0 \in S
  <2> DEFINE w == [i \in 0 .. 0 |-> [at |-> start, points |-> << <<0, 0>> >>]]
  <2>1. Walks(w, buf, 0, start, bitmap, how)
    BY DEF Walks
  <2> QED
    BY <2>1
<1>2. ASSUME NEW m \in S PROVE m + 1 \in S
  <2>1. PICK w : Walks(w, buf, m, start, bitmap, how)
    OBVIOUS
  <2>0. m \in Nat
    OBVIOUS
  <2> DEFINE v == [i \in 0 .. m + 1 |-> IF i = m + 1 THEN Stepped(buf, bitmap, how, w[m], m + 1) ELSE w[i]]
  <2>2. ASSUME NEW i \in 0 .. m + 1
        PROVE  v[i] = IF i = 0 THEN [at |-> start, points |-> << <<0, 0>> >>]
                      ELSE Stepped(buf, bitmap, how, v[i - 1], i)
    <3>1. CASE i = m + 1
      <4>1. v[i] = Stepped(buf, bitmap, how, w[m], m + 1)
        BY <3>1
      <4>2. i # 0 /\ i - 1 = m /\ v[m] = w[m]
        BY <2>0, <3>1
      <4> HIDE DEF v
      <4> QED
        BY <3>1, <4>1, <4>2
    <3>2. CASE i # m + 1
      <4>1. v[i] = w[i] /\ i \in 0 .. m
        BY <2>0, <2>2, <3>2
      <4>2. w[i] = IF i = 0 THEN [at |-> start, points |-> << <<0, 0>> >>]
                   ELSE Stepped(buf, bitmap, how, w[i - 1], i)
        BY <2>1, <4>1 DEF Walks
      <4>3. i # 0 => v[i - 1] = w[i - 1]
        BY <2>0, <4>1
      <4> HIDE DEF v
      <4> QED
        BY <4>1, <4>2, <4>3
    <3> QED
      BY <3>1, <3>2
  <2>3. v = [i \in 0 .. m + 1 |-> v[i]]
    OBVIOUS
  <2> HIDE DEF v
  <2>4. Walks(v, buf, m + 1, start, bitmap, how)
    <3>1. [i \in 0 .. m + 1 |-> v[i]]
          = [i \in 0 .. m + 1 |-> IF i = 0 THEN [at |-> start, points |-> << <<0, 0>> >>]
                                  ELSE Stepped(buf, bitmap, how, v[i - 1], i)]
      BY <2>2, Zenon
    <3> QED
      BY <2>3, <3>1, Zenon DEF Walks
  <2> QED
    BY <2>0, <2>4
<1>3. S = Nat
  <2> HIDE DEF S
  <2>1. S \in SUBSET Nat
    BY DEF S
  <2> QED
    BY <1>1, <1>2, <2>1, UpFromZero
<1> QED
  BY <1>3

\* What Points returns is the end of such a walk.
PointsAre(buf, n, start, bitmap, how, r) ==
  \E w : /\ Walks(w, buf, n, start, bitmap, how)
         /\ r = [at |-> w[n].at, points |-> Tail(w[n].points)]

\* The points of either reader come from its walk.
LEMMA PointsWalk ==
  ASSUME NEW buf, NEW n \in Nat, NEW start, NEW bitmap
  PROVE  /\ PointsAre(buf, n, start, bitmap, "read", Points(buf, n, start, bitmap, Signed))
         /\ PointsAre(buf, n, start, bitmap, "parse", Points(buf, n, start, bitmap, LAMBDA byte : byte))
<1>1. PointsAre(buf, n, start, bitmap, "read", Points(buf, n, start, bitmap, Signed))
  <2> DEFINE Bit(i) == (Byte(buf, bitmap + i \div Bits) \div 2 ^ (i % Bits)) % 2 = 1
             Next(was, at, delta) ==
               IF delta THEN (was + Signed(Byte(buf, at))) % Word ELSE Byte(buf, at) + Base * Byte(buf, at + 1)
             Width(delta) == IF delta THEN 1 ELSE 2
             After(p, i) ==
               LET dx == i > 1 /\ Bit(2 * i - 4)
                   dz == i > 1 /\ Bit(2 * i - 3)
                   zAt == p.at + Width(dx)
               IN  [at |-> zAt + Width(dz),
                    points |-> Append(p.points, <<Next(Last(p.points)[1], p.at, dx),
                                                  Next(Last(p.points)[2], zAt, dz)>>)]
             walk == CHOOSE walk : walk = [i \in 0 .. n |->
                       IF i = 0 THEN [at |-> start, points |-> << <<0, 0>> >>] ELSE After(walk[i - 1], i)]
  <2>1. Points(buf, n, start, bitmap, Signed) = [at |-> walk[n].at, points |-> Tail(walk[n].points)]
    BY Zenon DEF Points
  <2>2. ASSUME NEW p, NEW i PROVE After(p, i) = Stepped(buf, bitmap, "read", p, i)
    <3>1. \A byte : Change("read", byte) = Signed(byte)
      BY DEF Change
    <3>2. \A was, at, delta : Next(was, at, delta) = NextOf(buf, "read", was, at, delta)
      BY <3>1, Zenon DEF NextOf
    <3>3. \A delta : Width(delta) = WideOf(delta)
      BY Zenon DEF WideOf
    <3>4. (i > 1 /\ Bit(2 * i - 4)) = XChanged(buf, bitmap, i) /\ (i > 1 /\ Bit(2 * i - 3)) = ZChanged(buf, bitmap, i)
      BY Zenon DEF XChanged, ZChanged, BitAt
    <3> HIDE DEF Bit, Next, Width
    <3> QED
      BY <3>2, <3>3, <3>4, Zenon DEF Stepped
  <2> HIDE DEF After
  <2>3. PICK w : Walks(w, buf, n, start, bitmap, "read")
    BY WalkExists
  <2>4. \A v : [i \in 0 .. n |-> IF i = 0 THEN [at |-> start, points |-> << <<0, 0>> >>] ELSE After(v[i - 1], i)]
              = [i \in 0 .. n |-> IF i = 0 THEN [at |-> start, points |-> << <<0, 0>> >>]
                                 ELSE Stepped(buf, bitmap, "read", v[i - 1], i)]
    BY <2>2, Zenon
  <2>5. w = [i \in 0 .. n |-> IF i = 0 THEN [at |-> start, points |-> << <<0, 0>> >>] ELSE After(w[i - 1], i)]
    BY <2>3, <2>4, Zenon DEF Walks
  <2>6. walk = [i \in 0 .. n |-> IF i = 0 THEN [at |-> start, points |-> << <<0, 0>> >>] ELSE After(walk[i - 1], i)]
    BY <2>5, Zenon
  <2> HIDE DEF walk
  <2>7. Walks(walk, buf, n, start, bitmap, "read")
    BY <2>4, <2>6, Zenon DEF Walks
  <2> QED
    BY <2>1, <2>7, Zenon DEF PointsAre
<1>2. PointsAre(buf, n, start, bitmap, "parse", Points(buf, n, start, bitmap, LAMBDA byte : byte))
  <2> DEFINE Bit(i) == (Byte(buf, bitmap + i \div Bits) \div 2 ^ (i % Bits)) % 2 = 1
             Next(was, at, delta) ==
               IF delta THEN (was + Byte(buf, at)) % Word ELSE Byte(buf, at) + Base * Byte(buf, at + 1)
             Width(delta) == IF delta THEN 1 ELSE 2
             After(p, i) ==
               LET dx == i > 1 /\ Bit(2 * i - 4)
                   dz == i > 1 /\ Bit(2 * i - 3)
                   zAt == p.at + Width(dx)
               IN  [at |-> zAt + Width(dz),
                    points |-> Append(p.points, <<Next(Last(p.points)[1], p.at, dx),
                                                  Next(Last(p.points)[2], zAt, dz)>>)]
             walk == CHOOSE walk : walk = [i \in 0 .. n |->
                       IF i = 0 THEN [at |-> start, points |-> << <<0, 0>> >>] ELSE After(walk[i - 1], i)]
  <2>1. Points(buf, n, start, bitmap, LAMBDA byte : byte) = [at |-> walk[n].at, points |-> Tail(walk[n].points)]
    BY Zenon DEF Points
  <2>2. ASSUME NEW p, NEW i PROVE After(p, i) = Stepped(buf, bitmap, "parse", p, i)
    <3>1. \A byte : Change("parse", byte) = byte
      BY DEF Change
    <3>2. \A was, at, delta : Next(was, at, delta) = NextOf(buf, "parse", was, at, delta)
      BY <3>1, Zenon DEF NextOf
    <3>3. \A delta : Width(delta) = WideOf(delta)
      BY Zenon DEF WideOf
    <3>4. (i > 1 /\ Bit(2 * i - 4)) = XChanged(buf, bitmap, i) /\ (i > 1 /\ Bit(2 * i - 3)) = ZChanged(buf, bitmap, i)
      BY Zenon DEF XChanged, ZChanged, BitAt
    <3> HIDE DEF Bit, Next, Width
    <3> QED
      BY <3>2, <3>3, <3>4, Zenon DEF Stepped
  <2> HIDE DEF After
  <2>3. PICK w : Walks(w, buf, n, start, bitmap, "parse")
    BY WalkExists
  <2>4. \A v : [i \in 0 .. n |-> IF i = 0 THEN [at |-> start, points |-> << <<0, 0>> >>] ELSE After(v[i - 1], i)]
              = [i \in 0 .. n |-> IF i = 0 THEN [at |-> start, points |-> << <<0, 0>> >>]
                                 ELSE Stepped(buf, bitmap, "parse", v[i - 1], i)]
    BY <2>2, Zenon
  <2>5. w = [i \in 0 .. n |-> IF i = 0 THEN [at |-> start, points |-> << <<0, 0>> >>] ELSE After(w[i - 1], i)]
    BY <2>3, <2>4, Zenon DEF Walks
  <2>6. walk = [i \in 0 .. n |-> IF i = 0 THEN [at |-> start, points |-> << <<0, 0>> >>] ELSE After(walk[i - 1], i)]
    BY <2>5, Zenon
  <2> HIDE DEF walk
  <2>7. Walks(walk, buf, n, start, bitmap, "parse")
    BY <2>4, <2>6, Zenon DEF Walks
  <2> QED
    BY <2>1, <2>7, Zenon DEF PointsAre
<1> QED
  BY <1>1, <1>2

\* The entry's bytes are in the buffer from a place on, as far as it goes; and an
\* entry's first point is whole.
Holds(buf, off, b) == \A k \in 1 .. Len(b) : off + k <= Len(buf) => buf[off + k] = b[k]
Firm(e) == e.points # <<>> => ~ e.points[1].x.delta /\ ~ e.points[1].z.delta

Reading(e, b, C, buf, off) ==
  /\ e \in GroupEntries /\ Firm(e) /\ LaidOut(e, b, C)
  /\ buf \in Seq(Nat) /\ off \in Nat /\ Holds(buf, off, b)
ReadingBy(e, b, C, buf, off, how, w) ==
  /\ Reading(e, b, C, buf, off)
  /\ Walks(w, buf, Len(e.points), off + FrontOf(e), off + 3 + e.extra, how)

\* What Byte gives within the buffer and past its end.
LEMMA ByteIn ==
  ASSUME NEW buf \in Seq(Nat), NEW at \in Nat
  PROVE  /\ Byte(buf, at) \in Nat
         /\ at < Len(buf) => Byte(buf, at) = buf[at + 1]
         /\ at >= Len(buf) => Byte(buf, at) = 0
<1>1. at < Len(buf) => at + 1 \in 1 .. Len(buf)
  OBVIOUS
<1> QED
  BY <1>1 DEF Byte

\* The coordinates' places go up from the bitmap's end to the entry's.
LEMMA OffsetsGrow ==
  ASSUME NEW e \in GroupEntries, NEW b, NEW C, LaidOut(e, b, C)
  PROVE  /\ FrontOf(e) \in Nat /\ FrontOf(e) >= 3 + e.extra /\ FrontOf(e) <= Len(b) /\ Len(b) \in Nat
         /\ \A j \in 1 .. 2 * Len(e.points) + 1 : FrontOf(e) <= C[j] /\ C[j] <= Len(b) /\ C[j] \in Nat
         /\ \A j \in 1 .. 2 * Len(e.points) :
              C[j + 1] = C[j] + Wide(Flat(e)[j]) /\ Wide(Flat(e)[j]) \in {1, 2}
<1> DEFINE n == Len(e.points)
           l == Len(b)
           fr == FrontOf(e)
<1>1. n \in Nat /\ e.extra \in {0, 1} /\ \A j \in 1 .. 2 * n : Wide(Flat(e)[j]) \in {1, 2}
  BY EntryType DEF Wide
<1>2. /\ C \in [1 .. 2 * n + 1 -> Nat] /\ C[1] = fr /\ l = C[2 * n + 1]
      /\ \A j \in 1 .. 2 * n : C[j + 1] = C[j] + Wide(Flat(e)[j])
  BY DEF LaidOut
<1>3. fr \in Nat /\ fr >= 3 + e.extra
  <2>1. BitmapBytes(n) \in Nat
    BY <1>1, BitmapSize
  <2> QED
    BY <1>1, <2>1 DEF FrontOf
<1> HIDE DEF n, l, fr
<1>4. \A j \in 1 .. 2 * n : C[j] \in Nat /\ C[j + 1] \in Nat /\ C[j] <= C[j + 1]
  BY <1>1, <1>2
<1> DEFINE S == {k \in Nat : k <= 2 * n => fr <= C[k + 1] /\ C[(2 * n + 1) - k] <= l}
<1>5. 0 \in S
  BY <1>1, <1>2, <1>3
<1>6. ASSUME NEW k \in S PROVE k + 1 \in S
  <2> SUFFICES ASSUME k + 1 <= 2 * n PROVE fr <= C[(k + 1) + 1] /\ C[(2 * n + 1) - (k + 1)] <= l
    OBVIOUS
  <2>1. k \in Nat /\ fr <= C[k + 1] /\ C[(2 * n + 1) - k] <= l
    BY <1>1
  <2>2. k + 1 \in 1 .. 2 * n /\ (2 * n + 1) - (k + 1) \in 1 .. 2 * n /\ ((2 * n + 1) - (k + 1)) + 1 = (2 * n + 1) - k
    BY <1>1, <2>1
  <2>3. C[k + 1] <= C[(k + 1) + 1] /\ C[k + 1] \in Nat /\ C[(k + 1) + 1] \in Nat
    BY <1>4, <2>2
  <2>4. /\ C[(2 * n + 1) - (k + 1)] <= C[(2 * n + 1) - k]
        /\ C[(2 * n + 1) - (k + 1)] \in Nat /\ C[(2 * n + 1) - k] \in Nat
    BY <1>4, <2>2
  <2>5. l \in Nat
    BY <1>1, <1>2
  <2> QED
    BY ONLY <1>3, <2>1, <2>3, <2>4, <2>5
<1>7. S = Nat
  <2> HIDE DEF S
  <2>1. S \in SUBSET Nat
    BY DEF S
  <2> QED
    BY <1>5, <1>6, <2>1, UpFromZero
<1>8. ASSUME NEW j \in 1 .. 2 * n + 1 PROVE fr <= C[j] /\ C[j] <= l /\ C[j] \in Nat
  <2>1. j - 1 \in Nat /\ j - 1 <= 2 * n /\ (j - 1) + 1 = j
    BY <1>1, <1>8
  <2>2. (2 * n + 1) - j \in Nat /\ (2 * n + 1) - j <= 2 * n /\ (2 * n + 1) - ((2 * n + 1) - j) = j
    BY <1>1, <1>8
  <2>3. fr <= C[(j - 1) + 1] /\ C[(2 * n + 1) - ((2 * n + 1) - j)] <= l
    BY <1>7, <2>1, <2>2
  <2> QED
    BY <1>2, <2>1, <2>2, <2>3
<1>9. fr <= l /\ l \in Nat
  <2>1. 2 * n + 1 \in 1 .. 2 * n + 1
    BY <1>1
  <2> QED
    BY <1>2, <1>8, <2>1
<1> QED
  BY <1>1, <1>2, <1>3, <1>8, <1>9 DEF n, l, fr

\* A bit that is read is the entry's; one that is cut off is not set.
LEMMA BitsRead ==
  ASSUME NEW e \in GroupEntries, NEW b, NEW C, LaidOut(e, b, C),
         NEW buf \in Seq(Nat), NEW off \in Nat, Holds(buf, off, b),
         NEW i \in 0 .. 2 * Len(e.points) - 3
  PROVE  /\ BitAt(buf, off + 3 + e.extra, i) => Flat(e)[i + 3].delta
         /\ off + FrontOf(e) <= Len(buf) => (BitAt(buf, off + 3 + e.extra, i) <=> Flat(e)[i + 3].delta)
<1> DEFINE d == 3 + e.extra + (i \div Bits)
           at == off + 3 + e.extra + (i \div Bits)
           r == i % Bits
<1>1. /\ d < FrontOf(e) /\ ((b[d + 1] \div 2 ^ r) % 2 = 1 <=> Flat(e)[i + 3].delta)
  BY DEF LaidOut
<1>2. /\ e.extra \in {0, 1} /\ i \div Bits \in Nat /\ r \in 0 .. 7
  <2>1. /\ e.extra \in {0, 1} /\ i \div Bits \in 0 .. BitmapBytes(Len(e.points)) - 1 /\ r \in 0 .. Bits - 1
        /\ Len(e.points) \in Nat
    BY EntryType, BitmapSize
  <2>2. r \in 0 .. 7
    <3> HIDE DEF r
    <3>1. r \in 0 .. Bits - 1
      BY <2>1
    <3> QED
      BY ONLY <3>1, BaseIs
  <2> QED
    BY <2>1, <2>2
<1>3. FrontOf(e) \in Nat /\ FrontOf(e) <= Len(b) /\ Len(b) \in Nat
  BY OffsetsGrow
<1>4. at \in Nat /\ at + 1 = off + (d + 1) /\ d + 1 \in 1 .. Len(b) /\ at = off + d /\ d \in Nat
  <2> DEFINE q == i \div Bits
             l == Len(b)
             x == e.extra
             fr == FrontOf(e)
  <2>1. q \in Nat /\ l \in Nat /\ x \in Nat /\ fr \in Nat /\ fr <= l /\ 3 + x + q < fr
    BY <1>1, <1>2, <1>3
  <2> HIDE DEF q, l, x, fr
  <2>2. /\ off + 3 + x + q \in Nat /\ (off + 3 + x + q) + 1 = off + ((3 + x + q) + 1) /\ (3 + x + q) + 1 \in 1 .. l
        /\ off + 3 + x + q = off + (3 + x + q) /\ 3 + x + q \in Nat
    BY <2>1
  <2> QED
    BY ONLY <2>2 DEF q, l, x, fr
<1> HIDE DEF d, at, r
<1>5. CASE at < Len(buf)
  <2>1. Byte(buf, at) = buf[off + (d + 1)]
    BY <1>4, <1>5, ByteIn
  <2>2. buf[off + (d + 1)] = b[d + 1]
    <3>1. off + (d + 1) <= Len(buf)
      <4>1. Len(buf) \in Nat
        OBVIOUS
      <4> QED
        BY ONLY <1>4, <1>5, <4>1
    <3> QED
      BY ONLY <1>4, <3>1, Holds(buf, off, b) DEF Holds
  <2>3. BitAt(buf, off + 3 + e.extra, i) <=> (b[d + 1] \div 2 ^ r) % 2 = 1
    BY <2>1, <2>2 DEF BitAt, at, r
  <2> QED
    BY <1>1, <2>3
<1>6. CASE ~ (at < Len(buf))
  <2>1. Byte(buf, at) = 0
    BY <1>4, <1>6, ByteIn
  <2>2. (0 \div 2 ^ r) % 2 = 0
    <3>1. 2 ^ r \in {1, 2, 4, 8, 16, 32, 64, 128}
      <4>1. r = 0 \/ r = 1 \/ r = 2 \/ r = 3 \/ r = 4 \/ r = 5 \/ r = 6 \/ r = 7
        BY <1>2
      <4>2. CASE r = 0
        BY <4>2, Powers
      <4>3. CASE r = 1
        BY <4>3, Powers
      <4>4. CASE r = 2
        BY <4>4, Powers
      <4>5. CASE r = 3
        BY <4>5, Powers
      <4>6. CASE r = 4
        BY <4>6, Powers
      <4>7. CASE r = 5
        BY <4>7, Powers
      <4>8. CASE r = 6
        BY <4>8, Powers
      <4>9. CASE r = 7
        BY <4>9, Powers
      <4> QED
        BY <4>1, <4>2, <4>3, <4>4, <4>5, <4>6, <4>7, <4>8, <4>9
    <3> QED
      BY <3>1
  <2>3. ~ BitAt(buf, off + 3 + e.extra, i)
    BY <2>1, <2>2 DEF BitAt, at, r
  <2>4. ~ (off + FrontOf(e) <= Len(buf))
    BY <1>1, <1>3, <1>4, <1>6
  <2> QED
    BY <2>3, <2>4
<1> QED
  BY <1>5, <1>6
\* A coordinate that is read as a change is one.
LEMMA ChangesRead ==
  ASSUME NEW e \in GroupEntries, Firm(e), NEW b, NEW C, LaidOut(e, b, C),
         NEW buf \in Seq(Nat), NEW off \in Nat, Holds(buf, off, b),
         NEW i \in 1 .. Len(e.points)
  PROVE  LET bitmap == off + 3 + e.extra
             x == Flat(e)[2 * i - 1]
             z == Flat(e)[2 * i]
         IN  /\ XChanged(buf, bitmap, i) \in BOOLEAN /\ ZChanged(buf, bitmap, i) \in BOOLEAN
             /\ XChanged(buf, bitmap, i) => x.delta
             /\ ZChanged(buf, bitmap, i) => z.delta
             /\ off + FrontOf(e) <= Len(buf) =>
                  (XChanged(buf, bitmap, i) <=> x.delta) /\ (ZChanged(buf, bitmap, i) <=> z.delta)
<1> DEFINE n == Len(e.points)
           bitmap == off + 3 + e.extra
<1>1. n \in Nat /\ Flat(e)[2 * i - 1] = e.points[i].x /\ Flat(e)[2 * i] = e.points[i].z
  BY EntryType
<1>2. CASE i = 1
  <2>1. ~ XChanged(buf, bitmap, i) /\ ~ ZChanged(buf, bitmap, i)
    BY <1>2 DEF XChanged, ZChanged
  <2>2. e.points # <<>>
    BY <1>1, <1>2
  <2>3. ~ e.points[i].x.delta /\ ~ e.points[i].z.delta
    BY <1>2, <2>2 DEF Firm
  <2>4. XChanged(buf, bitmap, i) \in BOOLEAN /\ ZChanged(buf, bitmap, i) \in BOOLEAN
    BY DEF XChanged, ZChanged
  <2> HIDE DEF bitmap
  <2>5. ~ Flat(e)[2 * i - 1].delta /\ ~ Flat(e)[2 * i].delta
    BY <1>1, <2>3
  <2> QED
    BY <2>1, <2>4, <2>5 DEF bitmap
<1>3. CASE i # 1
  <2>1. /\ i > 1 /\ 2 * i - 4 \in 0 .. 2 * n - 3 /\ 2 * i - 3 \in 0 .. 2 * n - 3
        /\ (2 * i - 4) + 3 = 2 * i - 1 /\ (2 * i - 3) + 3 = 2 * i
    <3>1. n \in Nat /\ i \in 1 .. n
      BY <1>1
    <3> HIDE DEF n
    <3> QED
      BY ONLY <1>3, <3>1
  <2>2. /\ BitAt(buf, bitmap, 2 * i - 4) => Flat(e)[2 * i - 1].delta
        /\ off + FrontOf(e) <= Len(buf) => (BitAt(buf, bitmap, 2 * i - 4) <=> Flat(e)[2 * i - 1].delta)
    BY <2>1, BitsRead
  <2>3. /\ BitAt(buf, bitmap, 2 * i - 3) => Flat(e)[2 * i].delta
        /\ off + FrontOf(e) <= Len(buf) => (BitAt(buf, bitmap, 2 * i - 3) <=> Flat(e)[2 * i].delta)
    BY <2>1, BitsRead
  <2> HIDE DEF bitmap
  <2>4. /\ XChanged(buf, bitmap, i) <=> BitAt(buf, bitmap, 2 * i - 4)
        /\ ZChanged(buf, bitmap, i) <=> BitAt(buf, bitmap, 2 * i - 3)
        /\ XChanged(buf, bitmap, i) \in BOOLEAN /\ ZChanged(buf, bitmap, i) \in BOOLEAN
    BY <2>1 DEF XChanged, ZChanged, BitAt
  <2> QED
    BY <2>2, <2>3, <2>4 DEF bitmap
<1> QED
  BY <1>2, <1>3

\* Where the walk over the points stands: where the entry's coordinates are, or
\* behind it if bits are cut off.
LEMMA WalkStands ==
  ASSUME NEW e, NEW b, NEW C, NEW buf, NEW off, NEW how, NEW w, ReadingBy(e, b, C, buf, off, how, w)
  PROVE  \A i \in 0 .. Len(e.points) :
           /\ w[i].at \in Nat /\ w[i].at >= off + C[2 * i + 1]
           /\ off + FrontOf(e) <= Len(buf) => w[i].at = off + C[2 * i + 1]
<1> DEFINE n == Len(e.points)
           bitmap == off + 3 + e.extra
           Stands(i) == /\ w[i].at \in Nat /\ w[i].at >= off + C[2 * i + 1]
                        /\ off + FrontOf(e) <= Len(buf) => w[i].at = off + C[2 * i + 1]
           S == {i \in Nat : i <= n => Stands(i)}
<1>0. /\ e \in GroupEntries /\ Firm(e) /\ LaidOut(e, b, C)
      /\ buf \in Seq(Nat) /\ off \in Nat /\ Holds(buf, off, b)
      /\ Walks(w, buf, Len(e.points), off + FrontOf(e), off + 3 + e.extra, how)
  BY DEF Reading, ReadingBy
<1> USE <1>0
<1>1. n \in Nat
  BY EntryType
<1>2. \A i \in 0 .. n : w[i] = IF i = 0 THEN [at |-> off + FrontOf(e), points |-> << <<0, 0>> >>]
                               ELSE Stepped(buf, bitmap, how, w[i - 1], i)
  BY DEF Walks
<1>3. FrontOf(e) \in Nat /\ C[1] = FrontOf(e)
  BY OffsetsGrow DEF LaidOut
<1>4. 0 \in S
  <2>1. w[0].at = off + FrontOf(e) /\ 2 * 0 + 1 = 1
    BY <1>1, <1>2
  <2> QED
    BY <1>3, <2>1
<1>5. ASSUME NEW i \in S PROVE i + 1 \in S
  <2> SUFFICES ASSUME i + 1 <= n PROVE Stands(i + 1)
    BY DEF S
  <2>1. i \in Nat /\ i + 1 \in 1 .. n /\ i + 1 \in 0 .. n /\ i + 1 # 0 /\ (i + 1) - 1 = i /\ Stands(i)
    BY <1>1
  <2> DEFINE dx == XChanged(buf, bitmap, i + 1)
             dz == ZChanged(buf, bitmap, i + 1)
             x == Flat(e)[2 * (i + 1) - 1]
             z == Flat(e)[2 * (i + 1)]
  <2>2. /\ dx \in BOOLEAN /\ dz \in BOOLEAN /\ (dx => x.delta) /\ (dz => z.delta)
        /\ off + FrontOf(e) <= Len(buf) => (dx <=> x.delta) /\ (dz <=> z.delta)
    BY <2>1, ChangesRead
  <2>3. w[i + 1].at = w[i].at + WideOf(dx) + WideOf(dz)
    <3>1. w[i + 1] = Stepped(buf, bitmap, how, w[i], i + 1)
      <4> HIDE DEF bitmap, n
      <4> QED
        BY <1>2, <2>1
    <3> QED
      BY ONLY <3>1 DEF Stepped
  <2> HIDE DEF dx, dz
  <2>4. /\ WideOf(dx) >= Wide(x) /\ WideOf(dz) >= Wide(z) /\ WideOf(dx) \in {1, 2} /\ WideOf(dz) \in {1, 2}
        /\ off + FrontOf(e) <= Len(buf) => WideOf(dx) = Wide(x) /\ WideOf(dz) = Wide(z)
    BY <2>2 DEF WideOf, Wide
  <2>5. /\ 2 * (i + 1) - 1 \in 1 .. 2 * n /\ 2 * (i + 1) \in 1 .. 2 * n /\ 2 * (i + 1) - 1 = 2 * i + 1
        /\ (2 * (i + 1) - 1) + 1 = 2 * (i + 1)
    BY <1>1, <2>1
  <2>6. /\ C[2 * (i + 1)] = C[2 * i + 1] + Wide(x) /\ C[2 * (i + 1) + 1] = C[2 * (i + 1)] + Wide(z)
        /\ Wide(x) \in {1, 2} /\ Wide(z) \in {1, 2} /\ C[2 * i + 1] \in Nat
    <3>1. \A j \in 1 .. 2 * n : C[j + 1] = C[j] + Wide(Flat(e)[j]) /\ Wide(Flat(e)[j]) \in {1, 2}
      BY OffsetsGrow
    <3>2. \A j \in 1 .. 2 * n + 1 : C[j] \in Nat
      BY OffsetsGrow
    <3>3. 2 * i + 1 \in 1 .. 2 * n + 1
      BY <1>1, <2>1
    <3> HIDE DEF n
    <3> QED
      BY <2>5, <3>1, <3>2, <3>3
  <2> DEFINE p == w[i].at
             q == w[i + 1].at
             a == WideOf(dx)
             c == WideOf(dz)
             u == Wide(x)
             v == Wide(z)
             f == C[2 * i + 1]
             g == C[2 * (i + 1) + 1]
             Full == off + FrontOf(e) <= Len(buf)
  <2>7. /\ p \in Nat /\ p >= off + f /\ (Full => p = off + f) /\ q = p + a + c
        /\ a >= u /\ c >= v /\ a \in {1, 2} /\ c \in {1, 2} /\ u \in {1, 2} /\ v \in {1, 2}
        /\ (Full => a = u /\ c = v) /\ g = (f + u) + v /\ f \in Nat
    BY <2>1, <2>3, <2>4, <2>6
  <2> HIDE DEF p, q, a, c, u, v, f, g, Full
  <2>8. q \in Nat /\ q >= off + g /\ (Full => q = off + g)
    BY ONLY <2>7, off \in Nat
  <2> QED
    BY <2>8 DEF q, g, Full
<1>6. S = Nat
  <2> HIDE DEF S
  <2>1. S \in SUBSET Nat
    BY DEF S
  <2> QED
    BY <1>4, <1>5, <2>1, UpFromZero
<1>7. \A i \in 0 .. n : Stands(i)
  <2> HIDE DEF Stands
  <2> QED
    BY <1>1, <1>6
<1> QED
  BY <1>7

\* A byte of the entry that is in the buffer.
LEMMA HeldByte ==
  ASSUME NEW b, Len(b) \in Nat, NEW buf \in Seq(Nat), NEW off \in Nat, Holds(buf, off, b),
         NEW k \in 1 .. Len(b), off + k <= Len(buf)
  PROVE  Byte(buf, off + (k - 1)) = b[k]
<1>1. k \in Nat /\ k - 1 \in Nat /\ off + (k - 1) \in Nat /\ (off + (k - 1)) + 1 = off + k /\ Len(buf) \in Nat
  OBVIOUS
<1>2. Byte(buf, off + (k - 1)) = buf[off + k]
  <2> DEFINE at == off + (k - 1)
  <2>1. at \in Nat /\ at < Len(buf) /\ at + 1 = off + k
    BY <1>1
  <2> HIDE DEF at
  <2>2. Byte(buf, at) = buf[at + 1]
    BY <2>1, ByteIn
  <2> QED
    BY <2>1, <2>2 DEF at
<1> QED
  BY <1>2 DEF Holds

\* A word is its two bytes.
LEMMA WordIsBytes == \A at \in 0 .. Word - 1 : (at % Base) + Base * (at \div Base) = at
  BY BaseIs

\* What the points come to for a reader that takes a change its way.
Comes(how, was, c) == IF c.delta THEN (was + Change(how, c.by % Base)) % Word ELSE c.at

\* What is read of one coordinate.
LEMMA CoordinateRead ==
  ASSUME NEW e, NEW b, NEW C, NEW buf, NEW off, Reading(e, b, C, buf, off), off + Len(b) <= Len(buf),
         NEW j \in 1 .. 2 * Len(e.points), NEW at, at = off + C[j],
         NEW how, NEW was
  PROVE  NextOf(buf, how, was, at, Flat(e)[j].delta) = Comes(how, was, Flat(e)[j])
<1> DEFINE c == Flat(e)[j]
           l == Len(b)
           p == C[j]
           q == C[j + 1]
<1>0. /\ e \in GroupEntries /\ LaidOut(e, b, C)
      /\ buf \in Seq(Nat) /\ off \in Nat /\ Holds(buf, off, b)
  BY DEF Reading
<1> USE <1>0
<1>1. c \in Coords /\ Len(e.points) \in Nat
  BY EntryType
<1>2. l \in Nat /\ p \in Nat /\ q <= l /\ q = p + Wide(c)
  <2>1. j \in 1 .. 2 * Len(e.points) + 1 /\ j + 1 \in 1 .. 2 * Len(e.points) + 1
    BY <1>1
  <2> QED
    BY <2>1, OffsetsGrow
<1>3. IF c.delta THEN b[p + 1] = c.by % Base
      ELSE b[p + 1] = c.at % Base /\ b[p + 2] = c.at \div Base
  BY DEF LaidOut
<1>4. Len(buf) \in Nat /\ off + l <= Len(buf)
  OBVIOUS
<1>p. at = off + p
  OBVIOUS
<1> HIDE DEF c, l, p, q
<1>5. CASE c.delta
  <2>1. Wide(c) = 1
    BY <1>5 DEF Wide
  <2>2. p + 1 \in 1 .. l /\ off + (p + 1) <= Len(buf) /\ off + ((p + 1) - 1) = off + p
    BY ONLY <1>2, <1>4, <2>1, off \in Nat
  <2>3. Byte(buf, off + p) = b[p + 1]
    <3>1. Byte(buf, off + ((p + 1) - 1)) = b[p + 1]
      BY <1>2, <2>2, HeldByte DEF l
    <3> QED
      BY <2>2, <3>1
  <2>4. NextOf(buf, how, was, at, c.delta) = (was + Change(how, c.by % Base)) % Word
    BY <1>3, <1>5, <1>p, <2>3, Zenon DEF NextOf, c
  <2> QED
    BY <1>5, <2>4 DEF c, Comes
<1>6. CASE ~ c.delta
  <2>1. Wide(c) = 2
    BY <1>6 DEF Wide
  <2>2. /\ p + 1 \in 1 .. l /\ off + (p + 1) <= Len(buf) /\ off + ((p + 1) - 1) = off + p
        /\ p + 2 \in 1 .. l /\ off + (p + 2) <= Len(buf) /\ off + ((p + 2) - 1) = (off + p) + 1
    BY ONLY <1>2, <1>4, <2>1, off \in Nat
  <2>3. Byte(buf, off + p) = b[p + 1] /\ Byte(buf, (off + p) + 1) = b[p + 2]
    <3>1. Byte(buf, off + ((p + 1) - 1)) = b[p + 1] /\ Byte(buf, off + ((p + 2) - 1)) = b[p + 2]
      BY <1>2, <2>2, HeldByte DEF l
    <3> QED
      BY <2>2, <3>1
  <2>4. NextOf(buf, how, was, at, c.delta) = (c.at % Base) + Base * (c.at \div Base)
    BY <1>3, <1>6, <1>p, <2>3, Zenon DEF NextOf, c
  <2>5. c.at \in 0 .. Word - 1
    BY <1>1 DEF Coords
  <2>6. NextOf(buf, how, was, at, c.delta) = c.at
    BY <2>4, <2>5, WordIsBytes
  <2> QED
    BY <1>6, <2>6 DEF c, Comes
<1> QED
  BY <1>5, <1>6

\* What is read comes to that.
Follows(e, val, how) ==
  /\ val \in [1 .. Len(e.points) -> Nat \X Nat]
  /\ \A i \in 1 .. Len(e.points) :
       /\ val[i][1] = Comes(how, val[i - 1][1], e.points[i].x)
       /\ val[i][2] = Comes(how, val[i - 1][2], e.points[i].z)

\* A sequence with one more in it.
LEMMA LastOfPoints ==
  ASSUME NEW T, NEW s \in Seq(T), NEW x \in T, NEW i \in Nat, Len(s) = i + 1
  PROVE  /\ Last(s) = s[i + 1] /\ Append(s, x) \in Seq(T) /\ Len(Append(s, x)) = i + 2
         /\ Append(s, x)[i + 2] = x /\ \A k \in 1 .. i + 1 : Append(s, x)[k] = s[k]
  BY DEF Last

\* The walk over a whole entry reads the coordinates that follow for its reader.
LEMMA WalkReads ==
  ASSUME NEW e, NEW b, NEW C, NEW buf, NEW off, NEW how, NEW w, ReadingBy(e, b, C, buf, off, how, w),
         off + Len(b) <= Len(buf), NEW val, Follows(e, val, how)
  PROVE  \A i \in 0 .. Len(e.points) :
           /\ w[i].points \in Seq(Nat \X Nat) /\ Len(w[i].points) = i + 1
           /\ \A k \in 1 .. i : w[i].points[k + 1] = val[k]
<1> DEFINE n == Len(e.points)
           bitmap == off + 3 + e.extra
           Reads(i) == /\ w[i].points \in Seq(Nat \X Nat) /\ Len(w[i].points) = i + 1
                       /\ \A k \in 1 .. i : w[i].points[k + 1] = val[k]
           S == {i \in Nat : i <= n => Reads(i)}
<1>0. /\ e \in GroupEntries /\ Firm(e) /\ LaidOut(e, b, C)
      /\ buf \in Seq(Nat) /\ off \in Nat /\ Holds(buf, off, b)
      /\ Walks(w, buf, Len(e.points), off + FrontOf(e), off + 3 + e.extra, how)
      /\ Reading(e, b, C, buf, off)
  BY DEF Reading, ReadingBy
<1> USE <1>0
<1>1. n \in Nat
  BY EntryType
<1>2. \A i \in 0 .. n : w[i] = IF i = 0 THEN [at |-> off + FrontOf(e), points |-> << <<0, 0>> >>]
                               ELSE Stepped(buf, bitmap, how, w[i - 1], i)
  BY DEF Walks
<1>3. off + FrontOf(e) <= Len(buf)
  <2>1. FrontOf(e) \in Nat /\ FrontOf(e) <= Len(b) /\ Len(b) \in Nat /\ Len(buf) \in Nat
    BY OffsetsGrow
  <2> QED
    BY <2>1
<1>4. 0 \in S
  <2>1. w[0].points = << <<0, 0>> >>
    BY <1>1, <1>2
  <2>2. << <<0, 0>> >> \in Seq(Nat \X Nat) /\ Len(<< <<0, 0>> >>) = 1
    OBVIOUS
  <2>3. Reads(0)
    BY <2>1, <2>2
  <2> QED
    BY <2>3
<1>5. ASSUME NEW i \in S PROVE i + 1 \in S
  <2> SUFFICES ASSUME i + 1 <= n PROVE Reads(i + 1)
    BY DEF S
  <2>1. i \in Nat /\ i + 1 \in 1 .. n /\ i + 1 \in 0 .. n /\ i + 1 # 0 /\ (i + 1) - 1 = i /\ i \in 0 .. n
    BY <1>1
  <2>r. Reads(i)
    BY <2>1
  <2> DEFINE dx == XChanged(buf, bitmap, i + 1)
             dz == ZChanged(buf, bitmap, i + 1)
             x == Flat(e)[2 * (i + 1) - 1]
             z == Flat(e)[2 * (i + 1)]
             s == w[i].points
  <2>2. dx \in BOOLEAN /\ dz \in BOOLEAN /\ (dx <=> x.delta) /\ (dz <=> z.delta)
    BY <1>3, <2>1, ChangesRead
  <2>3. x = e.points[i + 1].x /\ z = e.points[i + 1].z
    BY <2>1, EntryType
  <2>4. w[i].at = off + C[2 * i + 1]
    <3>1. \A k \in 0 .. Len(e.points) :
            /\ w[k].at \in Nat /\ w[k].at >= off + C[2 * k + 1]
            /\ off + FrontOf(e) <= Len(buf) => w[k].at = off + C[2 * k + 1]
      BY WalkStands
    <3> QED
      BY <1>3, <2>1, <3>1
  <2>5. /\ 2 * (i + 1) - 1 \in 1 .. 2 * n /\ 2 * (i + 1) \in 1 .. 2 * n /\ 2 * (i + 1) - 1 = 2 * i + 1
        /\ (2 * (i + 1) - 1) + 1 = 2 * (i + 1) /\ 2 * i + 1 \in 1 .. 2 * n + 1
    BY <1>1, <2>1
  <2>6. w[i].at + WideOf(dx) = off + C[2 * (i + 1)]
    <3>1. \A j \in 1 .. 2 * n : C[j + 1] = C[j] + Wide(Flat(e)[j]) /\ Wide(Flat(e)[j]) \in {1, 2}
      BY OffsetsGrow
    <3>2. \A j \in 1 .. 2 * n + 1 : C[j] \in Nat
      BY OffsetsGrow
    <3>3. C[2 * (i + 1)] = C[2 * i + 1] + Wide(x) /\ C[2 * i + 1] \in Nat /\ Wide(x) \in {1, 2}
      BY ONLY <2>5, <3>1, <3>2
    <3>4. WideOf(dx) = Wide(x)
      BY <2>2 DEF WideOf, Wide
    <3> HIDE DEF dx, x
    <3> QED
      BY ONLY <2>4, <3>3, <3>4, off \in Nat
  <2>7. w[i + 1].points = Append(s, <<NextOf(buf, how, Last(s)[1], off + C[2 * (i + 1) - 1], dx),
                                      NextOf(buf, how, Last(s)[2], off + C[2 * (i + 1)], dz)>>)
    <3>1. w[i + 1] = Stepped(buf, bitmap, how, w[i], i + 1)
      <4> HIDE DEF bitmap, n
      <4> QED
        BY <1>2, <2>1
    <3>2. w[i + 1].points = Append(s, <<NextOf(buf, how, Last(s)[1], w[i].at, dx),
                                        NextOf(buf, how, Last(s)[2], w[i].at + WideOf(dx), dz)>>)
      BY ONLY <3>1 DEF Stepped
    <3> QED
      BY <2>4, <2>5, <2>6, <3>2
  <2>8. /\ NextOf(buf, how, Last(s)[1], off + C[2 * (i + 1) - 1], dx) = Comes(how, Last(s)[1], x)
        /\ NextOf(buf, how, Last(s)[2], off + C[2 * (i + 1)], dz) = Comes(how, Last(s)[2], z)
    <3> HIDE DEF dx, dz, s, bitmap, S
    <3>0. dx = x.delta /\ dz = z.delta
      <4>1. x \in Coords /\ z \in Coords
        BY <2>5, EntryType
      <4>2. x.delta \in BOOLEAN /\ z.delta \in BOOLEAN
        BY <4>1 DEF Coords
      <4> HIDE DEF x, z
      <4> QED
        BY <2>2, <4>2
    <3>a. ASSUME NEW j \in 1 .. 2 * n, NEW was
          PROVE  NextOf(buf, how, was, off + C[j], Flat(e)[j].delta) = Comes(how, was, Flat(e)[j])
      <4> DEFINE at == off + C[j]
      <4>1. at = off + C[j] /\ Reading(e, b, C, buf, off) /\ off + Len(b) <= Len(buf) /\ j \in 1 .. 2 * Len(e.points)
        BY <3>a DEF n
      <4> HIDE DEF at
      <4>2. NextOf(buf, how, was, at, Flat(e)[j].delta) = Comes(how, was, Flat(e)[j])
        BY ONLY <4>1, CoordinateRead
      <4> QED
        BY <4>2 DEF at
    <3>1. NextOf(buf, how, Last(s)[1], off + C[2 * (i + 1) - 1], dx) = Comes(how, Last(s)[1], x)
      BY <2>5, <3>0, <3>a
    <3>2. NextOf(buf, how, Last(s)[2], off + C[2 * (i + 1)], dz) = Comes(how, Last(s)[2], z)
      BY <2>5, <3>0, <3>a
    <3> QED
      BY <3>1, <3>2
  <2>9. s \in Seq(Nat \X Nat) /\ Len(s) = i + 1 /\ \A k \in 1 .. i : s[k + 1] = val[k]
    BY <2>r
  <2> HIDE DEF s
  <2>10. Last(s) = s[i + 1]
    BY <2>1, <2>9 DEF Last
  <2>11. Comes(how, Last(s)[1], x) = val[i + 1][1] /\ Comes(how, Last(s)[2], z) = val[i + 1][2]
    <3>1. /\ val[i + 1][1] = Comes(how, val[i][1], x)
          /\ val[i + 1][2] = Comes(how, val[i][2], z)
      <4> HIDE DEF x, z
      <4> QED
        BY <2>1, <2>3 DEF Follows
    <3>2. CASE i = 0
      <4>1. ~ x.delta /\ ~ z.delta
        <5>1. e.points # <<>>
          BY <1>1, <2>1
        <5> QED
          BY <2>3, <3>2, <5>1 DEF Firm
      <4> HIDE DEF x, z
      <4> QED
        BY <3>1, <4>1 DEF Comes
    <3>3. CASE i # 0
      <4>1. i \in 1 .. i
        BY <2>1, <3>3
      <4>2. Last(s) = val[i]
        BY <2>9, <2>10, <4>1
      <4> HIDE DEF x, z
      <4> QED
        BY <3>1, <4>2
    <3> QED
      BY <3>2, <3>3
  <2>12. val[i + 1] \in Nat \X Nat /\ val[i + 1] = <<val[i + 1][1], val[i + 1][2]>>
    <3>1. val[i + 1] \in Nat \X Nat
      BY <2>1 DEF Follows
    <3>2. \A p \in Nat \X Nat : p = <<p[1], p[2]>>
      BY ONLY TRUE
    <3> QED
      BY ONLY <3>1, <3>2
  <2>13. w[i + 1].points = Append(s, val[i + 1])
    BY <2>7, <2>8, <2>11, <2>12, Zenon
  <2>14. /\ Append(s, val[i + 1]) \in Seq(Nat \X Nat) /\ Len(Append(s, val[i + 1])) = i + 2
         /\ Append(s, val[i + 1])[i + 2] = val[i + 1]
         /\ \A k \in 1 .. i + 1 : Append(s, val[i + 1])[k] = s[k]
    BY <2>1, <2>9, <2>12, LastOfPoints
  <2>15. ASSUME NEW k \in 1 .. i + 1 PROVE Append(s, val[i + 1])[k + 1] = val[k]
    <3>1. CASE k = i + 1
      BY <2>1, <2>14, <3>1
    <3>2. CASE k \in 1 .. i
      <4>1. k + 1 \in 1 .. i + 1
        BY <2>1, <3>2
      <4> QED
        BY <2>9, <2>14, <3>2, <4>1
    <3>3. k = i + 1 \/ k \in 1 .. i
      BY ONLY <2>1, <2>15
    <3> QED
      BY <3>1, <3>2, <3>3
  <2>16. i + 2 = (i + 1) + 1
    BY <2>1
  <2> QED
    BY <2>13, <2>14, <2>15, <2>16
<1>6. S = Nat
  <2> HIDE DEF S
  <2>1. S \in SUBSET Nat
    BY DEF S
  <2> QED
    BY <1>4, <1>5, <2>1, UpFromZero
<1>7. \A i \in 0 .. n : Reads(i)
  <2> HIDE DEF Reads
  <2> QED
    BY <1>1, <1>6
<1> QED
  BY <1>7

\* What an entry is read as, whose points a walk gives.
ReadAs(buf, off, how, r) ==
  LET low    == Byte(buf, off)
      n      == low \div 2
      bitmap == off + 3 + (low % 2)
  IN  \E w : /\ Walks(w, buf, n, bitmap + BitmapBytes(n), bitmap, how)
             /\ r = [at |-> w[n].at, path |-> [unit |-> Byte(buf, off + 2), points |-> Tail(w[n].points)]]

\* Either reader's entry comes from its walk.
LEMMA EntryIsReadAs ==
  ASSUME NEW buf \in Seq(Nat), NEW off \in Nat
  PROVE  /\ ReadAs(buf, off, "read", Entry(buf, off, Signed))
         /\ ReadAs(buf, off, "parse", Entry(buf, off, LAMBDA byte : byte))
<1> DEFINE low == Byte(buf, off)
           n == low \div 2
           bitmap == off + 3 + (low % 2)
           start == bitmap + BitmapBytes(n)
<1>1. n \in Nat
  <2>1. low \in Nat
    BY ByteIn
  <2> QED
    BY <2>1
<1>2. ReadAs(buf, off, "read", Entry(buf, off, Signed))
  <2> DEFINE p == Points(buf, n, start, bitmap, Signed)
  <2>1. PointsAre(buf, n, start, bitmap, "read", p)
    BY <1>1, PointsWalk, Zenon
  <2>2. Entry(buf, off, Signed) = [at |-> p.at, path |-> [unit |-> Byte(buf, off + 2), points |-> p.points]]
    BY Zenon DEF Entry
  <2> HIDE DEF p, n, start, bitmap
  <2>3. PICK w : Walks(w, buf, n, start, bitmap, "read") /\ p = [at |-> w[n].at, points |-> Tail(w[n].points)]
    BY <2>1, Zenon DEF PointsAre
  <2>4. p.at = w[n].at /\ p.points = Tail(w[n].points)
    BY ONLY <2>3
  <2>5. Entry(buf, off, Signed)
          = [at |-> w[n].at, path |-> [unit |-> Byte(buf, off + 2), points |-> Tail(w[n].points)]]
    BY <2>2, <2>4, Zenon
  <2> QED
    BY <2>3, <2>5, Zenon DEF ReadAs, n, start, bitmap
<1>3. ReadAs(buf, off, "parse", Entry(buf, off, LAMBDA byte : byte))
  <2> DEFINE p == Points(buf, n, start, bitmap, LAMBDA byte : byte)
  <2>1. PointsAre(buf, n, start, bitmap, "parse", p)
    BY <1>1, PointsWalk, Zenon
  <2>2. Entry(buf, off, LAMBDA byte : byte) = [at |-> p.at, path |-> [unit |-> Byte(buf, off + 2), points |-> p.points]]
    BY Zenon DEF Entry
  <2> HIDE DEF p, n, start, bitmap
  <2>3. PICK w : Walks(w, buf, n, start, bitmap, "parse") /\ p = [at |-> w[n].at, points |-> Tail(w[n].points)]
    BY <2>1, Zenon DEF PointsAre
  <2>4. p.at = w[n].at /\ p.points = Tail(w[n].points)
    BY ONLY <2>3
  <2>5. Entry(buf, off, LAMBDA byte : byte)
          = [at |-> w[n].at, path |-> [unit |-> Byte(buf, off + 2), points |-> Tail(w[n].points)]]
    BY <2>2, <2>4, Zenon
  <2> QED
    BY <2>3, <2>5, Zenon DEF ReadAs, n, start, bitmap
<1> QED
  BY <1>2, <1>3

\* The header of an entry that is not cut off before it begins.
LEMMA HeaderRead ==
  ASSUME NEW e, NEW b, NEW C, NEW buf, NEW off, Reading(e, b, C, buf, off), off < Len(buf)
  PROVE  LET low == Byte(buf, off)
         IN  low \div 2 = Len(e.points) /\ low % 2 = e.extra
<1>0. e \in GroupEntries /\ LaidOut(e, b, C) /\ buf \in Seq(Nat) /\ off \in Nat /\ Holds(buf, off, b)
  BY DEF Reading
<1>1. Len(e.points) \in Nat /\ e.extra \in {0, 1}
  BY <1>0, EntryType
<1>2. FrontOf(e) \in Nat /\ FrontOf(e) >= 3 + e.extra /\ FrontOf(e) <= Len(b) /\ Len(b) \in Nat
  BY <1>0, OffsetsGrow
<1>3. 1 \in 1 .. Len(b) /\ off + 1 <= Len(buf) /\ off + (1 - 1) = off
  BY <1>0, <1>1, <1>2
<1>4. Byte(buf, off + (1 - 1)) = b[1]
  BY <1>0, <1>2, <1>3, HeldByte
<1>5. b[1] = 2 * Len(e.points) + e.extra
  BY <1>0 DEF LaidOut
<1>6. Byte(buf, off) = 2 * Len(e.points) + e.extra
  BY <1>3, <1>4, <1>5
<1> QED
  BY <1>1, <1>6

\* Where an entry begins within the buffer, the walk is over its own points.
LEMMA ReadingIsBy ==
  ASSUME NEW e, NEW b, NEW C, NEW buf, NEW off, Reading(e, b, C, buf, off), off < Len(buf),
         NEW how, NEW r, ReadAs(buf, off, how, r)
  PROVE  \E w : /\ ReadingBy(e, b, C, buf, off, how, w)
                /\ r = [at |-> w[Len(e.points)].at,
                        path |-> [unit |-> Byte(buf, off + 2), points |-> Tail(w[Len(e.points)].points)]]
<1>1. Byte(buf, off) \div 2 = Len(e.points) /\ Byte(buf, off) % 2 = e.extra
  BY HeaderRead
<1>2. PICK w : /\ Walks(w, buf, Len(e.points), (off + 3 + e.extra) + BitmapBytes(Len(e.points)), off + 3 + e.extra, how)
               /\ r = [at |-> w[Len(e.points)].at,
                       path |-> [unit |-> Byte(buf, off + 2), points |-> Tail(w[Len(e.points)].points)]]
  BY <1>1, Zenon DEF ReadAs
<1>3. (off + 3 + e.extra) + BitmapBytes(Len(e.points)) = off + FrontOf(e)
  <2>1. off \in Nat /\ e.extra \in {0, 1} /\ Len(e.points) \in Nat
    BY EntryType DEF Reading
  <2>2. BitmapBytes(Len(e.points)) \in Nat
    BY <2>1, BitmapSize
  <2> QED
    BY <2>1, <2>2 DEF FrontOf
<1>4. Walks(w, buf, Len(e.points), off + FrontOf(e), off + 3 + e.extra, how)
  BY <1>2, <1>3, Zenon
<1>5. ReadingBy(e, b, C, buf, off, how, w)
  BY <1>4 DEF ReadingBy
<1> QED
  BY <1>2, <1>5

\* All of the entry is there: it is read for what it comes to.
LEMMA WholeEntryRead ==
  ASSUME NEW e, NEW b, NEW C, NEW buf, NEW off, Reading(e, b, C, buf, off), off + Len(b) <= Len(buf),
         NEW how, NEW val, Follows(e, val, how), NEW r, ReadAs(buf, off, how, r)
  PROVE  r = [at |-> off + Len(b), path |-> [unit |-> e.unit, points |-> val]]
<1> DEFINE n == Len(e.points)
<1>0. /\ e \in GroupEntries /\ LaidOut(e, b, C) /\ buf \in Seq(Nat) /\ Len(buf) \in Nat
      /\ off \in Nat /\ Holds(buf, off, b)
  BY DEF Reading
<1>1. n \in Nat /\ e.extra \in {0, 1}
  BY <1>0, EntryType
<1>2. FrontOf(e) \in Nat /\ FrontOf(e) >= 3 + e.extra /\ FrontOf(e) <= Len(b) /\ Len(b) \in Nat
  BY <1>0, OffsetsGrow
<1>3. /\ off < Len(buf) /\ off + FrontOf(e) <= Len(buf)
      /\ 3 \in 1 .. Len(b) /\ off + 3 <= Len(buf) /\ off + (3 - 1) = off + 2
  BY <1>0, <1>1, <1>2
<1>4. PICK w : /\ ReadingBy(e, b, C, buf, off, how, w)
               /\ r = [at |-> w[n].at, path |-> [unit |-> Byte(buf, off + 2), points |-> Tail(w[n].points)]]
  BY <1>3, ReadingIsBy
<1>5. n \in 0 .. n
  BY <1>1
<1>6. w[n].at = off + Len(b)
  <2>1. w[n].at = off + C[2 * n + 1]
    BY <1>3, <1>4, <1>5, WalkStands
  <2>2. C[2 * n + 1] = Len(b)
    BY <1>0 DEF LaidOut
  <2> QED
    BY <2>1, <2>2
<1>7. Byte(buf, off + 2) = e.unit
  <2>1. Byte(buf, off + (3 - 1)) = b[3]
    BY <1>0, <1>2, <1>3, HeldByte
  <2>2. b[3] = e.unit
    BY <1>0 DEF LaidOut
  <2> QED
    BY <1>3, <2>1, <2>2
<1>8. Tail(w[n].points) = val
  <2> DEFINE s == w[n].points
  <2>1. s \in Seq(Nat \X Nat) /\ Len(s) = n + 1 /\ \A k \in 1 .. n : s[k + 1] = val[k]
    <3>0. off + Len(b) <= Len(buf) /\ Follows(e, val, how)
      OBVIOUS
    <3>1. \A i \in 0 .. Len(e.points) :
            /\ w[i].points \in Seq(Nat \X Nat) /\ Len(w[i].points) = i + 1
            /\ \A k \in 1 .. i : w[i].points[k + 1] = val[k]
      BY ONLY <1>4, <3>0, WalkReads
    <3> QED
      BY <1>5, <3>1
  <2>2. val \in [1 .. n -> Nat \X Nat]
    BY DEF Follows
  <2> HIDE DEF s, n
  <2>3. s # <<>> /\ Len(Tail(s)) = n /\ Tail(s) \in Seq(Nat \X Nat) /\ \A k \in 1 .. n : Tail(s)[k] = s[k + 1]
    BY <1>1, <2>1
  <2>4. DOMAIN Tail(s) = 1 .. n /\ Tail(s) = [k \in 1 .. n |-> Tail(s)[k]]
    <3> DEFINE t == Tail(s)
    <3>1. t \in Seq(Nat \X Nat) /\ Len(t) = n
      BY <2>3
    <3> HIDE DEF t
    <3>2. DOMAIN t = 1 .. n /\ t = [k \in 1 .. n |-> t[k]]
      BY ONLY <3>1
    <3> QED
      BY ONLY <3>2 DEF t
  <2>5. val = [k \in 1 .. n |-> val[k]] /\ \A k \in 1 .. n : Tail(s)[k] = val[k]
    BY <2>1, <2>2, <2>3
  <2>6. Tail(s) = val
    BY <2>4, <2>5, Zenon
  <2> QED
    BY <2>6 DEF s, n
<1> QED
  BY <1>4, <1>6, <1>7, <1>8, Zenon

\* Some of it is cut off: the reader ends behind the buffer.
LEMMA PastEntryRead ==
  ASSUME NEW buf \in Seq(Nat), NEW off \in Nat, off >= Len(buf), NEW how, NEW r, ReadAs(buf, off, how, r)
  PROVE  r.at = off + 3
<1>1. Byte(buf, off) = 0
  BY ByteIn
<1>2. 0 \div 2 = 0 /\ 0 % 2 = 0 /\ BitmapBytes(0) = 0
  BY DEF BitmapBytes
<1> DEFINE low == Byte(buf, off)
           n == low \div 2
           bitmap == off + 3 + (low % 2)
<1>3. PICK w : /\ Walks(w, buf, n, bitmap + BitmapBytes(n), bitmap, how)
               /\ r = [at |-> w[n].at, path |-> [unit |-> Byte(buf, off + 2), points |-> Tail(w[n].points)]]
  BY Zenon DEF ReadAs
<1>4. n = 0 /\ bitmap = off + 3
  BY <1>1, <1>2
<1> HIDE DEF n, bitmap, low
<1>5. w[0].at = bitmap + BitmapBytes(n)
  BY <1>3, <1>4 DEF Walks
<1>6. r.at = w[0].at
  BY ONLY <1>3, <1>4
<1> QED
  BY <1>2, <1>4, <1>5, <1>6

\* An entry that is cut is read past the buffer's end.
LEMMA CutEntryRead ==
  ASSUME NEW e, NEW b, NEW C, NEW buf, NEW off, Reading(e, b, C, buf, off), ~ (off + Len(b) <= Len(buf)),
         NEW how, NEW r, ReadAs(buf, off, how, r)
  PROVE  r.at \in Nat /\ r.at > Len(buf)
<1>0. e \in GroupEntries /\ LaidOut(e, b, C) /\ buf \in Seq(Nat) /\ Len(buf) \in Nat /\ off \in Nat
  BY DEF Reading
<1>1. CASE off < Len(buf)
  <2> DEFINE n == Len(e.points)
  <2>1. PICK w : /\ ReadingBy(e, b, C, buf, off, how, w)
                 /\ r = [at |-> w[n].at, path |-> [unit |-> Byte(buf, off + 2), points |-> Tail(w[n].points)]]
    BY <1>1, ReadingIsBy
  <2>2. n \in 0 .. n
    BY <1>0, EntryType
  <2>3. w[n].at \in Nat /\ w[n].at >= off + C[2 * n + 1]
    BY <2>1, <2>2, WalkStands
  <2>4. C[2 * n + 1] = Len(b) /\ Len(b) \in Nat
    BY <1>0, OffsetsGrow DEF LaidOut
  <2> QED
    BY <1>0, <2>1, <2>3, <2>4
<1>2. CASE ~ (off < Len(buf))
  <2>1. r.at = off + 3
    BY <1>0, <1>2, PastEntryRead
  <2> QED
    BY <1>0, <1>2, <2>1
<1> QED
  BY <1>1, <1>2

-----------------------------------------------------------------------------
(* What each reader takes a change for                                     *)

\* Bytes that follow on one another begin with what is before each of them.
Extends(f, n) ==
  \A i \in 0 .. n : \A j \in 0 .. i :
    Len(f[j]) <= Len(f[i]) /\ \A k \in 1 .. Len(f[j]) : f[i][k] = f[j][k]

\* Each joined sequence begins with those joined before.
LEMMA JoinsBegin ==
  ASSUME NEW X, NEW s \in Seq(Seq(X)), NEW f \in [0 .. Len(s) -> Seq(X)], Joins(f, s)
  PROVE  Extends(f, Len(s))
<1> DEFINE Begins(i) == \A j \in 0 .. i : Len(f[j]) <= Len(f[i]) /\ \A k \in 1 .. Len(f[j]) : f[i][k] = f[j][k]
           S == {i \in Nat : i <= Len(s) => Begins(i)}
<1>0. Len(s) \in Nat
  OBVIOUS
<1>1. \A i \in 1 .. Len(s) : f[i] = f[i - 1] \o s[i] /\ f[i - 1] \in Seq(X) /\ s[i] \in Seq(X)
  BY DEF Joins
<1>l. \A i \in 0 .. Len(s) : Len(f[i]) \in Nat
  OBVIOUS
<1>2. 0 \in S
  <2>1. Len(f[0]) \in Nat
    BY <1>0, <1>l
  <2>2. Begins(0)
    BY <2>1
  <2> QED
    BY <2>2
<1>3. ASSUME NEW i \in S PROVE i + 1 \in S
  <2> SUFFICES ASSUME i + 1 <= Len(s) PROVE Begins(i + 1)
    BY DEF S
  <2>1. i \in Nat /\ i + 1 \in 1 .. Len(s) /\ (i + 1) - 1 = i /\ i + 1 \in 0 .. Len(s) /\ i \in 0 .. Len(s) /\ Begins(i)
    BY <1>0
  <2> DEFINE a == f[i]
             b == f[i + 1]
  <2>2. Glued(X, a, s[i + 1], b)
    <3>1. b = a \o s[i + 1] /\ a \in Seq(X) /\ s[i + 1] \in Seq(X)
      BY <1>1, <2>1
    <3> QED
      BY <3>1, TwoAreGlued
  <2>3. Len(s[i + 1]) \in Nat /\ Len(a) \in Nat /\ Len(b) \in Nat
    BY <1>1, <1>l, <2>1
  <2> HIDE DEF a, b, S
  <2>4. Len(a) <= Len(b) /\ \A k \in 1 .. Len(a) : b[k] = a[k]
    <3>1. Len(b) = Len(a) + Len(s[i + 1]) /\ \A k \in 1 .. Len(a) : b[k] = a[k]
      BY <2>2 DEF Glued
    <3> DEFINE la == Len(a)
               lb == Len(b)
               ls == Len(s[i + 1])
    <3>2. lb = la + ls /\ la \in Nat /\ ls \in Nat
      BY <2>3, <3>1
    <3> HIDE DEF la, lb, ls
    <3>3. la <= lb
      BY ONLY <3>2
    <3> QED
      BY ONLY <3>1, <3>3 DEF la, lb
  <2> SUFFICES ASSUME NEW j \in 0 .. i + 1
               PROVE  Len(f[j]) <= Len(b) /\ \A k \in 1 .. Len(f[j]) : b[k] = f[j][k]
    BY DEF b
  <2>5. CASE j = i + 1
    <3>1. f[j] = b
      BY <2>5 DEF b
    <3> QED
      BY <2>3, <3>1
  <2>6. CASE j \in 0 .. i
    <3>1. Len(f[j]) <= Len(a) /\ Len(f[j]) \in Nat /\ \A k \in 1 .. Len(f[j]) : a[k] = f[j][k]
      <4>1. j \in 0 .. Len(s)
        BY <2>1, <2>6
      <4> QED
        BY <1>l, <2>1, <2>6, <4>1 DEF a
    <3> DEFINE m == Len(f[j])
    <3> HIDE DEF m
    <3>2. m <= Len(a) /\ m \in Nat /\ \A k \in 1 .. m : a[k] = f[j][k]
      BY <3>1 DEF m
    <3>3. m <= Len(b) /\ \A k \in 1 .. m : b[k] = f[j][k]
      BY ONLY <2>3, <2>4, <3>2
    <3> QED
      BY <3>3 DEF m
  <2> QED
    BY <2>1, <2>5, <2>6
<1>4. S = Nat
  <2> HIDE DEF S
  <2>1. S \in SUBSET Nat
    BY DEF S
  <2> QED
    BY <1>2, <1>3, <2>1, UpFromZero
<1>5. \A i \in 0 .. Len(s) : Begins(i)
  <2> HIDE DEF Begins
  <2> QED
    BY <1>0, <1>4
<1> QED
  BY <1>5 DEF Extends

\* A group as the game makes it: its entries' coordinates add up.
Steady(e) ==
  /\ Firm(e)
  /\ \A i \in 2 .. Len(e.points) :
       /\ e.points[i].x.delta => /\ IsByte(e.points[i].x.by)
                                 /\ e.points[i].x.at = (e.points[i - 1].x.at + e.points[i].x.by) % Word
       /\ e.points[i].z.delta => /\ IsByte(e.points[i].z.by)
                                 /\ e.points[i].z.at = (e.points[i - 1].z.at + e.points[i].z.by) % Word

\* A change that fits a byte is what read takes the byte for.
LEMMA BytesFacts ==
  \A by \in Int : IsByte(by) => Signed(by % Base) = by /\ by % Base = (IF by < 0 THEN by + Base ELSE by)
<1>1. CASE Base = 16
  BY <1>1 DEF IsByte, Signed
<1>2. CASE Base = 256
  BY <1>2 DEF IsByte, Signed
<1> QED
  BY <1>1, <1>2, BaseIs

\* read takes a change for what it is.

LEMMA MeantFollows ==
  ASSUME NEW e \in GroupEntries, Steady(e)
  PROVE  Follows(e, Meant(e).points, "read")
<1> DEFINE n == Len(e.points)
           val == Meant(e).points
<1>1. /\ n \in Nat /\ e.points \in Seq([x : Coords, z : Coords])
      /\ \A i \in 1 .. n : e.points[i].x \in Coords /\ e.points[i].z \in Coords
  BY EntryType DEF GroupEntries
<1>2. val = [i \in 1 .. n |-> <<e.points[i].x.at, e.points[i].z.at>>]
  BY <1>1 DEF Meant
<1>3. \A c \in Coords : c.at \in Nat /\ c.by \in Int /\ c.delta \in BOOLEAN
  <2>1. \A a \in 0 .. Word - 1 : a \in Nat
    OBVIOUS
  <2> QED
    BY <2>1 DEF Coords
<1> HIDE DEF val, n
<1>4. val \in [1 .. n -> Nat \X Nat]
  BY <1>1, <1>2, <1>3
<1>5. ASSUME NEW i \in 1 .. n
      PROVE  /\ val[i][1] = Comes("read", val[i - 1][1], e.points[i].x)
             /\ val[i][2] = Comes("read", val[i - 1][2], e.points[i].z)
  <2>1. val[i][1] = e.points[i].x.at /\ val[i][2] = e.points[i].z.at
    BY <1>2
  <2>2. CASE i = 1
    <3>1. ~ e.points[i].x.delta /\ ~ e.points[i].z.delta
      <4>1. e.points # <<>>
        BY <1>1, <1>5 DEF n
      <4> QED
        BY <2>2, <4>1 DEF Steady, Firm
    <3> QED
      BY <2>1, <3>1 DEF Comes
  <2>3. CASE i # 1
    <3>0. i \in 2 .. n /\ i - 1 \in 1 .. n
      BY <1>1, <2>3
    <3>1. val[i - 1][1] = e.points[i - 1].x.at /\ val[i - 1][2] = e.points[i - 1].z.at
      BY <1>2, <3>0
    <3>2. ASSUME e.points[i].x.delta PROVE val[i][1] = Comes("read", val[i - 1][1], e.points[i].x)
      <4>1. /\ IsByte(e.points[i].x.by) /\ e.points[i].x.by \in Int
            /\ e.points[i].x.at = (e.points[i - 1].x.at + e.points[i].x.by) % Word
        BY <1>1, <1>3, <3>0, <3>2 DEF Steady, n
      <4>2. Change("read", e.points[i].x.by % Base) = e.points[i].x.by
        BY <4>1, BytesFacts DEF Change
      <4> QED
        BY <2>1, <3>1, <3>2, <4>1, <4>2 DEF Comes
    <3>3. ASSUME e.points[i].z.delta PROVE val[i][2] = Comes("read", val[i - 1][2], e.points[i].z)
      <4>1. /\ IsByte(e.points[i].z.by) /\ e.points[i].z.by \in Int
            /\ e.points[i].z.at = (e.points[i - 1].z.at + e.points[i].z.by) % Word
        BY <1>1, <1>3, <3>0, <3>3 DEF Steady, n
      <4>2. Change("read", e.points[i].z.by % Base) = e.points[i].z.by
        BY <4>1, BytesFacts DEF Change
      <4> QED
        BY <2>1, <3>1, <3>3, <4>1, <4>2 DEF Comes
    <3> QED
      BY <2>1, <3>2, <3>3 DEF Comes
  <2> QED
    BY <2>2, <2>3
<1> QED
  BY <1>4, <1>5 DEF Follows, val, n

\* A remainder may be taken before adding.

LEMMA ModAdds == \A x, y \in Int : ((x % Word) + y) % Word = (x + y) % Word
<1>1. CASE Word = 256
  BY <1>1
<1>2. CASE Word = 65536
  BY <1>2
<1> QED
  BY <1>1, <1>2, BaseIs

\* parse takes a change back for one forward, and stays a byte's worth off.
StrayPath(n, q, val) ==
  /\ \A i \in 1 .. n : q[i] \in Coords
  /\ n > 0 => ~ q[1].delta
  /\ \A i \in 2 .. n : q[i].delta => IsByte(q[i].by) /\ q[i].at = (q[i - 1].at + q[i].by) % Word
  /\ \A i \in 1 .. n : val[i] = (q[i].at + Base * Cardinality(
        {k \in 2 .. i : q[k].by < 0 /\ \A m \in k .. i : q[m].delta})) % Word

\* A coordinate that strays is what parse adds up.
LEMMA StraysOn ==
  ASSUME NEW n \in Nat, NEW q, NEW val, StrayPath(n, q, val)
  PROVE  \A i \in 1 .. n : val[i] \in Nat /\ val[i] = Comes("parse", val[i - 1], q[i])
<1> DEFINE Back(i) == {k \in 2 .. i : q[k].by < 0 /\ \A m \in k .. i : q[m].delta}
           num(i) == Cardinality(Back(i))
<1>1. \A i \in 1 .. n : q[i].at \in 0 .. Word - 1 /\ q[i].by \in Int /\ q[i].delta \in BOOLEAN
  BY DEF Coords, StrayPath
<1>0. /\ n > 0 => ~ q[1].delta
      /\ \A i \in 2 .. n : q[i].delta => IsByte(q[i].by) /\ q[i].at = (q[i - 1].at + q[i].by) % Word
  BY DEF StrayPath
<1>2. ASSUME NEW i \in 1 .. n PROVE IsFiniteSet(Back(i)) /\ num(i) \in Nat
  <2>1. IsFiniteSet(2 .. i)
    BY FS_Interval
  <2>2. Back(i) \in SUBSET (2 .. i)
    OBVIOUS
  <2> HIDE DEF Back
  <2> QED
    BY <2>1, <2>2, FS_Subset, FS_CardinalityType
<1>3. \A i \in 1 .. n : val[i] = (q[i].at + Base * num(i)) % Word
  BY DEF StrayPath
<1>4. ASSUME NEW i \in 1 .. n PROVE val[i] \in Nat
  <2> DEFINE t == q[i].at
             c == num(i)
  <2>1. t \in 0 .. Word - 1
    BY <1>1
  <2>2. c \in Nat
    BY <1>2
  <2>3. val[i] = (t + Base * c) % Word
    BY <1>3
  <2> HIDE DEF t, c
  <2>4. CASE Word = 256 /\ Base = 16
    <3>1. t \in Nat
      BY ONLY <2>1, <2>4
    <3>2. t + 16 * c \in Nat
      BY ONLY <2>2, <3>1
    <3>3. (t + 16 * c) % 256 \in Nat
      BY ONLY <3>2
    <3> QED
      BY ONLY <2>3, <2>4, <3>3
  <2>5. CASE Word = 65536 /\ Base = 256
    <3>1. t \in Nat
      BY ONLY <2>1, <2>5
    <3>2. t + 256 * c \in Nat
      BY ONLY <2>2, <3>1
    <3>3. (t + 256 * c) % 65536 \in Nat
      BY ONLY <3>2
    <3> QED
      BY ONLY <2>3, <2>5, <3>3
  <2> QED
    BY <2>4, <2>5, BaseIs
<1>5. ASSUME NEW i \in 1 .. n, ~ q[i].delta PROVE val[i] = q[i].at
  <2>1. Back(i) = {}
    <3> SUFFICES ASSUME NEW k \in Back(i) PROVE FALSE
      OBVIOUS
    <3>1. k \in 2 .. i /\ \A m \in k .. i : q[m].delta
      OBVIOUS
    <3>2. i \in k .. i
      BY <3>1
    <3> QED
      BY <1>5, <3>1, <3>2
  <2>2. num(i) = 0
    BY <2>1, FS_EmptySet
  <2>3. val[i] = (q[i].at + Base * 0) % Word
    BY <1>3, <2>2
  <2>4. \A a \in 0 .. Word - 1 : (a + Base * 0) % Word = a
    BY BaseIs
  <2> QED
    BY <1>1, <2>3, <2>4
<1>6. ASSUME NEW i \in 2 .. n, q[i].delta
      PROVE  num(i) = num(i - 1) + (IF q[i].by < 0 THEN 1 ELSE 0)
  <2>0. i - 1 \in 1 .. n /\ i \in 1 .. n /\ i \notin 2 .. (i - 1)
    BY <1>6
  <2>1. Back(i) = Back(i - 1) \cup (IF q[i].by < 0 THEN {i} ELSE {})
    <3>1. ASSUME NEW k \in 2 .. i PROVE k \in Back(i) <=> k \in Back(i - 1) \/ (k = i /\ q[i].by < 0)
      <4>1. CASE k = i
        <5>1. \A m \in k .. i : m = i
          BY <4>1
        <5> QED
          BY <1>6, <2>0, <4>1, <5>1
      <4>2. CASE k # i
        <5>1. k \in 2 .. i - 1
          BY <3>1, <4>2
        <5>2. (\A m \in k .. i : q[m].delta) <=> (\A m \in k .. i - 1 : q[m].delta)
          <6>1. \A m : m \in k .. i <=> m \in k .. i - 1 \/ m = i
            BY <5>1
          <6> QED
            BY <1>6, <6>1, Zenon
        <5> QED
          BY <4>2, <5>1, <5>2
      <4> QED
        BY <4>1, <4>2
    <3>2. Back(i) \subseteq 2 .. i /\ Back(i - 1) \subseteq 2 .. i /\ i \in 2 .. i
      BY <1>6
    <3> HIDE DEF Back
    <3>3. \A k : k \in Back(i) <=> k \in Back(i - 1) \/ (k = i /\ q[i].by < 0)
      BY <3>1, <3>2
    <3> QED
      BY <3>3
  <2>2. i \notin Back(i - 1) /\ IsFiniteSet(Back(i - 1))
    BY <1>2, <2>0
  <2> HIDE DEF Back
  <2>3. CASE q[i].by < 0
    <3>1. Back(i) = Back(i - 1) \cup {i}
      BY <2>1, <2>3
    <3>2. Cardinality(Back(i - 1) \cup {i}) = Cardinality(Back(i - 1)) + 1
      BY <2>2, FS_AddElement
    <3> QED
      BY <2>3, <3>1, <3>2
  <2>4. CASE ~ (q[i].by < 0)
    <3>1. Back(i) = Back(i - 1)
      BY <2>1, <2>4
    <3>2. num(i - 1) \in Nat
      BY <1>2, <2>0
    <3> QED
      BY <2>4, <3>1, <3>2
  <2> QED
    BY <2>3, <2>4
<1>7. ASSUME NEW i \in 1 .. n, q[i].delta PROVE val[i] = (val[i - 1] + (q[i].by % Base)) % Word
  <2>0. i # 1
    BY <1>0, <1>7
  <2>1. i \in 2 .. n /\ i - 1 \in 1 .. n
    BY <2>0
  <2>2. IsByte(q[i].by) /\ q[i].at = (q[i - 1].at + q[i].by) % Word
    BY <1>0, <1>7, <2>1
  <2> DEFINE a == q[i - 1].at
             y == q[i].by
             k == num(i - 1)
             c == IF y < 0 THEN 1 ELSE 0
  <2>3. num(i) = k + c
    BY <1>6, <1>7, <2>1
  <2>4. y % Base = (IF y < 0 THEN y + Base ELSE y) /\ y \in Int
    BY <1>1, <2>2, BytesFacts
  <2>5. a \in Int /\ k \in Nat
    <3>1. a \in 0 .. Word - 1
      BY <1>1, <2>1
    <3>2. k \in Nat
      BY <1>2, <2>1
    <3> HIDE DEF a, k
    <3> QED
      BY <3>1, <3>2
  <2>6. val[i] = (((a + y) % Word) + Base * (k + c)) % Word
    BY <1>3, <2>2, <2>3
  <2>7. val[i - 1] = (a + Base * k) % Word
    BY <1>3, <2>1
  <2>8. Base \in Nat /\ Base * (k + c) \in Int /\ Base * k \in Int
    <3> HIDE DEF k
    <3>1. CASE Base = 16
      BY <2>5, <3>1
    <3>2. CASE Base = 256
      BY <2>5, <3>2
    <3> QED
      BY <3>1, <3>2, BaseIs
  <2>9. y % Base = y + Base * c
    BY <2>4, <2>8
  <2> HIDE DEF a, y, k, c
  <2>c. c \in {0, 1}
    BY DEF c
  <2>10. val[i] = ((a + y) + Base * (k + c)) % Word
    <3>1. a + y \in Int
      BY <2>4, <2>5
    <3> QED
      BY <2>6, <2>8, <3>1, ModAdds
  <2>11. (((a + Base * k) % Word) + (y % Base)) % Word = ((a + Base * k) + (y % Base)) % Word
    <3>1. a + Base * k \in Int /\ y % Base \in Int
      <4>1. CASE Base = 16
        BY <2>4, <2>5, <4>1
      <4>2. CASE Base = 256
        BY <2>4, <2>5, <4>2
      <4> QED
        BY <4>1, <4>2, BaseIs
    <3> QED
      BY <3>1, ModAdds
  <2>12. (a + y) + Base * (k + c) = (a + Base * k) + (y + Base * c)
    <3>1. CASE Base = 16
      BY <2>4, <2>5, <2>c, <3>1
    <3>2. CASE Base = 256
      BY <2>4, <2>5, <2>c, <3>2
    <3> QED
      BY <3>1, <3>2, BaseIs
  <2>13. val[i] = (val[i - 1] + (y % Base)) % Word
    BY <2>7, <2>9, <2>10, <2>11, <2>12
  <2> QED
    BY <2>13 DEF y
<1>8. ASSUME NEW i \in 1 .. n PROVE val[i] = Comes("parse", val[i - 1], q[i])
  <2>1. CASE q[i].delta
    BY <1>7, <2>1 DEF Comes, Change
  <2>2. CASE ~ q[i].delta
    BY <1>5, <2>2 DEF Comes
  <2> QED
    BY <2>1, <2>2
<1> QED
  BY <1>4, <1>8

\* parse reads of an entry what Astray says.
LEMMA AstrayFollows ==
  ASSUME NEW e \in GroupEntries, Steady(e)
  PROVE  Follows(e, Astray(e).points, "parse")
<1> DEFINE n == Len(e.points)
           val == Astray(e).points
           x == [i \in 1 .. n |-> e.points[i].x]
           z == [i \in 1 .. n |-> e.points[i].z]
           Cx(i) == Cardinality({k \in 2 .. i : e.points[k].x.by < 0 /\ \A m \in k .. i : e.points[m].x.delta})
           Cz(i) == Cardinality({k \in 2 .. i : e.points[k].z.by < 0 /\ \A m \in k .. i : e.points[m].z.delta})
           vx == [i \in 1 .. n |-> (e.points[i].x.at + Base * Cx(i)) % Word]
           vz == [i \in 1 .. n |-> (e.points[i].z.at + Base * Cz(i)) % Word]
<1>1. /\ n \in Nat
      /\ \A i \in 1 .. n : e.points[i].x \in Coords /\ e.points[i].z \in Coords
  BY EntryType
<1>2. val = [i \in 1 .. n |-> <<vx[i], vz[i]>>]
  BY DEF Astray
<1>3. \A i \in 1 .. n :
        /\ {k \in 2 .. i : x[k].by < 0 /\ \A m \in k .. i : x[m].delta}
           = {k \in 2 .. i : e.points[k].x.by < 0 /\ \A m \in k .. i : e.points[m].x.delta}
        /\ {k \in 2 .. i : z[k].by < 0 /\ \A m \in k .. i : z[m].delta}
           = {k \in 2 .. i : e.points[k].z.by < 0 /\ \A m \in k .. i : e.points[m].z.delta}
  <2> TAKE i \in 1 .. n
  <2>1. \A k \in 2 .. i : k \in 1 .. n /\ \A m \in k .. i : m \in 1 .. n
    BY <1>1
  <2>2. \A k \in 1 .. n : x[k] = e.points[k].x /\ z[k] = e.points[k].z
    OBVIOUS
  <2> HIDE DEF x, z
  <2> QED
    BY <2>1, <2>2
<1>4. n > 0 => ~ e.points[1].x.delta /\ ~ e.points[1].z.delta
  <2>1. n > 0 => e.points # <<>>
    BY <1>1
  <2> QED
    BY <2>1 DEF Steady, Firm
<1>5. \A i \in 1 .. n : vx[i] \in Nat /\ vx[i] = Comes("parse", vx[i - 1], e.points[i].x)
  <2>1. \A i \in 1 .. n : x[i] \in Coords
    BY <1>1
  <2>2. n > 0 => ~ x[1].delta
    BY <1>4
  <2>3. ASSUME NEW i \in 2 .. n, x[i].delta
        PROVE  IsByte(x[i].by) /\ x[i].at = (x[i - 1].at + x[i].by) % Word
    <3>1. i \in 1 .. n /\ i - 1 \in 1 .. n /\ i \in 2 .. Len(e.points)
      BY <1>1
    <3>2. x[i] = e.points[i].x /\ x[i - 1] = e.points[i - 1].x
      BY <3>1
    <3> HIDE DEF x
    <3>3. e.points[i].x.delta
      BY <2>3, <3>2
    <3>4. IsByte(e.points[i].x.by) /\ e.points[i].x.at = (e.points[i - 1].x.at + e.points[i].x.by) % Word
      BY <3>1, <3>3 DEF Steady
    <3> QED
      BY <3>2, <3>4
  <2>4. \A i \in 1 .. n : vx[i] = (x[i].at + Base * Cardinality(
                            {k \in 2 .. i : x[k].by < 0 /\ \A m \in k .. i : x[m].delta})) % Word
    BY <1>3
  <2> HIDE DEF x, vx
  <2>5. StrayPath(n, x, vx)
    BY ONLY <2>1, <2>2, <2>3, <2>4 DEF StrayPath
  <2>6. n \in Nat
    BY <1>1
  <2> HIDE DEF n
  <2>7. \A i \in 1 .. n : vx[i] \in Nat /\ vx[i] = Comes("parse", vx[i - 1], x[i])
    BY ONLY <2>5, <2>6, StraysOn
  <2> QED
    BY <2>7 DEF x
<1>6. \A i \in 1 .. n : vz[i] \in Nat /\ vz[i] = Comes("parse", vz[i - 1], e.points[i].z)
  <2>1. \A i \in 1 .. n : z[i] \in Coords
    BY <1>1
  <2>2. n > 0 => ~ z[1].delta
    BY <1>4
  <2>3. ASSUME NEW i \in 2 .. n, z[i].delta
        PROVE  IsByte(z[i].by) /\ z[i].at = (z[i - 1].at + z[i].by) % Word
    <3>1. i \in 1 .. n /\ i - 1 \in 1 .. n /\ i \in 2 .. Len(e.points)
      BY <1>1
    <3>2. z[i] = e.points[i].z /\ z[i - 1] = e.points[i - 1].z
      BY <3>1
    <3> HIDE DEF z
    <3>3. e.points[i].z.delta
      BY <2>3, <3>2
    <3>4. IsByte(e.points[i].z.by) /\ e.points[i].z.at = (e.points[i - 1].z.at + e.points[i].z.by) % Word
      BY <3>1, <3>3 DEF Steady
    <3> QED
      BY <3>2, <3>4
  <2>4. \A i \in 1 .. n : vz[i] = (z[i].at + Base * Cardinality(
                            {k \in 2 .. i : z[k].by < 0 /\ \A m \in k .. i : z[m].delta})) % Word
    BY <1>3
  <2> HIDE DEF z, vz
  <2>5. StrayPath(n, z, vz)
    BY ONLY <2>1, <2>2, <2>3, <2>4 DEF StrayPath
  <2>6. n \in Nat
    BY <1>1
  <2> HIDE DEF n
  <2>7. \A i \in 1 .. n : vz[i] \in Nat /\ vz[i] = Comes("parse", vz[i - 1], z[i])
    BY ONLY <2>5, <2>6, StraysOn
  <2> QED
    BY <2>7 DEF z
<1> HIDE DEF vx, vz, val, n
<1>7. val \in [1 .. n -> Nat \X Nat] /\ \A i \in 1 .. n : val[i][1] = vx[i] /\ val[i][2] = vz[i]
  BY <1>2, <1>5, <1>6
<1>8. ASSUME NEW i \in 1 .. n
      PROVE  /\ val[i][1] = Comes("parse", val[i - 1][1], e.points[i].x)
             /\ val[i][2] = Comes("parse", val[i - 1][2], e.points[i].z)
  <2>1. CASE i = 1
    <3>1. ~ e.points[i].x.delta /\ ~ e.points[i].z.delta
      BY <1>1, <1>4, <1>8, <2>1
    <3> QED
      BY <1>5, <1>6, <1>7, <3>1 DEF Comes
  <2>2. CASE i # 1
    <3>1. i - 1 \in 1 .. n
      BY <1>1, <2>2
    <3> QED
      BY <1>5, <1>6, <1>7, <3>1
  <2> QED
    BY <2>1, <2>2
<1> QED
  BY <1>7, <1>8 DEF Follows, val, n

-----------------------------------------------------------------------------
(* A group's entries, as many as arrive                                    *)

\* The entries one after the other, as parse_entries takes them.
EntryStep(buf, d) ==
  LET e == Entry(buf, d.at, Signed) IN [at |-> e.at, paths |-> Append(d.paths, e.path)]
Dones(d, buf, count) ==
  d = [i \in 0 .. count |-> IF i = 0 THEN [at |-> 0, paths |-> <<>>] ELSE EntryStep(buf, d[i - 1])]

\* The entries can be taken one after the other, however many.
LEMMA DonesExist ==
  ASSUME NEW buf, NEW count \in Nat
  PROVE  \E d : Dones(d, buf, count)
<1> DEFINE S == {m \in Nat : \E d : Dones(d, buf, m)}
<1>1. 0 \in S
  <2> DEFINE d == [i \in 0 .. 0 |-> [at |-> 0, paths |-> <<>>]]
  <2>1. d = [i \in 0 .. 0 |-> IF i = 0 THEN [at |-> 0, paths |-> <<>>] ELSE EntryStep(buf, d[i - 1])]
    OBVIOUS
  <2> HIDE DEF d
  <2>2. Dones(d, buf, 0)
    BY <2>1 DEF Dones
  <2> QED
    BY <2>2
<1>2. ASSUME NEW m \in S PROVE m + 1 \in S
  <2>1. PICK d : Dones(d, buf, m)
    OBVIOUS
  <2>0. m \in Nat
    OBVIOUS
  <2> DEFINE v == [i \in 0 .. m + 1 |-> IF i = m + 1 THEN EntryStep(buf, d[m]) ELSE d[i]]
  <2>2. ASSUME NEW i \in 0 .. m + 1
        PROVE  v[i] = IF i = 0 THEN [at |-> 0, paths |-> <<>>] ELSE EntryStep(buf, v[i - 1])
    <3>1. CASE i = m + 1
      <4>1. v[i] = EntryStep(buf, d[m])
        BY <3>1
      <4>2. i # 0 /\ i - 1 = m /\ v[m] = d[m]
        BY <2>0, <3>1
      <4> HIDE DEF v
      <4> QED
        BY <3>1, <4>1, <4>2
    <3>2. CASE i # m + 1
      <4>1. v[i] = d[i] /\ i \in 0 .. m
        BY <2>0, <2>2, <3>2
      <4>2. d[i] = IF i = 0 THEN [at |-> 0, paths |-> <<>>] ELSE EntryStep(buf, d[i - 1])
        BY <2>1, <4>1 DEF Dones
      <4>3. i # 0 => v[i - 1] = d[i - 1]
        BY <2>0, <4>1
      <4> HIDE DEF v
      <4> QED
        BY <4>1, <4>2, <4>3
    <3> QED
      BY <3>1, <3>2
  <2>3. v = [i \in 0 .. m + 1 |-> v[i]]
    OBVIOUS
  <2> HIDE DEF v
  <2>4. Dones(v, buf, m + 1)
    <3>1. [i \in 0 .. m + 1 |-> v[i]]
          = [i \in 0 .. m + 1 |-> IF i = 0 THEN [at |-> 0, paths |-> <<>>] ELSE EntryStep(buf, v[i - 1])]
      BY <2>2, Zenon
    <3> QED
      BY <2>3, <3>1, Zenon DEF Dones
  <2> QED
    BY <2>0, <2>4
<1>3. S = Nat
  <2> HIDE DEF S
  <2>1. S \in SUBSET Nat
    BY DEF S
  <2> QED
    BY <1>1, <1>2, <2>1, UpFromZero
<1> QED
  BY <1>3

\* parse_entries takes them so.
LEMMA ParseEntriesDone ==
  ASSUME NEW buf, NEW count \in Nat
  PROVE  \E d : /\ Dones(d, buf, count)
                /\ parse_entries(buf, count) = IF d[count].at = Len(buf) THEN d[count].paths ELSE Failed
<1> DEFINE done == CHOOSE done : done = [i \in 0 .. count |->
                     IF i = 0 THEN [at |-> 0, paths |-> <<>>] ELSE EntryStep(buf, done[i - 1])]
<1>1. parse_entries(buf, count) = IF done[count].at = Len(buf) THEN done[count].paths ELSE Failed
  BY Zenon DEF parse_entries, EntryStep
<1>2. PICK d : Dones(d, buf, count)
  BY DonesExist
<1>3. d = [i \in 0 .. count |-> IF i = 0 THEN [at |-> 0, paths |-> <<>>] ELSE EntryStep(buf, d[i - 1])]
  BY <1>2, Zenon DEF Dones
<1>4. done = [i \in 0 .. count |-> IF i = 0 THEN [at |-> 0, paths |-> <<>>] ELSE EntryStep(buf, done[i - 1])]
  BY <1>3, Zenon
<1> HIDE DEF done
<1>5. Dones(done, buf, count)
  BY <1>4, Zenon DEF Dones
<1> QED
  BY <1>1, <1>5, Zenon

\* A group as the game makes it, its entries' bytes joined one by one, and a
\* buffer of as many of them as arrive.
SteadyGroup(g) == g \in Seq(GroupEntries) /\ \A i \in 1 .. Len(g) : Steady(g[i])
EntryBytes(g) == [i \in DOMAIN g |-> BytesOf(g[i])]
Parts(g, f) == SteadyGroup(g) /\ f \in [0 .. Len(g) -> Seq(Nat)] /\ Joins(f, EntryBytes(g))
Arrived(g, f, buf) ==
  /\ Parts(g, f) /\ buf \in Seq(Nat) /\ Len(buf) <= Len(f[Len(g)])
  /\ \A k \in 1 .. Len(buf) : buf[k] = f[Len(g)][k]

\* A group's bytes are its entries'.
LEMMA EntryBytesAre ==
  ASSUME NEW g \in Seq(GroupEntries)
  PROVE  /\ EntryBytes(g) \in Seq(Seq(Nat)) /\ Len(EntryBytes(g)) = Len(g)
         /\ \A i \in 1 .. Len(g) : EntryBytes(g)[i] = BytesOf(g[i])
<1>1. ASSUME NEW e \in GroupEntries PROVE BytesOf(e) \in Seq(Nat)
  BY EntryIsLaid DEF LaidOut
<1>2. DOMAIN g = 1 .. Len(g) /\ Len(g) \in Nat /\ \A i \in 1 .. Len(g) : g[i] \in GroupEntries
  OBVIOUS
<1> DEFINE n == Len(g)
<1> HIDE DEF n
<1>3. EntryBytes(g) = [i \in 1 .. n |-> BytesOf(g[i])] /\ n \in Nat
  BY <1>2 DEF EntryBytes, n
<1>4. EntryBytes(g) \in [1 .. n -> Seq(Nat)]
  BY <1>1, <1>2, <1>3 DEF n
<1> DEFINE b == EntryBytes(g)
           T == Seq(Nat)
<1>5. b \in [1 .. n -> T] /\ n \in Nat
  BY <1>3, <1>4
<1>6. \A i \in 1 .. n : b[i] = BytesOf(g[i])
  BY <1>3
<1> HIDE DEF b, T
<1>7. b \in Seq(T) /\ Len(b) = n
  BY ONLY <1>5
<1> QED
  BY <1>6, <1>7 DEF b, T, n

\* The group's bytes, and those of its first entries, are joined one by one.
LEMMA PartsExist ==
  ASSUME NEW g, SteadyGroup(g)
  PROVE  \E f : /\ Parts(g, f) /\ GroupBytes(g) = f[Len(g)]
                /\ \A k \in 0 .. Len(g) : GroupBytes(SubSeq(g, 1, k)) = f[k]
<1>1. g \in Seq(GroupEntries) /\ Len(g) \in Nat
  BY DEF SteadyGroup
<1>2. PICK f \in [0 .. Len(EntryBytes(g)) -> Seq(Nat)] :
        Joins(f, EntryBytes(g)) /\ FlattenSeq(EntryBytes(g)) = f[Len(EntryBytes(g))]
  BY <1>1, EntryBytesAre, FlattenJoins
<1>3. f \in [0 .. Len(g) -> Seq(Nat)] /\ GroupBytes(g) = f[Len(g)]
  <2>1. GroupBytes(g) = FlattenSeq(EntryBytes(g))
    BY Zenon DEF GroupBytes, EntryBytes
  <2>2. Len(EntryBytes(g)) = Len(g)
    BY <1>1, EntryBytesAre
  <2> QED
    BY <1>2, <2>1, <2>2
<1>4. ASSUME NEW k \in 0 .. Len(g) PROVE GroupBytes(SubSeq(g, 1, k)) = f[k]
  <2> DEFINE h == SubSeq(g, 1, k)
             s == EntryBytes(g)
             t == EntryBytes(h)
  <2>1. h \in Seq(GroupEntries) /\ Len(h) = k /\ k \in Nat /\ k <= Len(g) /\ \A i \in 1 .. k : h[i] = g[i]
    BY <1>1
  <2> HIDE DEF h
  <2>2. /\ t \in Seq(Seq(Nat)) /\ Len(t) = k /\ \A i \in 1 .. k : t[i] = BytesOf(g[i])
    BY <2>1, EntryBytesAre
  <2>3. s \in Seq(Seq(Nat)) /\ Len(s) = Len(g) /\ \A i \in 1 .. Len(g) : s[i] = BytesOf(g[i])
    BY <1>1, EntryBytesAre
  <2>4. PICK u \in [0 .. Len(t) -> Seq(Nat)] : Joins(u, t) /\ FlattenSeq(t) = u[Len(t)]
    BY <2>2, FlattenJoins
  <2>5. \A i \in 1 .. k : s[i] = t[i]
    BY <1>1, <2>1, <2>2, <2>3
  <2>6. GroupBytes(h) = FlattenSeq(t)
    BY Zenon DEF GroupBytes, EntryBytes
  <2>7. Joins(f, s)
    BY <1>2
  <2> DEFINE X == Nat
  <2> HIDE DEF s, t
  <2>8. u[k] = f[k]
    <3>1. k <= Len(s) /\ k <= Len(t) /\ k \in Nat
      BY <2>1, <2>2, <2>3
    <3>2. s \in Seq(Seq(Nat)) /\ t \in Seq(Seq(Nat)) /\ Joins(u, t)
      BY <2>2, <2>3, <2>4
    <3>3. Len(s) \in Nat /\ Len(t) \in Nat
      BY <2>1, <2>2, <2>3, <1>1
    <3>4. BothJoin(s, t, k, f, u)
      BY ONLY <2>5, <2>7, <3>1, <3>2, <3>3 DEF BothJoin
    <3> QED
      BY ONLY <3>4, JoinsAgree
  <2> QED
    BY <2>2, <2>4, <2>6, <2>8 DEF h
<1> QED
  BY <1>2, <1>3, <1>4 DEF Parts

\* Each entry of the group stands in the buffer, as far as it has arrived.
LEMMA ArrivedReads ==
  ASSUME NEW g, NEW f, NEW buf, Arrived(g, f, buf), NEW i \in 1 .. Len(g)
  PROVE  /\ \E C : Reading(g[i], BytesOf(g[i]), C, buf, Len(f[i - 1]))
         /\ Len(f[i - 1]) \in Nat /\ Len(f[i]) \in Nat
         /\ Len(BytesOf(g[i])) \in Nat /\ Len(BytesOf(g[i])) >= 3
         /\ Len(f[i]) = Len(f[i - 1]) + Len(BytesOf(g[i]))
<1> DEFINE s == EntryBytes(g)
           n == Len(g)
           b == BytesOf(g[i])
           off == Len(f[i - 1])
           last == f[n]
<1>1. /\ g \in Seq(GroupEntries) /\ n \in Nat /\ g[i] \in GroupEntries /\ Steady(g[i])
      /\ i - 1 \in 0 .. n /\ i \in 0 .. n /\ n \in 0 .. n
  BY DEF Arrived, Parts, SteadyGroup
<1>2. s \in Seq(Seq(Nat)) /\ Len(s) = n /\ s[i] = b
  BY <1>1, EntryBytesAre
<1>3. f \in [0 .. Len(s) -> Seq(Nat)] /\ Joins(f, s)
  BY <1>2 DEF Arrived, Parts
<1>4. PICK C : LaidOut(g[i], b, C)
  BY <1>1, EntryIsLaid
<1>5. off \in Nat /\ Len(f[i]) \in Nat
  <2>1. f[i - 1] \in Seq(Nat) /\ f[i] \in Seq(Nat)
    BY <1>1, <1>2, <1>3
  <2> QED
    BY <2>1
<1>6. Len(b) \in Nat /\ Len(b) >= 3
  <2>1. FrontOf(g[i]) \in Nat /\ FrontOf(g[i]) >= 3 + g[i].extra /\ FrontOf(g[i]) <= Len(b) /\ Len(b) \in Nat
    BY <1>1, <1>4, OffsetsGrow
  <2>2. g[i].extra \in {0, 1}
    BY <1>1, EntryType
  <2> HIDE DEF b
  <2> QED
    BY <2>1, <2>2
<1>7. /\ \A k \in 1 .. Len(s) : Len(f[k]) = Len(f[k - 1]) + Len(s[k])
      /\ \A k \in 0 .. Len(s) : Placed(f, s, k)
  <2> HIDE DEF s
  <2> QED
    BY <1>2, <1>3, JoinsPlaces
<1>8. Len(f[i]) = off + Len(b)
  BY <1>2, <1>7
<1>9. \A k \in 1 .. Len(b) : last[off + k] = b[k]
  <2>1. Placed(f, s, n)
    BY <1>1, <1>2, <1>7
  <2> HIDE DEF s, b
  <2>2. \A k \in 1 .. Len(s[i]) : last[off + k] = s[i][k]
    BY <2>1 DEF Placed
  <2> QED
    BY <1>2, <2>2
<1>10. Holds(buf, off, b)
  <2> SUFFICES ASSUME NEW k \in 1 .. Len(b), off + k <= Len(buf) PROVE buf[off + k] = b[k]
    BY DEF Holds
  <2>1. Len(buf) \in Nat /\ \A m \in 1 .. Len(buf) : buf[m] = last[m]
    BY DEF Arrived
  <2> HIDE DEF b, off, last
  <2>2. off + k \in 1 .. Len(buf)
    BY <1>5, <1>6, <2>1
  <2> QED
    BY <1>9, <2>1, <2>2
<1>11. Reading(g[i], b, C, buf, off)
  <2>1. buf \in Seq(Nat) /\ Firm(g[i])
    BY <1>1 DEF Arrived, Steady
  <2> HIDE DEF b, off
  <2> QED
    BY <1>1, <1>4, <1>5, <1>10, <2>1 DEF Reading
<1> HIDE DEF s
<1> QED
  BY <1>5, <1>6, <1>8, <1>11

\* What a group's entries are, read from its bytes.
Meants(g) == [i \in 1 .. Len(g) |-> Meant(g[i])]

\* A list by a rule, one longer.
LEMMA RuleGrows ==
  ASSUME NEW U, NEW n \in Nat, NEW w \in [1 .. n -> U], NEW i \in Nat, i + 1 <= n
  PROVE  Append([k \in 1 .. i |-> w[k]], w[i + 1]) = [k \in 1 .. i + 1 |-> w[k]]
<1>1. [k \in 1 .. i |-> w[k]] \in Seq(U) /\ Len([k \in 1 .. i |-> w[k]]) = i
  OBVIOUS
<1> DEFINE a == [k \in 1 .. i |-> w[k]]
           x == w[i + 1]
<1>2. \A k \in 1 .. i : a[k] = w[k]
  OBVIOUS
<1>3. x \in U
  OBVIOUS
<1> HIDE DEF a, x
<1>4. a \in Seq(U) /\ Len(a) = i
  BY <1>1 DEF a
<1>5. Append(a, x) \in Seq(U) /\ Len(Append(a, x)) = i + 1 /\ Append(a, x)[i + 1] = x
      /\ \A k \in 1 .. i : Append(a, x)[k] = a[k]
  BY <1>3, <1>4
<1> DEFINE c == Append(a, x)
           d == [k \in 1 .. i + 1 |-> w[k]]
<1>6. \A k \in 1 .. i + 1 : d[k] = w[k]
  OBVIOUS
<1>7. d = [k \in 1 .. i + 1 |-> d[k]]
  OBVIOUS
<1> HIDE DEF c
<1>8. c = [k \in 1 .. i + 1 |-> c[k]]
  <2>1. c \in Seq(U) /\ Len(c) = i + 1
    BY <1>5 DEF c
  <2> QED
    BY ONLY <2>1
<1>9. \A k \in 1 .. i + 1 : c[k] = d[k]
  <2> TAKE k \in 1 .. i + 1
  <2>1. CASE k = i + 1
    BY <1>5, <1>6, <2>1 DEF c, x
  <2>2. CASE k # i + 1
    <3>1. k \in 1 .. i
      BY <2>2
    <3> QED
      BY <1>2, <1>5, <1>6, <3>1 DEF c
  <2> QED
    BY <2>1, <2>2
<1>10. c = d
  <2> HIDE DEF d
  <2> QED
    BY <1>7, <1>8, <1>9
<1> QED
  BY <1>10 DEF c, a, x

\* parse_entries takes the group's entries as long as they are whole, and stands
\* past the end from the first that is not.
LEMMA DonesRead ==
  ASSUME NEW g, NEW f, NEW buf, Arrived(g, f, buf), NEW count \in Nat, NEW d, Dones(d, buf, count)
  PROVE  \A i \in 0 .. count :
           /\ d[i].at \in Nat
           /\ IF i <= Len(g) /\ Len(f[i]) <= Len(buf)
              THEN d[i].at = Len(f[i]) /\ d[i].paths = [k \in 1 .. i |-> Meants(g)[k]]
              ELSE d[i].at > Len(buf)
<1> DEFINE n == Len(g)
           whole(i) == i <= n /\ Len(f[i]) <= Len(buf)
           Right(i) == /\ d[i].at \in Nat
                       /\ whole(i) => d[i].at = Len(f[i]) /\ d[i].paths = [k \in 1 .. i |-> Meants(g)[k]]
                       /\ ~ whole(i) => d[i].at > Len(buf)
           S == {i \in Nat : i <= count => Right(i)}
<1>1. n \in Nat /\ buf \in Seq(Nat) /\ Len(buf) \in Nat /\ f[0] = <<>> /\ Len(buf) <= Len(f[n])
      /\ g \in Seq(GroupEntries) /\ \A i \in 1 .. n : g[i] \in GroupEntries /\ Steady(g[i])
  BY DEF Arrived, Parts, SteadyGroup, Joins
<1>r. \A m \in 1 .. n :
        /\ \E C : Reading(g[m], BytesOf(g[m]), C, buf, Len(f[m - 1]))
        /\ Len(f[m - 1]) \in Nat /\ Len(f[m]) \in Nat
        /\ Len(BytesOf(g[m])) \in Nat /\ Len(BytesOf(g[m])) >= 3
        /\ Len(f[m]) = Len(f[m - 1]) + Len(BytesOf(g[m]))
  BY ArrivedReads
<1>2. 0 \in S
  <2>1. d[0] = [at |-> 0, paths |-> <<>>]
    BY DEF Dones
  <2>2. d[0].at = 0 /\ d[0].paths = <<>>
    BY <2>1
  <2>3. Len(f[0]) = 0 /\ [k \in 1 .. 0 |-> Meants(g)[k]] = <<>>
    BY <1>1
  <2>4. whole(0)
    BY <1>1, <2>3
  <2>5. Right(0)
    BY <1>1, <2>2, <2>3, <2>4
  <2> QED
    BY <2>5
<1>3. ASSUME NEW i \in S PROVE i + 1 \in S
  <2> SUFFICES ASSUME i + 1 <= count PROVE Right(i + 1)
    <3> HIDE DEF Right
    <3> QED
      OBVIOUS
  <2>0. i \in Nat /\ Right(i)
    <3> HIDE DEF Right
    <3> QED
      OBVIOUS
  <2>1. d[i + 1] = EntryStep(buf, d[i])
    <3>1. i + 1 \in 0 .. count /\ i + 1 # 0 /\ (i + 1) - 1 = i
      BY <2>0
    <3> QED
      BY <3>1 DEF Dones
  <2> DEFINE off == d[i].at
             r == Entry(buf, off, Signed)
  <2>2. d[i + 1].at = r.at /\ d[i + 1].paths = Append(d[i].paths, r.path)
    BY <2>1 DEF EntryStep
  <2>3. off \in Nat
    BY <2>0
  <2>4. ReadAs(buf, off, "read", r)
    <3> HIDE DEF off
    <3> QED
      BY <1>1, <2>3, EntryIsReadAs
  <2> HIDE DEF off, r
  <2>5. CASE off >= Len(buf)
    <3>1. r.at = off + 3
      BY <1>1, <2>3, <2>4, <2>5, PastEntryRead
    <3>2. ~ whole(i + 1)
      <4> SUFFICES ASSUME whole(i + 1) PROVE FALSE
        OBVIOUS
      <4>1. i + 1 \in 1 .. Len(g) /\ (i + 1) - 1 = i
        BY <1>1, <2>0
      <4>2. Len(f[i]) \in Nat /\ Len(f[i + 1]) \in Nat /\ Len(f[i + 1]) >= Len(f[i]) + 3
        <5> DEFINE l == Len(f[i + 1])
                   m == Len(f[i])
                   o == Len(BytesOf(g[i + 1]))
        <5>1. m \in Nat /\ l \in Nat /\ o \in Nat /\ o >= 3 /\ l = m + o
          BY <1>r, <4>1
        <5> HIDE DEF l, m, o
        <5>2. m \in Nat /\ l \in Nat /\ l >= m + 3
          BY ONLY <5>1
        <5> QED
          BY <5>2 DEF l, m
      <4>3. whole(i)
        BY <1>1, <2>0, <4>2
      <4>4. off = Len(f[i])
        BY <2>0, <4>3 DEF off
      <4> QED
        BY <1>1, <2>5, <4>2, <4>4
    <3>3. d[i + 1].at \in Nat /\ d[i + 1].at > Len(buf)
      BY <1>1, <2>2, <2>3, <2>5, <3>1
    <3> QED
      BY <3>2, <3>3
  <2>6. CASE off < Len(buf)
    <3>1. whole(i)
      BY <1>1, <2>0, <2>3, <2>6 DEF off
    <3>2. off = Len(f[i]) /\ d[i].paths = [k \in 1 .. i |-> Meants(g)[k]]
      BY <2>0, <3>1 DEF off
    <3>3. i # n
      BY <1>1, <2>3, <2>6, <3>2
    <3>4. i + 1 \in 1 .. n /\ (i + 1) - 1 = i
      BY <1>1, <2>0, <3>1, <3>3
    <3> DEFINE e == g[i + 1]
               b == BytesOf(e)
    <3>5. /\ \E C : Reading(e, b, C, buf, off)
          /\ Len(b) \in Nat /\ Len(f[i + 1]) \in Nat /\ Len(f[i + 1]) = off + Len(b)
      BY <1>r, <3>2, <3>4
    <3>6. PICK C : Reading(e, b, C, buf, off)
      BY <3>5
    <3>7. e \in GroupEntries /\ Steady(e)
      BY <1>1, <3>4
    <3> HIDE DEF e, b
    <3>8. CASE off + Len(b) <= Len(buf)
      <4>1. r = [at |-> off + Len(b), path |-> [unit |-> e.unit, points |-> Meant(e).points]]
        BY <2>4, <3>6, <3>7, <3>8, MeantFollows, WholeEntryRead
      <4>2. r.at = off + Len(b) /\ r.path = Meant(e)
        <5>1. Meant(e) = [unit |-> e.unit, points |-> Meant(e).points]
          BY DEF Meant
        <5> QED
          BY <4>1, <5>1
      <4>3. Meants(g)[i + 1] = Meant(e)
        BY <3>4 DEF Meants, e
      <4>4. d[i + 1].paths = [k \in 1 .. i + 1 |-> Meants(g)[k]]
        <5> DEFINE w == Meants(g)
                   U == {Meant(g[k]) : k \in 1 .. n}
        <5>1. w \in [1 .. n -> U] /\ i + 1 <= n
          BY <3>4 DEF Meants
        <5> HIDE DEF w, U
        <5>2. Append([k \in 1 .. i |-> w[k]], w[i + 1]) = [k \in 1 .. i + 1 |-> w[k]]
          BY <1>1, <2>0, <5>1, RuleGrows
        <5> QED
          BY <2>2, <3>2, <4>2, <4>3, <5>2, Zenon DEF w
      <4>5. whole(i + 1)
        BY <3>4, <3>5, <3>8
      <4>6. d[i + 1].at = Len(f[i + 1]) /\ d[i + 1].at \in Nat
        BY <2>2, <3>5, <4>2
      <4> QED
        BY <4>4, <4>5, <4>6
    <3>9. CASE ~ (off + Len(b) <= Len(buf))
      <4>1. r.at \in Nat /\ r.at > Len(buf)
        BY <2>4, <3>6, <3>9, CutEntryRead
      <4>2. ~ whole(i + 1)
        BY <3>5, <3>9
      <4> QED
        BY <2>2, <4>1, <4>2
    <3> QED
      BY <3>8, <3>9
  <2> QED
    BY <1>1, <2>3, <2>5, <2>6
<1>4. S = Nat
  <2> HIDE DEF S
  <2>1. S \in SUBSET Nat
    BY DEF S
  <2> QED
    BY <1>2, <1>3, <2>1, UpFromZero
<1>5. \A i \in 0 .. count : Right(i)
  <2> HIDE DEF Right
  <2> QED
    BY <1>4
<1> QED
  BY <1>5

\* parse_entries gives what was meant if so many entries fill the buffer.
LEMMA ParseEntriesIs ==
  ASSUME NEW g, NEW f, NEW buf, Arrived(g, f, buf), NEW count \in Nat
  PROVE  parse_entries(buf, count) = IF count <= Len(g) /\ Len(f[count]) = Len(buf)
                                     THEN [k \in 1 .. count |-> Meants(g)[k]] ELSE Failed
<1>1. PICK d : /\ Dones(d, buf, count)
               /\ parse_entries(buf, count) = IF d[count].at = Len(buf) THEN d[count].paths ELSE Failed
  BY ParseEntriesDone
<1> DEFINE w == [k \in 1 .. count |-> Meants(g)[k]]
           at == d[count].at
           l == Len(buf)
           m == Len(f[count])
<1>2. /\ at \in Nat
      /\ IF count <= Len(g) /\ m <= l THEN at = m /\ d[count].paths = w ELSE at > l
  <2>1. count \in 0 .. count
    OBVIOUS
  <2> QED
    BY <1>1, <2>1, DonesRead
<1>3. l \in Nat /\ Len(g) \in Nat
  BY DEF Arrived, Parts, SteadyGroup
<1>4. count <= Len(g) => m \in Nat
  <2>1. count <= Len(g) => f[count] \in Seq(Nat)
    BY <1>3 DEF Arrived, Parts
  <2> QED
    BY <2>1
<1>5. parse_entries(buf, count) = IF at = l THEN d[count].paths ELSE Failed
  BY <1>1
<1> HIDE DEF w, at, l, m
<1>6. CASE count <= Len(g) /\ m = l
  BY <1>2, <1>3, <1>5, <1>6 DEF w, l, m
<1>7. CASE ~ (count <= Len(g) /\ m = l)
  <2>1. at # l
    BY <1>2, <1>3, <1>4, <1>7
  <2> QED
    BY <1>5, <1>7, <2>1 DEF l, m
<1> QED
  BY <1>6, <1>7

\* The buffer is as long as its first entries only if it is their bytes.
LEMMA FillsIs ==
  ASSUME NEW g, NEW f, NEW buf, Arrived(g, f, buf), NEW count \in 0 .. Len(g)
  PROVE  Len(f[count]) = Len(buf) <=> buf = f[count]
<1> DEFINE s == EntryBytes(g)
           n == Len(g)
           a == f[count]
           last == f[n]
<1>1. n \in Nat /\ n \in 0 .. n /\ count \in 0 .. n /\ g \in Seq(GroupEntries)
  BY DEF Arrived, Parts, SteadyGroup
<1>2. s \in Seq(Seq(Nat)) /\ Len(s) = n
  BY <1>1, EntryBytesAre
<1>3. f \in [0 .. Len(s) -> Seq(Nat)] /\ Joins(f, s)
  BY <1>2 DEF Arrived, Parts
<1>4. \A k \in 1 .. Len(a) : last[k] = a[k]
  <2> HIDE DEF s
  <2>1. Extends(f, Len(s))
    BY <1>2, <1>3, JoinsBegin
  <2> QED
    BY <1>1, <1>2, <2>1 DEF Extends
<1>5. a \in Seq(Nat)
  BY <1>1, <1>2, <1>3
<1>6. buf \in Seq(Nat) /\ \A k \in 1 .. Len(buf) : buf[k] = last[k]
  BY DEF Arrived
<1> HIDE DEF a, last
<1>7. ASSUME Len(a) = Len(buf) PROVE buf = a
  <2>1. \A k \in 1 .. Len(buf) : buf[k] = a[k]
    BY <1>4, <1>6, <1>7
  <2> QED
    BY ONLY <1>5, <1>6, <1>7, <2>1
<1> QED
  BY <1>7 DEF a

\* A buffer and a count as they are delivered.
Sent(g, buf, count) ==
  /\ SteadyGroup(g) /\ g # <<>> /\ count \in Nat
  /\ \E cut \in Nat : /\ cut <= Len(GroupBytes(g))
                      /\ buf = SubSeq(GroupBytes(g), 1, Len(GroupBytes(g)) - cut)

\* What is delivered is a group's bytes, as many as arrive.
LEMMA SentArrives ==
  ASSUME NEW g, NEW buf, NEW count, Sent(g, buf, count)
  PROVE  \E f : Arrived(g, f, buf) /\ \A k \in 0 .. Len(g) : GroupBytes(SubSeq(g, 1, k)) = f[k]
<1>1. PICK f : /\ Parts(g, f) /\ GroupBytes(g) = f[Len(g)]
               /\ \A k \in 0 .. Len(g) : GroupBytes(SubSeq(g, 1, k)) = f[k]
  BY PartsExist DEF Sent
<1> DEFINE b == GroupBytes(g)
<1>2. b \in Seq(Nat)
  <2>1. Len(g) \in 0 .. Len(g)
    BY DEF Sent, SteadyGroup
  <2> QED
    BY <1>1, <2>1 DEF Parts
<1>3. PICK cut \in Nat : cut <= Len(b) /\ buf = SubSeq(b, 1, Len(b) - cut)
  BY DEF Sent
<1> HIDE DEF b
<1>4. buf \in Seq(Nat) /\ Len(buf) <= Len(b) /\ \A k \in 1 .. Len(buf) : buf[k] = b[k]
  <2>1. Len(b) - cut \in 0 .. Len(b)
    BY <1>2, <1>3
  <2> DEFINE m == Len(b) - cut
  <2> HIDE DEF m
  <2>2. m \in 0 .. Len(b) /\ buf = SubSeq(b, 1, m)
    BY <1>3, <2>1 DEF m
  <2> QED
    BY ONLY <1>2, <2>2
<1> QED
  BY <1>1, <1>4 DEF Arrived, b

\* What ReadersAgree says of read.
Given(g, buf, count) ==
  LET first == SubSeq(g, 1, count)
  IN  /\ count \in 1 .. Len(g) /\ count <= MAX_ENTRIES
      /\ Len(buf) <= MAX_BUFFER /\ buf = GroupBytes(first)
      /\ \A p \in UNION {ToSet(Meant(e).points) : e \in ToSet(first)} : p[1] \in OnMap /\ p[2] \in OnMap
FirstMeant(g, count) ==
  LET first == SubSeq(g, 1, count) IN [i \in DOMAIN first |-> Meant(first[i])]

\* What the first entries mean, and when all of it is on the map.
LEMMA FirstMeantIs ==
  ASSUME NEW g \in Seq(GroupEntries), NEW count \in 1 .. Len(g)
  PROVE  /\ FirstMeant(g, count) = [k \in 1 .. count |-> Meants(g)[k]]
         /\ DOMAIN FirstMeant(g, count) = 1 .. count
         /\ \A k \in 1 .. count : FirstMeant(g, count)[k] = Meant(g[k])
         /\ (\A p \in UNION {ToSet(Meant(e).points) : e \in ToSet(SubSeq(g, 1, count))} :
               p[1] \in OnMap /\ p[2] \in OnMap)
            <=> \A i \in 1 .. count : \A k \in DOMAIN Meant(g[i]).points :
                  Meant(g[i]).points[k][1] \in OnMap /\ Meant(g[i]).points[k][2] \in OnMap
<1> DEFINE first == SubSeq(g, 1, count)
<1>1. DOMAIN first = 1 .. count /\ \A i \in 1 .. count : first[i] = g[i]
  OBVIOUS
<1>2. FirstMeant(g, count) = [i \in DOMAIN first |-> Meant(first[i])]
  BY Zenon DEF FirstMeant
<1>3. 1 .. count \subseteq 1 .. Len(g)
  OBVIOUS
<1>4. \A k \in 1 .. count : Meants(g)[k] = Meant(g[k])
  BY <1>3 DEF Meants
<1>5. ToSet(first) = {g[i] : i \in 1 .. count}
  BY <1>1 DEF ToSet
<1> HIDE DEF first
<1>6. FirstMeant(g, count) = [k \in 1 .. count |-> Meants(g)[k]]
  BY <1>1, <1>2, <1>4
<1>7. \A k \in 1 .. count : FirstMeant(g, count)[k] = Meant(g[k])
  BY <1>1, <1>2
<1>8. (\A p \in UNION {ToSet(Meant(e).points) : e \in ToSet(first)} : p[1] \in OnMap /\ p[2] \in OnMap)
      <=> \A i \in 1 .. count : \A p \in ToSet(Meant(g[i]).points) : p[1] \in OnMap /\ p[2] \in OnMap
  BY <1>5
<1>9. \A i \in 1 .. count :
        (\A p \in ToSet(Meant(g[i]).points) : p[1] \in OnMap /\ p[2] \in OnMap)
        <=> \A k \in DOMAIN Meant(g[i]).points :
              Meant(g[i]).points[k][1] \in OnMap /\ Meant(g[i]).points[k][2] \in OnMap
  BY DEF ToSet
<1> QED
  BY <1>1, <1>2, <1>6, <1>7, <1>8, <1>9 DEF first

\* read gives what ReadersAgree says.
LEMMA SentIsRead ==
  ASSUME NEW g, NEW buf, NEW count, Sent(g, buf, count)
  PROVE  read(buf, count) = IF Given(g, buf, count) THEN FirstMeant(g, count) ELSE Failed
<1>1. PICK f : Arrived(g, f, buf) /\ \A k \in 0 .. Len(g) : GroupBytes(SubSeq(g, 1, k)) = f[k]
  BY SentArrives
<1>2. g \in Seq(GroupEntries) /\ Len(g) \in Nat /\ count \in Nat /\ buf \in Seq(Nat) /\ Len(buf) \in Nat
  BY <1>1 DEF Arrived, Parts, SteadyGroup, Sent
<1> DEFINE taken == parse_entries(buf, count)
           onMap(q) == \A i \in DOMAIN q : \A k \in DOMAIN q[i].points :
                         q[i].points[k][1] \in OnMap /\ q[i].points[k][2] \in OnMap
<1>3. read(buf, count) = IF count = 0 \/ count > MAX_ENTRIES \/ buf = <<>> \/ Len(buf) > MAX_BUFFER THEN Failed
                         ELSE IF onMap(taken) THEN taken ELSE Failed
  BY Zenon DEF read
<1>4. taken = IF count <= Len(g) /\ Len(f[count]) = Len(buf)
              THEN [k \in 1 .. count |-> Meants(g)[k]] ELSE Failed
  BY <1>1, <1>2, ParseEntriesIs
<1> HIDE DEF taken, onMap
<1>5. CASE count \in 1 .. Len(g) /\ buf = f[count]
  <2>1. taken = FirstMeant(g, count)
    BY <1>2, <1>4, <1>5, FirstMeantIs
  <2>2. onMap(taken) <=> \A i \in 1 .. count : \A k \in DOMAIN Meant(g[i]).points :
                           Meant(g[i]).points[k][1] \in OnMap /\ Meant(g[i]).points[k][2] \in OnMap
    <3>1. DOMAIN taken = 1 .. count /\ \A i \in 1 .. count : taken[i] = Meant(g[i])
      BY <1>2, <1>5, <2>1, FirstMeantIs
    <3> QED
      BY ONLY <3>1 DEF onMap
  <2>3. buf = GroupBytes(SubSeq(g, 1, count))
    BY <1>1, <1>2, <1>5
  <2>4. buf # <<>>
    <3>1. 1 \in 1 .. Len(g) /\ count \in 0 .. Len(g) /\ count \in 1 .. Len(g) /\ count - 1 \in 0 .. Len(g)
      BY <1>2, <1>5
    <3>2. Len(f[count - 1]) \in Nat /\ Len(BytesOf(g[count])) \in Nat /\ Len(BytesOf(g[count])) >= 3
          /\ Len(f[count]) = Len(f[count - 1]) + Len(BytesOf(g[count]))
      BY <1>1, <3>1, ArrivedReads
    <3> DEFINE a == Len(f[count - 1])
               b == Len(BytesOf(g[count]))
               c == Len(f[count])
    <3>3. a \in Nat /\ b \in Nat /\ b >= 3 /\ c = a + b
      BY <3>2
    <3> HIDE DEF a, b, c
    <3>4. c # 0
      BY ONLY <3>3
    <3> QED
      BY <1>5, <3>4 DEF c
  <2>5. Given(g, buf, count) <=> /\ count <= MAX_ENTRIES /\ Len(buf) <= MAX_BUFFER
                                 /\ onMap(taken)
    BY <1>2, <1>5, <2>2, <2>3, FirstMeantIs DEF Given
  <2>6. count # 0 /\ (count > MAX_ENTRIES <=> ~ (count <= MAX_ENTRIES))
        /\ (Len(buf) > MAX_BUFFER <=> ~ (Len(buf) <= MAX_BUFFER))
    BY <1>2, <1>5, BufferAssumption
  <2> QED
    BY <1>3, <2>1, <2>4, <2>5, <2>6
<1>6. CASE ~ (count \in 1 .. Len(g) /\ buf = f[count])
  <2>1. ~ Given(g, buf, count)
    <3> SUFFICES ASSUME Given(g, buf, count) PROVE FALSE
      OBVIOUS
    <3>1. count \in 1 .. Len(g) /\ buf = GroupBytes(SubSeq(g, 1, count))
      BY DEF Given
    <3> QED
      BY <1>1, <1>2, <1>6, <3>1
  <2>2. read(buf, count) = Failed
    <3>1. CASE count = 0
      BY <1>3, <3>1
    <3>2. CASE count # 0
      <4>1. ~ (count <= Len(g) /\ Len(f[count]) = Len(buf))
        <5> SUFFICES ASSUME count <= Len(g), Len(f[count]) = Len(buf) PROVE FALSE
          OBVIOUS
        <5>1. count \in 1 .. Len(g) /\ count \in 0 .. Len(g)
          BY <1>2, <3>2
        <5> QED
          BY <1>1, <1>6, <5>1, FillsIs
      <4>2. taken = Failed
        BY <1>4, <4>1
      <4> QED
        BY <1>3, <4>2
    <3> QED
      BY <3>1, <3>2
  <2> QED
    BY <2>1, <2>2
<1> QED
  BY <1>5, <1>6

\* And of parse.
LEMMA SentIsParsed ==
  ASSUME NEW g, NEW buf, NEW count, Sent(g, buf, count)
  PROVE  parse(buf) = IF Len(BytesOf(g[1])) <= Len(buf) /\ g[1].points # <<>>
                      THEN <<Astray(g[1])>> ELSE Failed
<1>1. PICK f : Arrived(g, f, buf)
  BY SentArrives
<1> DEFINE e == g[1]
           b == BytesOf(e)
           r == Entry(buf, 0, LAMBDA byte : byte)
           l == Len(buf)
<1>2. 1 \in 1 .. Len(g) /\ e \in GroupEntries /\ Steady(e) /\ f[0] = <<>> /\ buf \in Seq(Nat) /\ l \in Nat
  BY <1>1 DEF Arrived, Parts, SteadyGroup, Joins, Sent
<1>3. parse(buf) = IF l < 1 \/ Byte(buf, 0) < 2 \/ r.at > l THEN Failed ELSE <<r.path>>
  BY Zenon DEF parse
<1>4. PICK C : Reading(e, b, C, buf, 0)
  <2>1. \E C : Reading(g[1], BytesOf(g[1]), C, buf, Len(f[1 - 1]))
    BY <1>1, <1>2, ArrivedReads
  <2>2. Len(f[1 - 1]) = 0
    BY <1>2
  <2> QED
    BY <2>1, <2>2
<1>5. Len(b) \in Nat /\ Len(b) >= 3
  BY <1>1, <1>2, ArrivedReads
<1>6. ReadAs(buf, 0, "parse", r)
  BY <1>2, EntryIsReadAs
<1> HIDE DEF e, b, r, l
<1>7. CASE l < 1
  <2>1. ~ (Len(b) <= l)
    BY <1>2, <1>5, <1>7
  <2> QED
    BY <1>3, <1>7, <2>1 DEF b, e, l
<1>8. CASE ~ (l < 1)
  <2>1. Byte(buf, 0) < 2 <=> e.points = <<>>
    <3>1. Byte(buf, 0) \div 2 = Len(e.points)
      BY <1>2, <1>4, <1>8, HeaderRead DEF l
    <3>2. Byte(buf, 0) \in Nat
      BY <1>2, ByteIn
    <3>3. Byte(buf, 0) < 2 <=> Len(e.points) = 0
      <4> DEFINE y == Byte(buf, 0)
                 n == Len(e.points)
      <4>1. y \in Nat /\ y \div 2 = n
        BY <3>1, <3>2
      <4> HIDE DEF y, n
      <4>2. y < 2 <=> n = 0
        BY ONLY <4>1
      <4> QED
        BY <4>2 DEF y, n
    <3>4. Len(e.points) = 0 <=> e.points = <<>>
      <4>1. e.points \in Seq([x : Coords, z : Coords])
        BY <1>2 DEF GroupEntries
      <4> QED
        BY <4>1
    <3> QED
      BY <3>3, <3>4
  <2>2. CASE Len(b) <= l
    <3>1. r = [at |-> 0 + Len(b), path |-> [unit |-> e.unit, points |-> Astray(e).points]]
      <4>1. Follows(e, Astray(e).points, "parse") /\ 0 + Len(b) <= Len(buf)
        BY <1>2, <1>5, <2>2, AstrayFollows DEF l
      <4> QED
        BY <1>4, <1>6, <4>1, WholeEntryRead
    <3>2. Astray(e) = [unit |-> e.unit, points |-> Astray(e).points]
      BY DEF Astray
    <3>3. r.at = Len(b) /\ r.path = Astray(e)
      BY <1>5, <3>1, <3>2
    <3>4. ~ (r.at > l)
      BY <1>2, <1>5, <2>2, <3>3
    <3> QED
      BY <1>3, <1>8, <2>1, <2>2, <3>3, <3>4 DEF b, e, l
  <2>3. CASE ~ (Len(b) <= l)
    <3>1. r.at > l
      <4>1. ~ (0 + Len(b) <= Len(buf))
        BY <1>5, <2>3 DEF l
      <4> QED
        BY <1>4, <1>6, <4>1, CutEntryRead DEF l
    <3> QED
      BY <1>3, <2>3, <3>1 DEF b, e, l
  <2> QED
    BY <2>2, <2>3
<1> QED
  BY <1>7, <1>8

-----------------------------------------------------------------------------
(* Both readers, whatever the game means and however much of it arrives    *)

\* What the game means adds up at every step, whatever is added to it.
LEMMA AddedEntry ==
  ASSUME NEW g, SteadyGroup(g), NEW unit \in GroupUnits, NEW extra \in {0, 1}
  PROVE  SteadyGroup(Append(g, [unit |-> unit, extra |-> extra, points |-> <<>>]))
<1> DEFINE e == [unit |-> unit, extra |-> extra, points |-> <<>>]
           h == Append(g, e)
<1>1. g \in Seq(GroupEntries) /\ \A i \in 1 .. Len(g) : Steady(g[i])
  BY DEF SteadyGroup
<1>2. e \in GroupEntries
  <2>1. <<>> \in Seq([x : Coords, z : Coords]) /\ unit \in 0 .. Base - 1
    BY BufferAssumption
  <2> QED
    BY <2>1 DEF GroupEntries
<1>3. Steady(e)
  <2>1. e.points = <<>> /\ Len(e.points) = 0
    OBVIOUS
  <2> HIDE DEF e
  <2> QED
    BY <2>1 DEF Steady, Firm
<1> HIDE DEF e
<1>4. h \in Seq(GroupEntries) /\ Len(h) = Len(g) + 1 /\ Len(g) \in Nat /\ h[Len(g) + 1] = e
      /\ \A i \in 1 .. Len(g) : h[i] = g[i]
  BY <1>1, <1>2
<1> HIDE DEF h
<1>5. ASSUME NEW i \in 1 .. Len(h) PROVE Steady(h[i])
  <2>1. CASE i = Len(g) + 1
    BY <1>3, <1>4, <2>1
  <2>2. CASE i # Len(g) + 1
    <3>1. i \in 1 .. Len(g)
      BY <1>4, <2>2
    <3> QED
      BY <1>1, <1>4, <3>1
  <2> QED
    BY <2>1, <2>2
<1> QED
  BY <1>4, <1>5 DEF SteadyGroup, h, e

\* The last entry, another point in it.
Linked(was, c) ==
  c \in Coords /\ (c.delta => IsByte(c.by) /\ c.at = (was.at + c.by) % Word)

\* With another point in its last entry a group still adds up.
LEMMA AddedPoint ==
  ASSUME NEW g, SteadyGroup(g), g # <<>>, NEW x \in Coords, NEW z \in Coords,
         IF Last(g).points = <<>> THEN ~ x.delta /\ ~ z.delta
         ELSE Linked(Last(Last(g).points).x, x) /\ Linked(Last(Last(g).points).z, z)
  PROVE  SteadyGroup([g EXCEPT ![Len(g)].points = Append(@, [x |-> x, z |-> z])])
<1> DEFINE n == Len(g)
           e == g[n]
           pts == e.points
           m == Len(pts)
           p == [x |-> x, z |-> z]
           new == Append(pts, p)
           h == [g EXCEPT ![n].points = Append(@, p)]
           T == [x : Coords, z : Coords]
<1>1. g \in Seq(GroupEntries) /\ n \in Nat /\ n \in 1 .. n /\ \A i \in 1 .. n : g[i] \in GroupEntries /\ Steady(g[i])
  BY DEF SteadyGroup
<1>2. e \in GroupEntries /\ Steady(e) /\ Last(g) = e /\ pts \in Seq(T) /\ m \in Nat
  <2>1. e \in GroupEntries /\ Steady(e) /\ Last(g) = e
    BY <1>1 DEF Last
  <2>2. pts \in Seq(T)
    BY <2>1 DEF GroupEntries
  <2> QED
    BY <2>1, <2>2
<1>3. p \in T /\ p.x = x /\ p.z = z
  OBVIOUS
<1>4. h = [i \in 1 .. n |-> IF i = n THEN [e EXCEPT !.points = new] ELSE g[i]]
  <2>1. DOMAIN g = 1 .. n
    BY <1>1
  <2> HIDE DEF p
  <2>2. h = [i \in DOMAIN g |-> IF i = n THEN [g[n] EXCEPT !.points = Append(g[n].points, p)] ELSE g[i]]
    <3> HIDE DEF n
    <3> QED
      OBVIOUS
  <2> QED
    BY <2>1, <2>2
<1> DEFINE d == [e EXCEPT !.points = new]
<1>5. new \in Seq(T) /\ Len(new) = m + 1 /\ new[m + 1] = p /\ \A i \in 1 .. m : new[i] = pts[i]
  <2> HIDE DEF p, pts, T
  <2> QED
    BY <1>2, <1>3
<1>6. d \in GroupEntries /\ d.points = new
  <2> HIDE DEF new, p, pts
  <2> QED
    BY <1>2, <1>5 DEF GroupEntries
<1>7. pts = <<>> <=> m = 0
  BY <1>2
<1>8. Firm(d)
  <2>1. ~ new[1].x.delta /\ ~ new[1].z.delta
    <3>1. CASE m = 0
      <4>1. ~ x.delta /\ ~ z.delta
        BY <1>2, <1>7, <3>1
      <4> QED
        BY <1>3, <1>5, <3>1, <4>1
    <3>2. CASE m # 0
      <4>1. new[1] = pts[1]
        BY <1>2, <1>5, <3>2
      <4> QED
        BY <1>2, <1>7, <3>2, <4>1 DEF Steady, Firm
    <3> QED
      BY <3>1, <3>2
  <2> QED
    BY <1>6, <2>1 DEF Firm
<1>9. ASSUME NEW i \in 2 .. m + 1
      PROVE  /\ new[i].x.delta => IsByte(new[i].x.by) /\ new[i].x.at = (new[i - 1].x.at + new[i].x.by) % Word
             /\ new[i].z.delta => IsByte(new[i].z.by) /\ new[i].z.at = (new[i - 1].z.at + new[i].z.by) % Word
  <2>0. i - 1 \in 1 .. m /\ new[i - 1] = pts[i - 1]
    BY <1>2, <1>5
  <2>1. CASE i = m + 1
    <3>1. pts # <<>> /\ i - 1 = m
      BY <1>2, <1>7, <2>0, <2>1
    <3>2. Last(pts) = pts[m]
      BY DEF Last
    <3>3. Linked(pts[m].x, x) /\ Linked(pts[m].z, z)
      BY <1>2, <3>1, <3>2
    <3>4. new[i].x = x /\ new[i].z = z
      BY <1>3, <1>5, <2>1
    <3> HIDE DEF new
    <3> QED
      BY <2>0, <3>1, <3>3, <3>4 DEF Linked
  <2>2. CASE i # m + 1
    <3>1. i \in 1 .. m /\ i \in 2 .. m
      BY <1>2, <2>2
    <3>2. new[i] = pts[i]
      BY <1>5, <3>1
    <3> HIDE DEF new
    <3>3. e.points = pts /\ i \in 2 .. Len(e.points)
      BY <3>1
    <3> QED
      BY <1>2, <2>0, <3>2, <3>3 DEF Steady
  <2> QED
    BY <2>1, <2>2
<1>10. Steady(d)
  <2> HIDE DEF d, new, m
  <2>1. Len(d.points) = m + 1
    BY <1>5, <1>6
  <2> QED
    BY <1>6, <1>8, <1>9, <2>1 DEF Steady
<1> HIDE DEF d, h, e
<1>11. h \in Seq(GroupEntries) /\ Len(h) = n /\ \A i \in 1 .. n : Steady(h[i])
  <2>1. \A i \in 1 .. n : h[i] \in GroupEntries /\ Steady(h[i])
    BY <1>1, <1>4, <1>6, <1>10 DEF d
  <2>2. h \in [1 .. n -> GroupEntries]
    BY <1>4, <2>1 DEF d
  <2> DEFINE G == GroupEntries
  <2> HIDE DEF G, n
  <2>3. h \in [1 .. n -> G] /\ n \in Nat
    BY <1>1, <2>2 DEF G
  <2>4. h \in Seq(G) /\ Len(h) = n
    BY ONLY <2>3
  <2> QED
    BY <2>1, <2>4 DEF G
<1> QED
  BY <1>11 DEF SteadyGroup, h

AgreeInv == SteadyGroup(group) /\ ReadersAgree

\* A delivery brings ReadersAgree about.
LEMMA SentAgrees ==
  ASSUME NEW count, NEW buf, Sent(group, buf, count),
         packet' = [buf |-> buf, count |-> count], group' = group,
         read_group' = read(buf, count), read_path' = parse(buf)
  PROVE  ReadersAgree'
<1>1. packet'.buf = buf /\ packet'.count = count
  OBVIOUS
<1>2. read_group' = IF Given(group, buf, count) THEN FirstMeant(group, count) ELSE Failed
  BY SentIsRead
<1>3. read_path' = IF Len(BytesOf(group[1])) <= Len(buf) /\ group[1].points # <<>>
                   THEN <<Astray(group[1])>> ELSE Failed
  BY SentIsParsed
<1> QED
  BY <1>1, <1>2, <1>3, Zenon DEF ReadersAgree, Given, FirstMeant

\* Every step preserves it.
LEMMA AgreeStep ==
  ASSUME AgreeInv, [BufferNext]_bufferPart
  PROVE  AgreeInv'
<1>0. SteadyGroup(group)
  BY DEF AgreeInv
<1>1. CASE UNCHANGED bufferPart
  BY <1>0, <1>1 DEF AgreeInv, bufferPart, ReadersAgree
<1>a. packet' = <<>> => ReadersAgree'
  BY DEF ReadersAgree
<1>2. ASSUME NEW unit \in GroupUnits, NEW extra \in {0, 1}, NewEntry(unit, extra) PROVE AgreeInv'
  <2>1. packet' = <<>> /\ SteadyGroup(group')
    BY <1>0, <1>2, AddedEntry DEF NewEntry
  <2>2. SteadyGroup(group)'
    BY <2>1
  <2> QED
    BY <1>a, <2>1, <2>2 DEF AgreeInv
<1>b. \A a \in Int : a % Word \in 0 .. Word - 1
  BY BaseIs
<1>3. ASSUME NEW p \in FirstPlaces, FirstPoint(p) PROVE AgreeInv'
  <2> DEFINE x == [at |-> p[1], by |-> 0, delta |-> FALSE]
             z == [at |-> p[2], by |-> 0, delta |-> FALSE]
  <2>1. x \in Coords /\ z \in Coords /\ ~ x.delta /\ ~ z.delta
    <3>1. p[1] \in 0 .. Word - 1 /\ p[2] \in 0 .. Word - 1
      BY BufferAssumption
    <3> QED
      BY <3>1 DEF Coords
  <2>2. group # <<>> /\ Last(group).points = <<>> /\ NewPoint(x, z)
    BY <1>3, Zenon DEF FirstPoint
  <2> HIDE DEF x, z
  <2>3. group' = [group EXCEPT ![Len(group)].points = Append(@, [x |-> x, z |-> z])] /\ packet' = <<>>
    BY <2>2 DEF NewPoint
  <2>4. SteadyGroup(group')
    BY <1>0, <2>1, <2>2, <2>3, AddedPoint
  <2> QED
    BY <1>a, <2>3, <2>4 DEF AgreeInv
<1>4. ASSUME NEW by \in Shifts, NEW how \in [x : BOOLEAN, z : BOOLEAN], NextPoint(by, how) PROVE AgreeInv'
  <2> DEFINE p == Last(Last(group).points)
             x == Shifted(p.x.at, by[1], how.x)
             z == Shifted(p.z.at, by[2], how.z)
  <2>1. /\ group # <<>> /\ Last(group).points # <<>> /\ NewPoint(x, z)
        /\ how.x => IsByte(by[1])
        /\ how.z => IsByte(by[2])
    BY <1>4, Zenon DEF NextPoint
  <2>2. by[1] \in Int /\ by[2] \in Int /\ how.x \in BOOLEAN /\ how.z \in BOOLEAN
    BY BufferAssumption
  <2>3. p.x \in Coords /\ p.z \in Coords
    <3> DEFINE e == group[Len(group)]
    <3>1. group \in Seq(GroupEntries) /\ Last(group) = e
      BY <1>0 DEF SteadyGroup, Last
    <3>2. e \in GroupEntries
      BY <2>1, <3>1
    <3> HIDE DEF e
    <3>3. e.points \in Seq([x : Coords, z : Coords]) /\ e.points # <<>>
      BY <2>1, <3>1, <3>2 DEF GroupEntries
    <3>4. Last(e.points) \in [x : Coords, z : Coords]
      <4> DEFINE q == e.points
                 T == [x : Coords, z : Coords]
      <4>1. q \in Seq(T) /\ q # <<>>
        BY <3>3
      <4> HIDE DEF q, T
      <4>2. Len(q) \in 1 .. Len(q) /\ Last(q) = q[Len(q)]
        BY ONLY <4>1 DEF Last
      <4>3. Last(q) \in T
        BY ONLY <4>1, <4>2
      <4> QED
        BY <4>3 DEF q, T
    <3> QED
      BY <3>1, <3>4
  <2>4. \A was \in Coords : \A b \in Int : \A delta \in BOOLEAN :
          (delta => IsByte(b)) => Linked(was, Shifted(was.at, b, delta))
    <3> SUFFICES ASSUME NEW was \in Coords, NEW b \in Int, NEW delta \in BOOLEAN, delta => IsByte(b)
                 PROVE  Linked(was, Shifted(was.at, b, delta))
      OBVIOUS
    <3>1. was.at + b \in Int
      <4>1. was.at \in 0 .. Word - 1
        BY DEF Coords
      <4> QED
        BY <4>1
    <3>2. Shifted(was.at, b, delta) = [at |-> (was.at + b) % Word, by |-> b, delta |-> delta]
      BY DEF Shifted
    <3>3. (was.at + b) % Word \in 0 .. Word - 1
      BY <1>b, <3>1
    <3> QED
      BY <3>2, <3>3 DEF Linked, Coords
  <2> HIDE DEF p
  <2>5. Linked(p.x, x) /\ Linked(p.z, z)
    BY <2>1, <2>2, <2>3, <2>4
  <2>6. x \in Coords /\ z \in Coords
    BY <2>5 DEF Linked
  <2> HIDE DEF x, z
  <2>7. group' = [group EXCEPT ![Len(group)].points = Append(@, [x |-> x, z |-> z])] /\ packet' = <<>>
    BY <2>1 DEF NewPoint
  <2>8. SteadyGroup(group')
    BY <1>0, <2>1, <2>5, <2>6, <2>7, AddedPoint DEF p
  <2> QED
    BY <1>a, <2>7, <2>8 DEF AgreeInv
<1>5. ASSUME NEW count \in 0 .. MaxEntries + 1, NEW cut \in 0 .. 3, Deliver(count, cut) PROVE AgreeInv'
  <2> DEFINE bytes == GroupBytes(group)
             buf == SubSeq(bytes, 1, Len(bytes) - cut)
  <2>1. /\ group # <<>> /\ cut <= Len(bytes) /\ group' = group
        /\ packet' = [buf |-> buf, count |-> count]
        /\ read_group' = read(buf, count) /\ read_path' = parse(buf)
    BY <1>5, Zenon DEF Deliver
  <2>2. count \in Nat /\ cut \in Nat
    BY BufferAssumption
  <2>3. Sent(group, buf, count)
    BY <1>0, <2>1, <2>2 DEF Sent
  <2> HIDE DEF buf
  <2>4. ReadersAgree'
    BY <2>1, <2>3, SentAgrees
  <2> QED
    BY <1>0, <2>1, <2>4 DEF AgreeInv
<1> QED
  BY <1>1, <1>2, <1>3, <1>4, <1>5 DEF BufferNext

\* From whatever buffer and count, however many entries and points the game may
\* mean: read gives the entries it meant or nothing, and parse the first of them
\* with every change back taken for one forward (waypoints.rs:26-34, packet.rs).
THEOREM ReadersAlwaysAgree == BufferSpec => []ReadersAgree
<1>1. BufferInit => AgreeInv
  BY DEF BufferInit, AgreeInv, SteadyGroup, ReadersAgree
<1>2. AgreeInv /\ [BufferNext]_bufferPart => AgreeInv'
  BY AgreeStep
<1>3. AgreeInv => ReadersAgree
  BY DEF AgreeInv
<1> QED
  BY <1>1, <1>2, <1>3, PTL DEF BufferSpec
=============================================================================
