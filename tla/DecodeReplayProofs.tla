------------------------- MODULE DecodeReplayProofs -------------------------
(***************************************************************************)
(* For any replay, any number of workers and however the chunks are split  *)
(* among them: decode_replay of src/src/game.rs does what one decoder that *)
(* takes the chunks in order would do.                                     *)
(***************************************************************************)
EXTENDS DecodeReplay, WellFoundedInduction, TLAPS

-----------------------------------------------------------------------------
(* Induction and the two loops                                             *)

\* A set of numbers that has 0 and with each number the next has them all.
LEMMA SetInduction ==
  ASSUME NEW S \in SUBSET Nat, 0 \in S, \A n \in S : n + 1 \in S
  PROVE  S = Nat
<1> SUFFICES ASSUME NEW z \in Nat \ S PROVE FALSE
  OBVIOUS
<1> DEFINE T == Nat \ S
<1>1. PICK x \in T : \A y \in T : ~ (<<y, x>> \in OpToRel(<, Nat))
  <2>1. T \in SUBSET Nat /\ T # {}
    OBVIOUS
  <2> HIDE DEF T
  <2> QED
    BY <2>1, NatLessThanWellFounded, WFMin
<1>2. x \in Nat /\ x \notin S /\ x # 0
  OBVIOUS
<1>3. x - 1 \in Nat /\ x - 1 < x /\ (x - 1) + 1 = x
  BY <1>2
<1>4. x - 1 \notin T
  BY <1>1, <1>2, <1>3 DEF OpToRel
<1>5. (x - 1) + 1 \in S
  BY <1>3, <1>4
<1> QED
  BY <1>2, <1>3, <1>5

\* f adds up the first n blocks.
Adds(f, blocks, n) ==
  f = [k \in 0 .. n |-> IF k = 0 THEN NoOut ELSE Count(f[k - 1], blocks[k])]

LEMMA AddsExists ==
  ASSUME NEW blocks, NEW n \in Nat
  PROVE  \E f : Adds(f, blocks, n)
<1> DEFINE S == {m \in Nat : \E f : Adds(f, blocks, m)}
<1>1. 0 \in S
  <2> DEFINE g == [k \in 0 .. 0 |-> NoOut]
  <2>1. Adds(g, blocks, 0)
    BY DEF Adds
  <2> QED
    BY <2>1
<1>2. ASSUME NEW m \in S PROVE m + 1 \in S
  <2>1. PICK f : Adds(f, blocks, m)
    OBVIOUS
  <2> DEFINE g == [k \in 0 .. m + 1 |-> IF k \in 0 .. m THEN f[k] ELSE Count(f[m], blocks[m + 1])]
  <2>2. \A k \in 0 .. m : f[k] = IF k = 0 THEN NoOut ELSE Count(f[k - 1], blocks[k])
    BY <2>1 DEF Adds
  <2>3. ASSUME NEW k \in 0 .. m + 1
        PROVE  g[k] = IF k = 0 THEN NoOut ELSE Count(g[k - 1], blocks[k])
    <3>1. CASE k \in 0 .. m
      <4>1. g[k] = f[k] /\ (k # 0 => g[k - 1] = f[k - 1])
        BY <3>1
      <4> QED
        BY <4>1, <3>1, <2>2
    <3>2. CASE k = m + 1
      <4>1. g[k] = Count(f[m], blocks[m + 1]) /\ g[k - 1] = f[m] /\ k # 0
        BY <3>2
      <4> QED
        BY <4>1, <3>2
    <3> QED
      BY <3>1, <3>2
  <2>4. Adds(g, blocks, m + 1)
    BY <2>3 DEF Adds
  <2> QED
    BY <2>4
<1>3. S = Nat
  <2> HIDE DEF S
  <2>1. S \in SUBSET Nat
    BY DEF S
  <2> QED
    BY <1>1, <1>2, <2>1, SetInduction
<1> QED
  BY <1>3

Sums(blocks) == InOrder!Sums(blocks)

\* The running sums of a chunk's blocks.
LEMMA SumsUnfold ==
  ASSUME NEW blocks, Len(blocks) \in Nat
  PROVE  /\ Sums(blocks)[0] = NoOut
         /\ \A n \in 1 .. Len(blocks) : Sums(blocks)[n] = Count(Sums(blocks)[n - 1], blocks[n])
         /\ InOrder!Sum(blocks) = Sums(blocks)[Len(blocks)]
<1>1. Sums(blocks) =
        CHOOSE f : f = [k \in 0 .. Len(blocks) |->
                          IF k = 0 THEN NoOut ELSE Count(f[k - 1], blocks[k])]
  BY DEF Sums, InOrder!Sums, InOrder!NoOut, InOrder!Count, NoOut, Count, InOrder!One, One,
         InOrder!Statuses, Statuses, InOrder!Shapes, Shapes
<1>2. Sums(blocks) = CHOOSE f : Adds(f, blocks, Len(blocks))
  BY <1>1 DEF Adds
<1>3. Adds(Sums(blocks), blocks, Len(blocks))
  BY <1>2, AddsExists, Zenon
<1>4. InOrder!Sum(blocks) = Sums(blocks)[Len(blocks)]
  BY DEF InOrder!Sum, Sums
<1> QED
  BY <1>3, <1>4 DEF Adds

\* f holds what retain keeps of the first n typed blocks.
Keeps(f, typed, shapes, n) ==
  f = [k \in 0 .. n |-> IF k = 0 THEN <<>>
                        ELSE IF Elected(typed[k], shapes) THEN Append(f[k - 1], typed[k]) ELSE f[k - 1]]

LEMMA KeepsExists ==
  ASSUME NEW typed, NEW shapes, NEW n \in Nat
  PROVE  \E f : Keeps(f, typed, shapes, n)
<1> DEFINE S == {m \in Nat : \E f : Keeps(f, typed, shapes, m)}
<1>1. 0 \in S
  <2> DEFINE g == [k \in 0 .. 0 |-> <<>>]
  <2>1. Keeps(g, typed, shapes, 0)
    BY DEF Keeps
  <2> QED
    BY <2>1
<1>2. ASSUME NEW m \in S PROVE m + 1 \in S
  <2>1. PICK f : Keeps(f, typed, shapes, m)
    OBVIOUS
  <2> DEFINE Next1(before, k) == IF Elected(typed[k], shapes) THEN Append(before, typed[k]) ELSE before
             g == [k \in 0 .. m + 1 |-> IF k \in 0 .. m THEN f[k] ELSE Next1(f[m], m + 1)]
  <2>2. \A k \in 0 .. m : f[k] = IF k = 0 THEN <<>> ELSE Next1(f[k - 1], k)
    BY <2>1 DEF Keeps
  <2>3. ASSUME NEW k \in 0 .. m + 1
        PROVE  g[k] = IF k = 0 THEN <<>> ELSE Next1(g[k - 1], k)
    <3> HIDE DEF Next1
    <3>1. CASE k \in 0 .. m
      <4>1. g[k] = f[k] /\ (k # 0 => g[k - 1] = f[k - 1])
        BY <3>1
      <4> QED
        BY <4>1, <3>1, <2>2
    <3>2. CASE k = m + 1
      <4>1. g[k] = Next1(f[m], m + 1) /\ g[k - 1] = f[m] /\ k # 0
        BY <3>2
      <4> QED
        BY <4>1, <3>2
    <3> QED
      BY <3>1, <3>2
  <2>4. Keeps(g, typed, shapes, m + 1)
    BY <2>3 DEF Keeps
  <2> QED
    BY <2>4
<1>3. S = Nat
  <2> HIDE DEF S
  <2>1. S \in SUBSET Nat
    BY DEF S
  <2> QED
    BY <1>1, <1>2, <2>1, SetInduction
<1> QED
  BY <1>3

\* retain keeps blocks, and of those only what the shapes allow.
LEMMA RetainedAreElected ==
  ASSUME NEW typed \in Seq(Blocks), NEW shapes
  PROVE  Retained(typed, shapes) \in Seq({b \in Blocks : Elected(b, shapes)})
<1> DEFINE E == {b \in Blocks : Elected(b, shapes)}
           kept == CHOOSE f : Keeps(f, typed, shapes, Len(typed))
           S == {n \in Nat : n <= Len(typed) => kept[n] \in Seq(E)}
<1>1. Keeps(kept, typed, shapes, Len(typed))
  <2>1. \E f : Keeps(f, typed, shapes, Len(typed))
    BY KeepsExists
  <2> QED
    BY <2>1, Zenon
<1>2. Retained(typed, shapes) = kept[Len(typed)]
  BY DEF Retained, Keeps
<1> HIDE DEF kept
<1>3. 0 \in S
  BY <1>1 DEF Keeps
<1>4. ASSUME NEW n \in S PROVE n + 1 \in S
  <2> SUFFICES ASSUME n + 1 <= Len(typed) PROVE kept[n + 1] \in Seq(E)
    OBVIOUS
  <2>1. kept[n] \in Seq(E)
    OBVIOUS
  <2>2. kept[n + 1] = IF Elected(typed[n + 1], shapes) THEN Append(kept[n], typed[n + 1]) ELSE kept[n]
    <3>1. n + 1 \in 0 .. Len(typed) /\ n + 1 # 0 /\ (n + 1) - 1 = n
      OBVIOUS
    <3> DEFINE Grown(k) == IF Elected(typed[k], shapes) THEN Append(kept[k - 1], typed[k]) ELSE kept[k - 1]
    <3>2. \A k \in 0 .. Len(typed) : kept[k] = IF k = 0 THEN <<>> ELSE Grown(k)
      BY <1>1 DEF Keeps
    <3>3. kept[n + 1] = Grown(n + 1)
      <4> HIDE DEF Grown
      <4> QED
        BY <3>1, <3>2
    <3> QED
      BY <3>1, <3>3
  <2>3. typed[n + 1] \in Blocks
    OBVIOUS
  <2> QED
    BY <2>1, <2>2, <2>3
<1>5. S = Nat
  <2> HIDE DEF S
  <2>1. S \in SUBSET Nat
    BY DEF S
  <2> QED
    BY <1>3, <1>4, <2>1, SetInduction
<1> QED
  BY <1>2, <1>5

-----------------------------------------------------------------------------
(* ChunkOut                                                                *)

Outs == [blocks : Nat, status : [Statuses -> Nat], named : Nat, typed : Seq(Blocks),
         unnamed_clean : [Netids -> Nat], shape_hits : [Netids \X Shapes -> Nat]]

LEMMA NoOutType == NoOut \in Outs
  BY DEF NoOut, Outs

LEMMA CountType ==
  ASSUME NEW out \in Outs, NEW b \in Blocks
  PROVE  Count(out, b) \in Outs
<1> DEFINE clean == b.status = "clean"
<1>1. One(b.named) \in Nat
  BY DEF One
<1> DEFINE st == [out.status EXCEPT ![b.status] = @ + 1]
           ty == IF clean /\ b.packet # "none" THEN Append(out.typed, b) ELSE out.typed
           uc == [out.unnamed_clean EXCEPT ![b.netid] = @ + One(clean /\ ~ b.named)]
           sh == [h \in Netids \X Shapes |->
                    out.shape_hits[h] + One(clean /\ h = <<b.netid, b.packet>>)]
<1>2. /\ out.blocks \in Nat /\ out.status \in [Statuses -> Nat] /\ out.named \in Nat
      /\ out.typed \in Seq(Blocks) /\ out.unnamed_clean \in [Netids -> Nat]
      /\ out.shape_hits \in [Netids \X Shapes -> Nat]
  BY DEF Outs
<1>3. Count(out, b) = [blocks |-> out.blocks + 1, status |-> st, named |-> out.named + One(b.named),
                       typed |-> ty, unnamed_clean |-> uc, shape_hits |-> sh]
  BY DEF Count
<1>4. st \in [Statuses -> Nat]
  <2>1. \A s \in Statuses : out.status[s] \in Nat /\ out.status[s] + 1 \in Nat
    BY <1>2
  <2> QED
    BY <1>2, <2>1
<1>5. ty \in Seq(Blocks)
  BY <1>2
<1>6. uc \in [Netids -> Nat]
  <2>1. \A n \in Netids, k \in Nat : out.unnamed_clean[n] + k \in Nat
    BY <1>2
  <2>2. One(clean /\ ~ b.named) \in Nat
    BY DEF One
  <2> QED
    BY <1>2, <2>1, <2>2
<1>7. sh \in [Netids \X Shapes -> Nat]
  <2>1. \A h \in Netids \X Shapes : out.shape_hits[h] + One(clean /\ h = <<b.netid, b.packet>>) \in Nat
    BY <1>2 DEF One
  <2> QED
    BY <2>1
<1>8. out.blocks + 1 \in Nat /\ out.named + One(b.named) \in Nat
  BY <1>1, <1>2 DEF One
<1> HIDE DEF st, ty, uc, sh
<1> QED
  BY <1>3, <1>4, <1>5, <1>6, <1>7, <1>8 DEF Outs

LEMMA MergeType ==
  ASSUME NEW a \in Outs, NEW b \in Outs
  PROVE  Merge(a, b) \in Outs
<1>1. a.typed \o b.typed \in Seq(Blocks)
  BY DEF Outs
<1> QED
  BY <1>1 DEF Merge, Outs

LEMMA SumsType ==
  ASSUME NEW blocks \in Seq(Blocks), NEW n \in 0 .. Len(blocks)
  PROVE  Sums(blocks)[n] \in Outs
<1> DEFINE S == {m \in Nat : m <= Len(blocks) => Sums(blocks)[m] \in Outs}
<1>1. 0 \in S
  BY SumsUnfold, NoOutType
<1>2. ASSUME NEW m \in S PROVE m + 1 \in S
  <2> SUFFICES ASSUME m + 1 <= Len(blocks) PROVE Sums(blocks)[m + 1] \in Outs
    OBVIOUS
  <2>1. Sums(blocks)[m] \in Outs
    OBVIOUS
  <2>2. Sums(blocks)[m + 1] = Count(Sums(blocks)[m], blocks[m + 1])
    <3>1. m + 1 \in 1 .. Len(blocks) /\ (m + 1) - 1 = m
      OBVIOUS
    <3>2. Sums(blocks)[m + 1] = Count(Sums(blocks)[(m + 1) - 1], blocks[m + 1])
      BY <3>1, SumsUnfold
    <3> QED
      BY <3>1, <3>2
  <2>3. blocks[m + 1] \in Blocks
    OBVIOUS
  <2> QED
    BY <2>1, <2>2, <2>3, CountType
<1>3. S = Nat
  <2> HIDE DEF S
  <2>1. S \in SUBSET Nat
    BY DEF S
  <2> QED
    BY <1>1, <1>2, <2>1, SetInduction
<1> QED
  BY <1>3

-----------------------------------------------------------------------------
(* The inductive invariant                                                 *)

Jobs == [at : Nat, hi : Nat, decoder : BOOLEAN, pos : Nat, part : Outs]

\* A worker that is not idle is at a chunk of its piece, has come to no block that
\* cannot be decoded, and has what the blocks so far add up to.
JobOk(j) ==
  j # Idle =>
    /\ j.at \in 1 .. Len(records) /\ j.at <= j.hi /\ j.hi \in 1 .. Len(records)
    /\ j.pos \in 0 .. Len(records[j.at].blocks)
    /\ j.part = Sums(records[j.at].blocks)[j.pos]
    /\ \A k \in 1 .. j.pos : records[j.at].blocks[k].status # "error"

\* An answer that is a chunk is the whole of a sound one.
AnswersOk ==
  \A k \in 1 .. Len(records) : outs[k].kind = "ok" =>
    InOrder!Sound(records[k]) /\ outs[k].out = InOrder!Sum(records[k].blocks)

\* A chunk without an answer is in a piece or on a worker's way.
Pending(k) ==
  \/ \E p \in pieces : k \in p[1] .. p[2]
  \/ \E w \in Workers : job[w] # Idle /\ k \in job[w].at .. job[w].hi

NoneForgotten == \A k \in 1 .. Len(records) : outs[k].kind = "todo" => Pending(k)

PoolInv ==
  /\ records \in Seq(GameChunks)
  /\ pieces \subseteq {p \in (1 .. Len(records)) \X (1 .. Len(records)) : p[1] <= p[2]}
  /\ job \in [Workers -> Jobs] /\ \A w \in Workers : JobOk(job[w])
  /\ outs \in [1 .. Len(records) -> [kind : {"todo", "ok", "err"}, out : Outs]]
  /\ AnswersOk
  /\ NoneForgotten

MergeInv ==
  /\ phase \in {"pool", "merge", "done"} /\ outcome \in {"running", "ok", "error"}
  /\ merged \in 0 .. Len(records) /\ total \in Outs
  /\ phase = "pool" => merged = 0 /\ total = NoOut
  /\ phase # "pool" => pieces = {} /\ \A w \in Workers : job[w] = Idle
  /\ outcome = "running" <=> phase # "done"
  /\ ShapesAreElected

ReplayInv == PoolInv /\ MergeInv

LEMMA InitInv == Init => ReplayInv
<1> SUFFICES ASSUME Init PROVE ReplayInv
  OBVIOUS
<1> USE ReplayAssumption, NoOutType DEF Init
<1>1. records \in Seq(GameChunks) /\ Len(records) \in Nat
  OBVIOUS
<1>2. Idle \in Jobs /\ Todo \in [kind : {"todo", "ok", "err"}, out : Outs]
  BY DEF Idle, Jobs, Todo
<1>3. AnswersOk
  BY DEF AnswersOk, Todo
<1>4. NoneForgotten
  <2> SUFFICES ASSUME NEW k \in 1 .. Len(records) PROVE Pending(k)
    BY DEF NoneForgotten
  <2> DEFINE p == <<1, Len(records)>>
  <2>1. p \in pieces /\ k \in p[1] .. p[2]
    BY <1>1
  <2> QED
    BY <2>1 DEF Pending
<1>5. PoolInv
  BY <1>1, <1>2, <1>3, <1>4 DEF PoolInv, JobOk
<1>6. MergeInv
  BY <1>1 DEF MergeInv, ShapesAreElected
<1> QED
  BY <1>5, <1>6 DEF ReplayInv

LEMMA ChunkType ==
  ASSUME records \in Seq(GameChunks), NEW k \in 1 .. Len(records)
  PROVE  /\ records[k] \in GameChunks /\ records[k].blocks \in Seq(Blocks)
         /\ Len(records[k].blocks) \in Nat
<1>1. records[k] \in GameChunks
  OBVIOUS
<1>2. records[k].blocks \in Seq(Blocks)
  BY <1>1 DEF GameChunks
<1> QED
  BY <1>1, <1>2

\* What a worker may be at when it begins a chunk.
LEMMA FreshJob ==
  ASSUME records \in Seq(GameChunks), NEW j \in Jobs, j.at \in 1 .. Len(records),
         j.at <= j.hi, j.hi \in 1 .. Len(records), j.pos = 0, j.part = NoOut
  PROVE  JobOk(j)
<1>1. Sums(records[j.at].blocks)[0] = NoOut /\ Len(records[j.at].blocks) \in Nat
  BY ChunkType, SumsUnfold
<1> QED
  BY <1>1 DEF JobOk

LEMMA NextJob ==
  ASSUME NEW j \in Jobs
  PROVE  LET next == [j EXCEPT !.at = @ + 1, !.pos = 0, !.part = NoOut] IN
         /\ next \in Jobs
         /\ next.at = j.at + 1 /\ next.hi = j.hi /\ next.pos = 0 /\ next.part = NoOut
<1>1. j.at + 1 \in Nat
  BY DEF Jobs
<1> QED
  BY <1>1, NoOutType DEF Jobs

\* An answer leaves the pool's invariant as it was.
LEMMA AnswerInv ==
  ASSUME PoolInv, NEW w \in Workers, job[w] # Idle,
         NEW result \in [kind : {"ok", "err"}, out : Outs],
         result.kind = "ok" => /\ InOrder!Sound(records[job[w].at])
                               /\ result.out = InOrder!Sum(records[job[w].at].blocks),
         Answer(w, result), UNCHANGED <<records, pieces>>
  PROVE  PoolInv'
<1> DEFINE j == job[w]
           next == [j EXCEPT !.at = @ + 1, !.pos = 0, !.part = NoOut]
<1>1. /\ j \in Jobs /\ j.at \in 1 .. Len(records) /\ j.at <= j.hi /\ j.hi \in 1 .. Len(records)
      /\ Len(records) \in Nat
  BY DEF PoolInv, JobOk
<1>2. job' = [job EXCEPT ![w] = IF j.at = j.hi THEN Idle ELSE next]
  BY DEF Answer
<1>3. outs' = [outs EXCEPT ![j.at] = result]
  BY DEF Answer
<1>4. Idle \in Jobs
  BY NoOutType DEF Idle, Jobs
<1>5. j.at # j.hi => next \in Jobs /\ JobOk(next)
  <2> SUFFICES ASSUME j.at # j.hi PROVE next \in Jobs /\ JobOk(next)
    OBVIOUS
  <2>1. next \in Jobs /\ next.at = j.at + 1 /\ next.hi = j.hi /\ next.pos = 0 /\ next.part = NoOut
    BY <1>1, NextJob
  <2>2. next.at \in 1 .. Len(records) /\ next.at <= next.hi /\ next.hi \in 1 .. Len(records)
    <3> HIDE DEF next
    <3> QED
      BY <1>1, <2>1 DEF Jobs
  <2>3. records \in Seq(GameChunks)
    BY DEF PoolInv
  <2> HIDE DEF next
  <2> QED
    BY <2>1, <2>2, <2>3, FreshJob
<1>6. job' \in [Workers -> Jobs]
  BY <1>2, <1>4, <1>5 DEF PoolInv
<1>7. ASSUME NEW v \in Workers PROVE JobOk(job[v])'
  <2>1. JobOk(job'[v])
    <3> HIDE DEF next
    <3>1. CASE v = w
      <4>1. job'[v] = IF j.at = j.hi THEN Idle ELSE next
        BY <1>2, <3>1 DEF PoolInv
      <4> QED
        BY <4>1, <1>5 DEF JobOk
    <3>2. CASE v # w
      BY <1>2, <3>2 DEF PoolInv
    <3> QED
      BY <3>1, <3>2
  <2> QED
    BY <2>1 DEF JobOk
<1>8. outs' \in [1 .. Len(records') -> [kind : {"todo", "ok", "err"}, out : Outs]]
  BY <1>3 DEF PoolInv
<1>9. AnswersOk'
  BY <1>3, <1>1 DEF AnswersOk, PoolInv
<1>10. NoneForgotten'
  <2> SUFFICES ASSUME NEW k \in 1 .. Len(records), outs'[k].kind = "todo" PROVE Pending(k)'
    BY DEF NoneForgotten
  <2>1. k # j.at /\ outs[k].kind = "todo"
    BY <1>3, <1>1 DEF PoolInv
  <2>2. CASE \E p \in pieces : k \in p[1] .. p[2]
    BY <2>2 DEF Pending
  <2>3. CASE \E v \in Workers : job[v] # Idle /\ k \in job[v].at .. job[v].hi
    <3>1. PICK v \in Workers : job[v] # Idle /\ k \in job[v].at .. job[v].hi
      BY <2>3
    <3>2. CASE v # w
      BY <3>1, <3>2, <1>2 DEF Pending, PoolInv
    <3>3. CASE v = w
      <4>1. j.at < k /\ k <= j.hi /\ j.at # j.hi
        BY <3>1, <3>3, <2>1, <1>1
      <4>2. next.at = j.at + 1 /\ next.hi = j.hi
        BY <1>1, NextJob
      <4>3. job'[w] = next
        BY <4>1, <1>2 DEF PoolInv
      <4> HIDE DEF next
      <4>4. next # Idle
        BY <4>2, <1>1 DEF Idle, Jobs
      <4>5. k \in next.at .. next.hi
        BY <4>1, <4>2, <1>1 DEF Jobs
      <4> QED
        BY <4>3, <4>4, <4>5 DEF Pending
    <3> QED
      BY <3>2, <3>3
  <2> QED
    BY <2>1, <2>2, <2>3 DEF PoolInv, NoneForgotten, Pending
<1> QED
  BY <1>6, <1>7, <1>8, <1>9, <1>10 DEF PoolInv

\* A piece split in two has the same chunks.
LEMMA SplitInv ==
  ASSUME PoolInv, NEW p \in pieces, Split(p)
  PROVE  PoolInv'
<1> DEFINE mid == (p[1] + p[2]) \div 2
<1>1. /\ Len(records) \in Nat
      /\ p \in (1 .. Len(records)) \X (1 .. Len(records)) /\ p[1] < p[2]
  BY DEF PoolInv, Split
<1>2. mid \in p[1] .. p[2] /\ mid + 1 \in p[1] .. p[2] /\ mid \in Int
  BY <1>1
<1>3. /\ pieces' = (pieces \ {p}) \cup {<<p[1], mid>>, <<mid + 1, p[2]>>}
      /\ UNCHANGED <<records, job, outs>>
  BY DEF Split
<1> HIDE DEF mid
<1>4. pieces' \subseteq {q \in (1 .. Len(records')) \X (1 .. Len(records')) : q[1] <= q[2]}
  <2>1. /\ <<p[1], mid>> \in {q \in (1 .. Len(records)) \X (1 .. Len(records)) : q[1] <= q[2]}
        /\ <<mid + 1, p[2]>> \in {q \in (1 .. Len(records)) \X (1 .. Len(records)) : q[1] <= q[2]}
    BY <1>1, <1>2
  <2> QED
    BY <2>1, <1>3 DEF PoolInv
<1>5. NoneForgotten'
  <2> SUFFICES ASSUME NEW k \in 1 .. Len(records), outs[k].kind = "todo" PROVE Pending(k)'
    BY <1>3 DEF NoneForgotten
  <2>1. CASE k \in p[1] .. p[2]
    <3>1. k \in p[1] .. mid \/ k \in mid + 1 .. p[2]
      BY <1>1, <1>2, <2>1
    <3> DEFINE low == <<p[1], mid>>  high == <<mid + 1, p[2]>>
    <3>2. low \in pieces' /\ high \in pieces'
      BY <1>3
    <3>3. k \in low[1] .. low[2] \/ k \in high[1] .. high[2]
      BY <3>1
    <3> HIDE DEF low, high
    <3> QED
      BY <3>2, <3>3 DEF Pending
  <2>2. CASE \E q \in pieces \ {p} : k \in q[1] .. q[2]
    BY <2>2, <1>3 DEF Pending
  <2>3. CASE \E v \in Workers : job[v] # Idle /\ k \in job[v].at .. job[v].hi
    BY <2>3, <1>3 DEF Pending
  <2> QED
    BY <2>1, <2>2, <2>3 DEF PoolInv, NoneForgotten, Pending
<1> QED
  BY <1>3, <1>4, <1>5 DEF PoolInv, JobOk, AnswersOk

\* A worker takes a piece up.
LEMMA BeginInv ==
  ASSUME PoolInv, NEW w \in Workers, NEW p \in pieces, NEW made \in BOOLEAN, Begin(w, p, made)
  PROVE  PoolInv'
<1> DEFINE j == [at |-> p[1], hi |-> p[2], decoder |-> made, pos |-> 0, part |-> NoOut]
<1>1. /\ Len(records) \in Nat
      /\ p \in (1 .. Len(records)) \X (1 .. Len(records)) /\ p[1] <= p[2]
  BY DEF PoolInv
<1>2. /\ pieces' = pieces \ {p} /\ job' = [job EXCEPT ![w] = j]
      /\ job[w] = Idle /\ UNCHANGED <<records, outs>>
  BY DEF Begin
<1>3. j \in Jobs /\ j # Idle
  BY <1>1, NoOutType DEF Jobs, Idle
<1>4. JobOk(j)
  BY <1>1, <1>3, FreshJob DEF PoolInv
<1>5. job'[w] = j /\ j.at = p[1] /\ j.hi = p[2]
  BY <1>2 DEF PoolInv
<1> HIDE DEF j
<1>6. job' \in [Workers -> Jobs]
  BY <1>2, <1>3 DEF PoolInv
<1>7. ASSUME NEW v \in Workers PROVE JobOk(job[v])'
  <2>1. JobOk(job'[v])
    BY <1>2, <1>4 DEF PoolInv
  <2> QED
    BY <2>1, <1>2 DEF JobOk
<1>8. NoneForgotten'
  <2> SUFFICES ASSUME NEW k \in 1 .. Len(records), outs[k].kind = "todo" PROVE Pending(k)'
    BY <1>2 DEF NoneForgotten
  <2>1. CASE k \in p[1] .. p[2]
    BY <2>1, <1>3, <1>5 DEF Pending
  <2>2. CASE \E q \in pieces \ {p} : k \in q[1] .. q[2]
    BY <2>2, <1>2 DEF Pending
  <2>3. CASE \E v \in Workers : job[v] # Idle /\ k \in job[v].at .. job[v].hi
    <3>1. PICK v \in Workers : job[v] # Idle /\ k \in job[v].at .. job[v].hi
      BY <2>3
    <3>2. job'[v] = job[v]
      BY <3>1, <1>2 DEF PoolInv
    <3> QED
      BY <3>1, <3>2 DEF Pending
  <2> QED
    BY <2>1, <2>2, <2>3 DEF PoolInv, NoneForgotten, Pending
<1> QED
  BY <1>2, <1>6, <1>7, <1>8 DEF PoolInv, AnswersOk

\* A block is counted.
LEMMA CountedInv ==
  ASSUME PoolInv, NEW w \in Workers, job[w] # Idle,
         job[w].pos < Len(records[job[w].at].blocks),
         NEW b, b = records[job[w].at].blocks[job[w].pos + 1], b.status # "error",
         job' = [job EXCEPT ![w].pos = @ + 1, ![w].part = Count(@, b)],
         UNCHANGED <<records, pieces, outs>>
  PROVE  PoolInv'
<1> DEFINE j == job[w]
           blocks == records[j.at].blocks
           next == [j EXCEPT !.pos = j.pos + 1, !.part = Count(j.part, b)]
<1>1. /\ j \in Jobs /\ JobOk(j) /\ j.at \in 1 .. Len(records) /\ j.at <= j.hi /\ j.hi \in 1 .. Len(records)
      /\ blocks \in Seq(Blocks) /\ Len(blocks) \in Nat
      /\ j.pos \in 0 .. Len(blocks) - 1 /\ j.part = Sums(blocks)[j.pos]
  <2>1. records \in Seq(GameChunks) /\ j \in Jobs /\ JobOk(j)
    BY DEF PoolInv
  <2>2. /\ j.at \in 1 .. Len(records) /\ j.at <= j.hi /\ j.hi \in 1 .. Len(records)
        /\ j.pos \in 0 .. Len(blocks) /\ j.part = Sums(blocks)[j.pos]
    BY <2>1 DEF JobOk
  <2>3. blocks \in Seq(Blocks) /\ Len(blocks) \in Nat
    BY <2>1, <2>2, ChunkType
  <2> QED
    BY <2>1, <2>2, <2>3
<1>2. b \in Blocks /\ j.pos + 1 \in 1 .. Len(blocks) /\ (j.pos + 1) - 1 = j.pos
  BY <1>1
<1>3. Count(j.part, b) = Sums(blocks)[j.pos + 1] /\ Count(j.part, b) \in Outs
  <2>1. Sums(blocks)[j.pos + 1] = Count(Sums(blocks)[(j.pos + 1) - 1], blocks[j.pos + 1])
    BY <1>1, <1>2, SumsUnfold
  <2>2. j.part \in Outs
    BY <1>1 DEF Jobs
  <2> QED
    BY <2>1, <2>2, <1>1, <1>2, CountType
<1>4. next \in Jobs
  <2>1. j.pos + 1 \in Nat
    BY <1>1
  <2> QED
    BY <2>1, <1>1, <1>3 DEF Jobs
<1>5. /\ next.at = j.at /\ next.hi = j.hi /\ next.pos = j.pos + 1 /\ next.part = Count(j.part, b)
  BY <1>1 DEF Jobs
<1>6. job' = [job EXCEPT ![w] = next]
  OBVIOUS
<1> HIDE DEF next
<1>7. JobOk(next)
  <2>1. \A k \in 1 .. j.pos + 1 : blocks[k].status # "error"
    <3>1. \A k \in 1 .. j.pos : blocks[k].status # "error"
      BY <1>1 DEF JobOk
    <3> QED
      BY <3>1, <1>2
  <2>2. /\ next.at \in 1 .. Len(records) /\ next.at <= next.hi /\ next.hi \in 1 .. Len(records)
        /\ records[next.at].blocks = blocks
    BY <1>1, <1>5
  <2> HIDE DEF j, blocks
  <2>3. next.pos \in 0 .. Len(blocks)
    BY <1>1, <1>2, <1>5
  <2>4. next.part = Sums(blocks)[next.pos]
    BY <1>3, <1>5
  <2>5. \A k \in 1 .. next.pos : blocks[k].status # "error"
    BY <1>5, <2>1
  <2> QED
    BY <2>2, <2>3, <2>4, <2>5 DEF JobOk
<1>8. next # Idle
  BY <1>1, <1>5 DEF Idle
<1>9. job' \in [Workers -> Jobs] /\ job'[w] = next /\ \A v \in Workers \ {w} : job'[v] = job[v]
  BY <1>4, <1>6 DEF PoolInv
<1>10. ASSUME NEW v \in Workers PROVE JobOk(job[v])'
  <2>1. JobOk(job'[v])
    BY <1>7, <1>9 DEF PoolInv
  <2> QED
    BY <2>1 DEF JobOk
<1>11. NoneForgotten'
  <2> SUFFICES ASSUME NEW k \in 1 .. Len(records), outs[k].kind = "todo" PROVE Pending(k)'
    BY DEF NoneForgotten
  <2>1. Pending(k)
    BY DEF PoolInv, NoneForgotten
  <2>2. CASE \E q \in pieces : k \in q[1] .. q[2]
    BY <2>2 DEF Pending
  <2>3. CASE \E v \in Workers : job[v] # Idle /\ k \in job[v].at .. job[v].hi
    <3>1. PICK v \in Workers : job[v] # Idle /\ k \in job[v].at .. job[v].hi
      BY <2>3
    <3>2. job'[v] # Idle /\ job'[v].at = job[v].at /\ job'[v].hi = job[v].hi
      BY <3>1, <1>5, <1>8, <1>9
    <3> QED
      BY <3>1, <3>2 DEF Pending
  <2> QED
    BY <2>1, <2>2, <2>3 DEF Pending
<1> QED
  BY <1>9, <1>10, <1>11 DEF PoolInv, AnswersOk

\* Every step of the pool.
LEMMA PoolStep ==
  ASSUME PoolInv, Pool
  PROVE  PoolInv'
<1>1. ASSUME NEW p \in pieces, Split(p) PROVE PoolInv'
  BY <1>1, SplitInv
<1>2. ASSUME NEW w \in Workers, NEW p \in pieces, NEW made \in BOOLEAN, Begin(w, p, made)
      PROVE  PoolInv'
  BY <1>2, BeginInv
<1>3. Err \in [kind : {"ok", "err"}, out : Outs] /\ Err.kind # "ok"
  BY NoOutType DEF Err
<1>4. ASSUME NEW w \in Workers, NoDecoder(w) \/ BadBody(w) PROVE PoolInv'
  <2>1. job[w] # Idle /\ Answer(w, Err) /\ UNCHANGED <<records, pieces>>
    BY <1>4 DEF NoDecoder, BadBody, Working
  <2> HIDE DEF Err
  <2> QED
    BY <2>1, <1>3, AnswerInv
<1>5. ASSUME NEW w \in Workers, Decode(w) PROVE PoolInv'
  <2> DEFINE b == records[job[w].at].blocks[job[w].pos + 1]
  <2>1. /\ job[w] # Idle /\ job[w].pos < Len(records[job[w].at].blocks)
        /\ UNCHANGED <<records, pieces>>
    BY <1>5 DEF Decode, Working, Current
  <2>2. CASE b.status = "error"
    <3>1. Answer(w, Err)
      BY <1>5, <2>2 DEF Decode, Current
    <3> HIDE DEF Err
    <3> QED
      BY <2>1, <3>1, <1>3, AnswerInv
  <2>3. CASE b.status # "error"
    <3>1. job' = [job EXCEPT ![w].pos = @ + 1, ![w].part = Count(@, b)] /\ UNCHANGED outs
      BY <1>5, <2>3 DEF Decode, Current
    <3> HIDE DEF b
    <3>2. b = records[job[w].at].blocks[job[w].pos + 1]
      BY DEF b
    <3> QED
      BY <2>1, <2>3, <3>1, <3>2, CountedInv
  <2> QED
    BY <2>2, <2>3
<1>6. ASSUME NEW w \in Workers, EndChunk(w) PROVE PoolInv'
  <2> DEFINE j == job[w]
             chunk == records[j.at]
             result == IF chunk.torn THEN Err ELSE Ok(j.part)
  <2>1. /\ j # Idle /\ j.pos = Len(chunk.blocks) /\ chunk.frame = "good"
        /\ Answer(w, result) /\ UNCHANGED <<records, pieces>>
    BY <1>6 DEF EndChunk, Working, Current
  <2>2. JobOk(j) /\ j \in Jobs /\ records \in Seq(GameChunks)
    BY DEF PoolInv
  <2>3. /\ j.at \in 1 .. Len(records) /\ j.part \in Outs
        /\ j.part = Sums(chunk.blocks)[j.pos]
        /\ \A k \in 1 .. j.pos : chunk.blocks[k].status # "error"
    BY <2>1, <2>2 DEF JobOk, Jobs
  <2>4. result \in [kind : {"ok", "err"}, out : Outs]
    BY <2>3, <1>3 DEF Ok
  <2>5. result.kind = "ok" => InOrder!Sound(chunk) /\ result.out = InOrder!Sum(chunk.blocks)
    <3> SUFFICES ASSUME result.kind = "ok"
                 PROVE  InOrder!Sound(chunk) /\ result.out = InOrder!Sum(chunk.blocks)
      OBVIOUS
    <3>1. ~ chunk.torn /\ result = Ok(j.part)
      BY <1>3
    <3>2. InOrder!Sound(chunk)
      BY <2>1, <2>3, <3>1 DEF InOrder!Sound
    <3>3. Len(chunk.blocks) \in Nat
      BY <2>2, <2>3, ChunkType
    <3>4. InOrder!Sum(chunk.blocks) = j.part
      BY <2>1, <2>3, <3>3, SumsUnfold
    <3> QED
      BY <3>1, <3>2, <3>4 DEF Ok
  <2> HIDE DEF result
  <2> QED
    BY <2>1, <2>4, <2>5, AnswerInv
<1> QED
  BY <1>1, <1>2, <1>4, <1>5, <1>6 DEF Pool, Worker

\* What the vote leaves was elected.
LEMMA ElectedShapes ==
  ASSUME total \in Outs, NEW shapes \in Elections(total),
         total' = [total EXCEPT !.typed = Retained(@, shapes)], voted' = total
  PROVE  total' \in Outs /\ ShapesAreElected'
<1> DEFINE E == {b \in Blocks : Elected(b, shapes)}
           kept == Retained(total.typed, shapes)
<1>1. kept \in Seq(E)
  <2>1. total.typed \in Seq(Blocks)
    BY DEF Outs
  <2> QED
    BY <2>1, RetainedAreElected
<1>2. kept \in Seq(Blocks)
  <2>1. \A i \in 1 .. Len(kept) : kept[i] \in Blocks
    BY <1>1
  <2>2. Len(kept) \in Nat /\ kept = [i \in 1 .. Len(kept) |-> kept[i]]
    BY <1>1
  <2> HIDE DEF kept
  <2> QED
    BY <2>1, <2>2
<1>3. total'.typed = kept
  BY DEF Outs
<1>4. total' \in Outs
  BY <1>2 DEF Outs
<1> HIDE DEF kept
<1>5. ASSUME NEW i \in 1 .. Len(kept), kept[i].packet \in Shapes
      PROVE  /\ shapes[kept[i].netid] = kept[i].packet
             /\ Passes(total, kept[i].netid, kept[i].packet)
  <2>1. kept[i] \in Blocks /\ Elected(kept[i], shapes)
    BY <1>1
  <2>2. kept[i].netid \in Netids /\ shapes[kept[i].netid] = kept[i].packet
    BY <2>1, <1>5 DEF Elected, Blocks
  <2>3. kept[i].packet # "none"
    BY <1>5 DEF Shapes
  <2> QED
    BY <2>2, <2>3 DEF Elections
<1>6. ShapesAreElected'
  <2> SUFFICES ASSUME NEW i \in 1 .. Len(kept), NEW j \in 1 .. Len(kept), kept[i].packet \in Shapes
               PROVE  /\ voted'.unnamed_clean[kept[i].netid] >= ShapeMin
                      /\ VoteDen * voted'.shape_hits[<<kept[i].netid, kept[i].packet>>]
                           >= VoteNum * voted'.unnamed_clean[kept[i].netid]
                      /\ kept[j].packet \in Shapes /\ kept[j].netid = kept[i].netid =>
                           kept[j].packet = kept[i].packet
    BY <1>3 DEF ShapesAreElected
  <2>1. Passes(total, kept[i].netid, kept[i].packet)
    BY <1>5
  <2>2. voted' = total
    OBVIOUS
  <2>3. kept[j].packet \in Shapes /\ kept[j].netid = kept[i].netid => kept[j].packet = kept[i].packet
    BY <1>5
  <2> QED
    BY <2>1, <2>2, <2>3 DEF Passes
<1> QED
  BY <1>4, <1>6

LEMMA AfterStep ==
  ASSUME ReplayInv, After
  PROVE  ReplayInv'
<1> USE DEF ReplayInv
<1>1. UNCHANGED <<records, pieces, job, outs>>
  BY DEF After, Join, MergeNext, FirstError, Finish, poolVars
<1>2. PoolInv'
  BY <1>1 DEF PoolInv, JobOk, AnswersOk, NoneForgotten, Pending
<1>3. MergeInv'
  <2> USE DEF MergeInv
  <2>1. CASE Join
    BY <2>1 DEF Join, poolVars, ShapesAreElected
  <2>2. CASE MergeNext
    <3>1. /\ outs[merged + 1].out \in Outs /\ merged + 1 \in 0 .. Len(records)
          /\ Len(records) \in Nat
      BY <2>2 DEF MergeNext, PoolInv
    <3>2. total' \in Outs
      BY <2>2, <3>1, MergeType DEF MergeNext
    <3> QED
      BY <2>2, <3>1, <3>2 DEF MergeNext, poolVars, ShapesAreElected
  <2>3. CASE FirstError
    BY <2>3 DEF FirstError, poolVars, ShapesAreElected
  <2>4. CASE Finish
    <3>1. PICK shapes \in Elections(total) : total' = [total EXCEPT !.typed = Retained(@, shapes)]
      BY <2>4 DEF Finish
    <3>2. total' \in Outs /\ ShapesAreElected'
      BY <2>4, <3>1, ElectedShapes DEF Finish
    <3>3. UNCHANGED <<records, pieces, job, outs, merged>> /\ phase = "merge" /\ phase' = "done" /\ outcome' = "ok"
      BY <2>4 DEF Finish, poolVars
    <3> QED
      BY <3>2, <3>3
  <2> QED
    BY <2>1, <2>2, <2>3, <2>4 DEF After
<1> QED
  BY <1>2, <1>3

\* The pool's steps leave the merge alone.
LEMMA PoolKeepsMerge ==
  ASSUME Pool
  PROVE  phase = "pool" /\ UNCHANGED <<records, phase, merged, total, outcome, voted>>
  BY DEF Pool, Split, Worker, Begin, NoDecoder, BadBody, Decode, EndChunk, Working

LEMMA NextInv ==
  ASSUME ReplayInv, [Next]_vars
  PROVE  ReplayInv'
<1>1. CASE Pool
  <2>1. PoolInv'
    BY <1>1, PoolStep DEF ReplayInv
  <2>2. MergeInv'
    BY <1>1, PoolKeepsMerge DEF ReplayInv, MergeInv, ShapesAreElected
  <2> QED
    BY <2>1, <2>2 DEF ReplayInv
<1>2. CASE After
  BY <1>2, AfterStep
<1>3. CASE UNCHANGED vars
  BY <1>3 DEF vars, poolVars, ReplayInv, PoolInv, JobOk, AnswersOk, NoneForgotten, Pending,
              MergeInv, ShapesAreElected
<1> QED
  BY <1>1, <1>2, <1>3 DEF Next

\* The inductive invariant holds.
THEOREM ReplayInvariant == Spec => []ReplayInv
<1>1. Init => ReplayInv
  BY InitInv
<1>2. ReplayInv /\ [Next]_vars => ReplayInv'
  BY NextInv
<1> QED
  BY <1>1, <1>2, PTL DEF Spec

-----------------------------------------------------------------------------
(* What follows                                                            *)

THEOREM ElectionIsFair == Spec => []ShapesAreElected
<1>1. ReplayInv => ShapesAreElected
  BY DEF ReplayInv, MergeInv
<1> QED
  BY <1>1, ReplayInvariant, PTL

\* No chunk is forgotten, however often pieces were split and whichever workers
\* had no decoder: what is merged has been answered.
EveryChunkAnswered == phase # "pool" => \A k \in 1 .. Len(records) : outs[k].kind # "todo"

THEOREM NoChunkIsForgotten == Spec => []EveryChunkAnswered
<1>1. ReplayInv => EveryChunkAnswered
  BY DEF ReplayInv, PoolInv, MergeInv, EveryChunkAnswered, NoneForgotten, Pending
<1> QED
  BY <1>1, ReplayInvariant, PTL

LEMMA SameOuts ==
  /\ InOrder!NoOut = NoOut
  /\ \A a, b : InOrder!Merge(a, b) = Merge(a, b)
  /\ \A out : InOrder!Elections(out) = Elections(out)
  /\ \A typed, shapes : InOrder!Retained(typed, shapes) = Retained(typed, shapes)
<1> USE DEF InOrder!Statuses, Statuses, InOrder!Shapes, Shapes
<1>1. InOrder!NoOut = NoOut
  BY DEF InOrder!NoOut, NoOut
<1>2. ASSUME NEW a, NEW b PROVE InOrder!Merge(a, b) = Merge(a, b)
  BY DEF InOrder!Merge, Merge
<1>3. ASSUME NEW out PROVE InOrder!Elections(out) = Elections(out)
  BY DEF InOrder!Elections, Elections, InOrder!Passes, Passes
<1>4. ASSUME NEW typed, NEW shapes PROVE InOrder!Retained(typed, shapes) = Retained(typed, shapes)
  BY DEF InOrder!Retained, Retained, InOrder!Elected, Elected
<1> QED
  BY <1>1, <1>2, <1>3, <1>4

\* decode_replay's steps are those of the one decoder, or change nothing it has.
LEMMA StepsInOrder ==
  ASSUME ReplayInv, [Next]_vars
  PROVE  [InOrder!Next]_InOrder!inOrder
<1> USE DEF InOrder!inOrder, InOrder!Next
<1>1. CASE Pool
  BY <1>1, PoolKeepsMerge
<1>2. CASE Join
  BY <1>2 DEF Join
<1>3. CASE MergeNext
  <2>1. merged + 1 \in 1 .. Len(records) /\ Len(records) \in Nat
    BY <1>3 DEF MergeNext, ReplayInv, MergeInv, PoolInv
  <2>2. /\ InOrder!Sound(records[merged + 1])
        /\ outs[merged + 1].out = InOrder!Sum(records[merged + 1].blocks)
    BY <1>3, <2>1 DEF MergeNext, ReplayInv, PoolInv, AnswersOk
  <2>3. total' = InOrder!Merge(total, InOrder!Sum(records[merged + 1].blocks))
    BY <1>3, <2>2, SameOuts DEF MergeNext
  <2>4. outcome = "running"
    BY <1>3 DEF MergeNext, ReplayInv, MergeInv
  <2> QED
    BY <1>3, <2>2, <2>3, <2>4 DEF MergeNext, InOrder!Decode, poolVars
<1>4. CASE FirstError
  BY <1>4 DEF FirstError, InOrder!Fail, poolVars, ReplayInv, MergeInv
<1>5. CASE Finish
  <2>1. PICK shapes \in Elections(total) : total' = [total EXCEPT !.typed = Retained(@, shapes)]
    BY <1>5 DEF Finish
  <2>2. /\ shapes \in InOrder!Elections(total)
        /\ total' = [total EXCEPT !.typed = InOrder!Retained(@, shapes)]
    BY <2>1, SameOuts
  <2> QED
    BY <1>5, <2>2 DEF Finish, InOrder!Finish, poolVars, ReplayInv, MergeInv
<1>6. CASE UNCHANGED vars
  BY <1>6 DEF vars
<1> QED
  BY <1>1, <1>2, <1>3, <1>4, <1>5, <1>6 DEF Next, After

\* Whichever worker takes which chunk and whenever it is done with it, the result
\* is that of decoding the chunks one after the other (game.rs:89-90, 111-141).
THEOREM DecodesInOrder == Spec => InOrder!Spec
<1>1. Init => InOrder!Init
  BY SameOuts DEF Init, InOrder!Init
<1>2. ReplayInv /\ [Next]_vars => [InOrder!Next]_InOrder!inOrder
  BY StepsInOrder
<1> QED
  BY <1>1, <1>2, ReplayInvariant, PTL DEF Spec, InOrder!Spec
=============================================================================
