--------------------------- MODULE ExplorationProofs --------------------------
(***************************************************************************)
(* Passes of src/src/explore.rs over the packets of replays, proved for    *)
(* any alphabet, classes, similarities and games.                          *)
(*                                                                         *)
(* match_patches implements the best-first match, and a confident match    *)
(* has no rival.  A chain of bytes that solve_waypoints reports is true.   *)
(* What solve_killer learns of the true field is true, and the field it    *)
(* reports has been learned to the end.  No counter is matched at two      *)
(* offsets, and the classes of visibility are read as the server means     *)
(* them.  Pooled profiles, fingerprints and arrays tell of all blocks,     *)
(* however they were divided; champions are found among the units; the     *)
(* windows about events are measured as what they cover; and what a layout *)
(* says of a position is true.                                             *)
(***************************************************************************)
EXTENDS ArrayEntries, Fingerprint, Layout, EventLocked, Framing, FieldProfile, PatchMatch, ByteChain, KillerField, StatsMatch, Visibility, FiniteSetTheorems, WellFoundedInduction, TLAPS

-----------------------------------------------------------------------------
(* Patches                                                                 *)

PairOf(m) == <<m.netid, m.reference>>

\* The inductive invariant: the classes that are taken are the matched ones, and a
\* pair the loop has passed has lost one of its classes.
PatchInv ==
  /\ score \in [AllPairs -> Scores]
  /\ rest \subseteq AllPairs
  /\ \A m \in matches : PairOf(m) \in AllPairs /\ m = MatchOf(PairOf(m))
  /\ taken_t = {m.netid : m \in matches} /\ taken_r = {m.reference : m \in matches}
  /\ \A p \in AllPairs \ rest : p[1] \in taken_t \/ p[2] \in taken_r

-----------------------------------------------------------------------------
(* First and greatest                                                      *)

\* A set of numbers that is not empty has a least one.
LEMMA LeastExists ==
  ASSUME NEW S \in SUBSET Nat, S # {}
  PROVE  \E m \in S : \A n \in S : m <= n
<1>1. \E x \in S : \A y \in S : ~ (<<y, x>> \in OpToRel(<, Nat))
  BY NatLessThanWellFounded, WFMin
<1>2. PICK x \in S : \A y \in S : ~ (<<y, x>> \in OpToRel(<, Nat))
  BY <1>1
<1>3. \A y \in S : ~ (y < x)
  BY <1>2 DEF OpToRel
<1> QED
  BY <1>3

\* A set of shares that is not empty has a greatest one, which is what Max gives.
LEMMA MaxIsGreatest ==
  ASSUME NEW S \in SUBSET (0 .. 100), S # {}
  PROVE  Max(S) \in S /\ \A n \in S : Max(S) >= n
<1> DEFINE D == {100 - n : n \in S}
<1>1. D \in SUBSET Nat /\ D # {}
  <2>1. \A n \in S : n \in 0 .. 100 /\ 100 - n \in Nat
    OBVIOUS
  <2> QED
    BY <2>1
<1>2. PICK d \in D : \A e \in D : d <= e
  BY <1>1, LeastExists
<1>3. PICK x \in S : d = 100 - x
  BY <1>2
<1>4. \A y \in S : x >= y
  <2> TAKE y \in S
  <2>1. 100 - y \in D
    OBVIOUS
  <2>2. 100 - x <= 100 - y
    BY <1>2, <1>3, <2>1
  <2>3. x \in 0 .. 100 /\ y \in 0 .. 100
    OBVIOUS
  <2> QED
    BY <2>2, <2>3
<1> QED
  BY <1>4 DEF Max

\* Pairs that are left have a first one.
LEMMA FirstPairIsFirst ==
  ASSUME score \in [AllPairs -> Scores], rest \subseteq AllPairs, rest # {}
  PROVE  /\ FirstPair \in rest
         /\ \A q \in rest \ {FirstPair} : Before(FirstPair, q)
<1> DEFINE Shares == {score[p] : p \in rest}
           top    == Max(Shares)
           Top    == {p \in rest : score[p] = top}
           Firsts == {p[1] : p \in Top}
<1>1. Shares \in SUBSET (0 .. 100) /\ Shares # {}
  BY PatchAssumption
<1>2. top \in Shares /\ \A n \in Shares : top >= n
  BY <1>1, MaxIsGreatest
<1>3. Top # {} /\ Firsts # {} /\ Firsts \in SUBSET Nat
  BY <1>2, PatchAssumption DEF AllPairs
<1>4. PICK row \in Firsts : \A t \in Firsts : row <= t
  BY <1>3, LeastExists
<1> DEFINE InRow == {p \in Top : p[1] = row}
           Cols  == {p[2] : p \in InRow}
<1>5. Cols # {} /\ Cols \in SUBSET Nat
  BY <1>4, PatchAssumption DEF AllPairs
<1>6. PICK col \in Cols : \A r \in Cols : col <= r
  BY <1>5, LeastExists
<1>7. PICK first \in InRow : first[2] = col
  BY <1>6
<1>8. \A q \in rest \ {first} : Before(first, q)
  <2> TAKE q \in rest \ {first}
  <2>1. /\ score[first] = top /\ first[1] = row /\ first[2] = col
        /\ first \in Target \X Reference /\ q \in Target \X Reference
        /\ score[q] \in Shares
    BY <1>7 DEF AllPairs
  <2>2. /\ row \in Nat /\ col \in Nat /\ q[1] \in Nat /\ q[2] \in Nat
        /\ score[q] \in 0 .. 100 /\ top \in 0 .. 100
    BY <2>1, <1>1, <1>2, PatchAssumption
  <2>3. CASE score[q] # top
    BY <2>1, <2>2, <2>3, <1>2 DEF Before
  <2>4. CASE score[q] = top /\ q[1] # row
    <3>1. row <= q[1]
      BY <2>4, <1>4
    <3> QED
      BY <2>1, <2>2, <2>4, <3>1 DEF Before, Earlier
  <2>5. CASE score[q] = top /\ q[1] = row
    <3>1. col <= q[2]
      BY <2>5, <1>6
    <3>2. q[2] # col
      BY <2>1, <2>5
    <3> QED
      BY <2>1, <2>2, <2>5, <3>1, <3>2 DEF Before, Earlier
  <2> QED
    BY <2>3, <2>4, <2>5
<1> QED
  BY <1>7, <1>8 DEF FirstPair

-----------------------------------------------------------------------------
(* The invariant                                                           *)

LEMMA InitPatch == PatchInit => PatchInv
  BY DEF PatchInit, PatchStart, PatchInv

LEMMA NextPatch == PatchInv /\ [PatchNext]_patchPart => PatchInv'
<1> SUFFICES ASSUME PatchInv, [PatchNext]_patchPart PROVE PatchInv'
  OBVIOUS
<1>1. CASE UNCHANGED patchPart
  <2>1. UNCHANGED <<score, rest, taken_t, taken_r, matches>>
    BY <1>1 DEF patchPart
  <2>2. \A q : MatchOf(q)' = MatchOf(q)
    BY <2>1 DEF MatchOf, BestOf, SecondOf
  <2> QED
    BY <2>1, <2>2 DEF PatchInv
<1>2. CASE PatchNext
  <2> DEFINE p == FirstPair
  <2>1. p \in rest /\ p \in AllPairs /\ p = <<p[1], p[2]>>
    BY <1>2, FirstPairIsFirst DEF PatchInv, PatchNext, AllPairs
  <2>2. /\ rest' = rest \ {p} /\ score' = score
        /\ AllPairs \ rest' = (AllPairs \ rest) \cup {p}
    BY <1>2, <2>1 DEF PatchNext
  <2>3. \A q : MatchOf(q)' = MatchOf(q)
    BY <2>2 DEF MatchOf, BestOf, SecondOf
  <2>4. CASE TargetTaken
    BY <2>1, <2>2, <2>3, <2>4 DEF PatchInv, TargetTaken
  <2>5. CASE ReferenceTaken
    BY <2>1, <2>2, <2>3, <2>5 DEF PatchInv, ReferenceTaken
  <2>6. CASE MatchPair
    <3> DEFINE m == MatchOf(p)
    <3>1. matches' = matches \cup {m}
      BY <2>6 DEF MatchPair
    <3>2. m.netid = p[1] /\ m.reference = p[2] /\ PairOf(m) = p
      BY <2>1 DEF MatchOf, PairOf
    <3>3. \A k \in matches' : PairOf(k) \in AllPairs /\ k = MatchOf(PairOf(k))
      BY <2>1, <3>1, <3>2 DEF PatchInv
    <3>4. /\ taken_t' = {k.netid : k \in matches'}
          /\ taken_r' = {k.reference : k \in matches'}
      <4> HIDE DEF m
      <4> QED
        BY <2>6, <3>1, <3>2 DEF MatchPair, PatchInv
    <3>5. \A q \in AllPairs \ rest' : q[1] \in taken_t' \/ q[2] \in taken_r'
      BY <2>2, <2>6 DEF MatchPair, PatchInv
    <3> QED
      BY <2>2, <2>3, <3>3, <3>4, <3>5 DEF PatchInv
  <2> QED
    BY <1>2, <2>4, <2>5, <2>6 DEF PatchNext
<1> QED
  BY <1>1, <1>2

-----------------------------------------------------------------------------
(* The refinement                                                          *)

\* A step matches the best free pair or none.
LEMMA StepIsBestFirst ==
  PatchInv /\ [PatchNext]_patchPart => [Abstract!Next]_(Abstract!vars)
<1> SUFFICES ASSUME PatchInv, [PatchNext]_patchPart
             PROVE  Abstract!Next \/ UNCHANGED (Abstract!vars)
  OBVIOUS
<1> DEFINE matched == {<<m.netid, m.reference>> : m \in matches}
<1>1. CASE UNCHANGED <<matches, score>>
  BY <1>1 DEF Abstract!vars
<1>2. CASE PatchNext /\ MatchPair
  <2> DEFINE p == FirstPair
  <2>1. /\ p \in rest /\ p \in AllPairs /\ p = <<p[1], p[2]>>
        /\ \A q \in rest \ {p} : Before(p, q)
    BY <1>2, FirstPairIsFirst DEF PatchInv, PatchNext, AllPairs
  <2>2. Abstract!Free(p)
    BY <1>2 DEF Abstract!Free, MatchPair, PatchInv
  <2>3. matched' = matched \cup {p}
    <3> DEFINE m == MatchOf(p)
    <3>1. matches' = matches \cup {m}
      BY <1>2 DEF MatchPair
    <3>2. <<m.netid, m.reference>> = p
      BY <2>1 DEF MatchOf
    <3> HIDE DEF m
    <3> QED
      BY <3>1, <3>2
  <2>4. ASSUME NEW q \in Abstract!Rivals(p) PROVE score[q] <= score[p]
    <3>1. q \in AllPairs /\ Abstract!Free(q)
      BY <2>4 DEF Abstract!Rivals, Abstract!Pairs, AllPairs
    <3>2. q \in rest
      <4>1. ASSUME NEW m \in matches PROVE q[1] # m.netid /\ q[2] # m.reference
        <5>1. <<m.netid, m.reference>> \in matched
          OBVIOUS
        <5>2. \A x \in matched : q[1] # x[1] /\ q[2] # x[2]
          BY <3>1 DEF Abstract!Free
        <5> HIDE DEF matched
        <5> QED
          BY <5>1, <5>2
      <4> QED
        BY <3>1, <4>1 DEF PatchInv
    <3>3. score[p] \in 0 .. 100 /\ score[q] \in 0 .. 100
      BY <2>1, <3>1, PatchAssumption DEF PatchInv
    <3> QED
      BY <2>1, <3>2, <3>3 DEF Before
  <2>5. score' = score
    BY <1>2 DEF PatchNext
  <2>6. p \in Abstract!Pairs
    BY <2>1 DEF Abstract!Pairs, AllPairs
  <2> HIDE DEF p
  <2> QED
    BY <2>2, <2>3, <2>4, <2>5, <2>6 DEF Abstract!Next, Abstract!Match
<1>3. CASE PatchNext /\ ~ MatchPair
  BY <1>1, <1>3 DEF PatchNext, TargetTaken, ReferenceTaken
<1>4. CASE UNCHANGED patchPart
  BY <1>1, <1>4 DEF patchPart
<1> QED
  BY <1>2, <1>3, <1>4

\* Walking one sorted list of all pairs is the best-first match: no early pair takes
\* a class from a later one that needed it more (explore.rs:470-472).
THEOREM MatchIsBestFirst == PatchSpec => ImplementsBestFirst
<1>1. PatchInit => Abstract!Init
  BY DEF PatchInit, PatchStart, Abstract!Init
<1> QED
  BY <1>1, InitPatch, NextPatch, StepIsBestFirst, PTL
  DEF PatchSpec, ImplementsBestFirst, Abstract!Spec

-----------------------------------------------------------------------------
(* Confidence                                                              *)

\* The runner-up of a class is as high as any reference but the best.
LEMMA MarginIsLead ==
  ASSUME score \in [AllPairs -> Scores], NEW t \in Target,
         NEW k \in Reference, score[<<t, k>>] = BestOf(t),
         BestOf(t) - SecondOf(t) >= CONFIDENT_MARGIN,
         NEW r \in Reference \ {k}
  PROVE  score[<<t, k>>] - score[<<t, r>>] >= CONFIDENT_MARGIN
<1> DEFINE best   == CHOOSE x \in Reference : score[<<t, x>>] = BestOf(t)
           Rivals == {0} \cup {score[<<t, x>>] : x \in Reference \ {best}}
<1>1. /\ \A x \in Reference : score[<<t, x>>] \in 0 .. 100
      /\ CONFIDENT_MARGIN \in 1 .. 100
  BY PatchAssumption DEF AllPairs
<1>2. best \in Reference /\ score[<<t, best>>] = BestOf(t)
  OBVIOUS
<1>3. SecondOf(t) = Max(Rivals)
  BY DEF SecondOf
<1>4. Rivals \in SUBSET (0 .. 100) /\ Rivals # {}
  <2>1. \A x \in Reference \ {best} : score[<<t, x>>] \in 0 .. 100
    BY <1>1
  <2>2. \A n \in Rivals : n \in 0 .. 100
    <3> TAKE n \in Rivals
    <3>1. CASE n = 0
      BY <3>1
    <3>2. CASE n # 0
      <4>1. PICK x \in Reference \ {best} : n = score[<<t, x>>]
        BY <3>2
      <4> HIDE DEF best, Rivals
      <4> QED
        BY <2>1, <4>1
    <3> QED
      BY <3>1, <3>2
  <2> QED
    BY <2>2
<1>5. Max(Rivals) \in 0 .. 100 /\ \A n \in Rivals : Max(Rivals) >= n
  BY <1>4, MaxIsGreatest
<1>6. k = best
  <2> SUFFICES ASSUME k # best PROVE FALSE
    OBVIOUS
  <2>1. score[<<t, k>>] \in Rivals
    OBVIOUS
  <2> QED
    BY <1>1, <1>3, <1>5, <2>1
<1>7. score[<<t, r>>] \in Rivals
  BY <1>6
<1>8. /\ score[<<t, k>>] - SecondOf(t) >= CONFIDENT_MARGIN
      /\ SecondOf(t) >= score[<<t, r>>]
  BY <1>3, <1>5, <1>7
<1>9. /\ score[<<t, k>>] \in 0 .. 100 /\ score[<<t, r>>] \in 0 .. 100
      /\ SecondOf(t) \in 0 .. 100
  BY <1>1, <1>3, <1>5
<1> DEFINE a == score[<<t, k>>]
           b == score[<<t, r>>]
           c == SecondOf(t)
<1>10. a \in Int /\ b \in Int /\ c \in Int /\ CONFIDENT_MARGIN \in Int
  BY <1>1, <1>9
<1>11. a - c >= CONFIDENT_MARGIN /\ c >= b
  BY <1>8
<1> HIDE DEF a, b, c
<1>12. a - b >= CONFIDENT_MARGIN
  BY <1>10, <1>11
<1> QED
  BY <1>12 DEF a, b

\* A confident match has no runner-up within the margin, whether or not that one was
\* still free, nor a twin (explore.rs:483-499).
THEOREM ConfidentMatchIsAlone == PatchSpec => []ConfidentIsAlone
<1>1. PatchInv => ConfidentIsAlone
  <2> SUFFICES ASSUME PatchInv, NEW m \in matches, m.confident,
                      NEW r \in Reference \ {m.reference}
               PROVE  /\ m.score - score[<<m.netid, r>>] >= CONFIDENT_MARGIN
                      /\ ~ Alike(r, m.reference)
    BY DEF ConfidentIsAlone
  <2> DEFINE t == m.netid
             k == m.reference
  <2>1. t \in Target /\ k \in Reference /\ m = MatchOf(<<t, k>>)
    BY DEF PatchInv, PairOf, AllPairs
  <2>2. /\ m.score = score[<<t, k>>] /\ score[<<t, k>>] = BestOf(t)
        /\ BestOf(t) - SecondOf(t) >= CONFIDENT_MARGIN
    BY <2>1 DEF MatchOf
  <2>3. score[<<t, k>>] - score[<<t, r>>] >= CONFIDENT_MARGIN
    BY <2>1, <2>2, MarginIsLead DEF PatchInv
  <2>4. score[<<t, k>>] \in 0 .. 100 /\ score[<<t, r>>] \in 0 .. 100
        /\ CONFIDENT_MARGIN \in Int /\ CONFIDENT_MARGIN >= 1
    <3>1. <<t, k>> \in AllPairs /\ <<t, r>> \in AllPairs
      BY <2>1 DEF AllPairs
    <3>2. score \in [AllPairs -> Scores]
      BY DEF PatchInv
    <3>3. score[<<t, k>>] \in Scores /\ score[<<t, r>>] \in Scores
      BY <3>1, <3>2
    <3>4. \A n \in Scores : n \in 0 .. 100
      BY PatchAssumption
    <3>5. CONFIDENT_MARGIN \in 1 .. 100
      BY PatchAssumption
    <3>6. CONFIDENT_MARGIN \in Int /\ CONFIDENT_MARGIN >= 1
      BY <3>5
    <3> HIDE DEF t, k
    <3> QED
      BY <3>3, <3>4, <3>6
  <2>5. score[<<t, r>>] # score[<<t, k>>]
    <3> DEFINE a == score[<<t, k>>]
               b == score[<<t, r>>]
    <3>1. a \in 0 .. 100 /\ b \in 0 .. 100 /\ CONFIDENT_MARGIN \in Int
          /\ a - b >= CONFIDENT_MARGIN /\ CONFIDENT_MARGIN >= 1
      BY <2>3, <2>4
    <3> HIDE DEF a, b
    <3>2. a # b
      BY <3>1
    <3> QED
      BY <3>2 DEF a, b
  <2> QED
    BY <2>1, <2>2, <2>3, <2>5 DEF Alike
<1> QED
  BY <1>1, InitPatch, NextPatch, PTL DEF PatchSpec

-----------------------------------------------------------------------------
(* Byte chain                                                              *)

\* What the step taken for one up may be.
Ways == {"up", "down"}

\* The byte that is given place p then.
At(up, p) == IF up = "up" \/ p = 0 THEN p ELSE Size - p

TrueTo(table, up) == \A p \in DOMAIN table : p \in Alphabet /\ table[p] = At(up, p)

\* What a walk has given places to: up from the anchor to k, and down to the end.
Reached(up, k) ==
  \/ chain.going = "nowhere" /\ DOMAIN chain.table = {Anchor} /\ k = 0
  \/ /\ chain.going = "up" /\ DOMAIN chain.table = 0 .. k
     /\ chain.value = k + 1 /\ chain.value \in Alphabet /\ chain.cur = At(up, chain.value)
  \/ chain.going = "turned" /\ DOMAIN chain.table = 0 .. k
  \/ /\ chain.going = "down" /\ DOMAIN chain.table = 0 .. k \cup chain.value + 1 .. Size - 1
     /\ k < chain.value /\ chain.value \in Alphabet /\ chain.cur = At(up, chain.value)
  \/ chain.going = "over"

ChainTables == UNION {[D -> Alphabet] : D \in SUBSET Alphabet}

WalkOf == [step : Alphabet, going : {"nowhere", "up", "turned", "down", "over"},
           cur : Alphabet, value : Alphabet, table : ChainTables]

ChainInv ==
  /\ changes \in SeenChanging /\ orient \in {{}, {0}, {2}} /\ steps \subseteq Alphabet \ {Anchor}
  /\ chain \in WalkOf
  /\ \E up \in Ways, k \in Alphabet : TrueTo(chain.table, up) /\ Reached(up, k)
  /\ \A p \in DOMAIN solved_chain : solved_chain[p] = p

LEMMA SizeIsNat == Size \in Nat /\ Size >= 5 /\ \A p : p \in Alphabet <=> p \in 0 .. Size - 1
BY ChainAssumption, FS_CardinalityType DEF Size

\* One round the circle.
LEMMA RoundFacts ==
  ASSUME NEW a \in Alphabet
  PROVE  /\ (a + 1) % Size = IF a = Size - 1 THEN 0 ELSE a + 1
         /\ (a + (Size - 1)) % Size = IF a = 0 THEN Size - 1 ELSE a - 1
<1>20. PICK k : k = Size
  OBVIOUS
<1>1. k \in Nat /\ k >= 5 /\ a \in 0 .. k - 1
  BY <1>20, SizeIsNat
<1>2. \A n \in {0, 1}, r \in 0 .. k - 1 : (k * n + r) % k = r
  <2> SUFFICES ASSUME NEW n \in {0, 1}, NEW r \in 0 .. k - 1 PROVE (k * n + r) % k = r
    OBVIOUS
  <2>1. CASE n = 0
    BY <1>1, <2>1
  <2>2. CASE n = 1
    BY <1>1, <2>2
  <2> QED
    BY <2>1, <2>2
<1>3. (a + 1) % k = IF a = k - 1 THEN 0 ELSE a + 1
  BY <1>1, <1>2
<1>4. (a + (k - 1)) % k = IF a = 0 THEN k - 1 ELSE a - 1
  <2>1. CASE a = 0
    BY <1>1, <1>2, <2>1
  <2>2. CASE a # 0
    <3>1. a + (k - 1) = k * 1 + (a - 1) /\ a - 1 \in 0 .. k - 1
      BY <1>1, <2>2
    <3> QED
      BY <1>2, <2>2, <3>1
  <2> QED
    BY <2>1, <2>2
<1> QED
  BY <1>3, <1>4, <1>20

\* Bytes that turn into one another often enough are next to one another.
LEMMA StrongIsNext ==
  ASSUME changes \in SeenChanging, NEW a \in Alphabet, NEW b \in Alphabet, Strong(a, b)
  PROVE  a # b /\ (b = (a + 1) % Size \/ a = (b + 1) % Size)
<1>1. a # b /\ changes[{a, b}] >= CHAIN_MIN
  BY DEF Strong
<1>2. IsFiniteSet({a}) /\ Cardinality({a}) = 1 /\ {a, b} = {a} \cup {b} /\ b \notin {a}
  BY <1>1, FS_Singleton
<1>3. Cardinality({a, b}) = 2
  BY <1>2, FS_AddElement
<1>4. {a, b} \in Edges
  BY <1>3 DEF Edges
<1>5. Near({a, b})
  <2>1. changes[{a, b}] \in 0 .. MaxChanges
    BY <1>4 DEF SeenChanging
  <2>2. ~ (changes[{a, b}] < CHAIN_MIN)
    BY <1>1, <2>1, ChainAssumption
  <2> QED
    BY <1>4, <2>2 DEF SeenChanging
<1>6. (a + 1) % Size # a /\ (b + 1) % Size # b
  BY RoundFacts, SizeIsNat
<1> QED
  BY <1>1, <1>5, <1>6 DEF Near

LEMMA AtFacts ==
  ASSUME NEW up \in Ways, NEW p \in Alphabet
  PROVE  /\ At(up, p) \in Alphabet /\ At(up, 0) = 0
         /\ \A q \in Alphabet : At(up, p) = At(up, q) => p = q
BY SizeIsNat DEF At, Ways

\* A strong neighbour of the byte at one place is at the place before or after.
LEMMA StrongPlaces ==
  ASSUME changes \in SeenChanging, NEW up \in Ways, NEW p \in Alphabet, NEW b \in Alphabet,
         Strong(At(up, p), b)
  PROVE  b = At(up, IF p = Size - 1 THEN 0 ELSE p + 1) \/ b = At(up, IF p = 0 THEN Size - 1 ELSE p - 1)
<1>20. PICK a \in Alphabet : a = At(up, p)
  BY AtFacts
<1>1. b = (a + 1) % Size \/ a = (b + 1) % Size
  BY <1>20, StrongIsNext
<1>2. b = (IF a = Size - 1 THEN 0 ELSE a + 1) \/ a = (IF b = Size - 1 THEN 0 ELSE b + 1)
  BY <1>1, RoundFacts
<1> QED
  BY <1>2, <1>20, SizeIsNat DEF At, Ways

\* A table that is given one place more.
LEMMA GivenPlace ==
  ASSUME NEW t \in ChainTables, NEW v \in Alphabet, NEW c \in Alphabet, v \notin DOMAIN t
  PROVE  LET m == Placed(t, v, c) IN
         /\ m \in ChainTables /\ DOMAIN m = DOMAIN t \cup {v} /\ m[v] = c
         /\ \A p \in DOMAIN t : m[p] = t[p]
<1>20. PICK m : m = Placed(t, v, c)
  OBVIOUS
<1>1. PICK D \in SUBSET Alphabet : t \in [D -> Alphabet]
  BY DEF ChainTables
<1>2. m = [x \in D \cup {v} |-> IF x = v THEN c ELSE t[x]]
  BY <1>1, <1>20 DEF Placed
<1>3. v \notin D
  BY <1>1
<1>4. m \in [D \cup {v} -> Alphabet] /\ m[v] = c /\ \A p \in D : m[p] = t[p]
  BY <1>1, <1>2, <1>3
<1>5. D \cup {v} \in SUBSET Alphabet
  BY <1>1
<1> QED
  BY <1>1, <1>4, <1>5, <1>20 DEF ChainTables

LEMMA ChainStarts == ChainInit => ChainInv
<1> SUFFICES ASSUME ChainInit PROVE ChainInv
  OBVIOUS
<1>1. 0 \in Alphabet /\ Anchor = 0
  BY SizeIsNat DEF Anchor
<1>2. /\ changes \in SeenChanging /\ orient \in {{}, {0}, {2}} /\ steps \subseteq Alphabet \ {Anchor}
      /\ chain = NoChain /\ solved_chain = <<>>
  BY DEF ChainInit, ChainStart
<1>3. chain \in WalkOf
  <2>1. [p \in {Anchor} |-> Anchor] \in [{Anchor} -> Alphabet] /\ {Anchor} \in SUBSET Alphabet
    BY <1>1
  <2>2. [p \in {Anchor} |-> Anchor] \in ChainTables
    BY <2>1 DEF ChainTables
  <2> QED
    BY <1>1, <1>2, <2>2 DEF NoChain, WalkOf
<1>4. TrueTo(chain.table, "up") /\ Reached("up", 0)
  BY <1>1, <1>2 DEF NoChain, TrueTo, Reached, At
<1>5. \A p \in DOMAIN solved_chain : solved_chain[p] = p
  BY <1>2
<1> QED
  BY <1>1, <1>2, <1>3, <1>4, <1>5 DEF ChainInv, Ways

LEMMA BeginKeeps == ChainInv /\ Begin => ChainInv'
<1> SUFFICES ASSUME ChainInv, Begin PROVE ChainInv'
  OBVIOUS
<1> USE DEF ChainInv
<1>1. PICK b \in NextStep :
        /\ steps' = steps \ {b}
        /\ chain' = IF Strong(Anchor, b)
             THEN [NoChain EXCEPT !.step = b, !.going = "up", !.cur = b, !.value = 1]
             ELSE [NoChain EXCEPT !.step = b, !.going = "turned"]
  BY DEF Begin
<1>2. b \in Alphabet /\ b # 0 /\ 0 \in Alphabet /\ 1 \in Alphabet /\ Anchor = 0
  BY SizeIsNat DEF NextStep, Anchor
<1>3. changes' = changes /\ orient' = orient /\ solved_chain' = solved_chain
  BY DEF Begin
<1>4. [p \in {Anchor} |-> Anchor] \in ChainTables
  <2>1. [p \in {Anchor} |-> Anchor] \in [{Anchor} -> Alphabet] /\ {Anchor} \in SUBSET Alphabet
    BY <1>2
  <2> QED
    BY <2>1 DEF ChainTables
<1>5. chain' \in WalkOf
  BY <1>1, <1>2, <1>4 DEF NoChain, WalkOf
<1>6. /\ chain'.table = [p \in {Anchor} |-> Anchor]
      /\ chain'.going = (IF Strong(Anchor, b) THEN "up" ELSE "turned")
      /\ Strong(Anchor, b) => chain'.cur = b /\ chain'.value = 1
  BY <1>1 DEF NoChain
<1>7. \A up \in Ways : TrueTo(chain'.table, up)
  BY <1>2, <1>6 DEF TrueTo, At, Ways
<1>8. PICK up \in Ways : Strong(Anchor, b) => b = At(up, 1)
  <2>1. CASE Strong(Anchor, b)
    <3>1. b = At("up", 1) \/ b = At("up", Size - 1)
      <4>1. Strong(At("up", 0), b)
        BY <1>2, <2>1, AtFacts DEF Ways
      <4>2. "up" \in Ways /\ 0 # Size - 1 /\ changes \in SeenChanging
        BY SizeIsNat DEF Ways
      <4>3. b = At("up", IF 0 = Size - 1 THEN 0 ELSE 0 + 1) \/ b = At("up", IF 0 = 0 THEN Size - 1 ELSE 0 - 1)
        BY <1>2, <4>1, <4>2, StrongPlaces
      <4> QED
        BY <4>2, <4>3
    <3>2. At("up", Size - 1) = At("down", 1)
      BY SizeIsNat DEF At, Ways
    <3> QED
      BY <3>1, <3>2 DEF Ways
  <2> QED
    BY <2>1 DEF Ways
<1>9. Reached(up, 0)'
  <2>1. DOMAIN chain'.table = 0 .. 0
    BY <1>2, <1>6
  <2> QED
    BY <1>2, <1>6, <1>8, <2>1 DEF Reached
<1>10. TrueTo(chain.table, up)'
  BY <1>7 DEF TrueTo
<1> QED
  BY <1>1, <1>2, <1>3, <1>5, <1>9, <1>10

LEMMA WalkKeeps == ChainInv /\ Walk => ChainInv'
<1> SUFFICES ASSUME ChainInv, Walk PROVE ChainInv'
  OBVIOUS
<1> USE DEF ChainInv
<1>1. PICK up \in Ways, k \in Alphabet : TrueTo(chain.table, up) /\ Reached(up, k)
  OBVIOUS
<1>20. PICK t \in ChainTables : t = chain.table
  BY DEF WalkOf
<1>21. PICK v \in Alphabet : v = chain.value
  BY DEF WalkOf
<1>22. PICK c \in Alphabet : c = chain.cur
  BY DEF WalkOf
<1>2. /\ chain.going \in {"up", "down"} /\ c = At(up, v)
      /\ chain.going = "up" => DOMAIN t = 0 .. k /\ v = k + 1
      /\ chain.going = "down" => DOMAIN t = 0 .. k \cup v + 1 .. Size - 1 /\ k < v
  BY <1>1, <1>20, <1>21, <1>22 DEF Walk, Reached
<1>3. v \notin DOMAIN t /\ 0 \in DOMAIN t
  BY <1>2, SizeIsNat
<1>23. PICK m : m = Placed(t, v, c)
  OBVIOUS
<1>4. m \in ChainTables /\ DOMAIN m = DOMAIN t \cup {v} /\ m[v] = c /\ \A p \in DOMAIN t : m[p] = t[p]
  <2>1. LET n == Placed(t, v, c) IN
        n \in ChainTables /\ DOMAIN n = DOMAIN t \cup {v} /\ n[v] = c /\ \A p \in DOMAIN t : n[p] = t[p]
    BY <1>3, GivenPlace
  <2> QED
    BY <1>23, <2>1
<1>5. TrueTo(m, up)
  BY <1>1, <1>2, <1>4, <1>20 DEF TrueTo
<1>6. changes' = changes /\ orient' = orient /\ steps' = steps /\ solved_chain' = solved_chain
  BY DEF Walk
<1>7. CASE Onward(chain.cur) = {}
  <2>1. chain' = [chain EXCEPT !.table = m, !.going = IF chain.going = "up" THEN "turned" ELSE "over"]
    BY <1>7, <1>20, <1>21, <1>22, <1>23 DEF Walk
  <2>2. /\ chain' \in WalkOf /\ chain'.table = m
        /\ chain'.going = IF chain.going = "up" THEN "turned" ELSE "over"
    BY <1>4, <2>1 DEF WalkOf
  <2>3. TrueTo(chain.table, up)'
    BY <1>5, <2>2 DEF TrueTo
  <2>4. CASE chain.going = "up"
    <3>1. DOMAIN chain'.table = 0 .. k + 1
      BY <1>2, <1>4, <2>2, <2>4, SizeIsNat
    <3>2. Reached(up, v)'
      BY <1>2, <2>2, <2>4, <3>1 DEF Reached
    <3> QED
      BY <1>6, <2>2, <2>3, <3>2
  <2>5. CASE chain.going = "down"
    <3>1. Reached(up, k)'
      BY <2>2, <2>5 DEF Reached
    <3> QED
      BY <1>6, <2>2, <2>3, <3>1
  <2> QED
    BY <1>2, <2>4, <2>5
<1>8. CASE Onward(chain.cur) # {}
  <2>1. PICK b \in Onward(chain.cur) :
          chain' = [chain EXCEPT !.table = m, !.cur = b,
                      !.value = (v + IF chain.going = "up" THEN 1 ELSE Size - 1) % Size]
    BY <1>8, <1>20, <1>21, <1>22, <1>23 DEF Walk
  <2>2. b \in Alphabet /\ b \notin Range(t) /\ Strong(c, b)
    BY <1>20, <1>22, <2>1 DEF Onward
  <2>3. \A p \in DOMAIN t : p \in Alphabet /\ b # At(up, p)
    BY <1>1, <1>20, <2>2 DEF TrueTo, Range
  <2>4. b = At(up, IF v = Size - 1 THEN 0 ELSE v + 1) \/ b = At(up, IF v = 0 THEN Size - 1 ELSE v - 1)
    BY <1>2, <2>2, StrongPlaces
  <2>20. PICK n : n = (v + IF chain.going = "up" THEN 1 ELSE Size - 1) % Size
    OBVIOUS
  <2>5. n = IF chain.going = "up" THEN IF v = Size - 1 THEN 0 ELSE v + 1 ELSE IF v = 0 THEN Size - 1 ELSE v - 1
    BY <2>20, RoundFacts
  <2>6. CASE chain.going = "up"
    <3>1. v - 1 \in DOMAIN t /\ v # 0 /\ DOMAIN t = 0 .. k /\ v = k + 1
      BY <1>2, <2>6, SizeIsNat
    <3>2. b = At(up, IF v = Size - 1 THEN 0 ELSE v + 1)
      BY <2>3, <2>4, <3>1
    <3>3. v # Size - 1 /\ b = At(up, v + 1) /\ n = v + 1
      BY <1>3, <2>3, <2>5, <2>6, <3>2
    <3>4. n \in Alphabet
      BY <3>3, SizeIsNat
    <3>5. /\ chain' \in WalkOf /\ chain'.table = m /\ chain'.going = "up"
          /\ chain'.value = n /\ chain'.cur = b
      BY <1>4, <2>1, <2>2, <2>6, <2>20, <3>4 DEF WalkOf
    <3>6. DOMAIN m = 0 .. v
      BY <1>4, <3>1, SizeIsNat
    <3>7. Reached(up, v)' /\ TrueTo(chain.table, up)'
      BY <1>5, <3>3, <3>4, <3>5, <3>6 DEF Reached, TrueTo
    <3> QED
      BY <1>6, <3>5, <3>7
  <2>7. CASE chain.going = "down"
    <3>1. DOMAIN t = 0 .. k \cup v + 1 .. Size - 1 /\ k < v /\ v # 0
      BY <1>2, <2>7, SizeIsNat
    <3>2. v # Size - 1 => v + 1 \in DOMAIN t
      BY <3>1, SizeIsNat
    <3>3. b = At(up, v - 1)
      BY <1>3, <2>3, <2>4, <3>1, <3>2
    <3>4. n = v - 1
      BY <2>5, <2>7, <3>1
    <3>5. n \in Alphabet /\ k < n
      <4>1. v - 1 \notin 0 .. k
        BY <2>3, <3>1, <3>3
      <4> QED
        BY <3>1, <3>4, <4>1, SizeIsNat
    <3>6. /\ chain' \in WalkOf /\ chain'.table = m /\ chain'.going = "down"
          /\ chain'.value = n /\ chain'.cur = b
      BY <1>4, <2>1, <2>2, <2>7, <2>20, <3>5 DEF WalkOf
    <3>7. DOMAIN m = 0 .. k \cup n + 1 .. Size - 1
      BY <1>4, <3>1, <3>4, SizeIsNat
    <3>8. Reached(up, k)' /\ TrueTo(chain.table, up)'
      BY <1>5, <3>3, <3>4, <3>5, <3>6, <3>7 DEF Reached, TrueTo
    <3> QED
      BY <1>6, <3>6, <3>8
  <2> QED
    BY <1>2, <2>6, <2>7
<1> QED
  BY <1>7, <1>8

LEMMA TurnDownKeeps == ChainInv /\ TurnDown => ChainInv'
<1> SUFFICES ASSUME ChainInv, TurnDown PROVE ChainInv'
  OBVIOUS
<1> USE DEF ChainInv
<1>1. PICK up \in Ways, k \in Alphabet : TrueTo(chain.table, up) /\ Reached(up, k)
  OBVIOUS
<1>2. /\ chain.going = "turned" /\ DOMAIN chain.table = 0 .. k
      /\ changes' = changes /\ orient' = orient /\ steps' = steps /\ solved_chain' = solved_chain
  BY <1>1 DEF TurnDown, Reached
<1>3. CASE Onward(Anchor) = {}
  <2>1. chain' = [chain EXCEPT !.going = "over"]
    BY <1>3 DEF TurnDown
  <2>2. chain' \in WalkOf /\ chain'.table = chain.table /\ chain'.going = "over"
    BY <2>1 DEF WalkOf
  <2>3. Reached(up, k)' /\ TrueTo(chain.table, up)'
    BY <1>1, <2>2 DEF Reached, TrueTo
  <2> QED
    BY <1>2, <2>2, <2>3
<1>4. CASE Onward(Anchor) # {}
  <2>1. PICK b \in Onward(Anchor) : chain' = [chain EXCEPT !.going = "down", !.cur = b, !.value = Size - 1]
    BY <1>4 DEF TurnDown
  <2>2. b \in Alphabet /\ b \notin Range(chain.table) /\ Strong(0, b)
    BY <2>1 DEF Onward, Anchor
  <2>3. \A p \in DOMAIN chain.table : p \in Alphabet /\ b # At(up, p)
    BY <1>1, <2>2 DEF TrueTo, Range
  <2>4. 0 \in Alphabet /\ 1 \in Alphabet /\ Size - 1 \in Alphabet /\ 0 # Size - 1 /\ k \in Nat
    BY SizeIsNat
  <2>5. b = At(up, 1) \/ b = At(up, Size - 1)
    <3>1. Strong(At(up, 0), b)
      BY <2>2, <2>4, AtFacts
    <3> QED
      BY <2>2, <2>4, <3>1, StrongPlaces
  <2>6. /\ chain' \in WalkOf /\ chain'.table = chain.table /\ chain'.going = "down"
        /\ chain'.value = Size - 1 /\ chain'.cur = b
    BY <2>1, <2>2, <2>4 DEF WalkOf
  <2>7. Size - 1 + 1 .. Size - 1 = {}
    BY SizeIsNat
  <2>8. CASE b = At(up, Size - 1)
    <3>1. k < Size - 1
      <4>1. Size - 1 \notin 0 .. k
        BY <1>2, <2>3, <2>8
      <4> QED
        BY <4>1, SizeIsNat
    <3>2. Reached(up, k)' /\ TrueTo(chain.table, up)'
      BY <1>1, <1>2, <2>4, <2>6, <2>7, <2>8, <3>1 DEF Reached, TrueTo
    <3> QED
      BY <1>2, <2>6, <3>2
  <2>9. CASE b = At(up, 1)
    <3>1. k = 0
      <4>1. 1 \notin 0 .. k
        BY <1>2, <2>3, <2>9
      <4> QED
        BY <2>4, <4>1
    <3>2. PICK back \in Ways : back = IF up = "up" THEN "down" ELSE "up"
      BY DEF Ways
    <3>3. b = At(back, Size - 1)
      <4>1. CASE up = "up"
        BY <2>9, <3>2, <4>1, SizeIsNat DEF At, Ways
      <4>2. CASE up # "up"
        <5>1. At(up, 1) = Size - 1 /\ At(back, Size - 1) = Size - 1
          BY <3>2, <4>2, SizeIsNat DEF At, Ways
        <5> QED
          BY <2>9, <5>1
      <4> QED
        BY <4>1, <4>2
    <3>4. TrueTo(chain.table, back)
      BY <1>1, <1>2, <2>4, <3>1 DEF TrueTo, At, Ways
    <3>5. 0 < Size - 1
      BY SizeIsNat
    <3>6. Reached(back, k)' /\ TrueTo(chain.table, back)'
      BY <1>2, <2>4, <2>6, <2>7, <3>1, <3>3, <3>4, <3>5 DEF Reached, TrueTo
    <3> QED
      BY <1>2, <2>6, <3>6
  <2> QED
    BY <2>5, <2>8, <2>9
<1> QED
  BY <1>3, <1>4

LEMMA CheckKeeps == ChainInv /\ Check => ChainInv'
<1> SUFFICES ASSUME ChainInv, Check PROVE ChainInv'
  OBVIOUS
<1> USE DEF ChainInv
<1>1. PICK up \in Ways, k \in Alphabet : TrueTo(chain.table, up) /\ Reached(up, k)
  OBVIOUS
<1>2. /\ changes' = changes /\ orient' = orient /\ steps' = steps /\ chain' = NoChain
      /\ solved_chain' = solved_chain \/ (Oriented /\ solved_chain' = chain.table)
  BY DEF Check
<1>3. 0 \in Alphabet /\ Anchor = 0
  BY SizeIsNat DEF Anchor
<1>4. chain' \in WalkOf
  <2>1. [p \in {Anchor} |-> Anchor] \in [{Anchor} -> Alphabet] /\ {Anchor} \in SUBSET Alphabet
    BY <1>3
  <2>2. [p \in {Anchor} |-> Anchor] \in ChainTables
    BY <2>1 DEF ChainTables
  <2> QED
    BY <1>2, <1>3, <2>2 DEF NoChain, WalkOf
<1>5. TrueTo(chain.table, "up")' /\ Reached("up", 0)'
  BY <1>2, <1>3 DEF NoChain, TrueTo, Reached, At
<1>6. Oriented => \A p \in DOMAIN chain.table : chain.table[p] = p
  <2> SUFFICES ASSUME Oriented PROVE \A p \in DOMAIN chain.table : chain.table[p] = p
    OBVIOUS
  <2>1. PICK o \in orient : 2 \in DOMAIN chain.table /\ chain.table[2] = o
    BY DEF Oriented, HasByte
  <2>2. At(up, 2) \in {0, 2}
    BY <1>1, <2>1 DEF TrueTo
  <2>3. up = "up"
    BY <2>2, SizeIsNat DEF At, Ways
  <2> QED
    BY <1>1, <2>3 DEF TrueTo, At, Ways
<1> QED
  BY <1>2, <1>3, <1>4, <1>5, <1>6 DEF Ways

\* What is reported of a walk is true, and no byte is given to two places.
THEOREM ReportedChainsAreTrue == ChainSpec => []ChainIsTrue
<1>1. ChainInv /\ UNCHANGED chainPart => ChainInv'
  BY DEF ChainInv, chainPart, Reached, TrueTo
<1>2. ChainInv /\ [ChainNext]_chainPart => ChainInv'
  BY <1>1, BeginKeeps, WalkKeeps, TurnDownKeeps, CheckKeeps DEF ChainNext
<1>3. ChainInv => ChainIsTrue
  <2> SUFFICES ASSUME ChainInv PROVE IsInjective(chain.table)
    BY DEF ChainInv, ChainIsTrue
  <2>1. PICK up \in Ways, k \in Alphabet : TrueTo(chain.table, up) /\ Reached(up, k)
    BY DEF ChainInv
  <2> QED
    BY <2>1, AtFacts DEF IsInjective, TrueTo
<1> QED
  BY <1>2, <1>3, ChainStarts, PTL DEF ChainSpec

-----------------------------------------------------------------------------
(* Killer field                                                            *)

ByteTables == UNION {[D -> Bytes] : D \in SUBSET Bytes}

Search == [tail : Nat, todo : Seq(Games), table : ByteTables, before : Nat, broken : BOOLEAN]

KillerTyped ==
  /\ true_tail \in Tails /\ roster \in [Games -> SUBSET Bytes]
  /\ killed \in [Games -> [Bytes -> Nat]] /\ strangers \in [Games -> SUBSET Bytes]
  /\ seen \in [Games -> [Tails -> [Bytes -> Nat]]]
  /\ killer = [at |-> killer.at, inputs |-> killer.inputs, timelines |-> killer.timelines,
               learn |-> killer.learn, best |-> killer.best]
  /\ killer.inputs \in Seq(Games) /\ killer.learn \in Search
  /\ Range(killer.learn.todo) \subseteq Range(killer.inputs)
  /\ killer.at = "recording" =>
       killer.inputs = <<>> /\ killer.learn = Start(0, <<>>) /\ killer.best = NoField

\* Where the field is, a byte stands as often as its unit has killed.
FieldCounts ==
  \A g \in Games, b \in Bytes : b \notin strangers[g] => seen[g][true_tail][b] = killed[g][b]

IsTrueTable(table) == \A c \in DOMAIN table : table[c] = c

LearnsTheTruth ==
  killer.learn.tail = true_tail /\ Clean => ~ killer.learn.broken /\ IsTrueTable(killer.learn.table)

ForcesNothing(g, tail, table) == DOMAIN Forced(g, tail, table) = {}

\* As long as a pass has found nothing, what it has gone through forces nothing.
PassIsTrue ==
  LET l == killer.learn IN
  /\ l.before <= Cardinality(DOMAIN l.table)
  /\ ~ l.broken /\ Cardinality(DOMAIN l.table) = l.before =>
       \A g \in Range(killer.inputs) : g \in Range(l.todo) \/ ForcesNothing(g, l.tail, l.table)

BestIsLearned ==
  killer.best = NoField \/
    \A g \in Range(killer.inputs) : ForcesNothing(g, killer.best.tail, killer.best.table)

KillerInv == KillerTyped /\ FieldCounts /\ LearnsTheTruth /\ PassIsTrue /\ BestIsLearned

\* Games in the order of their numbers are a sequence.
LEMMA NumberedIsSeq ==
  ASSUME NEW S \in SUBSET Games
  PROVE  Numbered(S) \in Seq(S)
<1> DEFINE upTo(g) == {h \in S : h <= g}
           rank == [g \in S |-> Cardinality(upTo(g))]
<1>1. /\ IsFiniteSet(S) /\ \A g \in S : g \in Int
      /\ \A g \in S : upTo(g) \in SUBSET S /\ IsFiniteSet(upTo(g)) /\ Cardinality(upTo(g)) \in Nat
  <2>1. IsFiniteSet(Games) /\ Games = 1 .. Cardinality(Games)
    BY KillerAssumption
  <2>2. Cardinality(Games) \in Nat
    BY <2>1, FS_CardinalityType
  <2>3. IsFiniteSet(S) /\ \A g \in S : g \in Int
    BY <2>1, <2>2, FS_Subset
  <2>4. \A g \in S : upTo(g) \in SUBSET S
    OBVIOUS
  <2> QED
    BY <2>3, <2>4, FS_Subset, FS_CardinalityType
<1>20. PICK n : n = Cardinality(S)
  OBVIOUS
<1>2. n \in Nat /\ IsFiniteSet(1 .. n) /\ Cardinality(1 .. n) = n
  BY <1>1, <1>20, FS_CardinalityType, FS_Interval
<1>3. \A g \in S : Cardinality(upTo(g)) \in 1 .. n
  <2> SUFFICES ASSUME NEW g \in S PROVE Cardinality(upTo(g)) \in 1 .. n
    OBVIOUS
  <2>1. Cardinality(upTo(g)) <= n
    BY <1>1, <1>20, FS_Subset
  <2>2. g \in upTo(g)
    BY <1>1
  <2>3. Cardinality(upTo(g)) # 0
    BY <1>1, <2>2, FS_EmptySet
  <2> QED
    BY <1>1, <1>2, <2>1, <2>3
<1>4. \A g, k \in S : Cardinality(upTo(g)) = Cardinality(upTo(k)) => g = k
  <2>1. \A g, k \in S : g < k => Cardinality(upTo(g)) # Cardinality(upTo(k))
    <3> SUFFICES ASSUME NEW g \in S, NEW k \in S, g < k, Cardinality(upTo(k)) = Cardinality(upTo(g))
                 PROVE  FALSE
      OBVIOUS
    <3>1. upTo(g) \in SUBSET upTo(k)
      BY <1>1
    <3>2. upTo(k) = upTo(g)
      BY <1>1, <3>1, FS_Subset
    <3>3. k \in upTo(k) /\ k \notin upTo(g)
      BY <1>1
    <3> QED
      BY <3>2, <3>3
  <2> SUFFICES ASSUME NEW g \in S, NEW k \in S, Cardinality(upTo(g)) = Cardinality(upTo(k)) PROVE g = k
    OBVIOUS
  <2>2. g \in Int /\ k \in Int
    BY <1>1
  <2>3. ~ g < k /\ ~ k < g
    BY <2>1
  <2> QED
    BY <2>2, <2>3
<1>5. rank \in Injection(S, 1 .. n)
  BY <1>3, <1>4 DEF Injection, IsInjective
<1>6. rank \in Surjection(S, 1 .. n)
  <2> HIDE DEF rank
  <2> QED
    BY <1>2, <1>5, <1>20, FS_Injection
<1>7. \A i \in 1 .. n : \E g \in S : Cardinality(upTo(g)) = i
  BY <1>6 DEF Surjection
<1>8. \A i \in 1 .. n : (CHOOSE g \in S : Cardinality(upTo(g)) = i) \in S
  BY <1>7
<1>9. Numbered(S) = [i \in 1 .. n |-> CHOOSE g \in S : Cardinality(upTo(g)) = i]
  BY <1>20 DEF Numbered
<1> HIDE DEF upTo, rank
<1> QED
  BY <1>2, <1>8, <1>9

LEMMA EmptyTable == /\ <<>> \in ByteTables /\ DOMAIN <<>> = {} /\ Cardinality(DOMAIN <<>>) = 0
                    /\ IsTrueTable(<<>>)
<1>1. <<>> \in [{} -> Bytes] /\ DOMAIN <<>> = {}
  OBVIOUS
<1>2. {} \in SUBSET Bytes
  OBVIOUS
<1> QED
  BY <1>1, <1>2, FS_EmptySet DEF ByteTables, IsTrueTable

\* A table has a finite number of bytes, which all stand for bytes.
LEMMA TableFacts ==
  ASSUME NEW table \in ByteTables
  PROVE  /\ DOMAIN table \in SUBSET Bytes /\ table \in [DOMAIN table -> Bytes]
         /\ IsFiniteSet(DOMAIN table) /\ Cardinality(DOMAIN table) \in Nat
<1>1. DOMAIN table \in SUBSET Bytes /\ table \in [DOMAIN table -> Bytes]
  BY DEF ByteTables
<1>2. IsFiniteSet(DOMAIN table)
  BY <1>1, FS_Subset, KillerAssumption
<1> QED
  BY <1>1, <1>2, FS_CardinalityType

\* What a replay forces: each champion gets a byte that it alone can have.
LEMMA ForcedFacts ==
  ASSUME NEW g \in Games, roster[g] \in SUBSET Bytes, NEW tail, NEW table
  PROVE  LET pairs == Forced(g, tail, table) IN
         /\ DOMAIN pairs \subseteq roster[g] \ Range(table)
         /\ pairs \in [DOMAIN pairs -> Bytes]
         /\ IsInjective(pairs)
         /\ \A b \in DOMAIN pairs : OfCount(g, tail, table, killed[g][b]) = {pairs[b]}
<1> DEFINE sure == {b \in roster[g] \ Range(table) : killed[g][b] # 0 /\ Only(g, tail, table, b)}
           all == [b \in sure |-> CHOOSE c \in Bytes : c \in OfCount(g, tail, table, killed[g][b])]
<1>1. \A b \in sure : /\ (CHOOSE c \in Bytes : c \in OfCount(g, tail, table, killed[g][b])) \in Bytes
                      /\ OfCount(g, tail, table, killed[g][b]) =
                           {CHOOSE c \in Bytes : c \in OfCount(g, tail, table, killed[g][b])}
  <2> SUFFICES ASSUME NEW b \in sure
               PROVE  /\ (CHOOSE c \in Bytes : c \in OfCount(g, tail, table, killed[g][b])) \in Bytes
                      /\ OfCount(g, tail, table, killed[g][b]) =
                           {CHOOSE c \in Bytes : c \in OfCount(g, tail, table, killed[g][b])}
    OBVIOUS
  <2>20. PICK O : O = OfCount(g, tail, table, killed[g][b])
    OBVIOUS
  <2>1. O \in SUBSET Bytes /\ Cardinality(O) = 1
    BY <2>20 DEF Only, OfCount
  <2>2. IsFiniteSet(O)
    BY <2>1, FS_Subset, KillerAssumption
  <2>3. PICK x : O = {x}
    BY <2>1, <2>2, FS_Singleton
  <2>4. (CHOOSE c \in Bytes : c \in O) = x /\ x \in Bytes
    BY <2>1, <2>3
  <2> QED
    BY <2>3, <2>4, <2>20
<1>2. /\ DOMAIN all = sure /\ all \in [sure -> Bytes]
      /\ \A b \in sure : OfCount(g, tail, table, killed[g][b]) = {all[b]}
  BY <1>1
<1>3. sure \subseteq roster[g] \ Range(table)
  OBVIOUS
<1>4. DOMAIN <<>> = {} /\ <<>> \in [{} -> Bytes] /\ IsInjective(<<>>)
  BY DEF IsInjective
<1>5. Forced(g, tail, table) = <<>> \/ (Forced(g, tail, table) = all /\ IsInjective(all))
  BY DEF Forced
<1> HIDE DEF sure, all
<1>6. CASE Forced(g, tail, table) = <<>>
  BY <1>4, <1>6
<1>7. CASE Forced(g, tail, table) = all /\ IsInjective(all)
  BY <1>2, <1>3, <1>7
<1> QED
  BY <1>5, <1>6, <1>7

\* With a true table and no other unit's deaths in the way, only the truth is forced.
LEMMA ForcedIsTrue ==
  ASSUME KillerTyped, FieldCounts, NEW g \in Games, strangers[g] \cap roster[g] = {},
         NEW table, IsTrueTable(table), DOMAIN table \subseteq Bytes
  PROVE  IsTrueTable(Forced(g, true_tail, table))
<1>1. roster[g] \in SUBSET Bytes
  BY DEF KillerTyped
<1>20. PICK pairs : pairs = Forced(g, true_tail, table)
  OBVIOUS
<1>2. /\ DOMAIN pairs \subseteq roster[g] \ Range(table)
      /\ \A b \in DOMAIN pairs : OfCount(g, true_tail, table, killed[g][b]) = {pairs[b]}
  BY <1>1, <1>20, ForcedFacts
<1>3. ASSUME NEW b \in DOMAIN pairs PROVE pairs[b] = b
  <2>1. b \in roster[g] /\ b \in Bytes /\ b \notin strangers[g] /\ b \notin Range(table)
    BY <1>1, <1>2
  <2>2. seen[g][true_tail][b] = killed[g][b]
    BY <2>1 DEF FieldCounts
  <2>3. \A h \in Range(table) : CipherOf(table, h) \in Range(table)
    <3> SUFFICES ASSUME NEW h \in Range(table) PROVE CipherOf(table, h) \in Range(table)
      OBVIOUS
    <3>1. \E c \in DOMAIN table : table[c] = h
      BY DEF Range
    <3>2. CipherOf(table, h) \in DOMAIN table
      BY <3>1 DEF CipherOf
    <3> QED
      BY <3>2 DEF Range, IsTrueTable
  <2>4. b \notin Taken(g, table)
    BY <2>1, <2>3 DEF Taken
  <2>5. b \in OfCount(g, true_tail, table, killed[g][b])
    BY <2>1, <2>2, <2>4 DEF OfCount
  <2> QED
    BY <1>2, <2>5
<1> QED
  BY <1>3, <1>20 DEF IsTrueTable

LEMMA NothingForced ==
  ASSUME NEW g \in Games, roster[g] \in SUBSET Bytes, NEW tail, NEW table, ForcesNothing(g, tail, table)
  PROVE  Forced(g, tail, table) = <<>>
<1>20. PICK pairs : pairs = Forced(g, tail, table)
  OBVIOUS
<1>1. pairs \in [DOMAIN pairs -> Bytes] /\ DOMAIN pairs = {}
  BY <1>20, ForcedFacts DEF ForcesNothing
<1>2. <<>> = [b \in {} |-> b]
  OBVIOUS
<1>3. pairs = [b \in {} |-> pairs[b]]
  BY <1>1
<1>4. [b \in {} |-> b] = [b \in {} |-> pairs[b]]
  OBVIOUS
<1> QED
  BY <1>2, <1>3, <1>4, <1>20

LEMMA StartFacts ==
  ASSUME NEW n \in Nat, NEW todo \in Seq(Games)
  PROVE  LET s == Start(n, todo) IN
         /\ s \in Search /\ s.todo = todo /\ s.table = <<>> /\ s.before = 0 /\ s.broken = FALSE
<1>1. Start(n, todo) = [tail |-> n, todo |-> todo, table |-> <<>>, before |-> 0, broken |-> FALSE]
  BY DEF Start
<1>2. <<>> \in ByteTables /\ 0 \in Nat /\ FALSE \in BOOLEAN
  BY EmptyTable
<1>3. [tail |-> n, todo |-> todo, table |-> <<>>, before |-> 0, broken |-> FALSE] \in Search
  BY <1>2 DEF Search
<1> QED
  BY <1>1, <1>3

LEMMA KillerStarts == KillerInit => KillerInv
<1> SUFFICES ASSUME KillerInit PROVE KillerInv
  OBVIOUS
<1>1. /\ killer = [at |-> "recording", inputs |-> <<>>, timelines |-> <<>>, learn |-> Start(0, <<>>), best |-> NoField]
      /\ true_tail \in Tails /\ roster \in [Games -> SUBSET Bytes]
      /\ killed \in [Games -> [Bytes -> Nat]] /\ strangers \in [Games -> SUBSET Bytes]
      /\ seen \in [Games -> [Tails -> [Bytes -> Nat]]]
  BY KillerAssumption DEF KillerInit
<1>2. Start(0, <<>>) \in Search /\ Start(0, <<>>).todo = <<>> /\ Start(0, <<>>).table = <<>> /\ Start(0, <<>>).before = 0 /\ ~ Start(0, <<>>).broken
  BY EmptyTable DEF Start, Search
<1>3. Range(<<>>) = {}
  BY DEF Range
<1>4. KillerTyped
  BY <1>1, <1>2, <1>3 DEF KillerTyped
<1>5. FieldCounts
  BY DEF KillerInit, FieldCounts
<1>6. LearnsTheTruth /\ BestIsLearned
  BY <1>1, <1>2, EmptyTable DEF LearnsTheTruth, BestIsLearned
<1>7. PassIsTrue
  BY <1>1, <1>2, <1>3, EmptyTable DEF PassIsTrue
<1> QED
  BY <1>4, <1>5, <1>6, <1>7 DEF KillerInv

\* As long as nothing is learned, deaths change nothing of what is.
LEMMA NamedKeeps ==
  ASSUME KillerInv, NEW g \in Games, NEW k \in Bytes, NEW other \in Fillers, Named(g, k, other),
         \/ killed' = [killed EXCEPT ![g][k] = @ + 1] /\ strangers' = strangers
         \/ strangers' = [strangers EXCEPT ![g] = @ \cup {k}] /\ killed' = killed
  PROVE  KillerInv'
<1> USE DEF KillerInv
<1>1. /\ killer.at = "recording" /\ true_tail' = true_tail /\ roster' = roster /\ killer' = killer
      /\ true_tail \in Tails
      /\ seen' = [seen EXCEPT ![g] = [t \in Tails |->
           [seen[g][t] EXCEPT ![IF t = true_tail THEN k ELSE other] = @ + 1]]]
  BY DEF Named, KillerTyped
<1>2. /\ killer.inputs = <<>> /\ killer.learn = Start(0, <<>>) /\ killer.best = NoField /\ Range(<<>>) = {}
      /\ Start(0, <<>>).table = <<>> /\ Start(0, <<>>).before = 0 /\ ~ Start(0, <<>>).broken
  BY <1>1 DEF KillerTyped, Range, Start
<1>3. \A t \in Tails : /\ seen[g][t] \in [Bytes -> Nat]
                       /\ seen'[g][t] = [seen[g][t] EXCEPT ![IF t = true_tail THEN k ELSE other] = @ + 1]
  <2>1. seen \in [Games -> [Tails -> [Bytes -> Nat]]]
    BY DEF KillerTyped
  <2>2. seen'[g] = [t \in Tails |-> [seen[g][t] EXCEPT ![IF t = true_tail THEN k ELSE other] = @ + 1]]
    BY <1>1, <2>1
  <2> QED
    BY <2>1, <2>2
<1>4. \A h \in Games : h # g => seen'[h] = seen[h]
  BY <1>1 DEF KillerTyped
<1>5. k \in Bytes /\ other \in Bytes
  BY KillerAssumption
<1>6. seen' \in [Games -> [Tails -> [Bytes -> Nat]]]
  <2>1. ASSUME NEW t \in Tails
        PROVE  [seen[g][t] EXCEPT ![IF t = true_tail THEN k ELSE other] = @ + 1] \in [Bytes -> Nat]
    <3>1. PICK b \in Bytes : b = IF t = true_tail THEN k ELSE other
      BY <1>5
    <3>3. PICK f \in [Bytes -> Nat] : f = seen[g][t]
      BY <1>3
    <3>2. [f EXCEPT ![b] = @ + 1] \in [Bytes -> Nat]
      OBVIOUS
    <3> QED
      BY <3>1, <3>2, <3>3
  <2>2. [t \in Tails |-> [seen[g][t] EXCEPT ![IF t = true_tail THEN k ELSE other] = @ + 1]]
          \in [Tails -> [Bytes -> Nat]]
    BY <2>1
  <2> QED
    BY <1>1, <2>2 DEF KillerTyped
<1>7. killed' \in [Games -> [Bytes -> Nat]] /\ strangers' \in [Games -> SUBSET Bytes]
  <2>1. killed \in [Games -> [Bytes -> Nat]] /\ strangers \in [Games -> SUBSET Bytes]
    BY DEF KillerTyped
  <2>2. [killed[g] EXCEPT ![k] = @ + 1] \in [Bytes -> Nat] /\ strangers[g] \cup {k} \in SUBSET Bytes
    BY <2>1
  <2>3. [killed EXCEPT ![g][k] = @ + 1] = [killed EXCEPT ![g] = [killed[g] EXCEPT ![k] = @ + 1]]
    BY <2>1
  <2>4. [killed EXCEPT ![g][k] = @ + 1] \in [Games -> [Bytes -> Nat]]
    BY <2>1, <2>2, <2>3
  <2>5. [strangers EXCEPT ![g] = @ \cup {k}] \in [Games -> SUBSET Bytes]
    BY <2>1, <2>2
  <2> QED
    BY <2>1, <2>4, <2>5
<1>8. KillerTyped'
  BY <1>1, <1>6, <1>7 DEF KillerTyped, Start, Tails, NoField
<1>9. FieldCounts'
  <2> SUFFICES ASSUME NEW h \in Games, NEW b \in Bytes, b \notin strangers'[h]
               PROVE  seen'[h][true_tail][b] = killed'[h][b]
    BY <1>1 DEF FieldCounts
  <2>1. killed \in [Games -> [Bytes -> Nat]] /\ strangers \in [Games -> SUBSET Bytes]
    BY DEF KillerTyped
  <2>2. b \notin strangers[h] /\ seen[h][true_tail][b] = killed[h][b]
    BY <2>1 DEF FieldCounts
  <2>3. CASE h # g
    BY <1>4, <2>1, <2>2, <2>3
  <2>4. CASE h = g /\ b # k
    <3>1. seen'[h][true_tail][b] = seen[h][true_tail][b]
      BY <1>1, <1>3, <2>4
    <3>2. killed'[h][b] = killed[h][b]
      BY <2>1, <2>4
    <3> QED
      BY <2>2, <3>1, <3>2
  <2>5. CASE h = g /\ b = k
    <3>1. seen'[h][true_tail][b] = seen[h][true_tail][b] + 1
      <4>1. /\ seen[g][true_tail] \in [Bytes -> Nat]
            /\ seen'[g][true_tail] = [seen[g][true_tail] EXCEPT ![k] = @ + 1]
        BY <1>1, <1>3
      <4> QED
        BY <2>5, <4>1
    <3>2. killed'[h][b] = killed[h][b] + 1
      BY <2>1, <2>5
    <3> QED
      BY <2>2, <3>1, <3>2
  <2> QED
    BY <2>3, <2>4, <2>5
<1>10. LearnsTheTruth' /\ PassIsTrue' /\ BestIsLearned'
  BY <1>1, <1>2, EmptyTable DEF LearnsTheTruth, PassIsTrue, BestIsLearned
<1> QED
  BY <1>8, <1>9, <1>10

\* The solver changes nothing of the games.
LEMMA GamesStay ==
  ASSUME UNCHANGED environment, killer'.inputs = killer.inputs
  PROVE  /\ FieldCounts' <=> FieldCounts
         /\ Clean' <=> Clean
         /\ \A g, tail, table : /\ Forced(g, tail, table)' = Forced(g, tail, table)
                                /\ ForcesNothing(g, tail, table)' <=> ForcesNothing(g, tail, table)
<1>1. /\ true_tail' = true_tail /\ roster' = roster /\ gives' = gives /\ killed' = killed
      /\ strangers' = strangers /\ seen' = seen
  BY DEF environment
<1>2. \A g, tail, table : Forced(g, tail, table)' = Forced(g, tail, table)
  BY <1>1 DEF Forced, Refuted, Taken, Only, OfCount
<1> QED
  BY <1>1, <1>2 DEF FieldCounts, Clean, ForcesNothing

LEMMA CollectKeeps == KillerInv /\ Collect => KillerInv'
<1> SUFFICES ASSUME KillerInv, Collect PROVE KillerInv'
  OBVIOUS
<1> USE DEF KillerInv
<1>20. PICK inputs : inputs = Numbered({g \in Games : gives[g] = "counter"})
  OBVIOUS
<1>1. inputs \in Seq(Games)
  <2>1. inputs \in Seq({g \in Games : gives[g] = "counter"})
    BY <1>20, NumberedIsSeq
  <2> QED
    BY <2>1
<1>2. /\ UNCHANGED environment /\ killer'.at = "learning" /\ killer'.inputs = inputs
      /\ killer'.learn = Start(0, inputs) /\ killer'.best = NoField
      /\ killer' = [at |-> killer'.at, inputs |-> killer'.inputs, timelines |-> killer'.timelines,
                    learn |-> killer'.learn, best |-> killer'.best]
  BY <1>20 DEF Collect, KillerTyped
<1>3. /\ killer'.learn \in Search /\ killer'.learn.todo = inputs /\ killer'.learn.table = <<>>
      /\ killer'.learn.before = 0 /\ ~ killer'.learn.broken
  <2>1. killer'.learn = Start(0, inputs)
    BY <1>2
  <2>2. PICK s : s = Start(0, inputs)
    OBVIOUS
  <2>3. s \in Search /\ s.todo = inputs /\ s.table = <<>> /\ s.before = 0 /\ s.broken = FALSE
    BY <1>1, <2>2, StartFacts
  <2> QED
    BY <2>1, <2>2, <2>3
<1>4. KillerTyped'
  BY <1>1, <1>2, <1>3 DEF KillerTyped, environment
<1>5. FieldCounts'
  BY <1>2 DEF FieldCounts, environment
<1>6. LearnsTheTruth' /\ BestIsLearned'
  BY <1>2, <1>3, EmptyTable DEF LearnsTheTruth, BestIsLearned
<1>7. PassIsTrue'
  BY <1>2, <1>3, EmptyTable DEF PassIsTrue
<1> QED
  BY <1>4, <1>5, <1>6, <1>7

LEMMA LearnFromKeeps == KillerInv /\ LearnFrom => KillerInv'
<1> SUFFICES ASSUME KillerInv, LearnFrom PROVE KillerInv'
  OBVIOUS
<1> USE DEF KillerInv
<1>20. PICK l : l = killer.learn
  OBVIOUS
<1>21. PICK g : g = Head(l.todo)
  OBVIOUS
<1>22. PICK pairs : pairs = Forced(g, l.tail, l.table)
  OBVIOUS
<1>23. PICK clash \in BOOLEAN : clash = \E b \in DOMAIN pairs : pairs[b] \in DOMAIN l.table
  OBVIOUS
<1>24. PICK more : more = [c \in DOMAIN l.table \cup Range(pairs) |->
                             IF c \in DOMAIN l.table THEN l.table[c] ELSE CHOOSE b \in DOMAIN pairs : pairs[b] = c]
  OBVIOUS
<1>1. /\ Learning /\ l.todo # <<>> /\ ~ l.broken /\ UNCHANGED environment
      /\ killer' = [killer EXCEPT !.learn = [l EXCEPT !.todo = Tail(@), !.broken = clash,
                                               !.table = IF clash THEN @ ELSE more]]
  BY <1>20, <1>21, <1>22, <1>23, <1>24 DEF LearnFrom
<1>2. l \in Search /\ l.table \in ByteTables /\ l.todo \in Seq(Games)
  BY <1>20 DEF KillerTyped, Search
<1>3. /\ g \in Games /\ g \in Range(l.todo) /\ Tail(l.todo) \in Seq(Games)
      /\ \A h \in Range(l.todo) : h = g \/ h \in Range(Tail(l.todo))
      /\ Range(Tail(l.todo)) \subseteq Range(l.todo)
  <2>20. PICK todo \in Seq(Games) : todo = l.todo
    BY <1>2
  <2>1. todo # <<>> /\ g = todo[1] /\ Len(todo) \in Nat /\ Len(todo) >= 1 /\ DOMAIN todo = 1 .. Len(todo)
    BY <1>1, <1>21, <2>20
  <2>2. /\ Tail(todo) \in Seq(Games) /\ DOMAIN Tail(todo) = 1 .. Len(todo) - 1
        /\ \A i \in 1 .. Len(todo) - 1 : Tail(todo)[i] = todo[i + 1]
    BY <2>1
  <2>3. \A i \in 1 .. Len(todo) : i = 1 \/ i - 1 \in 1 .. Len(todo) - 1
    BY <2>1
  <2>4. \A i \in 1 .. Len(todo) - 1 : i + 1 \in 1 .. Len(todo)
    BY <2>1
  <2>5. \A h \in Range(todo) : h = g \/ h \in Range(Tail(todo))
    <3> SUFFICES ASSUME NEW i \in 1 .. Len(todo), i # 1 PROVE todo[i] \in Range(Tail(todo))
      BY <2>1 DEF Range
    <3>1. i - 1 \in 1 .. Len(todo) - 1 /\ (i - 1) + 1 = i
      BY <2>1
    <3>2. Tail(todo)[i - 1] = todo[i]
      BY <2>2, <3>1
    <3> QED
      BY <2>2, <3>1, <3>2 DEF Range
  <2>6. Range(Tail(todo)) \subseteq Range(todo)
    BY <2>1, <2>2, <2>4 DEF Range
  <2>7. g \in Games /\ g \in Range(todo)
    BY <2>1 DEF Range
  <2> QED
    BY <2>2, <2>5, <2>6, <2>7, <2>20
<1>4. /\ killer'.at = killer.at /\ killer'.inputs = killer.inputs /\ killer'.best = killer.best
      /\ killer'.learn.tail = l.tail /\ killer'.learn.before = l.before
      /\ killer'.learn.todo = Tail(l.todo) /\ killer'.learn.broken = clash
      /\ killer'.learn.table = (IF clash THEN l.table ELSE more)
      /\ killer'.learn = [tail |-> killer'.learn.tail, todo |-> killer'.learn.todo, table |-> killer'.learn.table,
                          before |-> killer'.learn.before, broken |-> killer'.learn.broken]
      /\ killer' = [at |-> killer'.at, inputs |-> killer'.inputs, timelines |-> killer'.timelines,
                    learn |-> killer'.learn, best |-> killer'.best]
  BY <1>1, <1>2 DEF KillerTyped, Search
<1>5. /\ roster[g] \in SUBSET Bytes /\ pairs \in [DOMAIN pairs -> Bytes]
      /\ DOMAIN pairs \subseteq roster[g] \ Range(l.table)
  BY <1>3, <1>22, ForcedFacts DEF KillerTyped
<1>6. /\ DOMAIN l.table \in SUBSET Bytes /\ l.table \in [DOMAIN l.table -> Bytes]
      /\ IsFiniteSet(DOMAIN l.table) /\ Cardinality(DOMAIN l.table) \in Nat
  BY <1>2, TableFacts
<1>7. /\ DOMAIN more = DOMAIN l.table \cup Range(pairs) /\ Range(pairs) \in SUBSET Bytes
      /\ \A c \in DOMAIN l.table : more[c] = l.table[c]
      /\ \A c \in Range(pairs) : c \notin DOMAIN l.table => more[c] \in DOMAIN pairs /\ pairs[more[c]] = c
  <2>1. \A c \in Range(pairs) : \E b \in DOMAIN pairs : pairs[b] = c
    BY DEF Range
  <2> QED
    BY <1>5, <1>6, <1>24, <2>1 DEF Range
<1>8. more \in ByteTables
  <2>1. \A c \in DOMAIN more : more[c] \in Bytes
    BY <1>5, <1>6, <1>7
  <2>2. DOMAIN more \in SUBSET Bytes
    BY <1>6, <1>7
  <2>3. more = [c \in DOMAIN more |-> more[c]]
    BY <1>24
  <2>4. more \in [DOMAIN more -> Bytes]
    BY <2>1, <2>3
  <2> QED
    BY <2>2, <2>4 DEF ByteTables
<1>9. killer'.learn \in Search
  BY <1>2, <1>3, <1>4, <1>8 DEF Search
<1>10. KillerTyped'
  BY <1>1, <1>3, <1>4, <1>9, <1>20 DEF KillerTyped, environment, Learning
<1>11. FieldCounts' /\ BestIsLearned'
  BY <1>1, <1>4, GamesStay DEF BestIsLearned
<1>12. LearnsTheTruth'
  <2> SUFFICES ASSUME l.tail = true_tail, Clean PROVE ~ clash /\ IsTrueTable(more)
    BY <1>1, <1>4, GamesStay DEF LearnsTheTruth, environment
  <2>1. IsTrueTable(l.table)
    BY <1>20 DEF LearnsTheTruth
  <2>2. g \in Range(killer.inputs)
    BY <1>3, <1>20 DEF KillerTyped
  <2>3. strangers[g] \cap roster[g] = {}
    BY <2>2 DEF Clean
  <2>4. IsTrueTable(pairs)
    BY <1>3, <1>6, <1>22, <2>1, <2>3, ForcedIsTrue
  <2>5. ~ clash
    BY <1>5, <1>23, <2>1, <2>4 DEF IsTrueTable, Range
  <2>6. IsTrueTable(more)
    BY <1>7, <2>1, <2>4 DEF IsTrueTable
  <2> QED
    BY <2>5, <2>6
<1>13. PassIsTrue'
  <2>1. CASE clash
    <3>1. killer'.learn.broken /\ killer'.learn.table = l.table /\ killer'.learn.before = l.before
      BY <1>4, <2>1
    <3> QED
      BY <1>20, <3>1 DEF PassIsTrue
  <2>2. CASE ~ clash /\ DOMAIN pairs = {}
    <3>1. Range(pairs) = {}
      BY <2>2 DEF Range
    <3>2. more = l.table
      <4>1. DOMAIN more = DOMAIN l.table /\ \A c \in DOMAIN l.table : more[c] = l.table[c]
        BY <1>7, <3>1
      <4>2. more = [c \in DOMAIN more |-> more[c]] /\ l.table = [c \in DOMAIN l.table |-> l.table[c]]
        BY <1>6, <1>24
      <4> QED
        BY <4>1, <4>2
    <3>3. ForcesNothing(g, l.tail, l.table)
      BY <1>22, <2>2 DEF ForcesNothing
    <3>4. /\ killer'.learn.table = l.table /\ killer'.learn.before = l.before /\ killer'.learn.tail = l.tail
          /\ killer'.learn.todo = Tail(l.todo) /\ killer'.inputs = killer.inputs
      BY <1>4, <2>2, <3>2
    <3>5. l.before <= Cardinality(DOMAIN l.table)
      BY <1>20 DEF PassIsTrue
    <3>6. Cardinality(DOMAIN l.table) = l.before =>
            \A h \in Range(killer.inputs) : h \in Range(Tail(l.todo)) \/ ForcesNothing(h, l.tail, l.table)
      <4> SUFFICES ASSUME Cardinality(DOMAIN l.table) = l.before, NEW h \in Range(killer.inputs),
                          h \notin Range(Tail(l.todo))
                   PROVE  ForcesNothing(h, l.tail, l.table)
        OBVIOUS
      <4>1. h \in Range(l.todo) \/ ForcesNothing(h, l.tail, l.table)
        BY <1>1, <1>20 DEF PassIsTrue
      <4> QED
        BY <1>3, <3>3, <4>1
    <3>7. \A h : ForcesNothing(h, l.tail, l.table)' <=> ForcesNothing(h, l.tail, l.table)
      BY <1>1, <1>4, GamesStay
    <3>8. \A h, tail, table : tail = killer'.learn.tail /\ table = killer'.learn.table
                                => (ForcesNothing(h, tail, table)' <=> ForcesNothing(h, l.tail, l.table))
      BY <3>4, <3>7
    <3> QED
      BY <3>4, <3>5, <3>6, <3>8 DEF PassIsTrue
  <2>3. CASE ~ clash /\ DOMAIN pairs # {}
    <3>1. PICK b \in DOMAIN pairs : pairs[b] \notin DOMAIN l.table /\ pairs[b] \in DOMAIN more
      BY <1>7, <1>23, <2>3 DEF Range
    <3>2. IsFiniteSet(DOMAIN more) /\ DOMAIN l.table \in SUBSET DOMAIN more /\ Cardinality(DOMAIN more) \in Nat
      BY <1>7, <1>8, TableFacts
    <3>3. /\ Cardinality(DOMAIN l.table) <= Cardinality(DOMAIN more)
          /\ Cardinality(DOMAIN l.table) # Cardinality(DOMAIN more)
      BY <3>1, <3>2, FS_Subset
    <3>4. l.before <= Cardinality(DOMAIN l.table) /\ l.before \in Nat
      BY <1>2, <1>20 DEF PassIsTrue, Search
    <3>5. l.before < Cardinality(DOMAIN more)
      BY <1>6, <3>2, <3>3, <3>4
    <3>6. killer'.learn.table = more /\ killer'.learn.before = l.before
      BY <1>4, <2>3
    <3> QED
      BY <3>2, <3>4, <3>5, <3>6 DEF PassIsTrue
  <2> QED
    BY <2>1, <2>2, <2>3
<1> QED
  BY <1>10, <1>11, <1>12, <1>13

LEMMA NextPassKeeps == KillerInv /\ NextPass => KillerInv'
<1> SUFFICES ASSUME KillerInv, NextPass PROVE KillerInv'
  OBVIOUS
<1> USE DEF KillerInv
<1>20. PICK l : l = killer.learn
  OBVIOUS
<1>1. /\ UNCHANGED environment /\ Learning /\ ~ l.broken /\ l \in Search
      /\ killer' = [killer EXCEPT !.learn = [l EXCEPT !.todo = killer.inputs, !.before = Cardinality(DOMAIN l.table)]]
  BY <1>20 DEF NextPass, PassOver, Settled, KillerTyped
<1>2. /\ killer'.at = killer.at /\ killer'.inputs = killer.inputs /\ killer'.best = killer.best
      /\ killer'.learn.tail = l.tail /\ killer'.learn.before = Cardinality(DOMAIN l.table)
      /\ killer'.learn.todo = killer.inputs /\ killer'.learn.broken = l.broken
      /\ killer'.learn.table = l.table
      /\ killer'.learn = [tail |-> killer'.learn.tail, todo |-> killer'.learn.todo, table |-> killer'.learn.table,
                          before |-> killer'.learn.before, broken |-> killer'.learn.broken]
      /\ killer' = [at |-> killer'.at, inputs |-> killer'.inputs, timelines |-> killer'.timelines,
                    learn |-> killer'.learn, best |-> killer'.best]
  BY <1>1 DEF KillerTyped, Search
<1>3. Cardinality(DOMAIN l.table) \in Nat
  BY <1>1, TableFacts DEF Search
<1>4. killer'.learn \in Search
  BY <1>1, <1>2, <1>3 DEF Search, KillerTyped
<1>5. KillerTyped'
  BY <1>1, <1>2, <1>4 DEF KillerTyped, environment, Learning
<1>6. FieldCounts' /\ BestIsLearned' /\ LearnsTheTruth'
  BY <1>1, <1>2, <1>20, GamesStay DEF BestIsLearned, LearnsTheTruth, environment
<1>7. PassIsTrue'
  BY <1>2, <1>3 DEF PassIsTrue
<1> QED
  BY <1>5, <1>6, <1>7

LEMMA NextTailKeeps == KillerInv /\ NextTail => KillerInv'
<1> SUFFICES ASSUME KillerInv, NextTail PROVE KillerInv'
  OBVIOUS
<1> USE DEF KillerInv
<1>20. PICK l : l = killer.learn
  OBVIOUS
<1>1. /\ UNCHANGED environment /\ Learning /\ (l.todo = <<>> \/ l.broken) /\ l \in Search
      /\ l.broken \/ Cardinality(DOMAIN l.table) = l.before
      /\ killer'.learn = Start(l.tail + 1, killer.inputs)
      /\ killer'.at = killer.at /\ killer'.inputs = killer.inputs
      /\ killer'.best = killer.best \/ (~ l.broken /\ killer'.best.tail = l.tail /\ killer'.best.table = l.table)
      /\ killer' = [at |-> killer'.at, inputs |-> killer'.inputs, timelines |-> killer'.timelines,
                    learn |-> killer'.learn, best |-> killer'.best]
  BY <1>20 DEF NextTail, PassOver, Settled, Better, KillerTyped
<1>2. /\ killer'.learn \in Search /\ killer'.learn.todo = killer.inputs /\ killer'.learn.table = <<>>
      /\ killer'.learn.before = 0 /\ ~ killer'.learn.broken
  <2>1. l.tail + 1 \in Nat /\ killer.inputs \in Seq(Games)
    BY <1>1 DEF Search, KillerTyped
  <2>2. killer'.learn = Start(l.tail + 1, killer.inputs)
    BY <1>1
  <2>3. PICK s : s = Start(l.tail + 1, killer.inputs)
    OBVIOUS
  <2>4. /\ s \in Search /\ s.todo = killer.inputs
        /\ s.table = <<>> /\ s.before = 0 /\ s.broken = FALSE
    BY <2>1, <2>3, StartFacts
  <2> QED
    BY <2>2, <2>3, <2>4
<1>3. KillerTyped'
  BY <1>1, <1>2 DEF KillerTyped, environment, Learning
<1>4. FieldCounts'
  BY <1>1, GamesStay
<1>5. LearnsTheTruth' /\ PassIsTrue'
  BY <1>1, <1>2, EmptyTable DEF LearnsTheTruth, PassIsTrue
<1>6. BestIsLearned'
  <2>1. CASE killer'.best = killer.best
    BY <1>1, <2>1, GamesStay DEF BestIsLearned
  <2>2. CASE ~ l.broken /\ killer'.best.tail = l.tail /\ killer'.best.table = l.table
    <3>1. l.todo = <<>> /\ Range(<<>>) = {}
      BY <1>1, <2>2 DEF Range
    <3>2. \A g \in Range(killer.inputs) : ForcesNothing(g, l.tail, l.table)
      BY <1>1, <1>20, <2>2, <3>1 DEF PassIsTrue
    <3>3. \A g : ForcesNothing(g, l.tail, l.table)' <=> ForcesNothing(g, l.tail, l.table)
      BY <1>1, GamesStay
    <3>4. \A g, tail, table : tail = killer'.best.tail /\ table = killer'.best.table
                                => (ForcesNothing(g, tail, table)' <=> ForcesNothing(g, l.tail, l.table))
      BY <2>2, <3>3
    <3> QED
      BY <1>1, <3>2, <3>4 DEF BestIsLearned
  <2> QED
    BY <1>1, <2>1, <2>2
<1> QED
  BY <1>3, <1>4, <1>5, <1>6

\* A step that leaves the search, the inputs and the field alone.
LEMMA SearchStays ==
  ASSUME KillerInv, UNCHANGED environment, killer'.at = killer.at \/ killer'.at # "recording",
         killer'.inputs = killer.inputs, killer'.learn = killer.learn, killer'.best = killer.best,
         killer' = [at |-> killer'.at, inputs |-> killer'.inputs, timelines |-> killer'.timelines,
                    learn |-> killer'.learn, best |-> killer'.best]
  PROVE  KillerInv'
<1> USE DEF KillerInv
<1>1. KillerTyped'
  BY DEF KillerTyped, environment, Start, NoField
<1>2. FieldCounts' /\ BestIsLearned' /\ LearnsTheTruth' /\ PassIsTrue'
  BY GamesStay DEF BestIsLearned, LearnsTheTruth, PassIsTrue, environment
<1> QED
  BY <1>1, <1>2

LEMMA KillsKeeps == KillerInv /\ Kills => KillerInv'
<1> SUFFICES ASSUME KillerInv, Kills PROVE KillerInv'
  OBVIOUS
<1>1. /\ UNCHANGED environment /\ killer'.at = "solved" /\ killer'.inputs = killer.inputs
      /\ killer'.learn = killer.learn /\ killer'.best = killer.best
      /\ killer' = [at |-> killer'.at, inputs |-> killer'.inputs, timelines |-> killer'.timelines,
                    learn |-> killer'.learn, best |-> killer'.best]
  BY DEF Kills, KillerInv, KillerTyped
<1> QED
  BY <1>1, SearchStays

LEMMA KillerStep == KillerInv /\ [KillerNext]_killerPart => KillerInv'
<1> SUFFICES ASSUME KillerInv, [KillerNext]_killerPart PROVE KillerInv'
  OBVIOUS
<1>1. CASE \E g \in Games, k \in Bytes, other \in Fillers : ChampionKills(g, k, other)
  BY <1>1, NamedKeeps DEF ChampionKills
<1>2. CASE \E g \in Games, k \in Bytes, other \in Fillers : StrangerKills(g, k, other)
  BY <1>2, NamedKeeps DEF StrangerKills
<1>3. CASE Solve_killer
  BY <1>3, CollectKeeps, LearnFromKeeps, NextPassKeeps, NextTailKeeps, KillsKeeps DEF Solve_killer
<1>4. CASE UNCHANGED killerPart
  BY <1>4, SearchStays DEF killerPart, KillerInv, KillerTyped
<1> QED
  BY <1>1, <1>2, <1>3, <1>4 DEF KillerNext

\* Whatever games are recorded and in whatever order pairs fall out of them, only
\* the truth is learned where the field is, and a field that is reported leaves no
\* replay anything to force.
THEOREM WhatIsLearnedIsAll == KillerSpec => []LearnedIsAll
<1>1. KillerInv => LearnedIsAll
  <2> SUFFICES ASSUME KillerInv PROVE LearnedIsAll
    OBVIOUS
  <2>1. \A g \in Range(killer.inputs) : g \in Games /\ roster[g] \in SUBSET Bytes
    BY DEF KillerInv, KillerTyped, Range
  <2>2. killer.best = NoField \/ \A g \in Range(killer.inputs) :
          Forced(g, killer.best.tail, killer.best.table) = <<>>
    BY <2>1, NothingForced DEF KillerInv, BestIsLearned
  <2> QED
    BY <2>2 DEF KillerInv, LearnedIsAll, LearnsTheTruth, IsTrueTable
<1>2. KillerSpec => []KillerInv
  BY KillerStarts, KillerStep, PTL DEF KillerSpec
<1> QED
  BY <1>1, <1>2, PTL

-----------------------------------------------------------------------------
(* Counters                                                                *)

\* A replay that tests a counter bears out one offset at most; that of the counted
\* one, unless it was broken off.
StatsInv ==
  /\ counted \in [field : Fields, extra : Offsets]
  /\ tested \in [Fields -> Nat] /\ hits \in [Fields -> [Offsets -> Nat]] /\ broken_off \in Nat
  /\ \A f \in Fields, o, q \in Offsets : o # q => hits[f][o] + hits[f][q] <= tested[f]
  /\ hits[counted.field][counted.extra] + broken_off = tested[counted.field]

LEMMA StatsStarts == StatsInit => StatsInv
BY DEF StatsInit, StatsStart, StatsInv

LEMMA OneUniform ==
  ASSUME NEW row, NEW stats, NEW f \in CanTest(row, stats), NEW o \in Uniform(row, stats[f]),
         NEW q \in Uniform(row, stats[f])
  PROVE  o = q
<1>1. Spread(stats[f]) >= MIN_SPREAD
  BY DEF CanTest
<1>2. Roster # {}
  <2> SUFFICES ASSUME Roster = {} PROVE FALSE
    OBVIOUS
  <2>1. Spread(stats[f]) = 0
    BY FS_EmptySet DEF Spread
  <2> QED
    BY <1>1, <2>1, StatsAssumption
<1> QED
  BY <1>2 DEF Uniform

LEMMA ReadReplayKeeps ==
  ASSUME StatsInv, NEW row, NEW stats, ReadReplay(row, stats)
  PROVE  StatsInv'
<1> DEFINE Tests(f) == f \in CanTest(row, stats)
           Bears(f, o) == f \in CanTest(row, stats) /\ o \in Uniform(row, stats[f])
<1>1. /\ tested' = [f \in Fields |-> tested[f] + IF Tests(f) THEN 1 ELSE 0]
      /\ hits' = [f \in Fields |-> [o \in Offsets |-> hits[f][o] + IF Bears(f, o) THEN 1 ELSE 0]]
      /\ broken_off' = broken_off +
           IF Tests(counted.field) /\ counted.extra \notin Uniform(row, stats[counted.field]) THEN 1 ELSE 0
      /\ counted' = counted
  BY DEF ReadReplay
<1>2. \A f, o : Bears(f, o) => Tests(f)
  OBVIOUS
<1>3. \A f, o, q : Bears(f, o) /\ Bears(f, q) => o = q
  BY OneUniform
<1>4. (Tests(counted.field) /\ counted.extra \notin Uniform(row, stats[counted.field]))
        <=> Tests(counted.field) /\ ~ Bears(counted.field, counted.extra)
  OBVIOUS
<1>5. counted.field \in Fields /\ counted.extra \in Offsets
  BY DEF StatsInv
<1> HIDE DEF Tests, Bears
<1>6. tested' \in [Fields -> Nat] /\ hits' \in [Fields -> [Offsets -> Nat]] /\ broken_off' \in Nat
  BY <1>1 DEF StatsInv
<1>7. ASSUME NEW f \in Fields, NEW o \in Offsets, NEW q \in Offsets, o # q
      PROVE  hits'[f][o] + hits'[f][q] <= tested'[f]
  <2>1. hits[f][o] + hits[f][q] <= tested[f] /\ hits[f][o] \in Nat /\ hits[f][q] \in Nat /\ tested[f] \in Nat
    BY <1>7 DEF StatsInv
  <2>2. /\ hits'[f][o] = hits[f][o] + IF Bears(f, o) THEN 1 ELSE 0
        /\ hits'[f][q] = hits[f][q] + IF Bears(f, q) THEN 1 ELSE 0
        /\ tested'[f] = tested[f] + IF Tests(f) THEN 1 ELSE 0
    BY <1>1
  <2> QED
    BY <1>2, <1>3, <1>7, <2>1, <2>2
<1>8. hits'[counted.field][counted.extra] + broken_off' = tested'[counted.field]
  <2>1. /\ hits[counted.field][counted.extra] + broken_off = tested[counted.field]
        /\ hits[counted.field][counted.extra] \in Nat /\ broken_off \in Nat /\ tested[counted.field] \in Nat
    BY <1>5 DEF StatsInv
  <2>2. /\ hits'[counted.field][counted.extra] = hits[counted.field][counted.extra] +
             IF Bears(counted.field, counted.extra) THEN 1 ELSE 0
        /\ tested'[counted.field] = tested[counted.field] + IF Tests(counted.field) THEN 1 ELSE 0
    BY <1>1, <1>5
  <2>3. CASE Bears(counted.field, counted.extra)
    <3>1. broken_off' = broken_off
      BY <1>1, <1>4, <2>1, <2>3
    <3> QED
      BY <1>2, <2>1, <2>2, <2>3, <3>1
  <2>4. CASE ~ Bears(counted.field, counted.extra) /\ Tests(counted.field)
    <3>1. broken_off' = broken_off + 1
      BY <1>1, <1>4, <2>1, <2>4
    <3> QED
      BY <2>1, <2>2, <2>4, <3>1
  <2>5. CASE ~ Tests(counted.field)
    <3>1. broken_off' = broken_off
      BY <1>1, <2>1, <2>5
    <3> QED
      BY <1>2, <2>1, <2>2, <2>5, <3>1
  <2> QED
    BY <2>3, <2>4, <2>5
<1> QED
  BY <1>1, <1>6, <1>7, <1>8 DEF StatsInv

LEMMA StatsStep == StatsInv /\ [StatsNext]_statsPart => StatsInv'
<1> SUFFICES ASSUME StatsInv, [StatsNext]_statsPart PROVE StatsInv'
  OBVIOUS
<1>1. CASE StatsNext
  BY <1>1, ReadReplayKeeps DEF StatsNext, WholeReplay, BrokenReplay
<1>2. CASE UNCHANGED statsPart
  BY <1>2 DEF statsPart, StatsInv
<1> QED
  BY <1>1, <1>2

\* Whatever replays are read, no counter holds at two offsets, and the one that is
\* counted holds at its own unless two replays deny it.
THEOREM CountersAreMatched == StatsSpec => []OneOffsetEach
<1>1. StatsInv => OneOffsetEach
  <2> SUFFICES ASSUME StatsInv PROVE OneOffsetEach
    OBVIOUS
  <2>1. ASSUME NEW f \in Fields, NEW o \in Offsets, NEW q \in Offsets, Holds(f, o), Holds(f, q) PROVE o = q
    <3>1. hits[f][o] \in Nat /\ hits[f][q] \in Nat /\ tested[f] \in Nat
      BY DEF StatsInv
    <3>2. tested[f] >= 3
      BY <2>1, <3>1, StatsAssumption DEF Holds
    <3>3. o # q => hits[f][o] + hits[f][q] <= tested[f]
      BY DEF StatsInv
    <3> QED
      BY <2>1, <3>1, <3>2, <3>3 DEF Holds
  <2>2. \A m, k \in match_stats : m[1] = k[1] => m = k
    <3>1. \A m \in match_stats : m[1] \in Fields /\ m[2] \in Offsets /\ m = <<m[1], m[2]>> /\ Holds(m[1], m[2])
      BY DEF match_stats
    <3> QED
      BY <2>1, <3>1
  <2>3. ASSUME tested[counted.field] >= MIN_TESTS, broken_off <= 1
        PROVE  <<counted.field, counted.extra>> \in match_stats
    <3>1. /\ hits[counted.field][counted.extra] + broken_off = tested[counted.field]
          /\ counted.field \in Fields /\ counted.extra \in Offsets /\ broken_off \in Nat
          /\ hits[counted.field][counted.extra] \in Nat /\ tested[counted.field] \in Nat
      BY DEF StatsInv
    <3>2. Holds(counted.field, counted.extra)
      BY <2>3, <3>1, StatsAssumption DEF Holds
    <3> QED
      BY <3>1, <3>2 DEF match_stats
  <2> QED
    BY <2>2, <2>3 DEF OneOffsetEach
<1>2. StatsSpec => []StatsInv
  BY StatsStarts, StatsStep, PTL DEF StatsSpec
<1> QED
  BY <1>1, <1>2, PTL

-----------------------------------------------------------------------------
(* Visibility                                                              *)

VotesTyped ==
  /\ meaning \in [{Enter, Leave} -> Meanings]
  /\ votes \in [Classes -> [Payloads -> [Teams -> Nat]]] /\ blocks \in [Classes -> Nat]

\* In the classes of the pair, a payload has only ever stood for one team.
VotesAreMeant ==
  \A n \in {Enter, Leave}, p \in Payloads, t \in Teams : votes[n][p][t] # 0 => p = meaning[n][t]

VotesInv == VotesTyped /\ VotesAreMeant /\ PairIsRead

LEMMA VisibilityStarts == VisibilityInit => VotesInv
<1> SUFFICES ASSUME VisibilityInit PROVE VotesInv
  OBVIOUS
<1>1. \A n \in Classes, p \in Payloads, t \in Teams : votes[n][p][t] = 0
  BY DEF VisibilityInit, VisibilityStart
<1>2. VotesTyped
  BY DEF VisibilityInit, VisibilityStart, VotesTyped
<1>3. VotesAreMeant
  BY <1>1 DEF VotesAreMeant, Classes
<1>4. PairIsRead
  BY DEF VisibilityInit, VisibilityStart, PairIsRead
<1> QED
  BY <1>2, <1>3, <1>4 DEF VotesInv

\* What is found of the traffic depends on what was counted alone.
LEMMA CountsDecide ==
  ASSUME votes' = votes, params' = params, blocks' = blocks
  PROVE  /\ Candidates' = Candidates /\ (EnterIsBusiest' <=> EnterIsBusiest)
         /\ \A n : Seen(n)' = Seen(n) /\ Samples(n)' = Samples(n)
         /\ \A s : Unequivocal(s)' <=> Unequivocal(s)
<1>1. \A n, p : Votes(n, p)' = Votes(n, p)
  BY DEF Votes
<1>2. Candidates' = Candidates
  BY DEF Candidates
<1>3. \A n : Seen(n)' = Seen(n)
  BY <1>1 DEF Seen
<1>4. \A n : Samples(n)' = Samples(n)
  BY <1>1 DEF Samples
<1>5. EnterIsBusiest' <=> EnterIsBusiest
  BY <1>2 DEF EnterIsBusiest
<1>6. \A s : Unequivocal(s)' <=> Unequivocal(s)
  BY DEF Unequivocal
<1> QED
  BY <1>2, <1>3, <1>4, <1>5, <1>6

\* A block of a champion means the other team, or is of another class.
LEMMA BlockKeepsVotes ==
  ASSUME VotesInv, NEW n \in Classes, NEW p \in Payloads, NEW o, Block(n, p, o),
         n \in {Enter, Leave} /\ o \in Champions => p = meaning[n][Other(o)]
  PROVE  VotesInv'
<1>1. /\ ~ solved' /\ meaning' = meaning /\ blocks' = [blocks EXCEPT ![n] = @ + 1]
      /\ votes' = IF o \in Champions THEN [votes EXCEPT ![n][p][Other(o)] = @ + 1] ELSE votes
  BY DEF Block
<1>2. /\ meaning \in [{Enter, Leave} -> Meanings]
      /\ votes \in [Classes -> [Payloads -> [Teams -> Nat]]] /\ blocks \in [Classes -> Nat]
  BY DEF VotesInv, VotesTyped
<1>3. Other(o) \in Teams
  BY DEF Other, Teams
<1>4. CASE o \in Champions
  <2>1. PICK u \in Teams : u = Other(o)
    BY <1>3
  <2>2. PICK f \in [Payloads -> [Teams -> Nat]] : f = votes[n]
    BY <1>2
  <2>3. PICK g \in [Teams -> Nat] : g = f[p]
    BY <2>2
  <2>4. [g EXCEPT ![u] = @ + 1] \in [Teams -> Nat]
    OBVIOUS
  <2>5. PICK h \in [Teams -> Nat] : h = [g EXCEPT ![u] = @ + 1]
    BY <2>4
  <2>6. [f EXCEPT ![p] = h] \in [Payloads -> [Teams -> Nat]]
    OBVIOUS
  <2>7. PICK k \in [Payloads -> [Teams -> Nat]] : k = [f EXCEPT ![p] = h]
    BY <2>6
  <2>8. votes' = [votes EXCEPT ![n] = k]
    BY <1>1, <1>4, <2>1, <2>2, <2>3, <2>5, <2>7
  <2>9. votes' \in [Classes -> [Payloads -> [Teams -> Nat]]]
    BY <1>2, <2>8
  <2>10. \A m \in Classes, q \in Payloads, t \in Teams :
           votes'[m][q][t] # 0 => votes[m][q][t] # 0 \/ (m = n /\ q = p /\ t = u)
    BY <1>2, <2>2, <2>3, <2>5, <2>7, <2>8
  <2>11. VotesAreMeant'
    BY <1>1, <1>4, <2>1, <2>10 DEF VotesAreMeant, VotesInv, Classes
  <2>12. VotesTyped'
    BY <1>1, <1>2, <2>9 DEF VotesTyped
  <2> QED
    BY <1>1, <2>11, <2>12 DEF VotesInv, PairIsRead
<1>5. CASE o \notin Champions
  <2>1. VotesTyped'
    BY <1>1, <1>2, <1>5 DEF VotesTyped
  <2>2. VotesAreMeant'
    BY <1>1, <1>5 DEF VotesInv, VotesAreMeant
  <2> QED
    BY <1>1, <2>1, <2>2 DEF VotesInv, PairIsRead
<1> QED
  BY <1>4, <1>5

\* A seen payload of the pair has votes of its team and of no other.
LEMMA SeenIsMeant ==
  ASSUME VotesTyped, VotesAreMeant, NEW n \in {Enter, Leave}
  PROVE  /\ meaning[n]["order"] \in Payloads /\ meaning[n]["chaos"] \in Payloads
         /\ meaning[n]["order"] # meaning[n]["chaos"]
         /\ Seen(n) \subseteq {meaning[n]["order"], meaning[n]["chaos"]}
         /\ \A t \in Teams : meaning[n][t] \in Seen(n) => Best(n, meaning[n][t]) = {t}
         /\ \A t, u \in Teams : u # t => votes[n][meaning[n][t]][u] = 0
<1>1. /\ \A t \in Teams : meaning[n][t] \in Payloads
      /\ meaning[n]["order"] # meaning[n]["chaos"]
  BY DEF VotesTyped, Meanings, Teams
<1>2. Teams = {"order", "chaos"} /\ n \in Classes
  BY DEF Teams, Classes
<1>3. \A t, u \in Teams : u # t => votes[n][meaning[n][t]][u] = 0
  BY <1>1, <1>2 DEF VotesAreMeant
<1>4. \A p \in Payloads : votes[n][p]["order"] \in Nat /\ votes[n][p]["chaos"] \in Nat
  BY <1>2 DEF VotesTyped
<1>5. Seen(n) \subseteq {meaning[n]["order"], meaning[n]["chaos"]}
  BY <1>2, <1>4 DEF VotesAreMeant, Seen, Votes
<1>6. ASSUME NEW t \in Teams, meaning[n][t] \in Seen(n) PROVE Best(n, meaning[n][t]) = {t}
  <2>1. PICK p \in Payloads : p = meaning[n][t]
    BY <1>1
  <2>2. votes[n][p]["order"] + votes[n][p]["chaos"] > 0
    BY <1>6, <2>1 DEF Seen, Votes
  <2>3. \A u \in Teams : u # t => votes[n][p][u] = 0
    BY <1>3, <2>1
  <2>4. votes[n][p][t] > 0
    BY <1>2, <1>4, <2>2, <2>3
  <2>5. Best(n, p) = {t}
    BY <1>2, <1>4, <2>3, <2>4 DEF Best
  <2> QED
    BY <2>1, <2>5
<1> QED
  BY <1>1, <1>2, <1>3, <1>5, <1>6

\* A set of at most two has two elements only if it is both.
LEMMA BothSeen ==
  ASSUME NEW a, NEW b, a # b, NEW S \in SUBSET {a, b}
  PROVE  Cardinality(S) >= 2 <=> S = {a, b}
<1>1. /\ IsFiniteSet({a}) /\ Cardinality({a}) = 1 /\ IsFiniteSet({b}) /\ Cardinality({b}) = 1
      /\ Cardinality({}) = 0
  BY FS_Singleton, FS_EmptySet
<1>2. Cardinality({a} \cup {b}) = 2
  BY <1>1, FS_AddElement
<1>3. {a} \cup {b} = {a, b}
  OBVIOUS
<1>4. S = {} \/ S = {a} \/ S = {b} \/ S = {a, b}
  OBVIOUS
<1> QED
  BY <1>1, <1>2, <1>3, <1>4

LEMMA MappingFacts ==
  ASSUME VotesTyped, VotesAreMeant, NEW n \in {Enter, Leave}, n \in Candidates,
         NEW team \in [Candidates -> [Payloads -> Teams]],
         \A k \in Candidates, p \in Payloads : team[k][p] \in Best(k, p)
  PROVE  /\ \A t \in Teams : meaning[n][t] \in Seen(n) => Mapping(n, team)[meaning[n][t]] = t
         /\ Kept(n, Mapping(n, team))
              <=> Seen(n) = {meaning[n][t] : t \in Teams} /\ Samples(n) >= MIN_LABELLED
<1>1. PICK f : f = Mapping(n, team)
  OBVIOUS
<1>2. \A t \in Teams : meaning[n][t] \in Seen(n) => f[meaning[n][t]] = t
  <2> SUFFICES ASSUME NEW t \in Teams, meaning[n][t] \in Seen(n) PROVE f[meaning[n][t]] = t
    OBVIOUS
  <2>1. PICK p \in Payloads : p = meaning[n][t]
    BY SeenIsMeant DEF Teams
  <2>2. f[p] = team[n][p]
    BY <1>1, <2>1 DEF Mapping
  <2>3. team[n][p] \in Best(n, p)
    OBVIOUS
  <2>4. Best(n, p) = {t}
    BY <2>1, SeenIsMeant
  <2> QED
    BY <2>1, <2>2, <2>3, <2>4
<1>3. PICK a, b : a = meaning[n]["order"] /\ b = meaning[n]["chaos"]
  OBVIOUS
<1>4. /\ a # b /\ Seen(n) \in SUBSET {a, b} /\ {meaning[n][t] : t \in Teams} = {a, b}
      /\ Teams = {"order", "chaos"}
  BY <1>3, SeenIsMeant DEF Teams
<1>5. Cardinality(Seen(n)) >= 2 <=> Seen(n) = {a, b}
  BY <1>4, BothSeen
<1>6. \A p, q \in Seen(n) : p # q => f[p] # f[q]
  BY <1>2, <1>3, <1>4
<1>7. Exceptions(n, f) = {}
  <2> SUFFICES ASSUME NEW p \in Seen(n) PROVE Votes(n, p) = votes[n][p][f[p]]
    BY DEF Exceptions
  <2>1. PICK t \in Teams : p = meaning[n][t] /\ f[p] = t
    BY <1>2, <1>3, <1>4
  <2>2. \A u \in Teams : u # t => votes[n][p][u] = 0
    BY <2>1, SeenIsMeant
  <2>3. votes[n][p]["order"] \in Nat /\ votes[n][p]["chaos"] \in Nat
    BY <1>4 DEF Seen, VotesTyped, Classes
  <2> QED
    BY <1>4, <2>1, <2>2, <2>3 DEF Votes
<1>8. Kept(n, f) <=> Seen(n) = {meaning[n][t] : t \in Teams} /\ Samples(n) >= MIN_LABELLED
  BY <1>4, <1>5, <1>6, <1>7 DEF Kept
<1> QED
  BY <1>1, <1>2, <1>8

LEMMA SolveKeepsVotes == VotesInv /\ Solve => VotesInv'
<1> SUFFICES ASSUME VotesInv, Solve PROVE VotesInv'
  OBVIOUS
<1> USE DEF VotesInv
<1>1. meaning' = meaning /\ blocks' = blocks /\ params' = params /\ votes' = votes
  BY DEF Solve
<1>2. VotesTyped' /\ VotesAreMeant'
  BY <1>1 DEF VotesTyped, VotesAreMeant
<1>3. Candidates' = Candidates /\ \A n : Seen(n)' = Seen(n) /\ Samples(n)' = Samples(n)
  BY <1>1, CountsDecide
<1>4. EnterIsBusiest' <=> EnterIsBusiest
  BY <1>1, CountsDecide
<1>5. CASE Candidates = {}
  <2>1. out' = {}
    BY <1>5 DEF Solve
  <2> QED
    BY <1>2, <1>3, <1>5, <2>1 DEF PairIsRead
<1>6. CASE Candidates # {}
  <2>1. PICK enter \in Openers(Candidates), team \in [Candidates -> [Payloads -> Teams]] :
          /\ \A k \in Candidates, p \in Payloads : team[k][p] \in Best(k, p)
          /\ out' = {[netid |-> n, mapping |-> Mapping(n, team), is_enter |-> n = enter] :
                       n \in {k \in Candidates : Kept(k, Mapping(k, team))}}
    BY <1>6 DEF Solve
  <2>2. \A s \in out' : /\ s.netid \in Candidates /\ Kept(s.netid, Mapping(s.netid, team))
                        /\ s.mapping = Mapping(s.netid, team)
    BY <2>1
  <2>3. ASSUME NEW s \in out' PROVE s.is_enter <=> s.netid = enter
    <3>1. PICK n : s = [netid |-> n, mapping |-> Mapping(n, team), is_enter |-> n = enter]
      BY <2>1
    <3>2. s.netid = n /\ s.is_enter = (n = enter)
      BY <3>1, Zenon
    <3> QED
      BY <3>2
  <2>4. ASSUME NEW s \in out' PROVE Unequivocal(s)'
    <3>1. PICK n : n = s.netid
      OBVIOUS
    <3>2. PICK f : f = s.mapping
      OBVIOUS
    <3>3. n \in Classes /\ n \in Candidates /\ f = Mapping(n, team) /\ Kept(n, f)
      BY <2>2, <3>1, <3>2 DEF Candidates
    <3>4. /\ DOMAIN f = Seen(n) /\ Seen(n) \subseteq Payloads
          /\ \A p \in Seen(n) : f[p] \in Teams
      BY <3>3 DEF Mapping, Seen
    <3>5. /\ \A p, q \in Seen(n) : p # q => f[p] # f[q]
          /\ \A p \in Seen(n) : Votes(n, p) = votes[n][p][f[p]]
      BY <3>3 DEF Kept, Exceptions
    <3>6. ASSUME NEW p \in Seen(n), NEW t \in Teams, t # f[p] PROVE votes[n][p][t] = 0
      <4>1. votes[n][p]["order"] \in Nat /\ votes[n][p]["chaos"] \in Nat
        BY <3>3, <3>4 DEF VotesTyped, Teams
      <4>2. votes[n][p]["order"] + votes[n][p]["chaos"] = votes[n][p][f[p]]
        BY <3>5 DEF Votes
      <4>3. /\ t = "order" \/ t = "chaos"
            /\ f[p] = "order" \/ f[p] = "chaos"
        BY <3>4 DEF Teams
      <4> QED
        BY <3>6, <4>1, <4>2, <4>3
    <3> QED
      BY <1>1, <3>1, <3>2, <3>4, <3>5, <3>6 DEF Unequivocal
  <2>5. ASSUME NEW n \in {Enter, Leave}
        PROVE  /\ (\E s \in out' : s.netid = n)
                    <=> n \in Candidates /\ Seen(n) = {meaning[n][t] : t \in Teams} /\ Samples(n) >= MIN_LABELLED
               /\ \A s \in out' : s.netid = n => \A t \in Teams : s.mapping[meaning[n][t]] = t
    <3>1. (\E s \in out' : s.netid = n) => n \in Candidates /\ Kept(n, Mapping(n, team))
      BY <2>2
    <3>4. ASSUME n \in Candidates, Kept(n, Mapping(n, team)) PROVE \E s \in out' : s.netid = n
      <4>1. PICK s : s = [netid |-> n, mapping |-> Mapping(n, team), is_enter |-> n = enter]
        OBVIOUS
      <4>2. s \in out'
        BY <2>1, <3>4, <4>1, Zenon
      <4>3. s.netid = n
        BY <4>1, Zenon
      <4> QED
        BY <4>2, <4>3
    <3>2. n \in Candidates =>
            (Kept(n, Mapping(n, team))
               <=> Seen(n) = {meaning[n][t] : t \in Teams} /\ Samples(n) >= MIN_LABELLED)
      BY <2>1, MappingFacts
    <3>3. ASSUME NEW s \in out', s.netid = n, NEW t \in Teams PROVE s.mapping[meaning[n][t]] = t
      <4>1. n \in Candidates /\ Kept(n, Mapping(n, team)) /\ s.mapping = Mapping(n, team)
        BY <2>2, <3>3
      <4>2. meaning[n][t] \in Seen(n)
        BY <3>2, <4>1
      <4> QED
        BY <2>1, <4>1, <4>2, MappingFacts
    <3> QED
      BY <3>1, <3>2, <3>3, <3>4
  <2>6. EnterIsBusiest => enter = Enter
    <3>1. enter \in Classes /\ (Enter \in Candidates => blocks[Enter] <= blocks[enter])
      BY <2>1 DEF Openers, Candidates
    <3>2. \A n \in Classes : blocks[n] \in Nat
      BY DEF VotesTyped
    <3>3. enter = Enter \/ enter = Leave \/ enter \in Others
      BY <3>1 DEF Classes
    <3> QED
      BY <3>1, <3>2, <3>3 DEF EnterIsBusiest, Classes
  <2>7. PairIsRead'
    BY <1>1, <1>3, <1>4, <2>3, <2>4, <2>5, <2>6 DEF PairIsRead
  <2> QED
    BY <1>2, <2>7
<1> QED
  BY <1>5, <1>6

LEMMA VisibilityStep == VotesInv /\ [VisibilityNext]_visibilityPart => VotesInv'
<1> SUFFICES ASSUME VotesInv, [VisibilityNext]_visibilityPart PROVE VotesInv'
  OBVIOUS
<1>1. ASSUME NEW n \in {Enter, Leave}, NEW o, NEW t \in Watcher(o), Block(n, meaning[n][t], o)
      PROVE  VotesInv'
  <2>1. t \in Teams /\ (o \in Champions => t = Other(o))
    BY <1>1 DEF Watcher, Other, Teams
  <2>2. meaning[n][t] \in Payloads /\ n \in Classes
    BY <2>1 DEF VotesInv, VotesTyped, Meanings, Classes
  <2> QED
    BY <1>1, <2>1, <2>2, BlockKeepsVotes
<1>2. CASE Traffic
  <2>1. ASSUME NEW o, ComesIntoView(o) \/ LeavesView(o) PROVE VotesInv'
    BY <1>1, <2>1 DEF ComesIntoView, LeavesView
  <2>2. ASSUME NEW n \in Others, NEW p \in Payloads, NEW o, OtherClass(n, p, o) PROVE VotesInv'
    <3>1. n \in Classes /\ n \notin {Enter, Leave} /\ Block(n, p, o)
      BY <2>2, VisibilityAssumption DEF Classes, OtherClass
    <3> QED
      BY <3>1, BlockKeepsVotes
  <2> QED
    BY <1>2, <2>1, <2>2 DEF Traffic
<1>3. ASSUME NEW o, Destroyed(o) PROVE VotesInv'
  <2>1. ~ solved' /\ meaning' = meaning /\ votes' = votes /\ blocks' = blocks
    BY <1>3 DEF Destroyed
  <2> QED
    BY <2>1 DEF VotesInv, VotesTyped, VotesAreMeant, PairIsRead
<1>4. CASE Solve
  BY <1>4, SolveKeepsVotes
<1>5. CASE UNCHANGED visibilityPart
  <2>1. /\ meaning' = meaning /\ votes' = votes /\ blocks' = blocks /\ params' = params
        /\ solved' = solved /\ out' = out
    BY <1>5 DEF visibilityPart
  <2>2. /\ Candidates' = Candidates /\ (EnterIsBusiest' <=> EnterIsBusiest)
        /\ \A n : Seen(n)' = Seen(n) /\ Samples(n)' = Samples(n)
        /\ \A s : Unequivocal(s)' <=> Unequivocal(s)
    BY <2>1, CountsDecide
  <2>3. PairIsRead'
    BY <2>1, <2>2 DEF VotesInv, PairIsRead
  <2> QED
    BY <2>1, <2>3 DEF VotesInv, VotesTyped, VotesAreMeant
<1> QED
  BY <1>2, <1>3, <1>4, <1>5 DEF VisibilityNext

\* Whatever the server sends, in whatever order, the solved classes are those it uses
\* for visibility and are read as it means them.
THEOREM VisibilityIsRead == VisibilitySpec => []PairIsRead
<1>1. VisibilitySpec => []VotesInv
  BY VisibilityStarts, VisibilityStep, PTL DEF VisibilitySpec
<1> QED
  BY <1>1, PTL DEF VotesInv

-----------------------------------------------------------------------------
(* Field profiles                                                          *)

\* A set of numbers that has 0 and with each number the next has them all.
LEMMA CountsUp ==
  ASSUME NEW S \in SUBSET Nat, 0 \in S, \A n \in S : n + 1 \in S
  PROVE  S = Nat
<1> SUFFICES ASSUME NEW z \in Nat \ S PROVE FALSE
  OBVIOUS
<1> DEFINE T == Nat \ S
<1>1. T \in SUBSET Nat /\ T # {}
  OBVIOUS
<1> HIDE DEF T
<1>2. PICK x \in T : \A y \in T : x <= y
  BY <1>1, LeastExists
<1>3. x \in Nat /\ x \notin S /\ x # 0
  BY DEF T
<1>4. x - 1 \in Nat /\ (x - 1) + 1 = x /\ ~ (x <= x - 1)
  BY <1>3
<1>5. x - 1 \in S
  BY <1>2, <1>4 DEF T
<1> QED
  BY <1>3, <1>4, <1>5

\* The sizes of two sets that share nothing add up.
LEMMA SizesAdd ==
  ASSUME NEW A, NEW B, IsFiniteSet(A), IsFiniteSet(B), A \cap B = {}
  PROVE  /\ IsFiniteSet(A \cup B)
         /\ Cardinality(A) \in Nat /\ Cardinality(B) \in Nat
         /\ Cardinality(A \cup B) = Cardinality(A) + Cardinality(B)
<1>1. Cardinality(A) \in Nat /\ Cardinality(B) \in Nat
  BY FS_CardinalityType
<1>2. Cardinality(A \cap B) = 0
  BY FS_EmptySet
<1>3. /\ IsFiniteSet(A \cup B)
      /\ Cardinality(A \cup B) = Cardinality(A) + Cardinality(B) - Cardinality(A \cap B)
  BY FS_Union
<1> QED
  BY <1>1, <1>2, <1>3

\* A finite set of numbers that is not empty has a greatest one.
LEMMA GreatestExists ==
  ASSUME NEW S \in SUBSET Nat, IsFiniteSet(S), S # {}
  PROVE  \E m \in S : \A n \in S : n <= m
<1> DEFINE Good == {k \in Nat : \A T \in SUBSET Nat :
                      IsFiniteSet(T) /\ T # {} /\ Cardinality(T) = k => \E m \in T : \A n \in T : n <= m}
<1>1. 0 \in Good
  BY FS_EmptySet
<1>2. ASSUME NEW k \in Good PROVE k + 1 \in Good
  <2> SUFFICES ASSUME NEW T \in SUBSET Nat, IsFiniteSet(T), T # {}, Cardinality(T) = k + 1
               PROVE  \E m \in T : \A n \in T : n <= m
    OBVIOUS
  <2>1. PICK x : x \in T
    OBVIOUS
  <2> DEFINE R == T \ {x}
  <2>2. R \in SUBSET Nat /\ IsFiniteSet(R) /\ Cardinality(R) = k /\ k \in Nat
    <3>1. IsFiniteSet(R) /\ Cardinality(R) = Cardinality(T) - 1
      BY <2>1, FS_RemoveElement
    <3>2. k \in Nat /\ R \in SUBSET Nat
      OBVIOUS
    <3> QED
      BY <3>1, <3>2
  <2>3. CASE R = {}
    BY <2>1, <2>3
  <2>4. CASE R # {}
    <3>1. PICK m \in R : \A n \in R : n <= m
      BY <2>2, <2>4
    <3>2. x \in Nat /\ m \in Nat /\ m \in T /\ \A n \in T : n = x \/ n \in R
      BY <2>1, <3>1
    <3>3. CASE x <= m
      BY <3>1, <3>2, <3>3
    <3>4. CASE m <= x
      <4>1. \A n \in T : n <= x
        BY <3>1, <3>2, <3>4
      <4> QED
        BY <4>1, <2>1
    <3> QED
      BY <3>2, <3>3, <3>4
  <2> QED
    BY <2>3, <2>4
<1>3. Good = Nat
  <2>1. Good \in SUBSET Nat
    OBVIOUS
  <2> HIDE DEF Good
  <2> QED
    BY <1>1, <1>2, <2>1, CountsUp
<1>4. Cardinality(S) \in Nat
  BY FS_CardinalityType
<1> QED
  BY <1>3, <1>4

\* The first n of a set of numbers, those that have fewer than n before them.
FirstOf(S, n) == {v \in S : Cardinality({x \in S : x < v}) < n}

LEMMA FirstAreCounted ==
  ASSUME NEW S \in SUBSET Nat, IsFiniteSet(S), NEW n \in Nat
  PROVE  /\ IsFiniteSet(FirstOf(S, n))
         /\ Cardinality(FirstOf(S, n)) = IF Cardinality(S) <= n THEN Cardinality(S) ELSE n
<1> DEFINE CountIs(T) == Cardinality(FirstOf(T, n)) = IF Cardinality(T) <= n THEN Cardinality(T) ELSE n
           Good == {k \in Nat : \A T \in SUBSET Nat :
                      IsFiniteSet(T) /\ Cardinality(T) = k => CountIs(T)}
<1>1. 0 \in Good
  <2> SUFFICES ASSUME NEW T \in SUBSET Nat, IsFiniteSet(T), Cardinality(T) = 0 PROVE CountIs(T)
    OBVIOUS
  <2>1. T = {}
    BY FS_EmptySet
  <2>2. FirstOf(T, n) = {}
    BY <2>1 DEF FirstOf
  <2> QED
    BY <2>2, FS_EmptySet
<1>2. ASSUME NEW k \in Good PROVE k + 1 \in Good
  <2> SUFFICES ASSUME NEW T \in SUBSET Nat, IsFiniteSet(T), Cardinality(T) = k + 1 PROVE CountIs(T)
    OBVIOUS
  <2>0. k \in Nat
    OBVIOUS
  <2>1. T # {}
    BY <2>0, FS_EmptySet
  <2>2. PICK m \in T : \A x \in T : x <= m
    BY <2>1, GreatestExists
  <2> DEFINE R == T \ {m}
  <2>3. R \in SUBSET Nat /\ IsFiniteSet(R) /\ Cardinality(R) = k
    <3>1. IsFiniteSet(R) /\ Cardinality(R) = Cardinality(T) - 1
      BY <2>2, FS_RemoveElement
    <3> QED
      BY <3>1, <2>0
  <2>4. CountIs(R)
    <3> HIDE DEF CountIs
    <3> QED
      BY <2>3
  <2>5. \A v \in R : {x \in T : x < v} = {x \in R : x < v}
    BY <2>2
  <2>6. {x \in T : x < m} = R
    <3>1. \A x \in T : x \in Nat /\ m \in Nat /\ x <= m /\ (x < m <=> x # m)
      BY <2>2
    <3> QED
      BY <3>1
  <2>7. FirstOf(T, n) = FirstOf(R, n) \cup (IF k < n THEN {m} ELSE {})
    <3>1. \A v \in R : v \in FirstOf(T, n) <=> v \in FirstOf(R, n)
      BY <2>5 DEF FirstOf
    <3>2. m \in FirstOf(T, n) <=> k < n
      BY <2>2, <2>3, <2>6 DEF FirstOf
    <3>3. FirstOf(R, n) \subseteq R /\ FirstOf(T, n) \subseteq R \cup {m}
      BY DEF FirstOf
    <3> QED
      BY <3>1, <3>2, <3>3
  <2>8. m \notin FirstOf(R, n) /\ FirstOf(R, n) \in SUBSET R
    BY DEF FirstOf
  <2>9. IsFiniteSet(FirstOf(R, n)) /\ Cardinality(FirstOf(R, n)) = IF k <= n THEN k ELSE n
    BY <2>3, <2>4, <2>8, FS_Subset
  <2>10. Cardinality(FirstOf(R, n) \cup {m}) = Cardinality(FirstOf(R, n)) + 1
    BY <2>8, <2>9, FS_AddElement
  <2>11. CASE k < n
    BY <2>0, <2>7, <2>9, <2>10, <2>11
  <2>12. CASE ~ (k < n)
    <3>1. FirstOf(T, n) = FirstOf(R, n)
      BY <2>7, <2>12
    <3> QED
      BY <2>0, <3>1, <2>9, <2>12
  <2> QED
    BY <2>11, <2>12
<1>3. Good = Nat
  <2>1. Good \in SUBSET Nat
    OBVIOUS
  <2> HIDE DEF Good
  <2> QED
    BY <1>1, <1>2, <2>1, CountsUp
<1>4. Cardinality(S) \in Nat /\ FirstOf(S, n) \in SUBSET S
  BY FS_CardinalityType DEF FirstOf
<1>5. CountIs(S)
  <2> HIDE DEF CountIs
  <2> QED
    BY <1>3, <1>4
<1> QED
  BY <1>4, <1>5, FS_Subset

\* The values of a word are the first of all there were, and the mark is set when
\* there were more.
KeepsValues(values, overflow, D) ==
  /\ values \subseteq D /\ overflow \in BOOLEAN
  /\ Cardinality(values) = Smaller(DISTINCT_CAP, Cardinality(D))
  /\ overflow <=> Cardinality(D) > DISTINCT_CAP

LEMMA ValuesMerge ==
  ASSUME NEW D \in SUBSET Nat, IsFiniteSet(D), NEW E \in SUBSET Nat, IsFiniteSet(E),
         NEW w, KeepsValues(w.values, w.overflow, D),
         NEW more \in SUBSET E, NEW lost \in BOOLEAN,
         IF lost THEN Cardinality(E) > DISTINCT_CAP /\ Cardinality(more) >= DISTINCT_CAP ELSE more = E
  PROVE  LET k == KeptValues(w, more) IN
         KeepsValues(k.values, k.overflow \/ lost, D \cup E)
<1> DEFINE new == more \ w.values
           room == DISTINCT_CAP - Cardinality(w.values)
           k == KeptValues(w, more)
           cap == DISTINCT_CAP
<1> SUFFICES KeepsValues(k.values, k.overflow \/ lost, D \cup E)
  OBVIOUS
<1>1. cap \in Nat
  BY ProfileAssumption
<1>2. /\ w.values \in SUBSET D /\ w.values \in SUBSET Nat /\ IsFiniteSet(w.values)
      /\ more \in SUBSET Nat /\ IsFiniteSet(more) /\ new \in SUBSET more /\ IsFiniteSet(new)
  <2>1. w.values \in SUBSET D /\ w.values \in SUBSET Nat /\ more \in SUBSET Nat /\ new \in SUBSET more
    BY DEF KeepsValues
  <2> QED
    BY <2>1, FS_Subset
<1>3. /\ Cardinality(D) \in Nat /\ Cardinality(E) \in Nat /\ Cardinality(w.values) \in Nat
      /\ Cardinality(more) \in Nat /\ Cardinality(new) \in Nat
      /\ IsFiniteSet(D \cup E) /\ Cardinality(D \cup E) \in Nat
  BY <1>2, FS_CardinalityType, FS_Union
<1>4. /\ Cardinality(w.values) = (IF cap <= Cardinality(D) THEN cap ELSE Cardinality(D))
      /\ w.overflow \in BOOLEAN /\ (w.overflow <=> Cardinality(D) > cap)
  BY DEF KeepsValues, Smaller
<1>5. room \in Nat /\ Cardinality(w.values) + room = cap
  BY <1>1, <1>3, <1>4
<1>6. k.values = w.values \cup FirstOf(new, room) /\ k.overflow = (w.overflow \/ Cardinality(new) > room)
  BY DEF KeptValues, FirstOf
<1> HIDE DEF room, new, k
<1>7. /\ IsFiniteSet(FirstOf(new, room)) /\ FirstOf(new, room) \in SUBSET new
      /\ Cardinality(FirstOf(new, room)) = IF Cardinality(new) <= room THEN Cardinality(new) ELSE room
  <2>1. new \in SUBSET Nat
    BY <1>2
  <2> QED
    BY <1>2, <1>5, <2>1, FirstAreCounted DEF FirstOf
<1>8. /\ Cardinality(k.values) = Cardinality(w.values) + Cardinality(FirstOf(new, room))
      /\ k.values \subseteq D \cup E
  <2>1. w.values \cap FirstOf(new, room) = {}
    BY <1>7 DEF new
  <2> QED
    BY <1>2, <1>6, <1>7, <2>1, SizesAdd
<1>9. Cardinality(D) <= Cardinality(D \cup E) /\ Cardinality(E) <= Cardinality(D \cup E)
  BY <1>3, FS_Subset
<1>10. /\ Cardinality(w.values \cup new) = Cardinality(w.values) + Cardinality(new)
       /\ w.values \cup new = w.values \cup more
  <2>1. w.values \cap new = {} /\ w.values \cup new = w.values \cup more
    BY DEF new
  <2> QED
    BY <1>2, <2>1, SizesAdd
<1>11. /\ w.values \cup more \in SUBSET (D \cup E) /\ more \in SUBSET (w.values \cup more)
       /\ IsFiniteSet(w.values \cup more)
  BY <1>2, FS_Union
<1>12. /\ Cardinality(w.values \cup more) <= Cardinality(D \cup E)
       /\ Cardinality(more) <= Cardinality(w.values \cup more)
  BY <1>3, <1>11, FS_Subset
<1>13. CASE w.overflow
  <2>1. room = 0 /\ Cardinality(k.values) = cap /\ Cardinality(D \cup E) > cap
    BY <1>13, <1>1, <1>3, <1>4, <1>5, <1>7, <1>8, <1>9
  <2>2. (k.overflow \/ lost) = TRUE
    BY <1>13, <1>6
  <2>3. Smaller(cap, Cardinality(D \cup E)) = cap
    BY <2>1, <1>1, <1>3 DEF Smaller
  <2> QED
    BY <2>1, <2>2, <2>3, <1>8 DEF KeepsValues
<1>14. CASE ~ w.overflow
  <2>1. w.values = D
    BY <1>14, <1>1, <1>2, <1>3, <1>4, FS_Subset
  <2>2. CASE lost
    <3>1. Cardinality(new) >= room /\ Cardinality(D \cup E) > cap
      BY <2>2, <1>1, <1>3, <1>5, <1>9, <1>10, <1>12
    <3>2. Cardinality(k.values) = cap
      BY <3>1, <1>1, <1>3, <1>5, <1>7, <1>8
    <3> QED
      BY <3>1, <3>2, <2>2, <1>1, <1>3, <1>6, <1>8 DEF KeepsValues, Smaller
  <2>3. CASE ~ lost
    <3>1. Cardinality(D \cup E) = Cardinality(w.values) + Cardinality(new)
      BY <2>1, <2>3, <1>10
    <3>2. (k.overflow \/ lost) <=> Cardinality(new) > room
      BY <1>14, <2>3, <1>4, <1>6, Zenon
    <3>3. Cardinality(new) > room <=> Cardinality(D \cup E) > cap
      BY <3>1, <1>1, <1>3, <1>5
    <3>4. Cardinality(k.values) = Smaller(cap, Cardinality(D \cup E))
      BY <3>1, <1>1, <1>3, <1>5, <1>7, <1>8 DEF Smaller
    <3> QED
      BY <3>2, <3>3, <3>4, <1>8 DEF KeepsValues
  <2> QED
    BY <2>2, <2>3
<1> QED
  BY <1>4, <1>13, <1>14

\* The lesser and the larger of two numbers.
LEMMA OfTwo ==
  ASSUME NEW x \in Int, NEW y \in Int
  PROVE  /\ Smaller(x, y) \in Int /\ Smaller(x, y) <= x /\ Smaller(x, y) <= y
         /\ Smaller(x, y) = x \/ Smaller(x, y) = y
         /\ Larger(x, y) \in Int /\ Larger(x, y) >= x /\ Larger(x, y) >= y
         /\ Larger(x, y) = x \/ Larger(x, y) = y
         /\ Min({x, y}) = Smaller(x, y) /\ Max({x, y}) = Larger(x, y)
<1> DEFINE l == IF x <= y THEN x ELSE y
           g == IF x >= y THEN x ELSE y
<1>1. l \in {x, y} /\ \A z \in {x, y} : l <= z
  OBVIOUS
<1>2. \A k \in {x, y} : (\A z \in {x, y} : k <= z) => k = l
  OBVIOUS
<1>3. g \in {x, y} /\ \A z \in {x, y} : g >= z
  OBVIOUS
<1>4. \A k \in {x, y} : (\A z \in {x, y} : k >= z) => k = g
  OBVIOUS
<1>5. Min({x, y}) = l
  BY <1>1, <1>2 DEF Min
<1>6. Max({x, y}) = g
  BY <1>3, <1>4 DEF Max
<1> QED
  BY <1>1, <1>3, <1>5, <1>6 DEF Smaller, Larger

\* Blocks of the class, of a chunk's profile and of a word's.
ProfiledBlock == [word : Values, clean : BOOLEAN, sampled : BOOLEAN]
WordType == [seen : Nat, zero : Nat, float : Nat, values : SUBSET Nat, overflow : BOOLEAN,
             umax : Nat, fmin : Int, fmax : Int]
ProfileType == [blocks : Nat, sampled : Nat, clean : Nat, payload_min : Nat, payload_max : Nat,
                word : WordType]

\* Those of the blocks numbered in I that were sampled, were clean, held a zero or a float,
\* and what the clean ones held.
SampledOf(I, s) == {i \in I : s[i].sampled}
CleanOf(I, s) == {i \in SampledOf(I, s) : s[i].clean}
ZeroOf(I, s) == {i \in CleanOf(I, s) : s[i].word.u = 0}
FloatOf(I, s) == {i \in CleanOf(I, s) : s[i].word.f # {}}
DistinctOf(I, s) == {s[i].word.u : i \in CleanOf(I, s)}

PayloadsOf(c, I, s) ==
  LET S == SampledOf(I, s) IN
  /\ S = {} => c.payload_max = 0
  /\ S # {} => /\ \E i \in S : s[i].word.payload = c.payload_min
               /\ \E i \in S : s[i].word.payload = c.payload_max
  /\ \A i \in S : c.payload_min <= s[i].word.payload /\ s[i].word.payload <= c.payload_max

FloatsOf(w, I, s) ==
  \A i \in CleanOf(I, s) : \A f \in s[i].word.f : w.fmin <= f /\ f <= w.fmax

\* The profile is what one pass over the blocks numbered in I counts.
Exact(c, I, s) ==
  /\ c.blocks = Cardinality(I) /\ c.sampled = Cardinality(SampledOf(I, s))
  /\ c.clean = Cardinality(CleanOf(I, s)) /\ c.word.seen = Cardinality(CleanOf(I, s))
  /\ c.word.zero = Cardinality(ZeroOf(I, s)) /\ c.word.float = Cardinality(FloatOf(I, s))
  /\ PayloadsOf(c, I, s) /\ FloatsOf(c.word, I, s)
  /\ KeepsValues(c.word.values, c.word.overflow, DistinctOf(I, s))

\* The parts of a finite set of blocks.
LEMMA PartsOf ==
  ASSUME NEW s \in Seq(ProfiledBlock), NEW I \in SUBSET (1 .. Len(s))
  PROVE  /\ IsFiniteSet(I) /\ IsFiniteSet(SampledOf(I, s)) /\ IsFiniteSet(CleanOf(I, s))
         /\ IsFiniteSet(ZeroOf(I, s)) /\ IsFiniteSet(FloatOf(I, s)) /\ IsFiniteSet(DistinctOf(I, s))
         /\ DistinctOf(I, s) \in SUBSET Nat
         /\ \A i \in I : /\ s[i] \in ProfiledBlock /\ s[i].word \in Values /\ s[i].word.u \in Nat
                         /\ s[i].word.payload \in Nat /\ s[i].word.f \in SUBSET Int
                         /\ \A f, g \in s[i].word.f : f = g
         /\ CleanOf(I, s) \subseteq SampledOf(I, s) /\ SampledOf(I, s) \subseteq I
         /\ ZeroOf(I, s) \subseteq CleanOf(I, s) /\ FloatOf(I, s) \subseteq CleanOf(I, s)
<1>1. IsFiniteSet(1 .. Len(s)) /\ IsFiniteSet(I)
  <2>1. Len(s) \in Int /\ 1 \in Int
    OBVIOUS
  <2>2. IsFiniteSet(1 .. Len(s))
    BY <2>1, FS_Interval
  <2> QED
    BY <2>2, FS_Subset
<1>2. /\ CleanOf(I, s) \subseteq SampledOf(I, s) /\ SampledOf(I, s) \subseteq I
      /\ ZeroOf(I, s) \subseteq CleanOf(I, s) /\ FloatOf(I, s) \subseteq CleanOf(I, s)
  BY DEF SampledOf, CleanOf, ZeroOf, FloatOf
<1>3. /\ IsFiniteSet(SampledOf(I, s)) /\ IsFiniteSet(CleanOf(I, s))
      /\ IsFiniteSet(ZeroOf(I, s)) /\ IsFiniteSet(FloatOf(I, s))
  <2>1. \A A : A \subseteq I => IsFiniteSet(A)
    BY <1>1, FS_Subset
  <2> QED
    BY <1>2, <2>1
<1>4. \A i \in I : s[i] \in ProfiledBlock /\ s[i].word \in Values
  <2>1. \A i \in I : s[i] \in ProfiledBlock
    OBVIOUS
  <2> QED
    BY <2>1 DEF ProfiledBlock
<1>5. \A i \in I : /\ s[i].word.u \in Nat /\ s[i].word.payload \in Nat /\ s[i].word.f \in SUBSET Int
                   /\ \A f, g \in s[i].word.f : f = g
  BY <1>4, ProfileAssumption
<1>6. IsFiniteSet(DistinctOf(I, s))
  <2> DEFINE f == [i \in CleanOf(I, s) |-> s[i].word.u]
  <2>1. f \in Surjection(CleanOf(I, s), DistinctOf(I, s))
    BY DEF Surjection, DistinctOf
  <2> HIDE DEF f
  <2> QED
    BY <1>3, <2>1, FS_Surjection
<1>7. DistinctOf(I, s) \in SUBSET Nat
  BY <1>2, <1>5 DEF DistinctOf
<1> QED
  BY <1>1, <1>2, <1>3, <1>4, <1>5, <1>6, <1>7

\* The parts of two sets of blocks together.
Joined(I, J, s) ==
  /\ SampledOf(I \cup J, s) = SampledOf(I, s) \cup SampledOf(J, s)
  /\ CleanOf(I \cup J, s) = CleanOf(I, s) \cup CleanOf(J, s)
  /\ ZeroOf(I \cup J, s) = ZeroOf(I, s) \cup ZeroOf(J, s)
  /\ FloatOf(I \cup J, s) = FloatOf(I, s) \cup FloatOf(J, s)
  /\ DistinctOf(I \cup J, s) = DistinctOf(I, s) \cup DistinctOf(J, s)

LEMMA PartsJoin == ASSUME NEW s, NEW I, NEW J PROVE Joined(I, J, s)
<1>1. SampledOf(I \cup J, s) = SampledOf(I, s) \cup SampledOf(J, s)
  BY DEF SampledOf
<1>2. CleanOf(I \cup J, s) = CleanOf(I, s) \cup CleanOf(J, s)
  BY <1>1 DEF CleanOf
<1> QED
  BY <1>1, <1>2 DEF ZeroOf, FloatOf, DistinctOf, Joined

\* The parts of sets that share nothing add up.
LEMMA PartsAdd ==
  ASSUME NEW s \in Seq(ProfiledBlock), NEW I \in SUBSET (1 .. Len(s)), NEW J \in SUBSET (1 .. Len(s)),
         I \cap J = {}
  PROVE  /\ Cardinality(I \cup J) = Cardinality(I) + Cardinality(J)
         /\ Cardinality(SampledOf(I \cup J, s)) =
              Cardinality(SampledOf(I, s)) + Cardinality(SampledOf(J, s))
         /\ Cardinality(CleanOf(I \cup J, s)) =
              Cardinality(CleanOf(I, s)) + Cardinality(CleanOf(J, s))
         /\ Cardinality(ZeroOf(I \cup J, s)) =
              Cardinality(ZeroOf(I, s)) + Cardinality(ZeroOf(J, s))
         /\ Cardinality(FloatOf(I \cup J, s)) =
              Cardinality(FloatOf(I, s)) + Cardinality(FloatOf(J, s))
<1>1. /\ IsFiniteSet(I) /\ IsFiniteSet(SampledOf(I, s)) /\ IsFiniteSet(CleanOf(I, s))
      /\ IsFiniteSet(ZeroOf(I, s)) /\ IsFiniteSet(FloatOf(I, s))
      /\ CleanOf(I, s) \subseteq I /\ SampledOf(I, s) \subseteq I
      /\ ZeroOf(I, s) \subseteq I /\ FloatOf(I, s) \subseteq I
  BY PartsOf
<1>2. /\ IsFiniteSet(J) /\ IsFiniteSet(SampledOf(J, s)) /\ IsFiniteSet(CleanOf(J, s))
      /\ IsFiniteSet(ZeroOf(J, s)) /\ IsFiniteSet(FloatOf(J, s))
      /\ CleanOf(J, s) \subseteq J /\ SampledOf(J, s) \subseteq J
      /\ ZeroOf(J, s) \subseteq J /\ FloatOf(J, s) \subseteq J
  BY PartsOf
<1>3. \A A, B : A \subseteq I /\ B \subseteq J => A \cap B = {}
  OBVIOUS
<1>4. \A A, B : A \subseteq I /\ B \subseteq J /\ IsFiniteSet(A) /\ IsFiniteSet(B) =>
                Cardinality(A \cup B) = Cardinality(A) + Cardinality(B)
  BY <1>3, SizesAdd
<1> DEFINE Adds(A, B) == Cardinality(A \cup B) = Cardinality(A) + Cardinality(B)
<1>5. /\ Adds(I, J) /\ Adds(SampledOf(I, s), SampledOf(J, s)) /\ Adds(CleanOf(I, s), CleanOf(J, s))
      /\ Adds(ZeroOf(I, s), ZeroOf(J, s)) /\ Adds(FloatOf(I, s), FloatOf(J, s))
  BY <1>1, <1>2, <1>4
<1>6. Joined(I, J, s)
  BY PartsJoin
<1> QED
  BY <1>5, <1>6, Zenon DEF Joined

\* Before the first block.
LEMMA DefaultIsExact ==
  ASSUME NEW s
  PROVE  Default \in ProfileType /\ Exact(Default, {}, s)
<1>1. Default \in ProfileType
  BY DEF Default, DefaultWord, ProfileType, WordType
<1>2. /\ SampledOf({}, s) = {} /\ CleanOf({}, s) = {} /\ ZeroOf({}, s) = {}
      /\ FloatOf({}, s) = {} /\ DistinctOf({}, s) = {}
  BY DEF SampledOf, CleanOf, ZeroOf, FloatOf, DistinctOf
<1>3. Cardinality({}) = 0 /\ DISTINCT_CAP \in Nat
  BY FS_EmptySet, ProfileAssumption
<1>4. KeepsValues({}, FALSE, {})
  BY <1>3 DEF KeepsValues, Smaller
<1> QED
  BY <1>1, <1>2, <1>3, <1>4 DEF Exact, PayloadsOf, FloatsOf, Default, DefaultWord

\* The profile of an interval of blocks does not change with what follows them.
LEMMA ExactStays ==
  ASSUME NEW c, NEW I, NEW s, NEW t, \A i \in I : s[i] = t[i], Exact(c, I, s)
  PROVE  Exact(c, I, t)
<1>1. SampledOf(I, s) = SampledOf(I, t) /\ SampledOf(I, s) \subseteq I
  BY DEF SampledOf
<1>2. CleanOf(I, s) = CleanOf(I, t) /\ CleanOf(I, s) \subseteq I
  BY <1>1 DEF CleanOf
<1>3. /\ ZeroOf(I, s) = ZeroOf(I, t) /\ FloatOf(I, s) = FloatOf(I, t)
      /\ DistinctOf(I, s) = DistinctOf(I, t)
  BY <1>2 DEF ZeroOf, FloatOf, DistinctOf
<1>4. PayloadsOf(c, I, t)
  BY <1>1 DEF Exact, PayloadsOf
<1>5. FloatsOf(c.word, I, t)
  BY <1>2 DEF Exact, FloatsOf
<1> QED
  BY <1>1, <1>2, <1>3, <1>4, <1>5 DEF Exact

\* The profiles of two sets of blocks that share none merge into that of both.
LEMMA MergeIsExact ==
  ASSUME NEW s \in Seq(ProfiledBlock), NEW I \in SUBSET (1 .. Len(s)), NEW J \in SUBSET (1 .. Len(s)),
         I \cap J = {}, NEW c \in ProfileType, NEW o \in ProfileType, Exact(c, I, s), Exact(o, J, s)
  PROVE  Merge(c, o) \in ProfileType /\ Exact(Merge(c, o), I \cup J, s)
<1> DEFINE K == I \cup J
           m == Merge(c, o)
           w == c.word
           v == o.word
<1>1. /\ w \in WordType /\ v \in WordType /\ c.blocks \in Nat /\ o.blocks \in Nat
      /\ c.sampled \in Nat /\ o.sampled \in Nat /\ c.clean \in Nat /\ o.clean \in Nat
      /\ c.payload_min \in Nat /\ o.payload_min \in Nat
      /\ c.payload_max \in Nat /\ o.payload_max \in Nat
  BY DEF ProfileType
<1>2. /\ w.seen \in Nat /\ v.seen \in Nat /\ w.zero \in Nat /\ v.zero \in Nat
      /\ w.float \in Nat /\ v.float \in Nat /\ w.umax \in Nat /\ v.umax \in Nat
      /\ w.fmin \in Int /\ v.fmin \in Int /\ w.fmax \in Int /\ v.fmax \in Int
      /\ w.values \in SUBSET Nat /\ v.values \in SUBSET Nat
      /\ w.overflow \in BOOLEAN /\ v.overflow \in BOOLEAN
  BY <1>1 DEF WordType
<1>3. /\ SampledOf(K, s) = SampledOf(I, s) \cup SampledOf(J, s)
      /\ CleanOf(K, s) = CleanOf(I, s) \cup CleanOf(J, s)
      /\ DistinctOf(K, s) = DistinctOf(I, s) \cup DistinctOf(J, s)
  <2>1. Joined(I, J, s)
    BY PartsJoin
  <2> QED
    BY <2>1, Zenon DEF Joined
<1>4. /\ m.blocks = c.blocks + o.blocks /\ m.sampled = c.sampled + o.sampled
      /\ m.clean = c.clean + o.clean
      /\ m.payload_min = (IF c.sampled = 0 THEN o.payload_min
                          ELSE IF o.sampled > 0 THEN Smaller(c.payload_min, o.payload_min)
                          ELSE c.payload_min)
      /\ m.payload_max = Larger(c.payload_max, o.payload_max)
      /\ m.word = IF v.seen = 0 THEN w ELSE MergeWord(w, v)
  BY DEF Merge
<1>5. m = [blocks |-> m.blocks, sampled |-> m.sampled, clean |-> m.clean,
           payload_min |-> m.payload_min, payload_max |-> m.payload_max, word |-> m.word]
  BY DEF Merge
<1>6. /\ IsFiniteSet(SampledOf(I, s)) /\ IsFiniteSet(SampledOf(J, s))
      /\ IsFiniteSet(CleanOf(I, s)) /\ IsFiniteSet(CleanOf(J, s))
      /\ \A i \in SampledOf(I, s) : s[i].word.payload \in Nat
      /\ \A i \in SampledOf(J, s) : s[i].word.payload \in Nat
      /\ \A i \in CleanOf(I, s) \cup CleanOf(J, s) : s[i].word.f \in SUBSET Int
      /\ IsFiniteSet(DistinctOf(I, s)) /\ DistinctOf(I, s) \in SUBSET Nat
      /\ IsFiniteSet(DistinctOf(J, s)) /\ DistinctOf(J, s) \in SUBSET Nat
  <2>1. SampledOf(I, s) \subseteq I /\ CleanOf(I, s) \subseteq I
    BY PartsOf
  <2>2. SampledOf(J, s) \subseteq J /\ CleanOf(J, s) \subseteq J
    BY PartsOf
  <2> QED
    BY <2>1, <2>2, PartsOf
<1>7. /\ c.sampled = Cardinality(SampledOf(I, s)) /\ o.sampled = Cardinality(SampledOf(J, s))
      /\ c.sampled = 0 <=> SampledOf(I, s) = {}
      /\ o.sampled = 0 <=> SampledOf(J, s) = {}
      /\ v.seen = Cardinality(CleanOf(J, s)) /\ (v.seen = 0 <=> CleanOf(J, s) = {})
  BY <1>6, FS_EmptySet DEF Exact
<1>8. m.payload_min \in Nat /\ m.payload_max \in Nat
  BY <1>1, <1>4 DEF Smaller, Larger
<1>9. PayloadsOf(m, K, s)
  <2> DEFINE S == SampledOf(I, s)
             T == SampledOf(J, s)
  <2>1. /\ S = {} => c.payload_max = 0
        /\ S # {} => /\ \E i \in S : s[i].word.payload = c.payload_min
                     /\ \E i \in S : s[i].word.payload = c.payload_max
        /\ \A i \in S : c.payload_min <= s[i].word.payload /\ s[i].word.payload <= c.payload_max
    BY DEF Exact, PayloadsOf
  <2>2. /\ T = {} => o.payload_max = 0
        /\ T # {} => /\ \E i \in T : s[i].word.payload = o.payload_min
                     /\ \E i \in T : s[i].word.payload = o.payload_max
        /\ \A i \in T : o.payload_min <= s[i].word.payload /\ s[i].word.payload <= o.payload_max
    BY DEF Exact, PayloadsOf
  <2>3. /\ \A i \in S : s[i].word.payload \in Nat
        /\ \A i \in T : s[i].word.payload \in Nat
        /\ c.sampled = 0 <=> S = {}
        /\ o.sampled = 0 <=> T = {}
        /\ SampledOf(K, s) = S \cup T
    BY <1>3, <1>6, <1>7
  <2> HIDE DEF S, T, K, m
  <2>4. CASE S = {}
    <3>1. m.payload_min = o.payload_min /\ m.payload_max = o.payload_max
      BY <2>1, <2>3, <2>4, <1>1, <1>4 DEF Larger
    <3> QED
      BY <3>1, <2>2, <2>3, <2>4 DEF PayloadsOf
  <2>5. CASE S # {} /\ T = {}
    <3>1. m.payload_min = c.payload_min /\ m.payload_max = c.payload_max
      BY <2>2, <2>3, <2>5, <1>1, <1>4 DEF Larger
    <3> QED
      BY <3>1, <2>1, <2>3, <2>5 DEF PayloadsOf
  <2>6. CASE S # {} /\ T # {}
    <3>1. /\ m.payload_min = Smaller(c.payload_min, o.payload_min)
          /\ m.payload_max = Larger(c.payload_max, o.payload_max)
      BY <2>3, <2>6, <1>1, <1>4
    <3>2. /\ m.payload_min \in Nat /\ m.payload_max \in Nat
          /\ m.payload_min <= c.payload_min /\ m.payload_min <= o.payload_min
          /\ m.payload_max >= c.payload_max /\ m.payload_max >= o.payload_max
          /\ m.payload_min = c.payload_min \/ m.payload_min = o.payload_min
          /\ m.payload_max = c.payload_max \/ m.payload_max = o.payload_max
      BY <3>1, <1>1 DEF Smaller, Larger
    <3>3. \E i \in S \cup T : s[i].word.payload = m.payload_min
      BY <2>1, <2>2, <2>6, <3>2
    <3>4. \E i \in S \cup T : s[i].word.payload = m.payload_max
      BY <2>1, <2>2, <2>6, <3>2
    <3>5. ASSUME NEW i \in S \cup T
          PROVE  m.payload_min <= s[i].word.payload /\ s[i].word.payload <= m.payload_max
      <4>1. CASE i \in S
        BY <4>1, <2>1, <2>3, <3>2, <1>1
      <4>2. CASE i \in T
        BY <4>2, <2>2, <2>3, <3>2, <1>1
      <4> QED
        BY <4>1, <4>2
    <3> QED
      BY <3>3, <3>4, <3>5, <2>3, <2>6 DEF PayloadsOf
  <2> QED
    BY <2>4, <2>5, <2>6
<1>10. /\ Cardinality(K) = Cardinality(I) + Cardinality(J)
       /\ Cardinality(SampledOf(K, s)) = Cardinality(SampledOf(I, s)) + Cardinality(SampledOf(J, s))
       /\ Cardinality(CleanOf(K, s)) = Cardinality(CleanOf(I, s)) + Cardinality(CleanOf(J, s))
       /\ Cardinality(ZeroOf(K, s)) = Cardinality(ZeroOf(I, s)) + Cardinality(ZeroOf(J, s))
       /\ Cardinality(FloatOf(K, s)) = Cardinality(FloatOf(I, s)) + Cardinality(FloatOf(J, s))
  BY PartsAdd
<1> DEFINE WordIs(x) ==
      /\ x \in WordType
      /\ x.seen = Cardinality(CleanOf(K, s)) /\ x.zero = Cardinality(ZeroOf(K, s))
      /\ x.float = Cardinality(FloatOf(K, s)) /\ FloatsOf(x, K, s)
      /\ KeepsValues(x.values, x.overflow, DistinctOf(K, s))
<1>11. WordIs(m.word)
  <2>1. CASE v.seen = 0
    <3>1. CleanOf(J, s) = {} /\ m.word = w
      BY <1>4, <1>7, <2>1
    <3>2. ZeroOf(J, s) = {} /\ FloatOf(J, s) = {} /\ DistinctOf(J, s) = {}
      BY <3>1 DEF ZeroOf, FloatOf, DistinctOf
    <3>3. CleanOf(K, s) = CleanOf(I, s) /\ DistinctOf(K, s) = DistinctOf(I, s)
      BY <1>3, <3>1, <3>2
    <3>4. ZeroOf(K, s) = ZeroOf(I, s) /\ FloatOf(K, s) = FloatOf(I, s)
      BY <3>3 DEF ZeroOf, FloatOf
    <3> HIDE DEF K, m
    <3> QED
      BY <3>1, <3>3, <3>4, <1>1 DEF Exact, FloatsOf
  <2>2. CASE v.seen # 0
    <3> DEFINE k == KeptValues(w, v.values)
               x == MergeWord(w, v)
    <3>1. m.word = x
      BY <1>4, <2>2
    <3>2. /\ x.seen = w.seen + v.seen /\ x.zero = w.zero + v.zero /\ x.float = w.float + v.float
          /\ x.values = k.values /\ x.overflow = (k.overflow \/ v.overflow)
          /\ x.umax = Larger(w.umax, v.umax)
          /\ x.fmin = (IF w.float + v.float = 0 THEN v.fmin ELSE Smaller(w.fmin, v.fmin))
          /\ x.fmax = Larger(w.fmax, v.fmax)
      BY DEF MergeWord
    <3>3. x = [seen |-> x.seen, zero |-> x.zero, float |-> x.float, values |-> x.values,
               overflow |-> x.overflow, umax |-> x.umax, fmin |-> x.fmin, fmax |-> x.fmax]
      BY DEF MergeWord
    <3>4. KeepsValues(k.values, k.overflow \/ v.overflow, DistinctOf(K, s))
      <4>1. /\ KeepsValues(w.values, w.overflow, DistinctOf(I, s))
            /\ KeepsValues(v.values, v.overflow, DistinctOf(J, s))
        BY DEF Exact
      <4>2. v.values \in SUBSET DistinctOf(J, s)
        BY <4>1 DEF KeepsValues
      <4>3. IF v.overflow THEN /\ Cardinality(DistinctOf(J, s)) > DISTINCT_CAP
                               /\ Cardinality(v.values) >= DISTINCT_CAP
                          ELSE v.values = DistinctOf(J, s)
        <5>1. Cardinality(DistinctOf(J, s)) \in Nat /\ DISTINCT_CAP \in Nat
          BY <1>6, FS_CardinalityType, ProfileAssumption
        <5>2. CASE v.overflow
          BY <5>1, <5>2, <4>1 DEF KeepsValues, Smaller
        <5>3. CASE ~ v.overflow
          <6>1. Cardinality(v.values) = Cardinality(DistinctOf(J, s))
            BY <5>1, <5>3, <4>1 DEF KeepsValues, Smaller
          <6> QED
            BY <6>1, <5>3, <4>2, <1>6, FS_Subset
        <5> QED
          BY <5>2, <5>3
      <4>4. KeepsValues(k.values, k.overflow \/ v.overflow, DistinctOf(I, s) \cup DistinctOf(J, s))
        <5> DEFINE D == DistinctOf(I, s)
                   E == DistinctOf(J, s)
                   more == v.values
                   lost == v.overflow
        <5>1. /\ D \in SUBSET Nat /\ IsFiniteSet(D) /\ E \in SUBSET Nat /\ IsFiniteSet(E)
              /\ KeepsValues(w.values, w.overflow, D) /\ more \in SUBSET E /\ lost \in BOOLEAN
              /\ IF lost THEN Cardinality(E) > DISTINCT_CAP /\ Cardinality(more) >= DISTINCT_CAP
                 ELSE more = E
          BY <4>1, <4>2, <4>3, <1>2, <1>6
        <5> HIDE DEF D, E, more, lost, w
        <5>2. LET l == KeptValues(w, more) IN KeepsValues(l.values, l.overflow \/ lost, D \cup E)
          BY <5>1, ValuesMerge
        <5> QED
          BY <5>2 DEF D, E, more, lost, w
      <4> QED
        BY <4>4, <1>3
    <3>5. x.values \in SUBSET Nat /\ x.overflow \in BOOLEAN
      <4>1. DistinctOf(K, s) \in SUBSET Nat
        BY <1>3, <1>6
      <4> QED
        BY <3>2, <3>4, <4>1 DEF KeepsValues
    <3>6. /\ x.fmin \in Int /\ x.fmax \in Int /\ x.umax \in Nat
          /\ x.fmax >= w.fmax /\ x.fmax >= v.fmax /\ x.fmin <= v.fmin
          /\ w.float # 0 => x.fmin <= w.fmin
      BY <1>2, <3>2 DEF Smaller, Larger
    <3>7. FloatsOf(x, K, s)
      <4> SUFFICES ASSUME NEW i \in CleanOf(K, s), NEW f \in s[i].word.f
                   PROVE  x.fmin <= f /\ f <= x.fmax
        BY DEF FloatsOf
      <4>1. f \in Int
        BY <1>3, <1>6
      <4>2. CASE i \in CleanOf(J, s)
        <5>1. v.fmin <= f /\ f <= v.fmax
          BY <4>2 DEF Exact, FloatsOf
        <5> QED
          BY <5>1, <4>1, <3>6, <1>2
      <4>3. CASE i \in CleanOf(I, s)
        <5>1. w.fmin <= f /\ f <= w.fmax
          BY <4>3 DEF Exact, FloatsOf
        <5>2. w.float # 0
          <6>1. i \in FloatOf(I, s) /\ IsFiniteSet(FloatOf(I, s))
            BY <4>3, PartsOf DEF FloatOf
          <6> QED
            BY <6>1, FS_EmptySet DEF Exact
        <5> QED
          BY <5>1, <5>2, <4>1, <3>6, <1>2
      <4> QED
        BY <1>3, <4>2, <4>3
    <3>8. /\ x.seen = Cardinality(CleanOf(K, s)) /\ x.zero = Cardinality(ZeroOf(K, s))
          /\ x.float = Cardinality(FloatOf(K, s))
          /\ x.seen \in Nat /\ x.zero \in Nat /\ x.float \in Nat
      BY <1>2, <1>10, <3>2 DEF Exact
    <3>9. KeepsValues(x.values, x.overflow, DistinctOf(K, s))
      BY <3>2, <3>4
    <3> HIDE DEF x, K, m
    <3>10. x \in WordType
      BY <3>3, <3>5, <3>6, <3>8 DEF WordType
    <3> QED
      BY <3>1, <3>7, <3>8, <3>9, <3>10
  <2> QED
    BY <2>1, <2>2
<1>12. /\ m.blocks \in Nat /\ m.sampled \in Nat /\ m.clean \in Nat
       /\ m.blocks = Cardinality(K) /\ m.sampled = Cardinality(SampledOf(K, s))
       /\ m.clean = Cardinality(CleanOf(K, s))
  BY <1>1, <1>4, <1>10 DEF Exact
<1> HIDE DEF m, K
<1>13. m \in ProfileType
  BY <1>5, <1>8, <1>11, <1>12 DEF ProfileType
<1>14. Exact(m, K, s)
  BY <1>9, <1>11, <1>12 DEF Exact
<1> QED
  BY <1>13, <1>14 DEF m, K

\* Recording the word of one more clean block.
LEMMA RecordIsExact ==
  ASSUME NEW s \in Seq(ProfiledBlock), NEW I \in SUBSET (1 .. Len(s)), NEW n \in 1 .. Len(s), n \notin I,
         NEW c \in ProfileType, Exact(c, I, s),
         s[n].sampled, s[n].clean
  PROVE  LET x == Record(c.word, s[n].word) IN
         /\ x \in WordType
         /\ x.seen = Cardinality(CleanOf(I \cup {n}, s)) /\ x.zero = Cardinality(ZeroOf(I \cup {n}, s))
         /\ x.float = Cardinality(FloatOf(I \cup {n}, s)) /\ FloatsOf(x, I \cup {n}, s)
         /\ KeepsValues(x.values, x.overflow, DistinctOf(I \cup {n}, s))
<1> DEFINE K == I \cup {n}
           w == c.word
           v == s[n].word
           x == Record(w, v)
           k == KeptValues(w, {v.u})
<1>1. {n} \in SUBSET (1 .. Len(s)) /\ I \cap {n} = {}
  OBVIOUS
<1>2. /\ w.seen \in Nat /\ w.zero \in Nat /\ w.float \in Nat /\ w.umax \in Nat
      /\ w.fmin \in Int /\ w.fmax \in Int
      /\ w.values \in SUBSET Nat /\ w.overflow \in BOOLEAN
  BY DEF ProfileType, WordType
<1>3. /\ v.u \in Nat /\ v.f \in SUBSET Int /\ \A f, g \in v.f : f = g
  <2>1. n \in {n}
    OBVIOUS
  <2> QED
    BY <1>1, <2>1, PartsOf
<1>4. /\ SampledOf({n}, s) = {n} /\ CleanOf({n}, s) = {n}
      /\ ZeroOf({n}, s) = (IF v.u = 0 THEN {n} ELSE {})
      /\ FloatOf({n}, s) = (IF v.f # {} THEN {n} ELSE {})
      /\ DistinctOf({n}, s) = {v.u}
  <2>1. SampledOf({n}, s) = {n}
    BY DEF SampledOf
  <2>2. CleanOf({n}, s) = {n}
    BY <2>1 DEF CleanOf
  <2> QED
    BY <2>1, <2>2 DEF ZeroOf, FloatOf, DistinctOf
<1>5. Cardinality({}) = 0 /\ Cardinality({n}) = 1 /\ IsFiniteSet({v.u})
  BY FS_EmptySet, FS_Singleton
<1>6. Joined(I, {n}, s)
  BY PartsJoin
<1>7. /\ CleanOf(K, s) = CleanOf(I, s) \cup {n}
      /\ DistinctOf(K, s) = DistinctOf(I, s) \cup {v.u}
  BY <1>4, <1>6, Zenon DEF Joined
<1>8. /\ Cardinality(CleanOf(K, s)) = Cardinality(CleanOf(I, s)) + Cardinality(CleanOf({n}, s))
      /\ Cardinality(ZeroOf(K, s)) = Cardinality(ZeroOf(I, s)) + Cardinality(ZeroOf({n}, s))
      /\ Cardinality(FloatOf(K, s)) = Cardinality(FloatOf(I, s)) + Cardinality(FloatOf({n}, s))
  BY <1>1, PartsAdd
<1>9. /\ x.seen = w.seen + 1 /\ x.zero = (IF v.u = 0 THEN w.zero + 1 ELSE w.zero)
      /\ x.float = (IF v.f # {} THEN w.float + 1 ELSE w.float)
      /\ x.values = k.values /\ x.overflow = k.overflow /\ x.umax = Larger(w.umax, v.u)
      /\ x.fmin = (IF v.f = {} THEN w.fmin ELSE IF w.float = 0 THEN Min(v.f) ELSE Min(v.f \cup {w.fmin}))
      /\ x.fmax = (IF v.f = {} THEN w.fmax ELSE IF w.float = 0 THEN Max(v.f) ELSE Max(v.f \cup {w.fmax}))
  BY DEF Record
<1>10. x = [seen |-> x.seen, zero |-> x.zero, float |-> x.float, values |-> x.values,
            overflow |-> x.overflow, umax |-> x.umax, fmin |-> x.fmin, fmax |-> x.fmax]
  BY DEF Record
<1>11. /\ x.seen = Cardinality(CleanOf(K, s)) /\ x.zero = Cardinality(ZeroOf(K, s))
       /\ x.float = Cardinality(FloatOf(K, s))
       /\ x.seen \in Nat /\ x.zero \in Nat /\ x.float \in Nat
  <2> HIDE DEF x, w, v, K
  <2>1. /\ w.seen = Cardinality(CleanOf(I, s)) /\ w.zero = Cardinality(ZeroOf(I, s))
        /\ w.float = Cardinality(FloatOf(I, s))
    BY DEF Exact, w
  <2>2. /\ Cardinality(CleanOf({n}, s)) = 1
        /\ Cardinality(ZeroOf({n}, s)) = (IF v.u = 0 THEN 1 ELSE 0)
        /\ Cardinality(FloatOf({n}, s)) = (IF v.f # {} THEN 1 ELSE 0)
    BY <1>4, <1>5
  <2> QED
    BY <2>1, <2>2, <1>2, <1>8, <1>9
<1>12. KeepsValues(x.values, x.overflow, DistinctOf(K, s))
  <2> DEFINE D == DistinctOf(I, s)
             E == {v.u}
             no == FALSE
  <2>1. /\ D \in SUBSET Nat /\ IsFiniteSet(D) /\ E \in SUBSET Nat /\ IsFiniteSet(E)
        /\ KeepsValues(w.values, w.overflow, D) /\ E \in SUBSET E /\ no \in BOOLEAN
        /\ IF no THEN Cardinality(E) > DISTINCT_CAP /\ Cardinality(E) >= DISTINCT_CAP ELSE E = E
    BY <1>3, <1>5, PartsOf DEF Exact
  <2> HIDE DEF D, E, no, w
  <2>2. LET l == KeptValues(w, E) IN KeepsValues(l.values, l.overflow \/ no, D \cup E)
    BY <2>1, ValuesMerge
  <2>3. KeepsValues(k.values, k.overflow \/ FALSE, DistinctOf(I, s) \cup {v.u})
    BY <2>2 DEF D, E, no, w
  <2>4. k.overflow \in BOOLEAN
    BY <1>2 DEF KeptValues, w
  <2> QED
    BY <2>3, <2>4, <1>7, <1>9
<1>13. x.values \in SUBSET Nat /\ x.overflow \in BOOLEAN /\ x.umax \in Nat
  <2>1. DistinctOf(K, s) \in SUBSET Nat
    <3>1. K \in SUBSET (1 .. Len(s))
      OBVIOUS
    <3> QED
      BY <3>1, PartsOf
  <2>2. x.umax \in Nat
    BY <1>2, <1>3, <1>9 DEF Larger
  <2> QED
    BY <2>1, <2>2, <1>12 DEF KeepsValues
<1>14. /\ x.fmin \in Int /\ x.fmax \in Int
       /\ w.float # 0 => x.fmin <= w.fmin /\ x.fmax >= w.fmax
       /\ \A f \in v.f : x.fmin <= f /\ f <= x.fmax
  <2>1. CASE v.f = {}
    BY <2>1, <1>2, <1>9
  <2>2. CASE v.f # {}
    <3> PICK f : f \in v.f
      BY <2>2
    <3>1. f \in Int /\ v.f = {f} /\ v.f \cup {w.fmin} = {f, w.fmin} /\ v.f \cup {w.fmax} = {f, w.fmax}
      BY <1>3
    <3>2. {f} = {f, f} /\ Min({f, f}) = f /\ Max({f, f}) = f
      BY <3>1, OfTwo DEF Smaller, Larger
    <3>3. /\ Min({f, w.fmin}) \in Int /\ Min({f, w.fmin}) <= f /\ Min({f, w.fmin}) <= w.fmin
          /\ Max({f, w.fmax}) \in Int /\ Max({f, w.fmax}) >= f /\ Max({f, w.fmax}) >= w.fmax
      <4>1. \A y \in Int : /\ Min({f, y}) \in Int /\ Min({f, y}) <= f /\ Min({f, y}) <= y
                           /\ Max({f, y}) \in Int /\ Max({f, y}) >= f /\ Max({f, y}) >= y
        <5> SUFFICES ASSUME NEW y \in Int
                     PROVE  /\ Min({f, y}) \in Int /\ Min({f, y}) <= f /\ Min({f, y}) <= y
                            /\ Max({f, y}) \in Int /\ Max({f, y}) >= f /\ Max({f, y}) >= y
          OBVIOUS
        <5>1. f \in Int
          BY <3>1
        <5>2. /\ Smaller(f, y) \in Int /\ Smaller(f, y) <= f /\ Smaller(f, y) <= y
              /\ Larger(f, y) \in Int /\ Larger(f, y) >= f /\ Larger(f, y) >= y
              /\ Min({f, y}) = Smaller(f, y) /\ Max({f, y}) = Larger(f, y)
          BY <5>1, OfTwo
        <5> QED
          BY <5>2
      <4>2. w.fmin \in Int /\ w.fmax \in Int
        BY <1>2
      <4> HIDE DEF w
      <4> QED
        BY <4>1, <4>2
    <3>4. /\ x.fmin = (IF w.float = 0 THEN f ELSE Min({f, w.fmin}))
          /\ x.fmax = (IF w.float = 0 THEN f ELSE Max({f, w.fmax}))
      BY <3>1, <3>2, <2>2, <1>9
    <3> HIDE DEF x, w, v
    <3>5. \A g \in v.f : g = f
      BY <3>1
    <3> QED
      BY <3>1, <3>3, <3>4, <3>5
  <2> QED
    BY <2>1, <2>2
<1>15. FloatsOf(x, K, s)
  <2> SUFFICES ASSUME NEW i \in CleanOf(K, s), NEW f \in s[i].word.f
               PROVE  x.fmin <= f /\ f <= x.fmax
    BY DEF FloatsOf
  <2>1. CASE i = n
    BY <2>1, <1>14
  <2>2. CASE i \in CleanOf(I, s)
    <3>1. w.fmin <= f /\ f <= w.fmax
      BY <2>2 DEF Exact, FloatsOf
    <3>2. i \in FloatOf(I, s) /\ IsFiniteSet(FloatOf(I, s))
      BY <2>2, PartsOf DEF FloatOf
    <3>3. w.float # 0
      BY <3>2, FS_EmptySet DEF Exact
    <3>4. f \in Int
      <4>1. i \in I
        BY <2>2 DEF CleanOf, SampledOf
      <4> QED
        BY <4>1, PartsOf
    <3> HIDE DEF x, w
    <3> QED
      BY <3>1, <3>3, <3>4, <1>2, <1>14
  <2> QED
    BY <1>7, <2>1, <2>2
<1> HIDE DEF x, K
<1>16. x \in WordType
  BY <1>10, <1>11, <1>13, <1>14 DEF WordType
<1> QED
  BY <1>11, <1>12, <1>15, <1>16 DEF x, K

\* One more block of the chunk.
LEMMA ProfiledIsExact ==
  ASSUME NEW s \in Seq(ProfiledBlock), NEW I \in SUBSET (1 .. Len(s)), NEW n \in 1 .. Len(s), n \notin I,
         NEW c \in ProfileType, Exact(c, I, s),
         s[n].sampled <=> c.sampled < PerChunk
  PROVE  LET d == Profiled(c, s[n].word, s[n].clean) IN
         d \in ProfileType /\ Exact(d, I \cup {n}, s)
<1> DEFINE K == I \cup {n}
           v == s[n].word
           clean == s[n].clean
           d == Profiled(c, v, clean)
<1>1. {n} \in SUBSET (1 .. Len(s)) /\ I \cap {n} = {}
  OBVIOUS
<1>2. /\ c.word \in WordType /\ c.blocks \in Nat /\ c.sampled \in Nat /\ c.clean \in Nat
      /\ c.payload_min \in Nat /\ c.payload_max \in Nat
  BY DEF ProfileType
<1>3. v.payload \in Nat /\ clean \in BOOLEAN /\ s[n].sampled \in BOOLEAN
  <2>1. n \in {n}
    OBVIOUS
  <2>2. s[n] \in ProfiledBlock /\ v.payload \in Nat
    BY <1>1, <2>1, PartsOf
  <2> QED
    BY <2>2 DEF ProfiledBlock
<1>4. Joined(I, {n}, s)
  BY PartsJoin
<1>5. /\ Cardinality(K) = Cardinality(I) + Cardinality({n})
      /\ Cardinality(SampledOf(K, s)) = Cardinality(SampledOf(I, s)) + Cardinality(SampledOf({n}, s))
      /\ Cardinality(CleanOf(K, s)) = Cardinality(CleanOf(I, s)) + Cardinality(CleanOf({n}, s))
  BY <1>1, PartsAdd
<1>6. Cardinality({}) = 0 /\ Cardinality({n}) = 1
  BY FS_EmptySet, FS_Singleton
<1>7. SampledOf({n}, s) = IF s[n].sampled THEN {n} ELSE {}
  BY DEF SampledOf
<1>8. CleanOf({n}, s) = IF s[n].sampled /\ clean THEN {n} ELSE {}
  BY <1>7 DEF CleanOf
<1>9. IsFiniteSet(SampledOf(I, s)) /\ (c.sampled = 0 <=> SampledOf(I, s) = {})
  BY PartsOf, FS_EmptySet DEF Exact
<1>10. CleanOf({n}, s) = {} => /\ CleanOf(K, s) = CleanOf(I, s) /\ ZeroOf(K, s) = ZeroOf(I, s)
                               /\ FloatOf(K, s) = FloatOf(I, s) /\ DistinctOf(K, s) = DistinctOf(I, s)
  <2> SUFFICES ASSUME CleanOf({n}, s) = {}
               PROVE  /\ CleanOf(K, s) = CleanOf(I, s) /\ ZeroOf(K, s) = ZeroOf(I, s)
                      /\ FloatOf(K, s) = FloatOf(I, s) /\ DistinctOf(K, s) = DistinctOf(I, s)
    OBVIOUS
  <2>1. CleanOf(K, s) = CleanOf(I, s)
    BY <1>4 DEF Joined
  <2> QED
    BY <2>1 DEF ZeroOf, FloatOf, DistinctOf
<1>11. CASE ~ s[n].sampled
  <2>1. SampledOf({n}, s) = {} /\ CleanOf({n}, s) = {}
    BY <1>7, <1>8, <1>11
  <2>2. SampledOf(K, s) = SampledOf(I, s)
    BY <1>4, <2>1 DEF Joined
  <2>3. d = [c EXCEPT !.blocks = @ + 1]
    BY <1>2, <1>11, ProfileAssumption DEF Profiled
  <2>4. /\ d \in ProfileType /\ d.blocks = c.blocks + 1 /\ d.sampled = c.sampled /\ d.clean = c.clean
        /\ d.payload_min = c.payload_min /\ d.payload_max = c.payload_max /\ d.word = c.word
    BY <2>3, <1>2 DEF ProfileType
  <2> HIDE DEF d, K
  <2>5. d.blocks = Cardinality(K)
    BY <2>4, <1>5, <1>6 DEF Exact
  <2>6. PayloadsOf(d, K, s) /\ FloatsOf(d.word, K, s)
    BY <2>1, <2>2, <2>4, <1>10 DEF Exact, PayloadsOf, FloatsOf
  <2> QED
    BY <2>1, <2>2, <2>4, <2>5, <2>6, <1>10 DEF Exact, d, K
<1>12. CASE s[n].sampled
  <2>1. SampledOf({n}, s) = {n} /\ SampledOf(K, s) = SampledOf(I, s) \cup {n}
    <3>1. SampledOf({n}, s) = {n}
      BY <1>7, <1>12
    <3> QED
      BY <3>1, <1>4 DEF Joined
  <2>2. /\ d.blocks = c.blocks + 1 /\ d.sampled = c.sampled + 1
        /\ d.clean = (IF clean THEN c.clean + 1 ELSE c.clean)
        /\ d.payload_min = (IF c.sampled = 0 THEN v.payload ELSE Smaller(c.payload_min, v.payload))
        /\ d.payload_max = Larger(c.payload_max, v.payload)
        /\ d.word = (IF clean THEN Record(c.word, v) ELSE c.word)
        /\ d = [blocks |-> d.blocks, sampled |-> d.sampled, clean |-> d.clean,
                payload_min |-> d.payload_min, payload_max |-> d.payload_max, word |-> d.word]
    BY <1>2, <1>12, ProfileAssumption DEF Profiled
  <2> DEFINE x == d.word
  <2>3. /\ x \in WordType
        /\ x.seen = Cardinality(CleanOf(K, s)) /\ x.zero = Cardinality(ZeroOf(K, s))
        /\ x.float = Cardinality(FloatOf(K, s)) /\ FloatsOf(x, K, s)
        /\ KeepsValues(x.values, x.overflow, DistinctOf(K, s))
    <3>1. CASE clean
      <4>1. x = Record(c.word, s[n].word)
        BY <3>1, <2>2
      <4> HIDE DEF d
      <4> QED
        BY <3>1, <4>1, <1>12, RecordIsExact
    <3>2. CASE ~ clean
      <4>1. x = c.word /\ CleanOf({n}, s) = {}
        BY <3>2, <2>2, <1>8
      <4> HIDE DEF d, K
      <4> QED
        BY <4>1, <1>2, <1>10 DEF Exact, FloatsOf
    <3> QED
      BY <3>1, <3>2, <1>3
  <2>4. /\ d.blocks \in Nat /\ d.sampled \in Nat /\ d.clean \in Nat
        /\ d.payload_min \in Nat /\ d.payload_max \in Nat
    BY <1>2, <1>3, <2>2 DEF Smaller, Larger
  <2>5. PayloadsOf(d, K, s)
    <3> DEFINE S == SampledOf(I, s)
    <3>1. /\ S = {} => c.payload_max = 0
          /\ S # {} => /\ \E i \in S : s[i].word.payload = c.payload_min
                       /\ \E i \in S : s[i].word.payload = c.payload_max
          /\ \A i \in S : c.payload_min <= s[i].word.payload /\ s[i].word.payload <= c.payload_max
      BY DEF Exact, PayloadsOf
    <3>2. \A i \in S : s[i].word.payload \in Nat
      BY PartsOf DEF SampledOf
    <3> HIDE DEF S, d, K
    <3>3. SampledOf(K, s) = S \cup {n} /\ (c.sampled = 0 <=> S = {})
      BY <2>1, <1>9 DEF S
    <3>4. CASE S = {}
      <4>1. d.payload_min = v.payload /\ d.payload_max = v.payload
        BY <3>1, <3>3, <3>4, <2>2, <1>3 DEF Larger
      <4>2. SampledOf(K, s) = {n}
        BY <3>3, <3>4
      <4> QED
        BY <4>1, <4>2, <1>3 DEF PayloadsOf
    <3>5. CASE S # {}
      <4>1. /\ d.payload_min <= c.payload_min /\ d.payload_min <= v.payload
            /\ d.payload_max >= c.payload_max /\ d.payload_max >= v.payload
            /\ d.payload_min = c.payload_min \/ d.payload_min = v.payload
            /\ d.payload_max = c.payload_max \/ d.payload_max = v.payload
        BY <3>3, <3>5, <2>2, <1>2, <1>3 DEF Smaller, Larger
      <4>2. \E i \in S \cup {n} : s[i].word.payload = d.payload_min
        BY <3>1, <3>5, <4>1
      <4>3. \E i \in S \cup {n} : s[i].word.payload = d.payload_max
        BY <3>1, <3>5, <4>1
      <4>4. ASSUME NEW i \in S \cup {n}
            PROVE  d.payload_min <= s[i].word.payload /\ s[i].word.payload <= d.payload_max
        <5>1. CASE i \in S
          BY <5>1, <3>1, <3>2, <4>1, <2>4, <1>2
        <5>2. CASE i = n
          BY <5>2, <4>1
        <5> QED
          BY <5>1, <5>2
      <4> QED
        BY <4>2, <4>3, <4>4, <3>3, <3>5 DEF PayloadsOf
    <3> QED
      BY <3>4, <3>5
  <2>6. /\ d.blocks = Cardinality(K) /\ d.sampled = Cardinality(SampledOf(K, s))
        /\ d.clean = Cardinality(CleanOf(K, s))
    <3>1. /\ Cardinality(SampledOf({n}, s)) = 1
          /\ Cardinality(CleanOf({n}, s)) = (IF clean THEN 1 ELSE 0)
      BY <2>1, <1>6, <1>8, <1>12
    <3>2. /\ c.blocks = Cardinality(I) /\ c.sampled = Cardinality(SampledOf(I, s))
          /\ c.clean = Cardinality(CleanOf(I, s))
      BY DEF Exact
    <3> HIDE DEF d, K
    <3> QED
      BY <3>1, <3>2, <2>2, <1>2, <1>5, <1>6
  <2> HIDE DEF d, K
  <2>7. d \in ProfileType
    BY <2>2, <2>3, <2>4 DEF ProfileType
  <2>8. Exact(d, K, s)
    BY <2>3, <2>5, <2>6 DEF Exact
  <2> QED
    BY <2>7, <2>8 DEF d, K
<1> QED
  BY <1>3, <1>11, <1>12

\* f merges the first n profiles.
MergesUp(f, profiles, n) ==
  f = [i \in 0 .. n |-> IF i = 0 THEN Default ELSE Merge(f[i - 1], profiles[i])]

LEMMA MergesUpExists ==
  ASSUME NEW profiles, NEW n \in Nat
  PROVE  \E f : MergesUp(f, profiles, n)
<1> DEFINE S == {m \in Nat : \E f : MergesUp(f, profiles, m)}
<1>1. 0 \in S
  <2> DEFINE g == [i \in 0 .. 0 |-> Default]
  <2>1. MergesUp(g, profiles, 0)
    BY DEF MergesUp
  <2> QED
    BY <2>1
<1>2. ASSUME NEW m \in S PROVE m + 1 \in S
  <2>1. PICK f : MergesUp(f, profiles, m)
    OBVIOUS
  <2> DEFINE g == [i \in 0 .. m + 1 |-> IF i \in 0 .. m THEN f[i] ELSE Merge(f[m], profiles[m + 1])]
  <2>2. \A i \in 0 .. m : f[i] = IF i = 0 THEN Default ELSE Merge(f[i - 1], profiles[i])
    BY <2>1 DEF MergesUp
  <2>3. ASSUME NEW i \in 0 .. m + 1
        PROVE  g[i] = IF i = 0 THEN Default ELSE Merge(g[i - 1], profiles[i])
    <3>1. CASE i \in 0 .. m
      <4>1. g[i] = f[i] /\ (i # 0 => g[i - 1] = f[i - 1])
        BY <3>1
      <4> QED
        BY <4>1, <3>1, <2>2
    <3>2. CASE i = m + 1
      <4>1. g[i] = Merge(f[m], profiles[m + 1]) /\ g[i - 1] = f[m] /\ i # 0
        BY <3>2
      <4> QED
        BY <4>1, <3>2
    <3> QED
      BY <3>1, <3>2
  <2>4. MergesUp(g, profiles, m + 1)
    BY <2>3 DEF MergesUp
  <2> QED
    BY <2>4
<1>3. S = Nat
  <2> HIDE DEF S
  <2>1. S \in SUBSET Nat
    BY DEF S
  <2> QED
    BY <1>1, <1>2, <2>1, CountsUp
<1> QED
  BY <1>3

\* The profiles of a replay's chunks are each of the blocks between two bounds.
Bounds(b, profiles, s, m) ==
  /\ b \in [0 .. Len(profiles) -> Nat] /\ b[0] = m
  /\ \A k \in 0 .. Len(profiles) : m <= b[k] /\ b[k] <= Len(s)
  /\ \A k \in 1 .. Len(profiles) :
       b[k - 1] <= b[k] /\ Exact(profiles[k], b[k - 1] + 1 .. b[k], s)

LEMMA AllMergedIsExact ==
  ASSUME NEW s \in Seq(ProfiledBlock), NEW profiles \in Seq(ProfileType), NEW m \in Nat, NEW b,
         Bounds(b, profiles, s, m)
  PROVE  /\ AllMerged(profiles) \in ProfileType
         /\ Exact(AllMerged(profiles), m + 1 .. b[Len(profiles)], s)
<1> DEFINE n == Len(profiles)
           upTo == CHOOSE f : f = [i \in 0 .. n |-> IF i = 0 THEN Default ELSE Merge(f[i - 1], profiles[i])]
<1>1. n \in Nat
  OBVIOUS
<1>2. upTo = CHOOSE f : MergesUp(f, profiles, n)
  BY DEF MergesUp
<1>3. MergesUp(upTo, profiles, n)
  BY <1>1, <1>2, MergesUpExists, Zenon
<1>4. AllMerged(profiles) = upTo[n]
  BY DEF AllMerged
<1> HIDE DEF upTo, n
<1>5. /\ upTo[0] = Default
      /\ \A k \in 1 .. n : upTo[k] = Merge(upTo[k - 1], profiles[k])
  BY <1>1, <1>3 DEF MergesUp
<1>6. /\ b \in [0 .. n -> Nat] /\ b[0] = m
      /\ \A k \in 0 .. n : m <= b[k] /\ b[k] <= Len(s)
      /\ \A k \in 1 .. n : b[k - 1] <= b[k] /\ Exact(profiles[k], b[k - 1] + 1 .. b[k], s)
  BY DEF Bounds, n
<1> DEFINE Good == {k \in Nat : k <= n => upTo[k] \in ProfileType /\ Exact(upTo[k], m + 1 .. b[k], s)}
<1>7. 0 \in Good
  <2>1. m + 1 .. b[0] = {}
    BY <1>6
  <2> QED
    BY <1>5, <2>1, DefaultIsExact
<1>8. ASSUME NEW k \in Good PROVE k + 1 \in Good
  <2> SUFFICES ASSUME k + 1 <= n
               PROVE  upTo[k + 1] \in ProfileType /\ Exact(upTo[k + 1], m + 1 .. b[k + 1], s)
    OBVIOUS
  <2>1. k \in Nat /\ k \in 0 .. n /\ k + 1 \in 1 .. n /\ (k + 1) - 1 = k /\ k + 1 \in 0 .. n
    BY <1>1
  <2>2. upTo[k] \in ProfileType /\ Exact(upTo[k], m + 1 .. b[k], s)
    BY <1>1, <2>1
  <2> DEFINE I == m + 1 .. b[k]
             J == b[k] + 1 .. b[k + 1]
  <2>3. /\ b[k] \in Nat /\ b[k + 1] \in Nat /\ m <= b[k] /\ b[k] <= b[k + 1] /\ b[k + 1] <= Len(s)
        /\ Len(s) \in Nat /\ Exact(profiles[k + 1], J, s)
    BY <1>6, <2>1
  <2>4. /\ I \in SUBSET (1 .. Len(s)) /\ J \in SUBSET (1 .. Len(s)) /\ I \cap J = {}
        /\ I \cup J = m + 1 .. b[k + 1]
    BY <2>3
  <2>5. profiles[k + 1] \in ProfileType
    BY <2>1 DEF n
  <2>6. upTo[k + 1] = Merge(upTo[k], profiles[k + 1])
    BY <1>5, <2>1
  <2> HIDE DEF I, J
  <2>7. Merge(upTo[k], profiles[k + 1]) \in ProfileType
        /\ Exact(Merge(upTo[k], profiles[k + 1]), I \cup J, s)
    BY <2>2, <2>3, <2>4, <2>5, MergeIsExact DEF I
  <2> QED
    BY <2>4, <2>6, <2>7
<1>9. Good = Nat
  <2>1. Good \in SUBSET Nat
    OBVIOUS
  <2> HIDE DEF Good
  <2> QED
    BY <1>7, <1>8, <2>1, CountsUp
<1>10. n \in Good
  BY <1>1, <1>9
<1> QED
  BY <1>4, <1>10 DEF n

ProfileInv ==
  /\ framed \in Seq(ProfiledBlock) /\ outs \in Seq(ProfileType) /\ merged \in 0 .. Len(framed)
  /\ chunk \in ProfileType /\ pooled \in ProfileType
  /\ Exact(pooled, 1 .. merged, framed)
  /\ \E b : /\ Bounds(b, outs, framed, merged)
            /\ Exact(chunk, b[Len(outs)] + 1 .. Len(framed), framed)

LEMMA ProfileStarts == ProfileInit => ProfileInv
<1> SUFFICES ASSUME ProfileInit PROVE ProfileInv
  OBVIOUS
<1> DEFINE b == [k \in 0 .. 0 |-> 0]
<1>1. /\ framed = <<>> /\ outs = <<>> /\ merged = 0 /\ chunk = Default /\ pooled = Default
      /\ Len(<<>>) = 0 /\ 1 .. 0 = {} /\ b[0] = 0 /\ 0 + 1 .. 0 = {}
  BY DEF ProfileInit
<1>2. Default \in ProfileType /\ Exact(Default, {}, framed)
  BY DefaultIsExact
<1>3. Bounds(b, outs, framed, merged)
  BY <1>1 DEF Bounds
<1>4. Exact(chunk, b[Len(outs)] + 1 .. Len(framed), framed)
  BY <1>1, <1>2
<1> QED
  BY <1>1, <1>2, <1>3, <1>4 DEF ProfileInv

LEMMA ProfileBlockKeeps ==
  ASSUME ProfileInv, NEW v \in Values, NEW clean \in BOOLEAN, ProfileBlock(v, clean)
  PROVE  ProfileInv'
<1> DEFINE x == [word |-> v, clean |-> clean, sampled |-> chunk.sampled < PerChunk]
           n == Len(framed) + 1
<1>1. /\ framed \in Seq(ProfiledBlock) /\ outs \in Seq(ProfileType) /\ merged \in 0 .. Len(framed)
      /\ chunk \in ProfileType /\ pooled \in ProfileType
      /\ Exact(pooled, 1 .. merged, framed)
      /\ framed' = Append(framed, x) /\ chunk' = Profiled(chunk, v, clean)
      /\ outs' = outs /\ pooled' = pooled /\ merged' = merged
  BY DEF ProfileInv, ProfileBlock
<1>2. PICK b : /\ Bounds(b, outs, framed, merged)
               /\ Exact(chunk, b[Len(outs)] + 1 .. Len(framed), framed)
  BY DEF ProfileInv
<1>3. x \in ProfiledBlock
  BY DEF ProfiledBlock
<1>4. /\ framed' \in Seq(ProfiledBlock) /\ Len(framed') = n /\ framed'[n] = x /\ n \in Nat /\ Len(framed) \in Nat
      /\ \A i \in 1 .. Len(framed) : framed[i] = framed'[i]
  <2> HIDE DEF x
  <2> QED
    BY <1>1, <1>3
<1>5. framed'[n].word = v /\ framed'[n].clean = clean
      /\ (framed'[n].sampled <=> chunk.sampled < PerChunk)
  <2>1. x.word = v /\ x.clean = clean /\ (x.sampled <=> chunk.sampled < PerChunk)
    BY Zenon
  <2> HIDE DEF x
  <2> QED
    BY <2>1, <1>4
<1> HIDE DEF x, n
<1>6. Exact(pooled, 1 .. merged, framed')
  <2>1. \A i \in 1 .. merged : framed[i] = framed'[i]
    BY <1>1, <1>4
  <2> QED
    BY <1>1, <2>1, ExactStays
<1> DEFINE a == b[Len(outs)]
<1>7. a \in Nat /\ a <= Len(framed)
  BY <1>1, <1>2 DEF Bounds
<1>8. Bounds(b, outs, framed', merged)
  <2>1. ASSUME NEW k \in 1 .. Len(outs) PROVE Exact(outs[k], b[k - 1] + 1 .. b[k], framed')
    <3>1. /\ Exact(outs[k], b[k - 1] + 1 .. b[k], framed) /\ b[k - 1] \in Nat /\ b[k] \in Nat
          /\ b[k] <= Len(framed)
      <4>1. k - 1 \in 0 .. Len(outs) /\ k \in 0 .. Len(outs)
        BY <1>1
      <4> QED
        BY <1>2, <4>1 DEF Bounds
    <3>2. \A i \in b[k - 1] + 1 .. b[k] : framed[i] = framed'[i]
      BY <1>4, <3>1
    <3> QED
      BY <3>1, <3>2, ExactStays
  <2>2. \A k \in 0 .. Len(outs) : b[k] <= Len(framed')
    <3>1. \A k \in 0 .. Len(outs) : b[k] \in Nat /\ b[k] <= Len(framed)
      BY <1>2 DEF Bounds
    <3> QED
      BY <1>4, <3>1 DEF n
  <2> QED
    BY <1>2, <2>1, <2>2 DEF Bounds
<1>9. Exact(chunk, a + 1 .. Len(framed), framed')
  <2>1. \A i \in a + 1 .. Len(framed) : framed[i] = framed'[i]
    BY <1>4, <1>7
  <2> QED
    BY <1>2, <2>1, ExactStays
<1>10. /\ a + 1 .. Len(framed) \in SUBSET (1 .. Len(framed')) /\ n \in 1 .. Len(framed')
       /\ n \notin a + 1 .. Len(framed)
       /\ (a + 1 .. Len(framed)) \cup {n} = a + 1 .. Len(framed')
  BY <1>4, <1>7 DEF n
<1>11. /\ Profiled(chunk, v, clean) \in ProfileType
       /\ Exact(Profiled(chunk, v, clean), a + 1 .. Len(framed'), framed')
  <2> DEFINE I == a + 1 .. Len(framed)
             s == framed'
  <2>1. /\ s \in Seq(ProfiledBlock) /\ I \in SUBSET (1 .. Len(s)) /\ n \in 1 .. Len(s) /\ n \notin I
        /\ chunk \in ProfileType /\ Exact(chunk, I, s)
        /\ (s[n].sampled <=> chunk.sampled < PerChunk)
    BY <1>1, <1>4, <1>5, <1>9, <1>10
  <2> HIDE DEF I, s
  <2>2. /\ Profiled(chunk, s[n].word, s[n].clean) \in ProfileType
        /\ Exact(Profiled(chunk, s[n].word, s[n].clean), I \cup {n}, s)
    BY <2>1, ProfiledIsExact
  <2> QED
    BY <2>2, <1>5, <1>10 DEF I, s
<1>12. merged' \in 0 .. Len(framed')
  BY <1>1, <1>4 DEF n
<1> QED
  BY <1>1, <1>4, <1>6, <1>8, <1>11, <1>12 DEF ProfileInv

LEMMA EndChunkKeeps == ASSUME ProfileInv, EndChunk PROVE ProfileInv'
<1>1. /\ framed \in Seq(ProfiledBlock) /\ outs \in Seq(ProfileType) /\ merged \in 0 .. Len(framed)
      /\ chunk \in ProfileType /\ pooled \in ProfileType
      /\ Exact(pooled, 1 .. merged, framed)
      /\ framed' = framed /\ chunk' = Default /\ outs' = Append(outs, chunk)
      /\ pooled' = pooled /\ merged' = merged
  BY DEF ProfileInv, EndChunk
<1>2. PICK b : /\ Bounds(b, outs, framed, merged)
               /\ Exact(chunk, b[Len(outs)] + 1 .. Len(framed), framed)
  BY DEF ProfileInv
<1> DEFINE n == Len(outs)
           d == [k \in 0 .. n + 1 |-> IF k \in 0 .. n THEN b[k] ELSE Len(framed)]
<1>3. /\ n \in Nat /\ Len(outs') = n + 1 /\ outs' \in Seq(ProfileType) /\ outs'[n + 1] = chunk
      /\ \A k \in 1 .. n : outs'[k] = outs[k]
      /\ Len(framed) \in Nat
  BY <1>1
<1>4. /\ b \in [0 .. n -> Nat] /\ b[0] = merged
      /\ \A k \in 0 .. n : merged <= b[k] /\ b[k] <= Len(framed)
      /\ \A k \in 1 .. n : b[k - 1] <= b[k] /\ Exact(outs[k], b[k - 1] + 1 .. b[k], framed)
      /\ Exact(chunk, b[n] + 1 .. Len(framed), framed)
  BY <1>2 DEF Bounds
<1> HIDE DEF n
<1>5. /\ d \in [0 .. n + 1 -> Nat] /\ d[n + 1] = Len(framed)
      /\ \A k \in 0 .. n : d[k] = b[k]
  BY <1>3, <1>4
<1> HIDE DEF d
<1>6. ASSUME NEW k \in 0 .. n + 1 PROVE merged <= d[k] /\ d[k] <= Len(framed)
  <2>1. CASE k \in 0 .. n
    BY <2>1, <1>4, <1>5
  <2>2. CASE k = n + 1
    BY <2>2, <1>1, <1>5, <1>3
  <2> QED
    BY <2>1, <2>2, <1>3
<1>7. ASSUME NEW k \in 1 .. n + 1
      PROVE  d[k - 1] <= d[k] /\ Exact(outs'[k], d[k - 1] + 1 .. d[k], framed)
  <2>1. CASE k \in 1 .. n
    <3>1. k \in 0 .. n /\ k - 1 \in 0 .. n
      BY <1>3, <2>1
    <3> QED
      BY <3>1, <2>1, <1>3, <1>4, <1>5
  <2>2. CASE k = n + 1
    <3>1. k - 1 = n /\ n \in 0 .. n
      BY <1>3, <2>2
    <3> QED
      BY <3>1, <2>2, <1>3, <1>4, <1>5
  <2> QED
    BY <2>1, <2>2, <1>3
<1>8. d[0] = merged
  BY <1>3, <1>4, <1>5
<1>9. Bounds(d, outs', framed, merged)
  BY <1>3, <1>5, <1>6, <1>7, <1>8 DEF Bounds
<1>10. Exact(Default, d[Len(outs')] + 1 .. Len(framed), framed)
  <2>1. d[Len(outs')] + 1 .. Len(framed) = {}
    BY <1>3, <1>5
  <2> QED
    BY <2>1, DefaultIsExact
<1> QED
  BY <1>1, <1>3, <1>9, <1>10, DefaultIsExact DEF ProfileInv

LEMMA EndReplayKeeps == ASSUME ProfileInv, EndReplay PROVE ProfileInv'
<1>1. /\ framed \in Seq(ProfiledBlock) /\ outs \in Seq(ProfileType) /\ merged \in 0 .. Len(framed)
      /\ chunk \in ProfileType /\ pooled \in ProfileType
      /\ Exact(pooled, 1 .. merged, framed)
      /\ framed' = framed /\ chunk = Default /\ chunk' = chunk /\ outs' = <<>>
      /\ pooled' = Merge(pooled, AllMerged(outs)) /\ merged' = Len(framed)
  BY DEF ProfileInv, EndReplay
<1>2. PICK b : /\ Bounds(b, outs, framed, merged)
               /\ Exact(chunk, b[Len(outs)] + 1 .. Len(framed), framed)
  BY DEF ProfileInv
<1> DEFINE a == b[Len(outs)]
           n == Len(framed)
           o == AllMerged(outs)
<1>3. a \in Nat /\ n \in Nat /\ merged \in Nat /\ merged <= a /\ a <= n
  BY <1>1, <1>2 DEF Bounds
<1>4. a = n
  <2>1. Cardinality(a + 1 .. n) = 0
    BY <1>1, <1>2 DEF Exact, Default
  <2>2. Cardinality(a + 1 .. n) = IF a + 1 > n THEN 0 ELSE n - (a + 1) + 1
    <3>1. a + 1 \in Int /\ n \in Int
      BY <1>3
    <3> HIDE DEF a, n
    <3> QED
      BY <3>1, FS_Interval
  <2> HIDE DEF a, n
  <2> QED
    BY <1>3, <2>1, <2>2
<1>5. o \in ProfileType /\ Exact(o, merged + 1 .. n, framed)
  <2>1. o \in ProfileType /\ Exact(o, merged + 1 .. a, framed)
    BY <1>1, <1>2, <1>3, AllMergedIsExact
  <2> QED
    BY <2>1, <1>4
<1> HIDE DEF a, n, o
<1>6. /\ 1 .. merged \in SUBSET (1 .. n) /\ merged + 1 .. n \in SUBSET (1 .. n)
      /\ (1 .. merged) \cap (merged + 1 .. n) = {}
      /\ (1 .. merged) \cup (merged + 1 .. n) = 1 .. n
  BY <1>3, <1>4
<1>7. Merge(pooled, o) \in ProfileType /\ Exact(Merge(pooled, o), 1 .. n, framed)
  <2> DEFINE I == 1 .. merged
             J == merged + 1 .. n
  <2>1. /\ I \in SUBSET (1 .. Len(framed)) /\ J \in SUBSET (1 .. Len(framed)) /\ I \cap J = {}
        /\ Exact(pooled, I, framed) /\ Exact(o, J, framed)
    BY <1>1, <1>5, <1>6 DEF n
  <2> HIDE DEF I, J
  <2>2. Merge(pooled, o) \in ProfileType /\ Exact(Merge(pooled, o), I \cup J, framed)
    BY <1>1, <1>5, <2>1, MergeIsExact
  <2> QED
    BY <2>2, <1>6 DEF I, J
<1> DEFINE d == [k \in 0 .. 0 |-> n]
<1>8. /\ Len(outs') = 0 /\ outs' \in Seq(ProfileType) /\ d[0] = n /\ n + 1 .. n = {} /\ n \in 0 .. n
      /\ d \in [0 .. 0 -> Nat]
  BY <1>1, <1>3
<1> HIDE DEF d
<1>9. Bounds(d, outs', framed, n)
  BY <1>3, <1>8 DEF Bounds, n
<1>10. Exact(chunk, d[Len(outs')] + 1 .. n, framed)
  BY <1>1, <1>8, DefaultIsExact
<1> QED
  BY <1>1, <1>7, <1>8, <1>9, <1>10 DEF ProfileInv, n, o

LEMMA ProfileStep == ProfileInv /\ [ProfileNext]_profilePart => ProfileInv'
<1> SUFFICES ASSUME ProfileInv, [ProfileNext]_profilePart PROVE ProfileInv'
  OBVIOUS
<1>1. CASE UNCHANGED <<framed, chunk, outs, pooled, merged>>
  BY <1>1 DEF ProfileInv
<1>2. CASE ProfileNext
  <2>1. ProfileFail \/ ProfileDone => UNCHANGED <<framed, chunk, outs, pooled, merged>>
    BY DEF ProfileFail, ProfileDone
  <2> QED
    BY <1>1, <1>2, <2>1, ProfileBlockKeeps, EndChunkKeeps, EndReplayKeeps DEF ProfileNext
<1>3. CASE UNCHANGED profilePart
  BY <1>1, <1>3 DEF profilePart
<1> QED
  BY <1>2, <1>3

LEMMA ProfileIsExact == ProfileInv => CountsAreExact
<1> SUFFICES ASSUME ProfileInv PROVE CountsAreExact
  OBVIOUS
<1> DEFINE I == 1 .. merged
<1>1. /\ framed \in Seq(ProfiledBlock) /\ merged \in Nat /\ I \in SUBSET (1 .. Len(framed))
      /\ pooled \in ProfileType /\ Exact(pooled, I, framed)
  BY DEF ProfileInv
<1>2. /\ Sampled = SampledOf(I, framed) /\ CleanBlocks = CleanOf(I, framed)
      /\ {i \in CleanBlocks : framed[i].word.u = 0} = ZeroOf(I, framed)
      /\ {i \in CleanBlocks : framed[i].word.f # {}} = FloatOf(I, framed)
      /\ Distinct = DistinctOf(I, framed)
  BY DEF Sampled, CleanBlocks, Distinct, SampledOf, CleanOf, ZeroOf, FloatOf, DistinctOf
<1>3. Cardinality(I) = merged
  <2>1. Cardinality(I) = IF 1 > merged THEN 0 ELSE merged - 1 + 1
    BY <1>1, FS_Interval
  <2> HIDE DEF I
  <2> QED
    BY <1>1, <2>1
<1> HIDE DEF I
<1>4. DistinctAreCounted
  BY <1>1, <1>2 DEF Exact, KeepsValues, DistinctAreCounted
<1>5. \A f \in Floats : pooled.word.fmin <= f /\ f <= pooled.word.fmax
  BY <1>1, <1>2 DEF Exact, FloatsOf, Floats
<1>6. ASSUME Sampled # {}
      PROVE  /\ pooled.payload_min = Min({framed[i].word.payload : i \in Sampled})
             /\ pooled.payload_max = Max({framed[i].word.payload : i \in Sampled})
  <2> DEFINE P == {framed[i].word.payload : i \in Sampled}
             l == pooled.payload_min
             g == pooled.payload_max
  <2>1. /\ l \in P /\ g \in P /\ \A p \in P : l <= p /\ p <= g
    BY <1>1, <1>2, <1>6 DEF Exact, PayloadsOf
  <2>2. P \in SUBSET Nat
    <3>1. \A i \in Sampled : i \in I
      BY <1>2 DEF SampledOf
    <3>2. \A i \in I : framed[i].word.payload \in Nat
      BY <1>1, PartsOf
    <3> QED
      BY <3>1, <3>2
  <2> HIDE DEF P, l, g
  <2>3. \A x \in P : (\A y \in P : x <= y) => x = l
    BY <2>1, <2>2
  <2>4. \A x \in P : (\A y \in P : x >= y) => x = g
    BY <2>1, <2>2
  <2>5. \A y \in P : g >= y
    BY <2>1, <2>2
  <2>6. Min(P) = l
    BY <2>1, <2>3 DEF Min
  <2>7. Max(P) = g
    BY <2>1, <2>4, <2>5 DEF Max
  <2> QED
    BY <2>6, <2>7 DEF P, l, g
<1> QED
  BY <1>1, <1>2, <1>3, <1>4, <1>5, <1>6 DEF Exact, CountsAreExact

\* However many blocks there are, whatever they hold, and however they fall into
\* chunks and replays, the pooled profile is that of one pass over all that was
\* sampled: every count, the payload's range, the distinct values up to the cap and
\* the mark that there were more, and a range that no float is outside of.
THEOREM ProfilesAreExact == ProfileSpec => []CountsAreExact
<1> QED
  BY ProfileStarts, ProfileStep, ProfileIsExact, PTL DEF ProfileSpec

-----------------------------------------------------------------------------
(* Sums                                                                    *)


\* f sums up w over each subset of S that is one of Q.
WithOne(f, w, s) == IF s = {} THEN 0 ELSE w[CHOOSE x \in s : TRUE] + f[s \ {CHOOSE x \in s : TRUE}]
AddsUp(f, w, Q) == f = [s \in Q |-> WithOne(f, w, s)]

\* What is chosen from a set that is not empty leaves a smaller one.
LEMMA OneLess ==
  ASSUME NEW s, IsFiniteSet(s), NEW x \in s
  PROVE  /\ IsFiniteSet(s \ {x}) /\ s \ {x} \subseteq s
         /\ Cardinality(s) \in Nat \ {0} /\ Cardinality(s \ {x}) = Cardinality(s) - 1
<1>1. /\ Cardinality(s) \in Nat /\ IsFiniteSet(s \ {x})
      /\ Cardinality(s \ {x}) = IF x \in s THEN Cardinality(s) - 1 ELSE Cardinality(s)
  BY FS_CardinalityType, FS_RemoveElement
<1>2. Cardinality(s) # 0
  BY FS_EmptySet
<1> QED
  BY <1>1, <1>2

LEMMA ChosenIsIn == ASSUME NEW s, s # {} PROVE (CHOOSE x \in s : TRUE) \in s
  OBVIOUS

\* Every finite set has its sums.
LEMMA SumsExist ==
  ASSUME NEW w, NEW S, IsFiniteSet(S)
  PROVE  \E f : AddsUp(f, w, SUBSET S)
<1> DEFINE Q(k) == {s \in SUBSET S : Cardinality(s) <= k}
           Good == {k \in Nat : \E f : AddsUp(f, w, Q(k))}
<1>f. \A s \in SUBSET S : IsFiniteSet(s) /\ Cardinality(s) \in Nat
  BY FS_Subset, FS_CardinalityType
<1>1. 0 \in Good
  <2> DEFINE f == [s \in Q(0) |-> 0]
  <2>1. \A s \in Q(0) : s = {}
    <3> TAKE s \in Q(0)
    <3>1. IsFiniteSet(s) /\ Cardinality(s) = 0
      BY <1>f
    <3> QED
      BY <3>1, FS_EmptySet
  <2>2. AddsUp(f, w, Q(0))
    BY <2>1, Zenon DEF AddsUp, WithOne
  <2> QED
    BY <2>2
<1>2. ASSUME NEW k \in Good PROVE k + 1 \in Good
  <2>1. PICK f : AddsUp(f, w, Q(k))
    OBVIOUS
  <2> DEFINE g == [s \in Q(k + 1) |-> WithOne(f, w, s)]
  <2>2. \A s \in Q(k) : s \in Q(k + 1)
    BY <1>f
  <2>3. \A s \in Q(k) : g[s] = f[s]
    <3> TAKE s \in Q(k)
    <3>1. g[s] = WithOne(f, w, s)
      BY <2>2
    <3>2. f[s] = WithOne(f, w, s)
      BY <2>1, Zenon DEF AddsUp
    <3> HIDE DEF Q, g
    <3> QED
      BY <3>1, <3>2, Zenon
  <2>4. \A s \in Q(k + 1) : s # {} => s \ {CHOOSE x \in s : TRUE} \in Q(k)
    <3> SUFFICES ASSUME NEW s \in Q(k + 1), s # {} PROVE s \ {CHOOSE x \in s : TRUE} \in Q(k)
      OBVIOUS
    <3> DEFINE x == CHOOSE x \in s : TRUE
    <3>1. x \in s
      BY ChosenIsIn
    <3> HIDE DEF x
    <3>2. s \in SUBSET S /\ IsFiniteSet(s) /\ Cardinality(s) <= k + 1
      BY <1>f
    <3>3. Cardinality(s) \in Nat \ {0} /\ Cardinality(s \ {x}) = Cardinality(s) - 1 /\ s \ {x} \subseteq s
      BY <3>1, <3>2, OneLess
    <3>4. s \ {x} \in Q(k)
      BY <3>2, <3>3
    <3> QED
      BY <3>4 DEF x
  <2>5. AddsUp(g, w, Q(k + 1))
    <3>1. g = [s \in Q(k + 1) |-> WithOne(g, w, s)]
      <4> DEFINE h == [s \in Q(k + 1) |-> WithOne(g, w, s)]
      <4>1. ASSUME NEW s \in Q(k + 1) PROVE g[s] = h[s]
        <5>1. g[s] = WithOne(f, w, s)
          OBVIOUS
        <5>2. h[s] = WithOne(g, w, s)
          OBVIOUS
        <5>3. WithOne(f, w, s) = WithOne(g, w, s)
          <6>1. s # {} => g[s \ {CHOOSE x \in s : TRUE}] = f[s \ {CHOOSE x \in s : TRUE}]
            <7> HIDE DEF Q, g, h
            <7> QED
              BY <2>3, <2>4
          <6> QED
            BY <6>1, Zenon DEF WithOne
        <5> HIDE DEF Q, g, h
        <5> QED
          BY <5>1, <5>2, <5>3, Zenon
      <4>2. /\ DOMAIN g = Q(k + 1) /\ g = [s \in DOMAIN g |-> g[s]]
            /\ DOMAIN h = Q(k + 1) /\ h = [s \in DOMAIN h |-> h[s]]
        <5> HIDE DEF Q
        <5> QED
          BY Zenon
      <4>3. g = h
        <5> HIDE DEF Q, g, h
        <5> QED
          BY <4>1, <4>2, Zenon
      <4> HIDE DEF Q
      <4> QED
        BY <4>3, Zenon
    <3> HIDE DEF Q, g
    <3> QED
      BY <3>1, Zenon DEF AddsUp
  <2> HIDE DEF g, Q
  <2> QED
    BY <2>5
<1>3. Good = Nat
  <2> HIDE DEF Q
  <2>1. Good \in SUBSET Nat
    OBVIOUS
  <2> HIDE DEF Good
  <2> QED
    BY <1>1, <1>2, <2>1, CountsUp
<1>4. Cardinality(S) \in Good
  BY <1>3, FS_CardinalityType
<1>5. Q(Cardinality(S)) = SUBSET S
  BY FS_Subset
<1> HIDE DEF Q
<1> QED
  BY <1>4, <1>5

Agree(f, g, S, T) == \A s \in SUBSET (S \cap T) : f[s] = g[s]

\* Sums that are made apart agree on what they share.
LEMMA SumsAgree ==
  ASSUME NEW w, NEW S, IsFiniteSet(S), NEW f, AddsUp(f, w, SUBSET S),
         NEW T, IsFiniteSet(T), NEW g, AddsUp(g, w, SUBSET T)
  PROVE  Agree(f, g, S, T)
<1> SUFFICES \A s \in SUBSET (S \cap T) : f[s] = g[s]
  BY Zenon DEF Agree
<1> DEFINE Good == {k \in Nat : \A s \in SUBSET (S \cap T) : Cardinality(s) = k => f[s] = g[s]}
<1>f. \A s \in SUBSET (S \cap T) : IsFiniteSet(s) /\ Cardinality(s) \in Nat /\ s \in SUBSET S /\ s \in SUBSET T
  BY FS_Subset, FS_CardinalityType
<1>r. \A s \in SUBSET (S \cap T) :
        /\ f[s] = IF s = {} THEN 0 ELSE w[CHOOSE x \in s : TRUE] + f[s \ {CHOOSE x \in s : TRUE}]
        /\ g[s] = IF s = {} THEN 0 ELSE w[CHOOSE x \in s : TRUE] + g[s \ {CHOOSE x \in s : TRUE}]
  BY <1>f, Zenon DEF AddsUp, WithOne
<1>1. 0 \in Good
  <2> SUFFICES ASSUME NEW s \in SUBSET (S \cap T), Cardinality(s) = 0 PROVE f[s] = g[s]
    OBVIOUS
  <2>1. s = {}
    BY <1>f, FS_EmptySet
  <2> QED
    BY <1>r, <2>1
<1>2. ASSUME NEW k \in Good PROVE k + 1 \in Good
  <2> SUFFICES ASSUME NEW s \in SUBSET (S \cap T), Cardinality(s) = k + 1 PROVE f[s] = g[s]
    OBVIOUS
  <2>1. s # {}
    BY <1>f, FS_EmptySet
  <2> DEFINE x == CHOOSE x \in s : TRUE
  <2>2. x \in s
    BY <2>1, ChosenIsIn
  <2>3. f[s] = w[x] + f[s \ {x}] /\ g[s] = w[x] + g[s \ {x}]
    BY <1>r, <2>1, Zenon
  <2> HIDE DEF x
  <2>4. Cardinality(s \ {x}) = Cardinality(s) - 1 /\ s \ {x} \in SUBSET (S \cap T)
    BY <1>f, <2>2, OneLess
  <2>5. f[s \ {x}] = g[s \ {x}]
    BY <2>4
  <2> QED
    BY <2>3, <2>5
<1>3. Good = Nat
  <2> HIDE DEF Good
  <2> QED
    BY <1>1, <1>2, CountsUp DEF Good
<1> QED
  BY <1>3, <1>f

LEMMA SumIsAddsUp ==
  ASSUME NEW w, NEW S, IsFiniteSet(S)
  PROVE  \E f : AddsUp(f, w, SUBSET S) /\ SumFunctionOnSet(w, S) = f[S]
<1> DEFINE iter == CHOOSE f : f = [s \in SUBSET S |-> IF s = {} THEN 0
                      ELSE w[CHOOSE x \in s : TRUE] + f[s \ {CHOOSE x \in s : TRUE}]]
<1>1. SumFunctionOnSet(w, S) = iter[S]
  BY DEF SumFunctionOnSet, FoldFunctionOnSet, MapThenFoldSet
<1>2. \E f : f = [s \in SUBSET S |-> IF s = {} THEN 0
                      ELSE w[CHOOSE x \in s : TRUE] + f[s \ {CHOOSE x \in s : TRUE}]]
  <2>1. PICK f : AddsUp(f, w, SUBSET S)
    BY SumsExist
  <2>2. f = [s \in SUBSET S |-> IF s = {} THEN 0
               ELSE w[CHOOSE x \in s : TRUE] + f[s \ {CHOOSE x \in s : TRUE}]]
    BY <2>1, Zenon DEF AddsUp, WithOne
  <2> QED
    BY <2>2, Zenon
<1>3. AddsUp(iter, w, SUBSET S)
  BY <1>2, Zenon DEF AddsUp, WithOne
<1> HIDE DEF iter
<1> QED
  BY <1>1, <1>3

\* A sum is a number, and any of the parts may be taken first.
LEMMA SumWith ==
  ASSUME NEW D, NEW w \in [D -> Nat], NEW S \in SUBSET D, IsFiniteSet(S)
  PROVE  /\ SumFunctionOnSet(w, {}) = 0 /\ SumFunctionOnSet(w, S) \in Nat
         /\ \A y \in S : SumFunctionOnSet(w, S) = w[y] + SumFunctionOnSet(w, S \ {y})
<1>1. PICK f : AddsUp(f, w, SUBSET S) /\ SumFunctionOnSet(w, S) = f[S]
  BY SumIsAddsUp
<1>r. \A s \in SUBSET S : f[s] = IF s = {} THEN 0 ELSE w[CHOOSE x \in s : TRUE] + f[s \ {CHOOSE x \in s : TRUE}]
  BY <1>1, Zenon DEF AddsUp, WithOne
<1>f. \A s \in SUBSET S : IsFiniteSet(s) /\ Cardinality(s) \in Nat
  BY FS_Subset, FS_CardinalityType
<1>2. \A T \in SUBSET S : SumFunctionOnSet(w, T) = f[T]
  <2> TAKE T \in SUBSET S
  <2>1. PICK g : AddsUp(g, w, SUBSET T) /\ SumFunctionOnSet(w, T) = g[T]
    BY <1>f, SumIsAddsUp
  <2>2. IsFiniteSet(T) /\ AddsUp(f, w, SUBSET S) /\ AddsUp(g, w, SUBSET T) /\ T \in SUBSET (S \cap T)
    BY <1>1, <1>f, <2>1
  <2>3. Agree(f, g, S, T)
    BY <2>2, SumsAgree
  <2> QED
    BY <2>1, <2>2, <2>3, Zenon DEF Agree
<1>n. \A s \in SUBSET S : f[s] \in Nat
  <2> DEFINE Fine == {k \in Nat : \A s \in SUBSET S : Cardinality(s) = k => f[s] \in Nat}
  <2>1. 0 \in Fine
    <3> SUFFICES ASSUME NEW s \in SUBSET S, Cardinality(s) = 0 PROVE f[s] \in Nat
      OBVIOUS
    <3>1. s = {}
      BY <1>f, FS_EmptySet
    <3>2. f[s] = 0
      BY <1>r, <3>1, Zenon
    <3> QED
      BY <3>2
  <2>2. ASSUME NEW k \in Fine PROVE k + 1 \in Fine
    <3> SUFFICES ASSUME NEW s \in SUBSET S, Cardinality(s) = k + 1 PROVE f[s] \in Nat
      OBVIOUS
    <3>1. s # {}
      BY <1>f, FS_EmptySet
    <3> DEFINE x == CHOOSE x \in s : TRUE
    <3>2. x \in s
      BY <3>1, ChosenIsIn
    <3>3. f[s] = w[x] + f[s \ {x}]
      BY <1>r, <3>1, Zenon
    <3> HIDE DEF x
    <3>4. Cardinality(s \ {x}) = k /\ s \ {x} \in SUBSET S
      BY <1>f, <3>2, OneLess
    <3>5. w[x] \in Nat /\ f[s \ {x}] \in Nat
      BY <3>2, <3>4
    <3> QED
      BY <3>3, <3>5
  <2>3. Fine = Nat
    <3> HIDE DEF Fine
    <3> QED
      BY <2>1, <2>2, CountsUp DEF Fine
  <2> QED
    BY <2>3, <1>f
<1> DEFINE Good == {k \in Nat : \A s \in SUBSET S : Cardinality(s) = k =>
                      \A y \in s : f[s] = w[y] + f[s \ {y}]}
<1>3. 0 \in Good
  <2> SUFFICES ASSUME NEW s \in SUBSET S, Cardinality(s) = 0
               PROVE  \A y \in s : f[s] = w[y] + f[s \ {y}]
    OBVIOUS
  <2>1. s = {}
    BY <1>f, FS_EmptySet
  <2> QED
    BY <1>r, <2>1
<1>4. ASSUME NEW k \in Good PROVE k + 1 \in Good
  <2> SUFFICES ASSUME NEW s \in SUBSET S, Cardinality(s) = k + 1
               PROVE  \A y \in s : f[s] = w[y] + f[s \ {y}]
    OBVIOUS
  <2>1. s # {}
    BY <1>f, FS_EmptySet
  <2> DEFINE x == CHOOSE x \in s : TRUE
  <2>2. x \in s
    BY <2>1, ChosenIsIn
  <2>3. f[s] = w[x] + f[s \ {x}]
    BY <1>r, <2>1, Zenon
  <2> HIDE DEF x
  <2>4. \A y \in s : Cardinality(s \ {y}) = k /\ s \ {y} \in SUBSET S
    BY <1>f, OneLess
  <2>6. ASSUME NEW y \in s, y # x PROVE f[s] = w[y] + f[s \ {y}]
    <3>1. f[s \ {x}] = w[y] + f[(s \ {x}) \ {y}] /\ f[s \ {y}] = w[x] + f[(s \ {y}) \ {x}]
      BY <2>2, <2>4, <2>6
    <3>2. (s \ {x}) \ {y} = (s \ {y}) \ {x}
      OBVIOUS
    <3>3. w[y] \in Nat /\ w[x] \in Nat /\ f[(s \ {y}) \ {x}] \in Nat
      BY <1>n, <2>2
    <3>4. f[(s \ {x}) \ {y}] = f[(s \ {y}) \ {x}]
      BY <3>2, Zenon
    <3>5. f[s] = w[x] + (w[y] + f[(s \ {y}) \ {x}]) /\ f[s \ {y}] = w[x] + f[(s \ {y}) \ {x}]
      BY <2>3, <3>1, <3>4, Zenon
    <3> QED
      BY <3>3, <3>5
  <2> QED
    BY <2>3, <2>6
<1>5. Good = Nat
  <2> HIDE DEF Good
  <2> QED
    BY <1>3, <1>4, CountsUp DEF Good
<1>6. f[S] \in Nat /\ \A y \in S : f[S] = w[y] + f[S \ {y}]
  BY <1>n, <1>5, <1>f
<1>7. f[{}] = 0 /\ {} \in SUBSET S
  BY <1>r
<1> HIDE DEF Good
<1> QED
  BY <1>2, <1>6, <1>7

\* Equal parts make an equal sum.
LEMMA SumSame ==
  ASSUME NEW D, NEW w \in [D -> Nat], NEW E, NEW v \in [E -> Nat],
         NEW S \in SUBSET D, S \in SUBSET E, IsFiniteSet(S), \A x \in S : w[x] = v[x]
  PROVE  SumFunctionOnSet(w, S) = SumFunctionOnSet(v, S)
<1> DEFINE P(T) == SumFunctionOnSet(w, T) = SumFunctionOnSet(v, T)
           Good == {k \in Nat : \A T \in SUBSET S : Cardinality(T) = k => P(T)}
<1>f. \A T \in SUBSET S : IsFiniteSet(T) /\ Cardinality(T) \in Nat /\ T \in SUBSET D /\ T \in SUBSET E
  BY FS_Subset, FS_CardinalityType
<1>1. 0 \in Good
  <2>1. SumFunctionOnSet(w, {}) = 0 /\ SumFunctionOnSet(v, {}) = 0
    BY SumWith
  <2>2. \A T \in SUBSET S : Cardinality(T) = 0 => T = {}
    BY <1>f, FS_EmptySet
  <2> QED
    BY <2>1, <2>2
<1>2. ASSUME NEW k \in Good PROVE k + 1 \in Good
  <2> SUFFICES ASSUME NEW T \in SUBSET S, Cardinality(T) = k + 1 PROVE P(T)
    OBVIOUS
  <2>1. T # {}
    BY <1>f, FS_EmptySet
  <2>2. PICK x : x \in T
    BY <2>1
  <2>3. Cardinality(T \ {x}) = k /\ T \ {x} \in SUBSET S
    BY <1>f, <2>2, OneLess
  <2>4. P(T \ {x})
    BY <2>3
  <2>5. SumFunctionOnSet(w, T) = w[x] + SumFunctionOnSet(w, T \ {x})
    BY <1>f, <2>2, SumWith
  <2>6. SumFunctionOnSet(v, T) = v[x] + SumFunctionOnSet(v, T \ {x})
    BY <1>f, <2>2, SumWith
  <2> QED
    BY <2>2, <2>4, <2>5, <2>6
<1>3. Good = Nat
  <2> HIDE DEF Good
  <2> QED
    BY <1>1, <1>2, CountsUp DEF Good
<1> QED
  BY <1>3, <1>f

\* The sum of two sets that share nothing.
LEMMA SumJoin ==
  ASSUME NEW D, NEW w \in [D -> Nat], NEW A \in SUBSET D, NEW B \in SUBSET D,
         IsFiniteSet(A), IsFiniteSet(B), A \cap B = {}
  PROVE  SumFunctionOnSet(w, A \cup B) = SumFunctionOnSet(w, A) + SumFunctionOnSet(w, B)
<1> DEFINE P(T) == SumFunctionOnSet(w, T \cup B) = SumFunctionOnSet(w, T) + SumFunctionOnSet(w, B)
           Good == {k \in Nat : \A T \in SUBSET A : Cardinality(T) = k => P(T)}
<1>f. \A T \in SUBSET A : /\ IsFiniteSet(T) /\ Cardinality(T) \in Nat /\ T \in SUBSET D
                          /\ IsFiniteSet(T \cup B) /\ T \cup B \in SUBSET D
  BY FS_Subset, FS_CardinalityType, FS_Union
<1>n. SumFunctionOnSet(w, B) \in Nat
  BY SumWith
<1>1. 0 \in Good
  <2> SUFFICES ASSUME NEW T \in SUBSET A, Cardinality(T) = 0 PROVE P(T)
    OBVIOUS
  <2>1. T = {}
    BY <1>f, FS_EmptySet
  <2>2. T \cup B = B /\ SumFunctionOnSet(w, T) = 0
    BY <2>1, SumWith
  <2> QED
    BY <1>n, <2>2
<1>2. ASSUME NEW k \in Good PROVE k + 1 \in Good
  <2> SUFFICES ASSUME NEW T \in SUBSET A, Cardinality(T) = k + 1 PROVE P(T)
    OBVIOUS
  <2>1. T # {}
    BY <1>f, FS_EmptySet
  <2>2. PICK x : x \in T
    BY <2>1
  <2>t. IsFiniteSet(T) /\ T \in SUBSET D /\ IsFiniteSet(T \cup B) /\ T \cup B \in SUBSET D /\ x \in T \cup B
    BY <1>f, <2>2
  <2>3. Cardinality(T \ {x}) = k /\ T \ {x} \in SUBSET A
    <3>1. Cardinality(T \ {x}) = Cardinality(T) - 1
      BY <2>2, <2>t, OneLess
    <3>2. k \in Nat
      OBVIOUS
    <3> HIDE DEF Good
    <3> QED
      BY <3>1, <3>2
  <2>4. P(T \ {x})
    BY <2>3
  <2>5. SumFunctionOnSet(w, T) = w[x] + SumFunctionOnSet(w, T \ {x})
    BY <2>2, <2>t, SumWith
  <2>6. SumFunctionOnSet(w, T \cup B) = w[x] + SumFunctionOnSet(w, (T \cup B) \ {x})
    BY <2>t, SumWith
  <2>7. (T \cup B) \ {x} = (T \ {x}) \cup B
    BY <2>2
  <2>8. SumFunctionOnSet(w, (T \cup B) \ {x}) = SumFunctionOnSet(w, T \ {x}) + SumFunctionOnSet(w, B)
    BY <2>4, <2>7, Zenon
  <2>9. w[x] \in Nat /\ SumFunctionOnSet(w, T \ {x}) \in Nat
    BY <1>f, <2>2, <2>3, SumWith
  <2> QED
    BY <1>n, <2>5, <2>6, <2>8, <2>9
<1>3. Good = Nat
  <2> HIDE DEF Good
  <2> QED
    BY <1>1, <1>2, CountsUp DEF Good
<1> QED
  BY <1>3, <1>f

\* As many parts that are each greater make a greater sum.
LEMMA SumMore ==
  ASSUME NEW D, NEW w \in [D -> Nat], NEW A \in SUBSET D, NEW B \in SUBSET D,
         IsFiniteSet(A), IsFiniteSet(B), Cardinality(A) = Cardinality(B),
         \A a \in A, b \in B : w[a] > w[b]
  PROVE  SumFunctionOnSet(w, A) >= SumFunctionOnSet(w, B) + Cardinality(A)
<1> DEFINE P(S, T) == SumFunctionOnSet(w, S) >= SumFunctionOnSet(w, T) + Cardinality(S)
           Good == {k \in Nat : \A S \in SUBSET A, T \in SUBSET B :
                      Cardinality(S) = k /\ Cardinality(T) = k => P(S, T)}
<1>f. /\ \A S \in SUBSET A : IsFiniteSet(S) /\ Cardinality(S) \in Nat /\ S \in SUBSET D
      /\ \A S \in SUBSET B : IsFiniteSet(S) /\ Cardinality(S) \in Nat /\ S \in SUBSET D
  BY FS_Subset, FS_CardinalityType
<1>1. 0 \in Good
  <2> SUFFICES ASSUME NEW S \in SUBSET A, NEW T \in SUBSET B, Cardinality(S) = 0, Cardinality(T) = 0
               PROVE  P(S, T)
    OBVIOUS
  <2>1. S = {} /\ T = {}
    BY <1>f, FS_EmptySet
  <2>2. SumFunctionOnSet(w, S) = 0 /\ SumFunctionOnSet(w, T) = 0
    BY <2>1, SumWith
  <2> QED
    BY <2>2
<1>2. ASSUME NEW k \in Good PROVE k + 1 \in Good
  <2> SUFFICES ASSUME NEW S \in SUBSET A, NEW T \in SUBSET B, Cardinality(S) = k + 1, Cardinality(T) = k + 1
               PROVE  P(S, T)
    OBVIOUS
  <2>1. S # {} /\ T # {}
    BY <1>f, FS_EmptySet
  <2>2. PICK x, y : x \in S /\ y \in T
    BY <2>1
  <2>t. IsFiniteSet(S) /\ IsFiniteSet(T)
    BY <1>f
  <2>3. Cardinality(S \ {x}) = k /\ S \ {x} \in SUBSET A /\ Cardinality(T \ {y}) = k /\ T \ {y} \in SUBSET B
    <3>1. Cardinality(S \ {x}) = Cardinality(S) - 1 /\ Cardinality(T \ {y}) = Cardinality(T) - 1
      BY <2>2, <2>t, OneLess
    <3>2. k \in Nat
      OBVIOUS
    <3> HIDE DEF Good
    <3> QED
      BY <3>1, <3>2
  <2>4. P(S \ {x}, T \ {y})
    BY <2>3
  <2>5. SumFunctionOnSet(w, S) = w[x] + SumFunctionOnSet(w, S \ {x}) /\ SumFunctionOnSet(w, S \ {x}) \in Nat
    BY <1>f, <2>2, <2>3, SumWith
  <2>6. SumFunctionOnSet(w, T) = w[y] + SumFunctionOnSet(w, T \ {y}) /\ SumFunctionOnSet(w, T \ {y}) \in Nat
    BY <1>f, <2>2, <2>3, SumWith
  <2>7. w[x] \in Nat /\ w[y] \in Nat /\ w[x] >= w[y] + 1
    BY <2>2
  <2> QED
    BY <2>3, <2>4, <2>5, <2>6, <2>7
<1>3. Good = Nat
  <2> HIDE DEF Good
  <2> QED
    BY <1>1, <1>2, CountsUp DEF Good
<1> QED
  BY <1>3, <1>f

-----------------------------------------------------------------------------
(* Champions found                                                         *)

\* What is kept of the entities is what was heard of them: who they are, of which
\* classes, and no more than the times between which it was.
FramingInv ==
  /\ clock \in Nat /\ minutes \in Nat
  /\ IsFiniteSet(heard) /\ heard \subseteq Ids \X NetIds \X Nat
  /\ entities \in [{h[1] : h \in heard} -> [first : Nat, last : Nat, netids : SUBSET NetIds]]
  /\ \A e \in DOMAIN entities : entities[e].netids = ClassesOf(e)
  /\ \A h \in heard : /\ entities[h[1]].first <= h[3] /\ h[3] <= entities[h[1]].last
                      /\ h[3] <= clock

LEMMA FramingStarts == FramingInit => FramingInv
<1> SUFFICES ASSUME FramingInit PROVE FramingInv
  OBVIOUS
<1>1. {h[1] : h \in heard} = {} /\ DOMAIN entities = {} /\ IsFiniteSet(heard)
  BY FS_EmptySet DEF FramingInit
<1>2. entities \in [{} -> [first : Nat, last : Nat, netids : SUBSET NetIds]]
  BY DEF FramingInit
<1> QED
  BY <1>1, <1>2 DEF FramingInit, FramingInv

LEMMA AddressedKeeps ==
  ASSUME FramingInv, NEW n \in NetIds, NEW e \in Ids, NEW t \in BlockTimes, t >= clock,
         clock' = t, minutes' = Max({minutes, t \div 2 + 1}),
         entities' = Framed(n, e, t), heard' = heard \cup {<<e, n, t>>}
  PROVE  FramingInv'
<1> DEFINE D == {h[1] : h \in heard}
           R == [first : Nat, last : Nat, netids : SUBSET NetIds]
<1>1. t \in Nat /\ clock \in Nat /\ minutes \in Nat
  BY FramingAssumption DEF FramingInv
<1>2. minutes' \in Nat
  <2>1. t \div 2 + 1 \in Nat
    BY <1>1
  <2>2. minutes \in Int /\ t \div 2 + 1 \in Int
    BY <1>1
  <2>3. Max({minutes, t \div 2 + 1}) = minutes \/ Max({minutes, t \div 2 + 1}) = t \div 2 + 1
    BY <2>2, OfTwo, Zenon
  <2>5. minutes' = minutes \/ minutes' = t \div 2 + 1
    BY <2>3
  <2> QED
    BY <1>1, <2>1, <2>5
<1>3. IsFiniteSet(heard') /\ heard' \subseteq Ids \X NetIds \X Nat
  <2>1. IsFiniteSet(heard')
    BY FS_AddElement DEF FramingInv
  <2>2. <<e, n, t>> \in Ids \X NetIds \X Nat
    BY <1>1
  <2> QED
    BY <2>1, <2>2 DEF FramingInv
<1> DEFINE x == <<e, n, t>>
<1>h. /\ heard' = heard \cup {x} /\ x[1] = e /\ x[2] = n /\ x[3] = t
  OBVIOUS
<1> HIDE DEF x
<1>4. {h[1] : h \in heard'} = D \cup {e} /\ DOMAIN entities = D
  <2>1. {h[1] : h \in heard \cup {x}} = D \cup {x[1]}
    OBVIOUS
  <2> QED
    BY <1>h, <2>1 DEF FramingInv
<1>5. DOMAIN entities' = D \cup {e}
  BY <1>4 DEF Framed
<1>6. \A i \in D \cup {e} : /\ i # e => entities'[i] = entities[i]
                            /\ i = e /\ e \notin D => entities'[i] = [first |-> t, last |-> t, netids |-> {n}]
                            /\ i = e /\ e \in D => entities'[i] = [entities[e] EXCEPT !.last = t, !.netids = @ \cup {n}]
  BY <1>4 DEF Framed
<1>7. \A i \in D : entities[i] \in R
  BY DEF FramingInv
<1>8. \A i \in D \cup {e} :
        /\ entities'[i] \in R
        /\ i # e => entities'[i] = entities[i]
        /\ i = e => /\ entities'[i].last = t
                    /\ entities'[i].first = IF e \in D THEN entities[e].first ELSE t
                    /\ entities'[i].netids = IF e \in D THEN entities[e].netids \cup {n} ELSE {n}
  <2> TAKE i \in D \cup {e}
  <2>1. CASE i # e
    BY <1>6, <1>7, <2>1
  <2>2. CASE i = e /\ e \notin D
    BY <1>1, <1>6, <2>2
  <2>3. CASE i = e /\ e \in D
    <3>1. entities[e] \in R /\ entities'[i] = [entities[e] EXCEPT !.last = t, !.netids = @ \cup {n}]
      BY <1>6, <1>7, <2>3
    <3> QED
      BY <1>1, <2>3, <3>1
  <2> QED
    BY <2>1, <2>2, <2>3
<1>9. entities' \in [{h[1] : h \in heard'} -> R]
  <2>1. entities' = [i \in D \cup {e} |-> entities'[i]]
    BY <1>4 DEF Framed
  <2> HIDE DEF D, R
  <2> QED
    BY <1>4, <1>8, <2>1
<1>10. \A i \in DOMAIN entities' : entities'[i].netids = ClassesOf(i)'
  <2> TAKE i \in DOMAIN entities'
  <2>1. ClassesOf(i)' = {h[2] : h \in {b \in heard' : b[1] = i}}
    BY DEF ClassesOf
  <2>2. CASE i # e
    <3>1. {b \in heard' : b[1] = i} = {b \in heard : b[1] = i} /\ i \in D
      BY <1>5, <2>2
    <3>2. entities[i].netids = ClassesOf(i)
      BY <3>1 DEF FramingInv
    <3> QED
      BY <1>5, <1>8, <2>1, <2>2, <3>1, <3>2 DEF ClassesOf
  <2>3. CASE i = e
    <3>1. ClassesOf(i)' = ClassesOf(e) \cup {n}
      <4>1. {b \in heard' : b[1] = i} = {b \in heard : b[1] = e} \cup {x}
        BY <1>h, <2>3
      <4> DEFINE H == {b \in heard : b[1] = e}
      <4>2. {h[2] : h \in H \cup {x}} = {h[2] : h \in H} \cup {x[2]}
        OBVIOUS
      <4> QED
        BY <1>h, <2>1, <4>1, <4>2, Zenon DEF ClassesOf
    <3>2. e \notin D => ClassesOf(e) = {}
      BY DEF ClassesOf
    <3>3. e \in D => entities[e].netids = ClassesOf(e)
      BY DEF FramingInv
    <3> HIDE DEF D
    <3> QED
      BY <1>5, <1>8, <2>3, <3>1, <3>2, <3>3
  <2> QED
    BY <2>2, <2>3
<1>11. \A h \in heard' : /\ entities'[h[1]].first <= h[3] /\ h[3] <= entities'[h[1]].last
                         /\ h[3] <= clock'
  <2> TAKE h \in heard'
  <2>1. CASE h = x
    <3>1. h[1] = e /\ h[3] = t
      BY <1>h, <2>1
    <3>2. e \in D => entities[e].first <= t
      <4> SUFFICES ASSUME e \in D PROVE entities[e].first <= t
        OBVIOUS
      <4>1. PICK b \in heard : b[1] = e
        OBVIOUS
      <4>2. entities[e].first <= b[3] /\ b[3] <= clock /\ b[3] \in Nat
        BY <4>1 DEF FramingInv
      <4>3. entities[e].first \in Nat
        BY <1>7
      <4> QED
        BY <1>1, <4>2, <4>3
    <3> QED
      BY <1>1, <1>8, <3>1, <3>2
  <2>2. CASE h \in heard
    <3>1. /\ entities[h[1]].first <= h[3] /\ h[3] <= entities[h[1]].last /\ h[3] <= clock
          /\ h[3] \in Nat /\ h[1] \in D
      BY <2>2 DEF FramingInv
    <3>2. h[3] <= t
      BY <1>1, <3>1
    <3> QED
      BY <1>8, <3>1, <3>2
  <2> QED
    BY <1>h, <2>1, <2>2
<1> QED
  BY <1>1, <1>2, <1>3, <1>9, <1>10, <1>11 DEF FramingInv

LEMMA FramingStep == FramingInv /\ [FramingNext]_framingPart => FramingInv'
<1> SUFFICES ASSUME FramingInv, [FramingNext]_framingPart PROVE FramingInv'
  OBVIOUS
<1>1. CASE UNCHANGED framingPart
  BY <1>1 DEF framingPart, FramingInv, ClassesOf
<1>2. ASSUME NEW n \in NetIds, NEW addressed \in {{}} \cup {{e} : e \in Ids}, NEW t \in BlockTimes,
             FrameBlock(n, addressed, t)
      PROVE  FramingInv'
  <2>1. t >= clock /\ clock' = t /\ minutes' = Max({minutes, t \div 2 + 1})
    BY <1>2 DEF FrameBlock
  <2>2. CASE UNCHANGED <<entities, heard>>
    <3>1. t \in Nat /\ clock \in Nat /\ minutes \in Nat
      BY FramingAssumption DEF FramingInv
    <3>2. minutes' \in Nat
      <4>2. minutes \in Int /\ t \div 2 + 1 \in Int
        BY <3>1
      <4>3. Max({minutes, t \div 2 + 1}) = minutes \/ Max({minutes, t \div 2 + 1}) = t \div 2 + 1
        BY <4>2, OfTwo, Zenon
      <4>1. minutes' = minutes \/ minutes' = t \div 2 + 1
        BY <2>1, <4>3
      <4> QED
        BY <3>1, <4>1
    <3>3. \A h \in heard : h[3] <= clock'
      BY <2>1, <3>1 DEF FramingInv
    <3>4. \A e : ClassesOf(e)' = ClassesOf(e)
      BY <2>2 DEF ClassesOf
    <3> QED
      BY <2>1, <2>2, <3>1, <3>2, <3>3, <3>4 DEF FramingInv
  <2>3. CASE \E e \in addressed : entities' = Framed(n, e, t) /\ heard' = heard \cup {<<e, n, t>>}
    <3>1. PICK e \in Ids : entities' = Framed(n, e, t) /\ heard' = heard \cup {<<e, n, t>>}
      BY <2>3
    <3> QED
      BY <2>1, <3>1, AddressedKeeps
  <2> QED
    BY <1>2, <2>2, <2>3 DEF FrameBlock
<1> QED
  BY <1>1, <1>2 DEF FramingNext

-----------------------------------------------------------------------------
\* As many values as arguments at most.
LEMMA ValuesFinite ==
  ASSUME NEW S, IsFiniteSet(S), NEW f, DOMAIN f = S, f = [x \in S |-> f[x]]
  PROVE  IsFiniteSet({f[x] : x \in S}) /\ Cardinality({f[x] : x \in S}) <= Cardinality(S)
<1>1. f \in Surjection(S, {f[x] : x \in S})
  BY DEF Surjection
<1> QED
  BY <1>1, FS_Surjection

LEMMA EntitiesFinite ==
  ASSUME FramingInv
  PROVE  /\ IsFiniteSet(DOMAIN entities) /\ DOMAIN entities \in SUBSET Nat
         /\ DOMAIN entities = {h[1] : h \in heard}
         /\ NetIdCounts \in [DOMAIN entities -> Nat]
         /\ \A e \in DOMAIN entities : NetIdCounts[e] = Cardinality(ClassesOf(e))
<1>1. IsFiniteSet({h[1] : h \in heard})
  <2> DEFINE f == [h \in heard |-> h[1]]
  <2>1. IsFiniteSet(heard)
    BY DEF FramingInv
  <2>2. IsFiniteSet({f[h] : h \in heard})
    BY <2>1, ValuesFinite
  <2> QED
    BY <2>2
<1>2. {h[1] : h \in heard} \in SUBSET Nat /\ DOMAIN entities = {h[1] : h \in heard}
  BY FramingAssumption DEF FramingInv
<1>3. \A e \in DOMAIN entities : IsFiniteSet(ClassesOf(e)) /\ entities[e].netids = ClassesOf(e)
  <2> TAKE e \in DOMAIN entities
  <2> DEFINE H == {b \in heard : b[1] = e}
  <2>1. IsFiniteSet(H)
    BY FS_Subset DEF FramingInv
  <2> HIDE DEF H
  <2>2. IsFiniteSet({h[2] : h \in H})
    <3> DEFINE f == [h \in H |-> h[2]]
    <3>1. IsFiniteSet({f[h] : h \in H})
      BY <2>1, ValuesFinite
    <3> QED
      BY <3>1
  <2> QED
    BY <2>2 DEF FramingInv, ClassesOf, H
<1>4. \A e \in DOMAIN entities : Cardinality(ClassesOf(e)) \in Nat
  BY <1>3, FS_CardinalityType
<1> QED
  BY <1>1, <1>2, <1>3, <1>4 DEF NetIdCounts

LEMMA WindowType ==
  ASSUME FramingInv, NEW r \in DOMAIN entities
  PROVE  Window(r) \in SUBSET DOMAIN entities /\ IsFiniteSet(Window(r)) /\ \A e \in Window(r) : r <= e
<1>1. Window(r) \in SUBSET DOMAIN entities /\ \A e \in Window(r) : r <= e
  BY DEF Window
<1> QED
  BY <1>1, EntitiesFinite, FS_Subset

\* A run is of consecutive ids.
LEMMA RunIsWindow ==
  ASSUME FramingInv, NEW r \in Runs
  PROVE  Window(r) = r .. r + RosterSize - 1
<1>1. /\ r \in DOMAIN entities /\ Cardinality(Window(r)) = RosterSize /\ Max(Window(r)) - r = RosterSize - 1
      /\ RosterSize \in Nat \ {0} /\ r \in Nat
  BY EntitiesFinite, FramingAssumption DEF Runs
<1>2. Window(r) \in SUBSET Nat /\ IsFiniteSet(Window(r)) /\ \A e \in Window(r) : r <= e
  BY <1>1, EntitiesFinite, WindowType
<1>3. Window(r) # {}
  BY <1>1, FS_EmptySet
<1>4. PICK m \in Window(r) : \A e \in Window(r) : e <= m
  BY <1>2, <1>3, GreatestExists
<1>5. Max(Window(r)) \in Window(r) /\ \A e \in Window(r) : Max(Window(r)) >= e
  <2>1. m \in Window(r) /\ \A e \in Window(r) : m >= e
    BY <1>2, <1>4
  <2>2. \E x \in Window(r) : \A y \in Window(r) : x >= y
    BY <2>1
  <2> QED
    BY <2>2 DEF Max
<1>6. Window(r) \in SUBSET (r .. r + RosterSize - 1)
  BY <1>1, <1>2, <1>5
<1>7. IsFiniteSet(r .. r + RosterSize - 1) /\ Cardinality(r .. r + RosterSize - 1) = RosterSize
  <2>1. r \in Int /\ r + RosterSize - 1 \in Int /\ ~ (r > r + RosterSize - 1)
        /\ (r + RosterSize - 1) - r + 1 = RosterSize
    BY <1>1
  <2> QED
    BY <2>1, FS_Interval
<1> QED
  BY <1>1, <1>6, <1>7, FS_Subset

\* Champions that span the game are a run.
LEMMA ChampionsRun ==
  ASSUME FramingInv, NEW s \in Ids, \A c \in s .. s + RosterSize - 1 : ThereThroughout(c)
  PROVE  s \in Runs /\ Window(s) = s .. s + RosterSize - 1
<1> DEFINE C == s .. s + RosterSize - 1
<1>1. s \in Nat /\ RosterSize \in Nat \ {0} /\ EDGE_WINDOW \in Nat /\ minutes \in Nat
  BY FramingAssumption DEF FramingInv
<1>2. \A c \in C : c \in DOMAIN entities /\ Spans(c)
  <2> TAKE c \in C
  <2>1. PICK b, d \in heard : /\ b[1] = c /\ b[3] <= EDGE_WINDOW
                             /\ d[1] = c /\ d[3] >= GameEnd - EDGE_WINDOW
    BY DEF ThereThroughout
  <2>2. c \in DOMAIN entities
    BY <2>1, EntitiesFinite
  <2>3. /\ entities[c].first <= b[3] /\ d[3] <= entities[c].last /\ b[3] \in Nat /\ d[3] \in Nat
        /\ entities[c].first \in Nat /\ entities[c].last \in Nat
    BY <2>1, <2>2 DEF FramingInv
  <2>4. GameEnd \in Nat
    BY <1>1 DEF GameEnd
  <2> HIDE DEF C
  <2> QED
    BY <1>1, <2>1, <2>2, <2>3, <2>4 DEF Spans
<1>3. IsFiniteSet(C) /\ Cardinality(C) = RosterSize /\ s \in C
  BY <1>1, FS_Interval
<1>4. Window(s) = C
  <2>1. ASSUME NEW e \in C PROVE e \in Window(s)
    <3>1. DOMAIN entities \cap (s .. e) \in SUBSET C
      BY <1>1
    <3>2. Cardinality(DOMAIN entities \cap (s .. e)) <= RosterSize
      BY <1>3, <3>1, FS_Subset
    <3> QED
      BY <1>1, <1>2, <3>2 DEF Window
  <2>2. ASSUME NEW e \in Window(s), e \notin C PROVE FALSE
    <3> DEFINE W == DOMAIN entities \cap (s .. e)
    <3>1. e \in DOMAIN entities /\ s <= e /\ Cardinality(W) <= RosterSize /\ e \in Nat
      BY EntitiesFinite DEF Window
    <3>2. e > s + RosterSize - 1
      BY <1>1, <2>2, <3>1
    <3>3. C \cup {e} \in SUBSET W
      <4>1. C \in SUBSET DOMAIN entities
        BY <1>2
      <4> QED
        BY <1>1, <3>1, <3>2, <4>1
    <3>4. IsFiniteSet(W)
      BY EntitiesFinite, FS_Subset
    <3> HIDE DEF W, C
    <3>5. Cardinality(C \cup {e}) = RosterSize + 1
      BY <1>3, <2>2, FS_AddElement
    <3>6. Cardinality(C \cup {e}) <= Cardinality(W) /\ Cardinality(W) \in Nat
      BY <3>3, <3>4, FS_Subset, FS_CardinalityType
    <3> QED
      BY <1>1, <3>1, <3>5, <3>6
  <2> QED
    BY <2>1, <2>2
<1>5. Max(Window(s)) - s = RosterSize - 1
  <2> DEFINE m == s + RosterSize - 1
  <2>1. m \in C /\ (\A y \in C : m >= y) /\ \A x \in C : (\A y \in C : x >= y) => x = m
    BY <1>1
  <2>2. Max(C) = m
    <3> HIDE DEF C, m
    <3> QED
      BY <2>1 DEF Max
  <2> HIDE DEF C
  <2> QED
    BY <1>1, <1>4, <2>2
<1> QED
  BY <1>2, <1>3, <1>4, <1>5, Zenon DEF Runs

\* Of runs none is as varied as that of champions whom more is said of than of any other.
LEMMA ChampionsMoreVaried ==
  ASSUME FramingInv, NEW s \in Runs, NEW r \in Runs, r # s,
         \A c \in Window(s), e \in DOMAIN entities \ Window(s) : NetIdCounts[c] > NetIdCounts[e]
  PROVE  /\ Variety(s) \in Nat /\ Variety(r) \in Nat /\ Variety(r) < Variety(s)
<1> DEFINE S == Window(s)  R == Window(r)
           A == S \ R  B == R \ S  C == S \cap R
           Sum(X) == SumFunctionOnSet(NetIdCounts, X)
<1>1. /\ s \in DOMAIN entities /\ r \in DOMAIN entities /\ Cardinality(S) = RosterSize /\ Cardinality(R) = RosterSize
      /\ RosterSize \in Nat \ {0} /\ s \in Nat /\ r \in Nat /\ DOMAIN entities \in SUBSET Nat
  BY EntitiesFinite, FramingAssumption DEF Runs
<1>2. /\ S \in SUBSET DOMAIN entities /\ R \in SUBSET DOMAIN entities
      /\ IsFiniteSet(S) /\ IsFiniteSet(R)
  BY <1>1, WindowType
<1>3. S = s .. s + RosterSize - 1 /\ R = r .. r + RosterSize - 1
  BY RunIsWindow
<1>4. ~ (S \subseteq R)
  <2> SUFFICES ASSUME S \subseteq R PROVE FALSE
    OBVIOUS
  <2>1. S = R
    <3> HIDE DEF S, R
    <3> QED
      BY <1>1, <1>2, FS_Subset
  <2>2. s \in R /\ r \in S
    BY <1>1, <1>3, <2>1
  <2> QED
    BY <1>1, <1>3, <2>2
<1> HIDE DEF S, R
<1>5. /\ IsFiniteSet(A) /\ IsFiniteSet(B) /\ IsFiniteSet(C) /\ A \cap C = {} /\ B \cap C = {}
      /\ A \in SUBSET DOMAIN entities /\ B \in SUBSET DOMAIN entities /\ C \in SUBSET DOMAIN entities
      /\ S = A \cup C /\ R = B \cup C /\ A # {}
  <2>1. A \in SUBSET S /\ B \in SUBSET R /\ C \in SUBSET S
    OBVIOUS
  <2>2. IsFiniteSet(A) /\ IsFiniteSet(B) /\ IsFiniteSet(C)
    <3> HIDE DEF A, B, C
    <3> QED
      BY <1>2, <2>1, FS_Subset
  <2> QED
    BY <1>2, <1>4, <2>2
<1>6. \A a \in A, b \in B : NetIdCounts[a] > NetIdCounts[b]
  BY <1>2 DEF S
<1>n. NetIdCounts \in [DOMAIN entities -> Nat]
  BY EntitiesFinite
<1> HIDE DEF A, B, C
<1>7. Cardinality(A) = Cardinality(B) /\ Cardinality(A) \in Nat \ {0}
  <2>1. Cardinality(S) = Cardinality(A) + Cardinality(C) /\ Cardinality(A) \in Nat /\ Cardinality(C) \in Nat
    BY <1>5, SizesAdd
  <2>2. Cardinality(R) = Cardinality(B) + Cardinality(C) /\ Cardinality(B) \in Nat
    BY <1>5, SizesAdd
  <2>3. Cardinality(A) # 0
    BY <1>5, FS_EmptySet
  <2> QED
    BY <1>1, <2>1, <2>2, <2>3
<1>8. Sum(S) = Sum(A) + Sum(C) /\ Sum(R) = Sum(B) + Sum(C)
  <2>1. Sum(A \cup C) = Sum(A) + Sum(C)
    BY <1>n, <1>5, SumJoin
  <2>2. Sum(B \cup C) = Sum(B) + Sum(C)
    BY <1>n, <1>5, SumJoin
  <2> QED
    BY <1>5, <2>1, <2>2, Zenon
<1>9. Sum(A) \in Nat /\ Sum(B) \in Nat /\ Sum(C) \in Nat
  BY <1>n, <1>5, SumWith
<1>10. Sum(A) >= Sum(B) + Cardinality(A)
  BY <1>n, <1>5, <1>6, <1>7, SumMore
<1>11. Variety(s) = Sum(S) /\ Variety(r) = Sum(R)
  BY DEF Variety, S, R
<1> HIDE DEF Sum
<1> QED
  BY <1>7, <1>8, <1>9, <1>10, <1>11

\* champion_run finds champions who are there throughout and of whom more is said
\* than of any other unit, in any replay.
LEMMA FramingShows == FramingInv => ChampionsFound
<1> SUFFICES ASSUME FramingInv, NEW s \in Ids,
                    \A c \in s .. s + RosterSize - 1 :
                      /\ ThereThroughout(c)
                      /\ \A e \in {h[1] : h \in heard} \ (s .. s + RosterSize - 1) :
                           Cardinality(ClassesOf(c)) > Cardinality(ClassesOf(e))
             PROVE  champion_run = s .. s + RosterSize - 1
  BY DEF ChampionsFound
<1>1. s \in Runs /\ Window(s) = s .. s + RosterSize - 1
  BY ChampionsRun
<1>2. Window(s) \in SUBSET DOMAIN entities
  BY <1>1, WindowType DEF Runs
<1>3. \A c \in Window(s), e \in DOMAIN entities \ Window(s) : NetIdCounts[c] > NetIdCounts[e]
  BY <1>1, <1>2, EntitiesFinite
<1>4. \A r \in Runs : r # s => Variety(s) \in Nat /\ Variety(r) \in Nat /\ Variety(r) < Variety(s)
  BY <1>1, <1>3, ChampionsMoreVaried
<1>5. Variety(s) \in Nat
  <2>1. NetIdCounts \in [DOMAIN entities -> Nat] /\ IsFiniteSet(Window(s))
    BY <1>1, EntitiesFinite, WindowType DEF Runs
  <2> QED
    BY <1>2, <2>1, SumWith DEF Variety
<1>6. {x \in Runs : \A r \in Runs : Variety(r) <= Variety(x)} = {s}
  <2>1. \A r \in Runs : Variety(r) <= Variety(s)
    BY <1>4, <1>5
  <2>2. \A x \in Runs : (\A r \in Runs : Variety(r) <= Variety(x)) => x = s
    <3> TAKE x \in Runs
    <3>1. x # s => ~ (Variety(s) <= Variety(x))
      BY <1>4
    <3> QED
      BY <1>1, <3>1
  <2> QED
    BY <1>1, <2>1, <2>2
<1>7. Min({s}) = s
  <2>1. s \in Nat
    BY FramingAssumption
  <2> QED
    BY <2>1 DEF Min
<1>8. champion_run = LET best == Min({x \in Runs : \A r \in Runs : Variety(r) <= Variety(x)})
                     IN  best .. best + RosterSize - 1
  BY <1>1 DEF champion_run
<1> QED
  BY <1>6, <1>7, <1>8, Zenon

\* Of any replay whose champions are there throughout and have more kinds of
\* packet each than any other unit, exactly they are found (explore.rs:182-222).
THEOREM RostersAreFound == FramingSpec => []ChampionsFound
<1>1. FramingInv => ChampionsFound
  BY FramingShows
<1> QED
  BY <1>1, FramingStarts, FramingStep, PTL DEF FramingSpec

-----------------------------------------------------------------------------
(* Events: the windows around them                                         *)

\* A finite set of numbers has the least and the greatest that Min and Max give.
LEMMA EndsOf ==
  ASSUME NEW S \in SUBSET Nat, IsFiniteSet(S), S # {}
  PROVE  /\ Min(S) \in S /\ \A x \in S : Min(S) <= x
         /\ Max(S) \in S /\ \A x \in S : x <= Max(S)
<1>1. \E m \in S : \A n \in S : m <= n
  BY LeastExists
<1>2. \E m \in S : \A n \in S : m >= n
  <2>1. PICK m \in S : \A n \in S : n <= m
    BY GreatestExists
  <2>2. \A n \in S : m >= n
    BY <2>1
  <2> QED
    BY <2>2
<1>3. Min(S) \in S /\ \A x \in S : Min(S) <= x
  BY <1>1 DEF Min
<1>4. Max(S) \in S /\ \A x \in S : Max(S) >= x
  BY <1>2 DEF Max
<1> QED
  BY <1>3, <1>4

\* The times but the last.
Rest(s) == s \ {Max(s)}

\* f takes the windows of each of Q, from the earliest on.
Windows(f, s) ==
  LET t == Max(s) IN
  IF s = {t} THEN [total |-> 0, from |-> t - EVENT_WINDOW, to |-> t + EVENT_WINDOW]
  ELSE Join(f[Rest(s)], t)
Takes(f, Q) == f = [s \in Q |-> Windows(f, s)]

LEMMA BeforeTheLast ==
  ASSUME NEW s \in SUBSET Nat, IsFiniteSet(s), s # {}, s # {Max(s)}
  PROVE  /\ Rest(s) # {} /\ IsFiniteSet(Rest(s)) /\ Rest(s) \in SUBSET Nat /\ Rest(s) \in SUBSET s
         /\ Cardinality(s) \in Nat /\ Cardinality(Rest(s)) = Cardinality(s) - 1
         /\ Max(s) \in Nat /\ Max(Rest(s)) \in Nat /\ Max(Rest(s)) < Max(s)
         /\ s = Rest(s) \cup {Max(s)}
<1> DEFINE m == Max(s)
           r == Rest(s)
<1>1. m \in s
  BY EndsOf
<1>2. r # {} /\ r \in SUBSET Nat /\ r \in SUBSET s /\ s = r \cup {m} /\ r = s \ {m} /\ m \notin r
  BY <1>1 DEF Rest
<1> HIDE DEF m
<1>3. IsFiniteSet(r) /\ Cardinality(s) \in Nat /\ Cardinality(r) = Cardinality(s) - 1
  <2>1. /\ IsFiniteSet(s \ {m}) /\ Cardinality(s) \in Nat
        /\ Cardinality(s \ {m}) = Cardinality(s) - 1
    BY <1>1, OneLess
  <2> HIDE DEF r
  <2> QED
    BY <1>2, <2>1, Zenon
<1> HIDE DEF r
<1>4. Max(r) \in r
  BY <1>2, <1>3, EndsOf
<1>5. Max(r) \in s /\ Max(r) # m
  BY <1>2, <1>4
<1>6. Max(r) <= m
  BY <1>5, EndsOf DEF m
<1>7. Max(r) \in Nat /\ m \in Nat
  BY <1>1, <1>5
<1> DEFINE n == Max(r)
<1> HIDE DEF n
<1>8. n \in Nat /\ n # m /\ n <= m
  BY <1>5, <1>6, <1>7 DEF n
<1>9. n < m
  BY <1>7, <1>8
<1> QED
  BY <1>2, <1>3, <1>7, <1>9 DEF m, r, n

LEMMA WindowsExist ==
  ASSUME NEW S \in SUBSET Nat, IsFiniteSet(S)
  PROVE  \E f : Takes(f, (SUBSET S) \ {{}})
<1> DEFINE Q(k) == {s \in (SUBSET S) \ {{}} : Cardinality(s) <= k}
           Good == {k \in Nat : \E f : Takes(f, Q(k))}
<1>f. \A s \in SUBSET S : IsFiniteSet(s) /\ Cardinality(s) \in Nat /\ s \in SUBSET Nat
  BY FS_Subset, FS_CardinalityType
<1>1. 0 \in Good
  <2>1. Q(0) = {}
    <3> SUFFICES ASSUME NEW s \in (SUBSET S) \ {{}}, Cardinality(s) <= 0 PROVE FALSE
      OBVIOUS
    <3>1. Cardinality(s) = 0 /\ IsFiniteSet(s)
      BY <1>f
    <3> QED
      BY <3>1, FS_EmptySet
  <2>2. Takes([s \in {} |-> 0], {})
    BY DEF Takes
  <2> HIDE DEF Q
  <2> QED
    BY <2>1, <2>2
<1>2. ASSUME NEW k \in Good PROVE k + 1 \in Good
  <2>1. PICK f : Takes(f, Q(k))
    OBVIOUS
  <2>k. k \in Nat
    OBVIOUS
  <2> DEFINE g == [s \in Q(k + 1) |-> Windows(f, s)]
  <2>2. \A s \in Q(k) : s \in Q(k + 1)
    BY <1>f, <2>k
  <2>3. \A s \in Q(k) : g[s] = f[s]
    <3> TAKE s \in Q(k)
    <3>1. g[s] = Windows(f, s)
      BY <2>2
    <3>2. f[s] = Windows(f, s)
      BY <2>1, Zenon DEF Takes
    <3> HIDE DEF Q, g
    <3> QED
      BY <3>1, <3>2, Zenon
  <2>4. ASSUME NEW s \in Q(k + 1), s # {Max(s)} PROVE Rest(s) \in Q(k)
    <3>1. s \in SUBSET S /\ s # {} /\ IsFiniteSet(s) /\ s \in SUBSET Nat /\ Cardinality(s) <= k + 1
      BY <1>f
    <3>2. /\ Rest(s) # {} /\ Cardinality(s) \in Nat
          /\ Cardinality(Rest(s)) = Cardinality(s) - 1
      BY <2>4, <3>1, BeforeTheLast
    <3>3. Cardinality(Rest(s)) <= k
      <4> HIDE DEF Q
      <4> QED
        BY <2>k, <3>1, <3>2
    <3>4. Rest(s) \in SUBSET S
      BY <3>1 DEF Rest
    <3> QED
      BY <3>2, <3>3, <3>4
  <2>5. Takes(g, Q(k + 1))
    <3> DEFINE h == [s \in Q(k + 1) |-> Windows(g, s)]
    <3>1. ASSUME NEW s \in Q(k + 1) PROVE g[s] = h[s]
      <4>1. g[s] = Windows(f, s) /\ h[s] = Windows(g, s)
        OBVIOUS
      <4>2. s # {Max(s)} => g[Rest(s)] = f[Rest(s)]
        <5> HIDE DEF Q, g, h
        <5> QED
          BY <2>3, <2>4
      <4>3. Windows(f, s) = Windows(g, s)
        BY <4>2, Zenon DEF Windows, Rest
      <4> HIDE DEF Q, g, h
      <4> QED
        BY <4>1, <4>3, Zenon
    <3>2. /\ DOMAIN g = Q(k + 1) /\ g = [s \in DOMAIN g |-> g[s]]
          /\ DOMAIN h = Q(k + 1) /\ h = [s \in DOMAIN h |-> h[s]]
      <4> HIDE DEF Q
      <4> QED
        BY Zenon
    <3>3. g = h
      <4> HIDE DEF Q, g, h
      <4> QED
        BY <3>1, <3>2, Zenon
    <3>4. g = [s \in Q(k + 1) |-> Windows(g, s)]
      <4> HIDE DEF Q
      <4> QED
        BY <3>3, Zenon
    <3> HIDE DEF Q, g
    <3> QED
      BY <3>4, Zenon DEF Takes
  <2> HIDE DEF g, Q
  <2> QED
    BY <2>5, <2>k
<1>3. Good = Nat
  <2> HIDE DEF Q
  <2>1. Good \in SUBSET Nat
    OBVIOUS
  <2> HIDE DEF Good
  <2> QED
    BY <1>1, <1>2, <2>1, CountsUp
<1>4. Cardinality(S) \in Good
  BY <1>3, FS_CardinalityType
<1>5. Q(Cardinality(S)) = (SUBSET S) \ {{}}
  BY FS_Subset
<1> HIDE DEF Q
<1> QED
  BY <1>4, <1>5

\* The seconds in a window, without bounds.
LEMMA CoveredIs ==
  ASSUME NEW s \in SUBSET Nat, IsFiniteSet(s), s # {}, EVENT_WINDOW \in Nat \ {0}
  PROVE  CoveredSeconds(s) = {k \in Int : \E t \in s : t - EVENT_WINDOW <= k /\ k < t + EVENT_WINDOW}
<1> DEFINE C == {k \in Int : \E t \in s : t - EVENT_WINDOW <= k /\ k < t + EVENT_WINDOW}
           l == Min(s)
           m == Max(s)
<1>1. l \in Nat /\ m \in Nat /\ \A t \in s : t \in Nat /\ l <= t /\ t <= m
  BY EndsOf
<1> HIDE DEF l, m
<1>2. \A k \in Int, t \in s : k - t \in -EVENT_WINDOW .. EVENT_WINDOW - 1
                               <=> t - EVENT_WINDOW <= k /\ k < t + EVENT_WINDOW
  BY <1>1
<1>3. CoveredSeconds(s) = {k \in l - EVENT_WINDOW .. m + EVENT_WINDOW :
                      \E t \in s : k - t \in -EVENT_WINDOW .. EVENT_WINDOW - 1}
  BY DEF CoveredSeconds, l, m
<1>4. \A k \in C : k \in l - EVENT_WINDOW .. m + EVENT_WINDOW
  BY <1>1
<1>5. \A k : k \in CoveredSeconds(s) <=> k \in C
  BY <1>1, <1>2, <1>3, <1>4
<1> QED
  BY <1>5

\* What the walk holds after some times: the stretch that is not done reaches to the
\* last window's end, and before it lie as many covered seconds as are done.
Fit(d, s) ==
  /\ d \in [total : Nat, from : Int, to : Int]
  /\ d.from <= Max(s) - EVENT_WINDOW /\ d.to = Max(s) + EVENT_WINDOW
  /\ IsFiniteSet({k \in CoveredSeconds(s) : k < d.from})
  /\ d.total = Cardinality({k \in CoveredSeconds(s) : k < d.from})
  /\ {k \in CoveredSeconds(s) : k >= d.from} = d.from .. d.to - 1

LEMMA FitCounts ==
  ASSUME NEW s, NEW d, Fit(d, s), CoveredSeconds(s) \in SUBSET Int, Max(s) \in Nat, EVENT_WINDOW \in Nat \ {0}
  PROVE  /\ IsFiniteSet(CoveredSeconds(s)) /\ d.total + d.to - d.from = Cardinality(CoveredSeconds(s))
         /\ Cardinality(CoveredSeconds(s)) \in Nat \ {0}
<1> DEFINE A == {k \in CoveredSeconds(s) : k < d.from}
           B == {k \in CoveredSeconds(s) : k >= d.from}
<1>1. d.total \in Nat /\ d.from \in Int /\ d.to \in Int /\ d.from < d.to
  BY DEF Fit
<1>2. IsFiniteSet(A) /\ d.total = Cardinality(A) /\ B = d.from .. d.to - 1
  BY DEF Fit
<1>3. IsFiniteSet(B) /\ Cardinality(B) = d.to - d.from
  <2>0. d.from \in Int /\ d.to - 1 \in Int
    BY <1>1
  <2>1. /\ IsFiniteSet(d.from .. d.to - 1)
        /\ Cardinality(d.from .. d.to - 1) = IF d.from > d.to - 1 THEN 0 ELSE (d.to - 1) - d.from + 1
    BY <2>0, FS_Interval
  <2> HIDE DEF B
  <2> QED
    BY <1>1, <1>2, <2>1
<1>4. A \cap B = {} /\ A \cup B = CoveredSeconds(s)
  BY <1>1
<1> HIDE DEF A, B
<1>5. IsFiniteSet(A \cup B) /\ Cardinality(A \cup B) = Cardinality(A) + Cardinality(B)
  BY <1>2, <1>3, <1>4, SizesAdd
<1>6. IsFiniteSet(CoveredSeconds(s)) /\ Cardinality(CoveredSeconds(s)) = Cardinality(A) + Cardinality(B)
  BY <1>4, <1>5, Zenon
<1>7. d.total + d.to - d.from = Cardinality(CoveredSeconds(s))
  BY <1>1, <1>2, <1>3, <1>6
<1> QED
  BY <1>1, <1>6, <1>7

LEMMA FitAlone ==
  ASSUME NEW t \in Nat, EVENT_WINDOW \in Nat \ {0}
  PROVE  Fit([total |-> 0, from |-> t - EVENT_WINDOW, to |-> t + EVENT_WINDOW], {t})
<1>1. Max({t}) = t
  BY DEF Max
<1>2. CoveredSeconds({t}) = {k \in Int : t - EVENT_WINDOW <= k /\ k < t + EVENT_WINDOW}
  <2>1. CoveredSeconds({t}) = {k \in Int : \E u \in {t} : u - EVENT_WINDOW <= k /\ k < u + EVENT_WINDOW}
    <3>1. {t} \in SUBSET Nat /\ IsFiniteSet({t}) /\ {t} # {}
      BY FS_Singleton
    <3> QED
      BY <3>1, CoveredIs
  <2> QED
    BY <2>1
<1>3. /\ {k \in CoveredSeconds({t}) : k < t - EVENT_WINDOW} = {}
      /\ {k \in CoveredSeconds({t}) : k >= t - EVENT_WINDOW} = t - EVENT_WINDOW .. (t + EVENT_WINDOW) - 1
  <2> DEFINE C == CoveredSeconds({t})
  <2>1. \A k : k \in C <=> k \in Int /\ t - EVENT_WINDOW <= k /\ k < t + EVENT_WINDOW
    BY <1>2
  <2> HIDE DEF C
  <2>2. {k \in C : k < t - EVENT_WINDOW} = {} /\ {k \in C : k >= t - EVENT_WINDOW} = t - EVENT_WINDOW .. (t + EVENT_WINDOW) - 1
    BY <2>1
  <2> QED
    BY <2>2 DEF C
<1> DEFINE d == [total |-> 0, from |-> t - EVENT_WINDOW, to |-> t + EVENT_WINDOW]
<1>4. d \in [total : Nat, from : Int, to : Int] /\ d.total = 0 /\ d.from = t - EVENT_WINDOW /\ d.to = t + EVENT_WINDOW
  OBVIOUS
<1> HIDE DEF d
<1>5. Fit(d, {t})
  <2>1. d.from <= Max({t}) - EVENT_WINDOW /\ d.to = Max({t}) + EVENT_WINDOW
    BY <1>1, <1>4
  <2>2. /\ {k \in CoveredSeconds({t}) : k < d.from} = {}
        /\ {k \in CoveredSeconds({t}) : k >= d.from} = d.from .. d.to - 1
    BY <1>3, <1>4, Zenon
  <2> QED
    BY <1>4, <2>1, <2>2, FS_EmptySet, Zenon DEF Fit
<1> QED
  BY <1>5 DEF d

LEMMA FitJoins ==
  ASSUME NEW s \in SUBSET Nat, IsFiniteSet(s), s # {}, s # {Max(s)}, EVENT_WINDOW \in Nat \ {0},
         NEW d, Fit(d, Rest(s))
  PROVE  Fit(Join(d, Max(s)), s)
<1> DEFINE t == Max(s)
           r == Rest(s)
           u == Max(r)
           e == Join(d, t)
           w == EVENT_WINDOW
<1>1. /\ r # {} /\ IsFiniteSet(r) /\ r \in SUBSET Nat /\ t \in Nat /\ u \in Nat /\ u < t /\ s = r \cup {t}
      /\ w \in Nat \ {0}
  BY BeforeTheLast
<1> HIDE DEF t, u, r
<1>2. /\ d \in [total : Nat, from : Int, to : Int] /\ d.total \in Nat /\ d.from \in Int
      /\ d.to = u + w /\ d.from <= u - w
  BY DEF Fit, u, r
<1>3. CoveredSeconds(s) = {k \in Int : \E x \in s : x - w <= k /\ k < x + w}
  BY CoveredIs
<1>4. CoveredSeconds(r) = {k \in Int : \E x \in r : x - w <= k /\ k < x + w}
  BY <1>1, CoveredIs
<1>5. \A k : k \in CoveredSeconds(s) <=> k \in CoveredSeconds(r) \/ (k \in Int /\ t - w <= k /\ k < t + w)
  BY <1>1, <1>3, <1>4
<1>6. \A k \in CoveredSeconds(r) : k \in Int /\ (k >= d.from <=> k \in d.from .. d.to - 1) /\ k < d.to
  <2>1. {k \in CoveredSeconds(r) : k >= d.from} = d.from .. d.to - 1
    BY DEF Fit, r
  <2>2. \A k \in CoveredSeconds(r) : k \in Int /\ k < u + w
    <3> SUFFICES ASSUME NEW k \in CoveredSeconds(r) PROVE k \in Int /\ k < u + w
      OBVIOUS
    <3>1. PICK x \in r : x - w <= k /\ k < x + w
      BY <1>4
    <3>2. x <= u /\ x \in Nat /\ k \in Int
      BY <1>1, <1>4, EndsOf DEF u
    <3> QED
      BY <1>1, <3>1, <3>2
  <2>3. \A k \in CoveredSeconds(r) : k >= d.from <=> k \in d.from .. d.to - 1
    BY <2>1
  <2> QED
    BY <1>2, <2>2, <2>3
<1>7. \A k \in d.from .. d.to - 1 : k \in CoveredSeconds(r)
  BY DEF Fit, r
<1>8. /\ IsFiniteSet({k \in CoveredSeconds(r) : k < d.from})
      /\ d.total = Cardinality({k \in CoveredSeconds(r) : k < d.from})
  BY DEF Fit, r
<1>9. ASSUME t - w <= d.to PROVE Fit(e, s)
  <2>1. e = [d EXCEPT !.to = Max({d.to, t + w})]
    BY <1>9 DEF Join, w
  <2>2. Max({d.to, t + w}) = t + w
    <3>1. d.to \in Int /\ t + w \in Int /\ d.to < t + w
      BY <1>1, <1>2
    <3>2. Max({d.to, t + w}) = Larger(d.to, t + w)
      BY <3>1, OfTwo
    <3> QED
      BY <3>1, <3>2 DEF Larger
  <2>3. e.total = d.total /\ e.from = d.from /\ e.to = t + w /\ e \in [total : Nat, from : Int, to : Int]
    BY <1>1, <1>2, <2>1, <2>2
  <2> HIDE DEF e, w
  <2>4. {k \in CoveredSeconds(s) : k < d.from} = {k \in CoveredSeconds(r) : k < d.from}
    BY <1>1, <1>2, <1>5
  <2>5. {k \in CoveredSeconds(s) : k >= d.from} = d.from .. (t + w) - 1
    <3>1. \A k \in CoveredSeconds(s) : k >= d.from => k \in d.from .. (t + w) - 1
      BY <1>1, <1>2, <1>5, <1>6
    <3>2. ASSUME NEW k \in d.from .. (t + w) - 1 PROVE k \in CoveredSeconds(s) /\ k >= d.from
      <4>0. d.from \in Int /\ d.to \in Int /\ t - w \in Int /\ t + w \in Int
        BY <1>1, <1>2
      <4>1. k \in Int /\ k >= d.from /\ k < t + w
        BY <4>0
      <4>2. k < d.to => k \in CoveredSeconds(r)
        BY <1>7, <4>0, <4>1
      <4>3. ~ (k < d.to) => t - w <= k
        BY <1>9, <4>0, <4>1
      <4> QED
        BY <1>5, <4>1, <4>2, <4>3, Zenon
    <3> QED
      BY <3>1, <3>2
  <2>6. e.from <= t - w
    BY <1>1, <1>2, <2>3
  <2>7. IsFiniteSet({k \in CoveredSeconds(s) : k < e.from}) /\ e.total = Cardinality({k \in CoveredSeconds(s) : k < e.from})
    BY <1>8, <2>3, <2>4, Zenon
  <2>8. {k \in CoveredSeconds(s) : k >= e.from} = e.from .. e.to - 1
    BY <2>3, <2>5, Zenon
  <2> QED
    BY <2>3, <2>6, <2>7, <2>8, Zenon DEF Fit, t, w
<1>10. ASSUME ~ (t - w <= d.to) PROVE Fit(e, s)
  <2>1. e = [total |-> d.total + d.to - d.from, from |-> t - w, to |-> t + w]
    BY <1>10 DEF Join, w
  <2>2. /\ IsFiniteSet(CoveredSeconds(r)) /\ d.total + d.to - d.from = Cardinality(CoveredSeconds(r))
        /\ Cardinality(CoveredSeconds(r)) \in Nat \ {0}
    <3>1. Fit(d, r) /\ CoveredSeconds(r) \in SUBSET Int /\ Max(r) \in Nat
      BY <1>1, <1>4 DEF r, u
    <3> QED
      BY <3>1, FitCounts
  <2>3. e.total = Cardinality(CoveredSeconds(r)) /\ e.from = t - w /\ e.to = t + w /\ e \in [total : Nat, from : Int, to : Int]
    BY <1>1, <2>1, <2>2
  <2> HIDE DEF e, w
  <2>4. {k \in CoveredSeconds(s) : k < t - w} = CoveredSeconds(r)
    <3>0. d.to \in Int /\ t - w \in Int /\ d.to < t - w
      BY <1>1, <1>2, <1>10
    <3>1. \A k \in CoveredSeconds(r) : k \in CoveredSeconds(s) /\ k < t - w
      BY <1>5, <1>6, <3>0
    <3>2. \A k \in CoveredSeconds(s) : k < t - w => k \in CoveredSeconds(r)
      BY <1>5, <3>0
    <3> QED
      BY <3>1, <3>2, Zenon
  <2>5. {k \in CoveredSeconds(s) : k >= t - w} = t - w .. (t + w) - 1
    BY <1>1, <1>2, <1>5, <1>6, <1>10
  <2>6. e.from <= t - w
    BY <1>1, <2>3
  <2>7. IsFiniteSet({k \in CoveredSeconds(s) : k < e.from}) /\ e.total = Cardinality({k \in CoveredSeconds(s) : k < e.from})
    BY <2>2, <2>3, <2>4, Zenon
  <2>8. {k \in CoveredSeconds(s) : k >= e.from} = e.from .. e.to - 1
    BY <2>3, <2>5, Zenon
  <2> QED
    BY <2>3, <2>6, <2>7, <2>8, Zenon DEF Fit, t, w
<1> QED
  BY <1>9, <1>10, Zenon DEF e, t

LEMMA WindowsFit ==
  ASSUME NEW S \in SUBSET Nat, IsFiniteSet(S), S # {}, EVENT_WINDOW \in Nat \ {0},
         NEW f, Takes(f, (SUBSET S) \ {{}})
  PROVE  Fit(f[S], S)
<1> DEFINE Good == {k \in Nat : \A s \in (SUBSET S) \ {{}} : Cardinality(s) = k => Fit(f[s], s)}
<1>f. \A s \in SUBSET S : IsFiniteSet(s) /\ Cardinality(s) \in Nat /\ s \in SUBSET Nat
  BY FS_Subset, FS_CardinalityType
<1>1. 0 \in Good
  BY <1>f, FS_EmptySet
<1>2. ASSUME NEW k \in Good PROVE k + 1 \in Good
  <2>k. k \in Nat
    OBVIOUS
  <2> SUFFICES ASSUME NEW s \in (SUBSET S) \ {{}}, Cardinality(s) = k + 1 PROVE Fit(f[s], s)
    BY <2>k
  <2>1. f[s] = Windows(f, s)
    BY Zenon DEF Takes
  <2>2. s \in SUBSET Nat /\ IsFiniteSet(s) /\ s # {}
    BY <1>f
  <2>3. CASE s = {Max(s)}
    <3>1. Max(s) \in Nat
      BY <2>2, EndsOf
    <3>2. f[s] = [total |-> 0, from |-> Max(s) - EVENT_WINDOW, to |-> Max(s) + EVENT_WINDOW]
      BY <2>1, <2>3, Zenon DEF Windows
    <3>3. Fit(f[s], {Max(s)})
      BY <3>1, <3>2, FitAlone
    <3> QED
      BY <2>3, <3>3, Zenon
  <2>4. CASE s # {Max(s)}
    <3>1. f[s] = Join(f[Rest(s)], Max(s))
      BY <2>1, <2>4, Zenon DEF Windows
    <3>2. /\ Rest(s) # {} /\ Cardinality(Rest(s)) = Cardinality(s) - 1
      BY <2>2, <2>4, BeforeTheLast
    <3>3. Rest(s) \in (SUBSET S) \ {{}} /\ Cardinality(Rest(s)) = k
      <4>1. Cardinality(Rest(s)) = k
        <5> HIDE DEF Good
        <5> QED
          BY <2>k, <3>2
      <4>2. Rest(s) \in SUBSET S
        BY DEF Rest
      <4> QED
        BY <3>2, <4>1, <4>2
    <3>4. Fit(f[Rest(s)], Rest(s))
      BY <3>3
    <3>5. Fit(Join(f[Rest(s)], Max(s)), s)
      BY <2>2, <2>4, <3>4, FitJoins
    <3> QED
      BY <3>1, <3>5, Zenon
  <2> QED
    BY <2>3, <2>4
<1>3. Good = Nat
  <2> HIDE DEF Good
  <2> QED
    BY <1>1, <1>2, CountsUp DEF Good
<1> QED
  BY <1>3, <1>f

\* window_cover counts the seconds that lie in a window, each once.
LEMMA CoverIsTrue ==
  ASSUME NEW times \in SUBSET Nat, IsFiniteSet(times)
  PROVE  /\ times = {} => window_cover(times) = 0
         /\ times # {} => /\ window_cover(times) = Cardinality(CoveredSeconds(times))
                          /\ Cardinality(CoveredSeconds(times)) \in Nat \ {0}
<1>1. times = {} => window_cover(times) = 0
  BY DEF window_cover
<1>2. ASSUME times # {}
      PROVE  /\ window_cover(times) = Cardinality(CoveredSeconds(times))
             /\ Cardinality(CoveredSeconds(times)) \in Nat \ {0}
  <2> DEFINE Q == (SUBSET times) \ {{}}
             along == CHOOSE f : f = [s \in Q |-> LET t == Max(s) IN
                        IF s = {t} THEN [total |-> 0, from |-> t - EVENT_WINDOW, to |-> t + EVENT_WINDOW]
                        ELSE Join(f[s \ {t}], t)]
  <2>1. window_cover(times) = along[times].total + along[times].to - along[times].from
    BY <1>2 DEF window_cover
  <2>2. Takes(along, Q)
    <3>1. PICK f : Takes(f, Q)
      BY WindowsExist
    <3>2. f = [s \in Q |-> LET t == Max(s) IN
                 IF s = {t} THEN [total |-> 0, from |-> t - EVENT_WINDOW, to |-> t + EVENT_WINDOW]
                 ELSE Join(f[s \ {t}], t)]
      BY <3>1, Zenon DEF Takes, Windows, Rest
    <3> HIDE DEF Q
    <3> QED
      BY <3>2, Zenon DEF Takes, Windows, Rest
  <2> HIDE DEF along
  <2>3. EVENT_WINDOW \in Nat \ {0}
    BY LockedAssumption
  <2>4. Fit(along[times], times)
    BY <1>2, <2>2, <2>3, WindowsFit
  <2>5. CoveredSeconds(times) \in SUBSET Int /\ Max(times) \in Nat
    BY <1>2, <2>3, CoveredIs, EndsOf
  <2> QED
    BY <2>1, <2>3, <2>4, <2>5, FitCounts
<1> QED
  BY <1>1, <1>2

-----------------------------------------------------------------------------
(* Events: what is locked to them                                          *)

LEMMA Distributes ==
  ASSUME NEW c \in Int, NEW x \in Int, NEW y \in Int
  PROVE  c * (x + y) = c * x + c * y /\ (x + y) * c = x * c + y * c
  OBVIOUS

LEMMA ProductIsNat == ASSUME NEW x \in Nat, NEW y \in Nat PROVE x * y \in Nat
  OBVIOUS

LEMMA TimesMore ==
  ASSUME NEW x \in Nat, NEW y \in Nat, NEW c \in Nat, x <= y
  PROVE  c * x <= c * y /\ x * c <= y * c
<1>1. PICK d \in Nat : y = x + d
  <2>1. y - x \in Nat /\ y = x + (y - x)
    OBVIOUS
  <2> QED
    BY <2>1
<1>2. c * d \in Nat /\ c * x \in Nat /\ d * c \in Nat /\ x * c \in Nat
  BY ProductIsNat
<1>3. c * (x + d) = c * x + c * d /\ (x + d) * c = x * c + d * c
  BY Distributes
<1> QED
  BY <1>1, <1>2, <1>3

\* If no part times c exceeds m, the sum times c does not exceed as many m.
LEMMA SumAtMost ==
  ASSUME NEW D, NEW w \in [D -> Nat], NEW S \in SUBSET D, IsFiniteSet(S),
         NEW c \in Nat, NEW m \in Nat, \A x \in S : c * w[x] <= m
  PROVE  c * SumFunctionOnSet(w, S) <= m * Cardinality(S)
<1> DEFINE P(T) == c * SumFunctionOnSet(w, T) <= m * Cardinality(T)
           Good == {k \in Nat : \A T \in SUBSET S : Cardinality(T) = k => P(T)}
<1>f. \A T \in SUBSET S : IsFiniteSet(T) /\ Cardinality(T) \in Nat /\ T \in SUBSET D
  BY FS_Subset, FS_CardinalityType
<1>1. 0 \in Good
  <2> SUFFICES ASSUME NEW T \in SUBSET S, Cardinality(T) = 0 PROVE P(T)
    OBVIOUS
  <2>1. T = {}
    BY <1>f, FS_EmptySet
  <2>2. SumFunctionOnSet(w, T) = 0
    BY <2>1, SumWith
  <2>3. c * 0 = 0 /\ m * 0 = 0
    OBVIOUS
  <2> QED
    BY <2>2, <2>3
<1>2. ASSUME NEW k \in Good PROVE k + 1 \in Good
  <2>k. k \in Nat
    OBVIOUS
  <2> SUFFICES ASSUME NEW T \in SUBSET S, Cardinality(T) = k + 1 PROVE P(T)
    BY <2>k
  <2>1. T # {}
    BY <1>f, <2>k, FS_EmptySet
  <2>2. PICK x : x \in T
    BY <2>1
  <2>t. IsFiniteSet(T) /\ T \in SUBSET D /\ T \ {x} \in SUBSET S
    BY <1>f
  <2>3. Cardinality(T \ {x}) = k
    <3>1. Cardinality(T \ {x}) = Cardinality(T) - 1
      BY <2>2, <2>t, OneLess
    <3> HIDE DEF Good
    <3> QED
      BY <2>k, <3>1
  <2>4. c * SumFunctionOnSet(w, T \ {x}) <= m * k
    BY <2>3, <2>t
  <2>5. SumFunctionOnSet(w, T) = w[x] + SumFunctionOnSet(w, T \ {x}) /\ SumFunctionOnSet(w, T \ {x}) \in Nat
    BY <1>f, <2>2, <2>t, SumWith
  <2>6. w[x] \in Nat /\ c * w[x] <= m
    BY <2>2
  <2> DEFINE a == w[x]  b == SumFunctionOnSet(w, T \ {x})
  <2> HIDE DEF a, b, Good
  <2>7. c * (a + b) = c * a + c * b /\ m * (k + 1) = m * k + m * 1 /\ m * 1 = m
    BY <2>k, <2>5, <2>6, Distributes DEF a, b
  <2>8. c * a \in Nat /\ c * b \in Nat /\ m * k \in Nat
    BY <2>k, <2>5, <2>6, ProductIsNat DEF a, b
  <2>9. c * a <= m /\ c * b <= m * k
    BY <2>4, <2>6 DEF a, b
  <2>10. c * (a + b) <= m * (k + 1)
    BY <2>7, <2>8, <2>9
  <2>11. SumFunctionOnSet(w, T) = a + b
    BY <2>5 DEF a, b
  <2> QED
    BY <2>10, <2>11
<1>3. Good = Nat
  <2> HIDE DEF Good
  <2> QED
    BY <1>1, <1>2, CountsUp DEF Good
<1> QED
  BY <1>3, <1>f

-----------------------------------------------------------------------------
TimelineType == [length : GameLengths,
                 deaths : SUBSET (KillTimes \X Fighters \X (Fighters \cup {NoFighter})),
                 blocks : SUBSET (LockClasses \X Fighters \X Moments)]

LocksInv ==
  /\ timelines \in Seq(TimelineType)
  /\ \A g \in DOMAIN timelines : IsFiniteSet(timelines[g].deaths) /\ IsFiniteSet(timelines[g].blocks)

LEMMA LocksStep == LocksInv /\ [LockedNext]_lockedPart => LocksInv'
<1> SUFFICES ASSUME LocksInv, [LockedNext]_lockedPart PROVE LocksInv'
  OBVIOUS
<1>l. timelines \in Seq(TimelineType) /\ DOMAIN timelines = 1 .. Len(timelines)
  BY DEF LocksInv
<1>1. CASE UNCHANGED lockedPart
  BY <1>1 DEF lockedPart, LocksInv
<1>2. ASSUME NEW length \in GameLengths, NewTimeline(length) PROVE LocksInv'
  <2> DEFINE e == [length |-> length, deaths |-> {}, blocks |-> {}]
  <2>1. timelines' = Append(timelines, e) /\ e \in TimelineType /\ IsFiniteSet(e.deaths) /\ IsFiniteSet(e.blocks)
    BY <1>2, FS_EmptySet DEF NewTimeline, TimelineType
  <2> HIDE DEF e
  <2>2. timelines' \in Seq(TimelineType)
    BY <1>l, <2>1
  <2>3. \A g \in DOMAIN timelines' : timelines'[g] = e \/ (g \in DOMAIN timelines /\ timelines'[g] = timelines[g])
    BY <1>l, <2>1
  <2> QED
    BY <2>1, <2>2, <2>3 DEF LocksInv
<1>3. ASSUME NEW t \in KillTimes, NEW victim \in Fighters, NEW by \in Fighters \cup {NoFighter},
             TimelineKill(t, victim, by)
      PROVE  LocksInv'
  <2> DEFINE l == Len(timelines)
             e == [timelines[l] EXCEPT !.deaths = @ \cup {<<t, victim, by>>}]
  <2>1. l \in DOMAIN timelines
    BY <1>l, <1>3 DEF TimelineKill
  <2>2. timelines' = [timelines EXCEPT ![l] = e]
    BY <1>3 DEF TimelineKill
  <2>3. timelines[l] \in TimelineType /\ IsFiniteSet(timelines[l].deaths) /\ IsFiniteSet(timelines[l].blocks)
    BY <1>l, <2>1 DEF LocksInv
  <2>4. /\ e \in TimelineType /\ e.deaths = timelines[l].deaths \cup {<<t, victim, by>>}
        /\ e.blocks = timelines[l].blocks
    BY <2>3 DEF TimelineType
  <2>5. IsFiniteSet(e.deaths) /\ IsFiniteSet(e.blocks)
    <3> HIDE DEF e, l
    <3> QED
      BY <2>3, <2>4, FS_AddElement
  <2> HIDE DEF e, l
  <2>6. timelines' \in Seq(TimelineType) /\ DOMAIN timelines' = DOMAIN timelines
    BY <1>l, <2>1, <2>2, <2>4
  <2>7. \A g \in DOMAIN timelines' : timelines'[g] = IF g = l THEN e ELSE timelines[g]
    BY <2>2, <2>6
  <2> QED
    BY <2>5, <2>6, <2>7 DEF LocksInv
<1>4. ASSUME NEW n \in LockClasses, NEW champion \in Fighters, NEW t \in Moments,
             TimelineBlock(n, champion, t)
      PROVE  LocksInv'
  <2> DEFINE l == Len(timelines)
             e == [timelines[l] EXCEPT !.blocks = @ \cup {<<n, champion, t>>}]
  <2>1. l \in DOMAIN timelines
    BY <1>l, <1>4 DEF TimelineBlock
  <2>2. timelines' = [timelines EXCEPT ![l] = e]
    BY <1>4 DEF TimelineBlock
  <2>3. timelines[l] \in TimelineType /\ IsFiniteSet(timelines[l].deaths) /\ IsFiniteSet(timelines[l].blocks)
    BY <1>l, <2>1 DEF LocksInv
  <2>4. /\ e \in TimelineType /\ e.blocks = timelines[l].blocks \cup {<<n, champion, t>>}
        /\ e.deaths = timelines[l].deaths
    BY <2>3 DEF TimelineType
  <2>5. IsFiniteSet(e.deaths) /\ IsFiniteSet(e.blocks)
    <3> HIDE DEF e, l
    <3> QED
      BY <2>3, <2>4, FS_AddElement
  <2> HIDE DEF e, l
  <2>6. timelines' \in Seq(TimelineType) /\ DOMAIN timelines' = DOMAIN timelines
    BY <1>l, <2>1, <2>2, <2>4
  <2>7. \A g \in DOMAIN timelines' : timelines'[g] = IF g = l THEN e ELSE timelines[g]
    BY <2>2, <2>6
  <2> QED
    BY <2>5, <2>6, <2>7 DEF LocksInv
<1> QED
  BY <1>1, <1>2, <1>3, <1>4 DEF LockedNext

\* Any event is a kill in the game.
LEMMA TimesFacts ==
  ASSUME LocksInv, NEW event \in Events, NEW g \in DOMAIN timelines, NEW c
  PROVE  /\ Times(event, g, c) \in SUBSET Nat /\ IsFiniteSet(Times(event, g, c))
         /\ Times(event, g, c) \subseteq Times("any kill in the game", g, c)
<1> DEFINE Took(e) == CASE e = "their own death" -> {d \in timelines[g].deaths : d[2] = c}
                      [] e = "a kill they got" -> {d \in timelines[g].deaths : d[3] = c}
                      [] OTHER -> timelines[g].deaths
<1>1. \A e \in Events : Times(e, g, c) = {d[1] : d \in Took(e)} /\ Took(e) \subseteq timelines[g].deaths
  BY DEF Times, Events
<1>2. Took("any kill in the game") = timelines[g].deaths /\ "any kill in the game" \in Events
  BY DEF Events
<1>3. IsFiniteSet(timelines[g].deaths) /\ timelines[g] \in TimelineType
  BY DEF LocksInv
<1>4. \A d \in timelines[g].deaths : d[1] \in Nat
  BY <1>3, LockedAssumption DEF TimelineType
<1> HIDE DEF Took
<1>5. IsFiniteSet(Took(event))
  BY <1>1, <1>3, FS_Subset
<1>6. IsFiniteSet({d[1] : d \in Took(event)})
  <2> DEFINE f == [d \in Took(event) |-> d[1]]
  <2>1. IsFiniteSet({f[d] : d \in Took(event)})
    BY <1>5, ValuesFinite
  <2> QED
    BY <2>1
<1>7. event \in Events /\ Times(event, g, c) = {d[1] : d \in Took(event)}
  BY <1>1
<1>8. Times(event, g, c) \in SUBSET Nat /\ IsFiniteSet(Times(event, g, c))
  BY <1>1, <1>4, <1>6, <1>7
<1>9. Times("any kill in the game", g, c) = {d[1] : d \in timelines[g].deaths}
  BY <1>1, <1>2
<1>10. Times(event, g, c) \subseteq Times("any kill in the game", g, c)
  BY <1>1, <1>7, <1>9
<1> QED
  BY <1>8, <1>10

LEMMA BlocksFacts ==
  ASSUME LocksInv, NEW n
  PROVE  /\ IsFiniteSet(BlocksOfClass(n))
         /\ \A b \in BlocksOfClass(n) : b[1] \in DOMAIN timelines /\ b[2] \in Fighters
<1> DEFINE Own(g) == {b \in timelines[g].blocks : b[1] = n}
           Of(g) == {<<g, b[2], b[3]>> : b \in Own(g)}
           f == [g \in DOMAIN timelines |-> Of(g)]
<1>1. BlocksOfClass(n) = UNION {f[g] : g \in DOMAIN timelines}
  BY DEF BlocksOfClass
<1>2. \A g \in DOMAIN timelines : IsFiniteSet(Of(g))
  <2> TAKE g \in DOMAIN timelines
  <2>1. IsFiniteSet(timelines[g].blocks) /\ Own(g) \subseteq timelines[g].blocks
    BY DEF LocksInv
  <2> HIDE DEF Own
  <2>2. IsFiniteSet(Own(g))
    BY <2>1, FS_Subset
  <2> DEFINE h == [b \in Own(g) |-> <<g, b[2], b[3]>>]
  <2>3. IsFiniteSet({h[b] : b \in Own(g)})
    BY <2>2, ValuesFinite
  <2>4. {h[b] : b \in Own(g)} = Of(g)
    OBVIOUS
  <2> HIDE DEF h, Of
  <2> QED
    BY <2>3, <2>4
<1>3. IsFiniteSet(DOMAIN timelines)
  <2>1. DOMAIN timelines = 1 .. Len(timelines) /\ Len(timelines) \in Int /\ 1 \in Int
    BY DEF LocksInv
  <2> QED
    BY <2>1, FS_Interval
<1>4. \A g \in DOMAIN timelines : \A b \in Own(g) : b[2] \in Fighters
  <2> TAKE g \in DOMAIN timelines
  <2>1. timelines[g].blocks \subseteq LockClasses \X Fighters \X Moments
    <3>1. timelines[g] \in TimelineType
      BY DEF LocksInv
    <3> QED
      BY <3>1 DEF TimelineType
  <2> QED
    BY <2>1
<1>5. \A b \in BlocksOfClass(n) : b[1] \in DOMAIN timelines /\ b[2] \in Fighters
  BY <1>1, <1>4
<1>6. IsFiniteSet({f[g] : g \in DOMAIN timelines})
  BY <1>3, ValuesFinite
<1>7. \A x \in {f[g] : g \in DOMAIN timelines} : IsFiniteSet(x)
  BY <1>2
<1> HIDE DEF f
<1>8. IsFiniteSet(UNION {f[g] : g \in DOMAIN timelines})
  BY <1>6, <1>7, FS_UNION
<1> QED
  BY <1>1, <1>5, <1>8

LEMMA DivideWhole ==
  ASSUME NEW a \in Nat \ {0}, NEW b \in Nat \ {0}, a % b = 0
  PROVE  a \div b \in Nat \ {0} /\ a = b * (a \div b)
  OBVIOUS

\* What is expected of a block, in parts of Scale.
LEMMA ExpectedFacts ==
  ASSUME LocksInv, NEW event \in Events, NEW n
  PROVE  \E w \in [BlocksOfClass(n) -> Nat] :
           /\ Expected(event, n) = SumFunctionOnSet(w, BlocksOfClass(n))
           /\ \A b \in BlocksOfClass(n) :
                LET times == Times(event, b[1], b[2]) IN
                /\ times # {} => w[b] \in Nat \ {0}
                /\ times # {} /\ LOCKED_LIFT * Cardinality(CoveredSeconds(times)) <= timelines[b[1]].length
                     => LOCKED_LIFT * w[b] <= Scale
<1> DEFINE B == BlocksOfClass(n)
           T(b) == Times(event, b[1], b[2])
           l(b) == timelines[b[1]].length
           w == [b \in B |-> window_cover(T(b)) * (Scale \div l(b))]
<1>1. Expected(event, n) = SumFunctionOnSet(w, B)
  BY DEF Expected, SumFunction
<1>2. ASSUME NEW b \in B
      PROVE  /\ w[b] \in Nat /\ (T(b) # {} => w[b] \in Nat \ {0})
             /\ T(b) # {} /\ LOCKED_LIFT * Cardinality(CoveredSeconds(T(b))) <= l(b) => LOCKED_LIFT * w[b] <= Scale
  <2>1. b[1] \in DOMAIN timelines
    BY BlocksFacts
  <2>2. l(b) \in Nat \ {0} /\ Scale \in Nat \ {0} /\ Scale % l(b) = 0 /\ LOCKED_LIFT \in Nat
    <3>1. timelines[b[1]].length \in GameLengths
      <4>1. timelines[b[1]] \in TimelineType
        BY <2>1 DEF LocksInv
      <4> QED
        BY <4>1 DEF TimelineType
    <3> QED
      BY <3>1, LockedAssumption
  <2>3. T(b) \in SUBSET Nat /\ IsFiniteSet(T(b))
    BY <2>1, TimesFacts
  <2>4. /\ T(b) = {} => window_cover(T(b)) = 0
        /\ T(b) # {} => window_cover(T(b)) = Cardinality(CoveredSeconds(T(b))) /\ Cardinality(CoveredSeconds(T(b))) \in Nat \ {0}
    <3> HIDE DEF T
    <3> QED
      BY <2>3, CoverIsTrue
  <2>5. w[b] = window_cover(T(b)) * (Scale \div l(b))
    OBVIOUS
  <2> DEFINE L == l(b)  q == Scale \div L  v == window_cover(T(b))
  <2> HIDE DEF L, w, T
  <2>6. q \in Nat \ {0} /\ Scale = L * q
    BY <2>2, DivideWhole DEF L
  <2>7. w[b] = v * q
    BY <2>5 DEF L
  <2>8. v \in Nat /\ (T(b) # {} => v \in Nat \ {0} /\ v = Cardinality(CoveredSeconds(T(b))))
    BY <2>4
  <2> HIDE DEF q, v
  <2>9. v * q \in Nat /\ (v # 0 => v * q # 0)
    BY <2>6, <2>8
  <2>10. ASSUME LOCKED_LIFT * v <= L PROVE LOCKED_LIFT * (v * q) <= Scale
    <3>1. LOCKED_LIFT * v \in Nat /\ L \in Nat /\ q \in Nat
      BY <2>2, <2>6, <2>8, ProductIsNat DEF L
    <3>2. (LOCKED_LIFT * v) * q <= L * q
      BY <2>10, <3>1, TimesMore
    <3>3. LOCKED_LIFT * (v * q) = (LOCKED_LIFT * v) * q
      BY <2>2, <2>6, <2>8
    <3> QED
      BY <2>6, <3>2, <3>3
  <2> QED
    BY <2>7, <2>8, <2>9, <2>10 DEF L
<1>3. w \in [B -> Nat]
  <2>1. w = [b \in B |-> w[b]]
    OBVIOUS
  <2> HIDE DEF w, B
  <2> QED
    BY <1>2, <2>1
<1> HIDE DEF w
<1> WITNESS w \in [B -> Nat]
<1> QED
  BY <1>1, <1>2

DeathsAreRare(n) ==
  \A b \in BlocksOfClass(n) :
    LOCKED_LIFT * Cardinality(CoveredSeconds(Times("their own death", b[1], b[2]))) <= timelines[b[1]].length

\* The same for parts that are all positive.
LEMMA SumsOfFew ==
  ASSUME NEW B, IsFiniteSet(B), B # {}, NEW w \in [B -> Nat], NEW c \in Nat, NEW m \in Nat,
         \A b \in B : w[b] \in Nat \ {0} /\ c * w[b] <= m
  PROVE  /\ SumFunctionOnSet(w, B) \in Nat \ {0}
         /\ c * SumFunctionOnSet(w, B) <= m * Cardinality(B)
<1>w. B \in SUBSET B
  OBVIOUS
<1>1. c * SumFunctionOnSet(w, B) <= m * Cardinality(B)
  BY <1>w, SumAtMost
<1>2. PICK x : x \in B
  OBVIOUS
<1>3. SumFunctionOnSet(w, B) = w[x] + SumFunctionOnSet(w, B \ {x})
  BY <1>w, <1>2, SumWith
<1>t. B \ {x} \in SUBSET B /\ IsFiniteSet(B \ {x})
  BY FS_Subset
<1>4. SumFunctionOnSet(w, B \ {x}) \in Nat
  BY <1>t, SumWith
<1>5. w[x] \in Nat \ {0}
  BY <1>2
<1> DEFINE y == SumFunctionOnSet(w, B \ {x})  z == w[x]
<1>6. SumFunctionOnSet(w, B) = z + y /\ z \in Nat \ {0} /\ y \in Nat
  BY <1>3, <1>4, <1>5
<1> HIDE DEF y, z
<1>7. SumFunctionOnSet(w, B) \in Nat \ {0}
  BY <1>6
<1> QED
  BY <1>1, <1>7

LEMMA SomeBlock == ASSUME NEW k \in Nat, k >= MIN_LOCKED_BLOCKS PROVE k # 0
  BY LockedAssumption

\* The tests of event_locked, for numbers: k blocks, all near.
LEMMA TestsPass ==
  ASSUME NEW k \in Nat, NEW e \in Nat \ {0}, LOCKED_LIFT * e <= Scale * k
  PROVE  100 * k >= LOCKED_SHARE * k /\ e > 0 /\ k * Scale >= LOCKED_LIFT * e
<1>1. /\ LOCKED_SHARE \in Nat /\ LOCKED_SHARE <= 100 /\ LOCKED_LIFT \in Nat /\ Scale \in Nat
  BY LockedAssumption
<1>2. LOCKED_SHARE * k <= 100 * k
  <2>1. 100 \in Nat
    OBVIOUS
  <2> QED
    BY <1>1, <2>1, TimesMore
<1>3. LOCKED_SHARE * k \in Nat /\ LOCKED_LIFT * e \in Nat /\ Scale * k \in Nat /\ k * Scale = Scale * k
  <2>1. e \in Nat
    OBVIOUS
  <2>2. k * Scale = Scale * k
    BY <1>1
  <2> QED
    BY <1>1, <2>1, <2>2, ProductIsNat
<1> QED
  BY <1>2, <1>3

\* A class whose every block comes when its champion dies, and that few seconds of the
\* game are near, is locked to the champion's own deaths.
LEMMA LockIsFound ==
  ASSUME LocksInv, NEW n \in LockClasses,
         Cardinality(BlocksOfClass(n)) >= MIN_LOCKED_BLOCKS,
         \A b \in BlocksOfClass(n) : IsNear("their own death", b),
         DeathsAreRare(n)
  PROVE  <<n, "their own death">> \in event_locked
<1> DEFINE own == "their own death"
<1>o. own \in Events
  BY DEF Events
<1>1. MIN_LOCKED_BLOCKS \in Nat \ {0} /\ LOCKED_LIFT \in Nat /\ Scale \in Nat
  BY LockedAssumption
<1>2. IsFiniteSet(BlocksOfClass(n))
  BY BlocksFacts
<1>3. NearBlocks(own, n) = Cardinality(BlocksOfClass(n))
  <2>1. {b \in BlocksOfClass(n) : IsNear(own, b)} = BlocksOfClass(n)
    OBVIOUS
  <2> QED
    BY <2>1, Zenon DEF NearBlocks
<1>4. PICK w :
        /\ w \in [BlocksOfClass(n) -> Nat]
        /\ Expected(own, n) = SumFunctionOnSet(w, BlocksOfClass(n))
        /\ \A b \in BlocksOfClass(n) :
             LET times == Times(own, b[1], b[2]) IN
             /\ times # {} => w[b] \in Nat \ {0}
             /\ times # {} /\ LOCKED_LIFT * Cardinality(CoveredSeconds(times)) <= timelines[b[1]].length
                  => LOCKED_LIFT * w[b] <= Scale
  BY <1>o, ExpectedFacts
<1>5. \A b \in BlocksOfClass(n) : w[b] \in Nat \ {0} /\ LOCKED_LIFT * w[b] <= Scale
  <2> TAKE b \in BlocksOfClass(n)
  <2>1. Times(own, b[1], b[2]) # {}
    BY DEF IsNear
  <2> QED
    BY <1>4, <2>1 DEF DeathsAreRare
<1>6. PICK B : B = BlocksOfClass(n)
  OBVIOUS
<1>7. PICK k : k = Cardinality(B)
  OBVIOUS
<1>8. k \in Nat /\ k >= MIN_LOCKED_BLOCKS /\ B # {}
  <2>1. k \in Nat /\ k >= MIN_LOCKED_BLOCKS
    BY <1>2, <1>6, <1>7, FS_CardinalityType
  <2>2. k # 0
    BY <2>1, SomeBlock, Zenon
  <2> QED
    BY <1>7, <2>1, <2>2, FS_EmptySet
<1>9. PICK e : e = SumFunctionOnSet(w, B)
  OBVIOUS
<1>10. e \in Nat \ {0} /\ LOCKED_LIFT * e <= Scale * k
  <2>1. IsFiniteSet(B) /\ w \in [B -> Nat] /\ \A b \in B : w[b] \in Nat \ {0} /\ LOCKED_LIFT * w[b] <= Scale
    BY <1>2, <1>4, <1>5, <1>6, Zenon
  <2> QED
    BY <1>1, <1>7, <1>8, <1>9, <2>1, SumsOfFew
<1>11. 100 * k >= LOCKED_SHARE * k /\ e > 0 /\ k * Scale >= LOCKED_LIFT * e
  BY <1>8, <1>10, TestsPass
<1>12. NearBlocks(own, n) = k /\ Cardinality(BlocksOfClass(n)) = k /\ Expected(own, n) = e
  BY <1>3, <1>4, <1>6, <1>7, <1>9, Zenon
<1>13. PICK x : x = <<n, own>>
  OBVIOUS
<1>14. x \in LockClasses \X Events /\ x[1] = n /\ x[2] = own
  BY <1>o, <1>13
<1>15. x \in event_locked
  BY <1>8, <1>11, <1>12, <1>14, Zenon DEF event_locked
<1> QED
  BY <1>13, <1>15

\* Who is near an event is near a kill, and whoever is near no kill is locked to none.
LEMMA NearFacts ==
  ASSUME LocksInv, NEW n \in LockClasses, NEW event \in Events
  PROVE  /\ NearBlocks("any kill in the game", n) >= NearBlocks(event, n)
         /\ (\A b \in BlocksOfClass(n) : ~ IsNear("any kill in the game", b)) => <<n, event>> \notin event_locked
<1> DEFINE any == "any kill in the game"
           B == BlocksOfClass(n)
           N(e) == {b \in B : IsNear(e, b)}
<1>1. \A b \in B : IsNear(event, b) => IsNear(any, b)
  <2> SUFFICES ASSUME NEW b \in B, IsNear(event, b) PROVE IsNear(any, b)
    OBVIOUS
  <2>1. b[1] \in DOMAIN timelines
    BY BlocksFacts
  <2>2. Times(event, b[1], b[2]) \subseteq Times(any, b[1], b[2])
    BY <2>1, TimesFacts
  <2> QED
    BY <2>2 DEF IsNear
<1>2. IsFiniteSet(N(any)) /\ IsFiniteSet(N(event)) /\ N(event) \subseteq N(any)
  <2>1. IsFiniteSet(B) /\ N(any) \subseteq B /\ N(event) \subseteq B /\ N(event) \subseteq N(any)
    BY <1>1, BlocksFacts
  <2> HIDE DEF N, B
  <2> QED
    BY <2>1, FS_Subset
<1>3. NearBlocks(any, n) = Cardinality(N(any)) /\ NearBlocks(event, n) = Cardinality(N(event))
  BY DEF NearBlocks
<1>4. NearBlocks(any, n) >= NearBlocks(event, n)
  <2> HIDE DEF N
  <2>1. Cardinality(N(event)) <= Cardinality(N(any)) /\ Cardinality(N(event)) \in Nat /\ Cardinality(N(any)) \in Nat
    BY <1>2, FS_Subset, FS_CardinalityType
  <2> QED
    BY <1>3, <2>1
<1>5. ASSUME \A b \in B : ~ IsNear(any, b), <<n, event>> \in event_locked PROVE FALSE
  <2>1. N(event) = {}
    BY <1>1, <1>5
  <2>2. NearBlocks(event, n) = 0
    BY <1>3, <2>1, FS_EmptySet
  <2>3. Expected(event, n) > 0 /\ NearBlocks(event, n) * Scale >= LOCKED_LIFT * Expected(event, n)
    BY <1>5 DEF event_locked
  <2>4. PICK w \in [B -> Nat] : Expected(event, n) = SumFunctionOnSet(w, B)
    BY ExpectedFacts
  <2>5. Expected(event, n) \in Nat
    BY <2>4, BlocksFacts, SumWith
  <2>6. LOCKED_LIFT \in Nat \ {0} /\ Scale \in Nat
    BY LockedAssumption
  <2>7. 0 * Scale = 0 /\ LOCKED_LIFT * Expected(event, n) >= 1 * Expected(event, n)
    BY <2>5, <2>6, TimesMore
  <2> QED
    BY <2>2, <2>3, <2>5, <2>6, <2>7
<1> QED
  BY <1>4, <1>5

LEMMA LocksShow == LocksInv => LocksAreTrue
<1> SUFFICES ASSUME LocksInv PROVE LocksAreTrue
  OBVIOUS
<1>1. \A event \in Events, g \in DOMAIN timelines, c \in Fighters :
        LET times == Times(event, g, c) IN
        window_cover(times) = IF times = {} THEN 0 ELSE Cardinality(CoveredSeconds(times))
  <2> TAKE event \in Events, g \in DOMAIN timelines, c \in Fighters
  <2> DEFINE times == Times(event, g, c)
  <2>1. times \in SUBSET Nat /\ IsFiniteSet(times)
    BY TimesFacts
  <2> HIDE DEF times
  <2>2. window_cover(times) = IF times = {} THEN 0 ELSE Cardinality(CoveredSeconds(times))
    BY <2>1, CoverIsTrue
  <2> QED
    BY <2>2 DEF times
<1>2. "their own death" \in Events
  BY DEF Events
<1> QED
  BY <1>1, <1>2, LockIsFound, NearFacts DEF LocksAreTrue, DeathsAreRare

\* In any games the part that counts as chance is what the windows cover, a class that
\* comes only when champions die is found, and one that comes away from kills is locked
\* to nothing (explore.rs:1265-1279, 1351-1372).
THEOREM ChanceIsMeasured == LockedSpec => []LocksAreTrue
<1>1. LockedInit => LocksInv
  <2> SUFFICES ASSUME LockedInit PROVE LocksInv
    OBVIOUS
  <2>1. timelines \in Seq(TimelineType) /\ DOMAIN timelines = {}
    BY DEF LockedInit
  <2> QED
    BY <2>1 DEF LocksInv
<1> QED
  BY <1>1, LocksStep, LocksShow, PTL DEF LockedSpec

-----------------------------------------------------------------------------
(* Layouts                                                                 *)


\* A block's payload says what its words hold, wherever it carries one of them.
SampleOk(r) ==
  /\ Len(r.payload) \in Nat
  /\ \A i \in 1 .. Len(r.payload) : r.carries[i] # Header => r.payload[i] = r.words[r.carries[i]]

BytesNow == [i \in 1 .. payload_len |-> Carries(i)]
MeasuredBy(table) ==
  [bytes |-> BytesNow, table |-> table,
   conflicts |-> Cardinality(Pairings(BytesNow)) > Cardinality(DOMAIN table),
   from_positions |-> Cardinality(Moving(BytesNow)),
   disagreeing |-> Disagreeing(BytesNow, table)]

\* The layout, once there is one, is measured on the blocks that are there.
LayoutInv ==
  /\ stream \in Streams
  /\ IsFiniteSet(samples) /\ \A r \in samples : SampleOk(r)
  /\ DOMAIN lengths = {Len(r.payload) : r \in samples} /\ \A n \in DOMAIN lengths : lengths[n] \in Nat
  /\ layout \notin {<<>>, NoLayout} =>
       samples # {} /\ \E table \in Tables(Pairings(BytesNow)) : layout = MeasuredBy(table)

\* What is selected from a sequence is a sequence.
LEMMA SelectedIsSeq ==
  ASSUME NEW S, NEW s \in Seq(S), NEW without
  PROVE  LET kept == SelectSeq(s, LAMBDA x : x[1] \notin without)
         IN  Len(kept) \in Nat /\ DOMAIN kept = 1 .. Len(kept)
  OBVIOUS

LEMMA AddSampleKeeps ==
  ASSUME LayoutInv, NEW without, NEW value, NEW filler, AddSample(without, value, filler)
  PROVE  LayoutInv'
<1> DEFINE carries == SelectSeq(stream, LAMBDA x : x[1] \notin without)
           n == Len(carries)
           e == [carries |-> carries,
                 payload |-> [i \in 1 .. n |-> IF carries[i] = Header THEN filler ELSE value[carries[i]]],
                 words   |-> [s \in Range(carries) \ {Header} |-> value[s]]]
<1>1. n \in Nat /\ DOMAIN carries = 1 .. n
  BY SelectedIsSeq, LayoutAssumption DEF LayoutInv
<1>2. /\ samples' = samples \cup {e}
      /\ lengths' = [k \in DOMAIN lengths \cup {n} |->
              (IF k \in DOMAIN lengths THEN lengths[k] ELSE 0) + IF k = n THEN 1 ELSE 0]
      /\ UNCHANGED <<stream, layout>> /\ layout = <<>>
  BY Zenon DEF AddSample
<1>3. \A i \in 1 .. n : carries[i] \in Range(carries)
  BY <1>1 DEF Range
<1> HIDE DEF carries, n
<1>4. Len(e.payload) = n
  BY <1>1
<1>5. SampleOk(e)
  BY <1>1, <1>3, <1>4 DEF SampleOk
<1> HIDE DEF e
<1>6. IsFiniteSet(samples') /\ \A r \in samples' : SampleOk(r)
  BY <1>2, <1>5, FS_AddElement DEF LayoutInv
<1>7. DOMAIN lengths' = {Len(r.payload) : r \in samples'}
  BY <1>2, <1>4 DEF LayoutInv
<1>8. \A k \in DOMAIN lengths' : lengths'[k] \in Nat
  BY <1>2 DEF LayoutInv
<1>9. stream' \in Streams /\ layout' = <<>>
  BY <1>2 DEF LayoutInv
<1> QED
  BY <1>6, <1>7, <1>8, <1>9, Zenon DEF LayoutInv, SampleOk

\* What recover finds depends on the blocks alone.
LEMMA SameRows ==
  ASSUME UNCHANGED <<stream, samples, lengths>>
  PROVE  /\ \A t : MeasuredBy(t)' = MeasuredBy(t)
         /\ Tables(Pairings(BytesNow))' = Tables(Pairings(BytesNow))
<1>1. /\ payload_len' = payload_len
      /\ rows' = rows
  BY Zenon DEF payload_len, rows
<1>2. offsets' = offsets
  BY <1>1, Zenon DEF offsets, Slots
<1>3. \A i : Carries(i)' = Carries(i)
  BY <1>1, <1>2, Zenon DEF Carries, Tracks
<1>4. BytesNow' = BytesNow
  BY <1>1, <1>3, Zenon DEF BytesNow
<1>5. \A b, i : VarietyAt(b, i)' = VarietyAt(b, i) /\ PairsAt(b, i)' = PairsAt(b, i)
  BY <1>1, Zenon DEF VarietyAt, PairsAt
<1>6. \A b : Moving(b)' = Moving(b)
  BY <1>5, Zenon DEF Moving
<1>7. \A b : Pairings(b)' = Pairings(b)
  BY <1>5, <1>6, Zenon DEF Pairings
<1>8. \A b, t : Disagreeing(b, t)' = Disagreeing(b, t)
  BY <1>5, <1>6, Zenon DEF Disagreeing
<1>9. \A t : MeasuredBy(t)' = MeasuredBy(t)
  BY <1>4, <1>6, <1>7, <1>8, Zenon DEF MeasuredBy
<1>10. Tables(Pairings(BytesNow))' = Tables(Pairings(BytesNow))
  BY <1>4, <1>7, Zenon DEF Tables
<1> QED
  BY <1>9, <1>10

LEMMA RecoverKeeps == ASSUME LayoutInv, Recover PROVE LayoutInv'
<1>1. UNCHANGED <<stream, samples, lengths>>
  BY DEF Recover
<1>2. layout' \notin {<<>>, NoLayout} =>
        samples # {} /\ \E table \in Tables(Pairings(BytesNow)) : layout' = MeasuredBy(table)
  BY Zenon DEF Recover, MeasuredBy, BytesNow
<1>3. layout' \notin {<<>>, NoLayout} =>
        samples' # {} /\ \E table \in Tables(Pairings(BytesNow))' : layout' = MeasuredBy(table)'
  BY <1>1, <1>2, SameRows, Zenon
<1> QED
  BY <1>1, <1>3, Zenon DEF LayoutInv, SampleOk

LEMMA LayoutStep == LayoutInv /\ [LayoutNext]_layoutPart => LayoutInv'
<1> SUFFICES ASSUME LayoutInv, [LayoutNext]_layoutPart PROVE LayoutInv'
  OBVIOUS
<1>1. CASE UNCHANGED layoutPart
  <2>1. UNCHANGED <<stream, samples, lengths, layout>>
    BY <1>1 DEF layoutPart
  <2>2. layout' \notin {<<>>, NoLayout} =>
          samples' # {} /\ \E table \in Tables(Pairings(BytesNow))' : layout' = MeasuredBy(table)'
    BY <2>1, SameRows, Zenon DEF LayoutInv
  <2> QED
    BY <2>1, <2>2, Zenon DEF LayoutInv, SampleOk
<1> QED
  BY <1>1, AddSampleKeeps, RecoverKeeps DEF LayoutNext

-----------------------------------------------------------------------------
\* The commonest length is one of the blocks'.
LEMMA RowsFacts ==
  ASSUME LayoutInv, samples # {}
  PROVE  /\ payload_len \in Nat /\ rows # {} /\ IsFiniteSet(rows)
         /\ \A r \in rows : r \in samples /\ SampleOk(r) /\ Len(r.payload) = payload_len
<1> DEFINE N == DOMAIN lengths
           E == {n \in N : \A k \in N : lengths[k] <= lengths[n]}
<1>1. N \in SUBSET Nat /\ N # {} /\ N = {Len(r.payload) : r \in samples}
  BY DEF LayoutInv, SampleOk
<1>2. IsFiniteSet(N)
  <2> DEFINE f == [r \in samples |-> Len(r.payload)]
  <2>1. IsFiniteSet(samples) /\ DOMAIN f = samples /\ f = [r \in samples |-> f[r]]
    BY DEF LayoutInv
  <2> HIDE DEF f
  <2>2. IsFiniteSet({f[r] : r \in samples})
    BY <2>1, ValuesFinite
  <2> QED
    BY <1>1, <2>2 DEF f
<1>3. E # {}
  <2> DEFINE V == {lengths[n] : n \in N}
             f == [n \in N |-> lengths[n]]
  <2>1. IsFiniteSet({f[n] : n \in N})
    BY <1>2, ValuesFinite
  <2>2. IsFiniteSet(V) /\ V # {} /\ V \in SUBSET Nat
    BY <1>1, <2>1 DEF LayoutInv
  <2>3. PICK m \in V : \A x \in V : x <= m
    BY <2>2, GreatestExists
  <2>4. PICK n \in N : m = lengths[n]
    OBVIOUS
  <2>5. n \in E
    BY <2>3, <2>4
  <2> QED
    BY <2>5
<1>4. E \in SUBSET N /\ IsFiniteSet(E)
  BY <1>2, FS_Subset
<1>5. Max(E) \in E
  BY <1>1, <1>3, <1>4, EndsOf
<1>6. payload_len = Max(E)
  BY Zenon DEF payload_len
<1>7. payload_len \in N
  BY <1>4, <1>5, <1>6
<1> HIDE DEF N, E
<1>8. PICK r \in samples : Len(r.payload) = payload_len
  BY <1>1, <1>7
<1>9. rows # {} /\ rows \in SUBSET samples
  BY <1>8 DEF rows
<1>10. IsFiniteSet(rows)
  BY <1>9, FS_Subset DEF LayoutInv
<1>11. \A q \in rows : q \in samples /\ SampleOk(q) /\ Len(q.payload) = payload_len
  BY DEF rows, LayoutInv
<1> QED
  BY <1>1, <1>7, <1>9, <1>10, <1>11

\* A set has one element, or more.
LEMMA OneOrMore ==
  ASSUME NEW S, IsFiniteSet(S), S # {}
  PROVE  /\ Cardinality(S) = 1 <=> \A x, y \in S : x = y
         /\ Cardinality(S) # 1 => Cardinality(S) > 1
<1>1. Cardinality(S) \in Nat /\ Cardinality(S) # 0
  BY FS_CardinalityType, FS_EmptySet
<1>2. Cardinality(S) = 1 <=> \E x : S = {x}
  BY FS_Singleton
<1>3. (\E x : S = {x}) <=> \A x, y \in S : x = y
  <2>1. PICK x : x \in S
    OBVIOUS
  <2>2. ASSUME \A y, z \in S : y = z PROVE S = {x}
    BY <2>1, <2>2
  <2> QED
    BY <2>2
<1> QED
  BY <1>1, <1>2, <1>3

\* What all rows carry at a position is the word of that slot.
LEMMA ToldIsHeld ==
  ASSUME LayoutInv, samples # {}, NEW i \in Told
  PROVE  /\ Truth(i) \in offsets /\ i \in 1 .. payload_len
         /\ \A r \in rows : r.carries[i] = Truth(i) /\ r.payload[i] = r.words[Truth(i)]
<1>1. i \in 1 .. payload_len /\ \E s \in offsets : \A r \in rows : r.carries[i] = s
  BY DEF Told
<1>2. Truth(i) \in offsets /\ \A r \in rows : r.carries[i] = Truth(i)
  BY <1>1, Zenon DEF Truth
<1>3. Truth(i) # Header
  BY <1>2 DEF offsets, Slots
<1>4. \A r \in rows : r.payload[i] = r.words[Truth(i)]
  BY <1>1, <1>2, <1>3, RowsFacts DEF SampleOk
<1> QED
  BY <1>1, <1>2, <1>4

LEMMA HeldIsFound ==
  ASSUME LayoutInv, samples # {}, NEW i \in Told
  PROVE  IF Constant(Truth(i)) THEN Carries(i) = {} ELSE Truth(i) \in Carries(i)
<1> DEFINE s == Truth(i)
           W(x) == {r.words[x] : r \in rows}
<1>1. s \in offsets /\ \A r \in rows : r.payload[i] = r.words[s]
  BY ToldIsHeld
<1>2. \A x : IsFiniteSet(W(x)) /\ W(x) # {}
  <2> TAKE x
  <2> DEFINE f == [r \in rows |-> r.words[x]]
  <2>1. IsFiniteSet({f[r] : r \in rows})
    BY RowsFacts, ValuesFinite
  <2> QED
    BY <2>1, RowsFacts
<1>3. \A x : /\ Cardinality(W(x)) = 1 <=> \A r, q \in rows : r.words[x] = q.words[x]
             /\ Cardinality(W(x)) # 1 => Cardinality(W(x)) > 1
  <2> TAKE x
  <2>1. /\ Cardinality(W(x)) = 1 <=> \A y, z \in W(x) : y = z
        /\ Cardinality(W(x)) # 1 => Cardinality(W(x)) > 1
    <3> HIDE DEF W
    <3> QED
      BY <1>2, OneOrMore
  <2>2. (\A y, z \in W(x) : y = z) <=> \A r, q \in rows : r.words[x] = q.words[x]
    OBVIOUS
  <2> QED
    BY <2>1, <2>2
<1>4. \A x : Tracks(i, x) <=> /\ \A r, q \in rows : r.words[x] = q.words[x] <=> r.words[s] = q.words[s]
                              /\ Cardinality(W(x)) > 1
  BY <1>1 DEF Tracks
<1>5. ASSUME Constant(s), NEW x \in Carries(i) PROVE FALSE
  <2>1. Cardinality(W(s)) = 1
    BY <1>5 DEF Constant
  <2>2. \A r, q \in rows : r.words[x] = q.words[x]
    <3>1. \A r, q \in rows : r.words[s] = q.words[s]
      BY <1>3, <2>1, Zenon
    <3>2. \A r, q \in rows : r.words[x] = q.words[x] <=> r.words[s] = q.words[s]
      BY <1>4, Zenon DEF Carries
    <3> QED
      BY <3>1, <3>2, Zenon
  <2>3. Cardinality(W(x)) = 1
    BY <1>3, <2>2
  <2>4. Cardinality(W(x)) > 1
    BY <1>4, <1>5 DEF Carries
  <2> QED
    BY <2>3, <2>4
<1>6. ASSUME ~ Constant(s) PROVE s \in Carries(i)
  <2>1. Cardinality(W(s)) > 1
    BY <1>3, <1>6 DEF Constant
  <2> QED
    BY <1>1, <1>4, <2>1 DEF Carries
<1> QED
  BY <1>5, <1>6

\* If every position carries one slot in all rows, what is named for one is that slot.
LEMMA NamedIsTold ==
  ASSUME LayoutInv, samples # {}, Told = 1 .. payload_len, NEW i \in Field(BytesNow)
  PROVE  /\ i \in Told /\ SlotAt(BytesNow, i) = Truth(i)
         /\ \A p \in PairsAt(BytesNow, i) : p = <<p[1], p[1]>>
<1>1. i \in Told /\ BytesNow[i] = Carries(i) /\ Cardinality(Carries(i)) = 1
  BY DEF Field, BytesNow
<1>2. IsFiniteSet(Carries(i))
  <2>1. stream \in Seq(Range(stream))
    BY LayoutAssumption DEF LayoutInv
  <2>2. DOMAIN stream = 1 .. Len(stream) /\ Len(stream) \in Nat
    BY <2>1
  <2>3. IsFiniteSet(DOMAIN stream)
    BY <2>2, FS_Interval
  <2>4. stream = [k \in DOMAIN stream |-> stream[k]]
    BY <2>1
  <2>5. IsFiniteSet({stream[k] : k \in DOMAIN stream})
    BY <2>3, <2>4, ValuesFinite, Zenon
  <2>6. Carries(i) \subseteq {stream[k] : k \in DOMAIN stream}
    BY DEF Carries, offsets, Slots, Range
  <2> QED
    BY <2>5, <2>6, FS_Subset
<1>3. PICK y : Carries(i) = {y}
  BY <1>1, <1>2, FS_Singleton
<1>4. Truth(i) \in Carries(i)
  BY <1>1, <1>3, HeldIsFound
<1>5. SlotAt(BytesNow, i) = Truth(i)
  BY <1>1, <1>3, <1>4 DEF SlotAt
<1>6. \A p \in PairsAt(BytesNow, i) : p = <<p[1], p[1]>>
  <2> SUFFICES ASSUME NEW p \in PairsAt(BytesNow, i) PROVE p = <<p[1], p[1]>>
    OBVIOUS
  <2>1. PICK r \in rows : p = <<r.words[Truth(i)], r.payload[i]>>
    BY <1>5, Zenon DEF PairsAt
  <2>2. r.payload[i] = r.words[Truth(i)]
    BY <1>1, ToldIsHeld
  <2> QED
    BY <2>1, <2>2
<1> QED
  BY <1>1, <1>5, <1>6

LEMMA PairingsFinite ==
  ASSUME LayoutInv, samples # {}
  PROVE  IsFiniteSet(Pairings(BytesNow))
<1> DEFINE M == Moving(BytesNow)
<1>1. IsFiniteSet(M)
  <2>1. M \in SUBSET (1 .. payload_len) /\ IsFiniteSet(1 .. payload_len)
    BY RowsFacts, FS_Interval DEF Moving, Field, BytesNow
  <2> QED
    BY <2>1, FS_Subset
<1>2. \A i : IsFiniteSet(PairsAt(BytesNow, i))
  <2> TAKE i
  <2> DEFINE f == [r \in rows |-> <<r.words[SlotAt(BytesNow, i)], r.payload[i]>>]
  <2>1. IsFiniteSet({f[r] : r \in rows})
    BY RowsFacts, ValuesFinite
  <2>2. {f[r] : r \in rows} = PairsAt(BytesNow, i)
    BY DEF PairsAt
  <2> QED
    BY <2>1, <2>2
<1>3. IsFiniteSet({PairsAt(BytesNow, i) : i \in M})
  <2> DEFINE g == [i \in M |-> PairsAt(BytesNow, i)]
  <2>1. DOMAIN g = M /\ g = [i \in M |-> g[i]] /\ {g[i] : i \in M} = {PairsAt(BytesNow, i) : i \in M}
    OBVIOUS
  <2> HIDE DEF g, M
  <2> QED
    BY <1>1, <2>1, ValuesFinite
<1>4. \A T \in {PairsAt(BytesNow, i) : i \in M} : IsFiniteSet(T)
  BY <1>2
<1> QED
  BY <1>3, <1>4, FS_UNION, Zenon DEF Pairings

\* The table is true, free of conflicts and contradicted by none.
LEMMA TableIsTrue ==
  ASSUME LayoutInv, samples # {}, Told = 1 .. payload_len, NEW table \in Tables(Pairings(BytesNow))
  PROVE  /\ ~ (Cardinality(Pairings(BytesNow)) > Cardinality(DOMAIN table))
         /\ Disagreeing(BytesNow, table) = {}
         /\ \A p \in DOMAIN table : table[p] = p
<1>1. PICK pairs : pairs = Pairings(BytesNow)
  OBVIOUS
<1>2. PICK plain : plain = {p[1] : p \in pairs}
  OBVIOUS
<1>3. DOMAIN table = plain /\ \A x \in plain : <<x, table[x]>> \in pairs
  BY <1>1, <1>2 DEF Tables
<1>4. \A p \in pairs : p = <<p[1], p[1]>>
  BY <1>1, NamedIsTold DEF Pairings, Moving
<1>5. \A p \in DOMAIN table : table[p] = p
  BY <1>3, <1>4
<1>6. IsFiniteSet(pairs)
  BY <1>1, PairingsFinite
<1>7. IsFiniteSet(plain)
  <2> DEFINE f == [p \in pairs |-> p[1]]
  <2>1. IsFiniteSet({f[p] : p \in pairs})
    BY <1>6, ValuesFinite
  <2> QED
    BY <1>2, <2>1
<1>8. Cardinality(pairs) <= Cardinality(plain)
  <2> DEFINE f == [x \in plain |-> <<x, x>>]
  <2>1. Cardinality({f[x] : x \in plain}) <= Cardinality(plain)
    BY <1>7, ValuesFinite
  <2>2. {f[x] : x \in plain} = pairs
    BY <1>2, <1>4
  <2> QED
    BY <2>1, <2>2
<1>9. ~ (Cardinality(pairs) > Cardinality(plain))
  BY <1>6, <1>7, <1>8, FS_CardinalityType
<1>10. Disagreeing(BytesNow, table) = {}
  BY <1>5, NamedIsTold DEF Disagreeing
<1> QED
  BY <1>1, <1>3, <1>5, <1>9, <1>10

\* A word said to be written in an order is.
LEMMA OrdersAreTrue ==
  ASSUME LayoutInv, samples # {}, Told = 1 .. payload_len, layout.bytes = BytesNow,
         NEW f \in field_order, f.order # "mixed", NEW k \in 0 .. f.bytes - 1, NEW r \in rows
  PROVE  r.carries[f.at + k] = <<f.word, IF f.order = "little-endian" THEN k ELSE f.bytes - 1 - k>>
<1>1. PICK x \in Stretches :
        LET n == x[2] - x[1] + 1
            idx == [j \in 1 .. n |-> SlotAt(layout.bytes, x[1] + j - 1)[2]]
        IN  f = [at |-> x[1], word |-> WordAt(x[1]), bytes |-> n,
                 order |-> IF idx = [j \in 1 .. n |-> j - 1] THEN "little-endian"
                           ELSE IF idx = [j \in 1 .. n |-> n - j] THEN "big-endian" ELSE "mixed"]
  BY Zenon DEF field_order
<1>2. PICK a, z : a = x[1] /\ z = x[2]
  OBVIOUS
<1>3. /\ a \in 1 .. payload_len /\ z \in 1 .. payload_len /\ a < z
      /\ a .. z \subseteq Field(BytesNow) /\ \A i \in a .. z : WordAt(i) = WordAt(a)
  BY <1>2 DEF Stretches, BytesNow
<1>4. PICK n : n = z - a + 1
  OBVIOUS
<1>5. a \in Nat /\ z \in Nat /\ n \in Nat /\ payload_len \in Nat
  BY <1>3, <1>4, RowsFacts
<1>6. f.at = a /\ f.word = WordAt(a) /\ f.bytes = n
  BY <1>1, <1>2, <1>4
<1>7. /\ k \in 0 .. n - 1 /\ k + 1 \in 1 .. n /\ a + k \in a .. z /\ a + (k + 1) - 1 = a + k
  BY <1>4, <1>5, <1>6
<1>8. SlotAt(BytesNow, a + k) = r.carries[a + k]
  BY <1>3, <1>7, NamedIsTold, ToldIsHeld
<1>9. r.carries[a + k] = <<r.carries[a + k][1], r.carries[a + k][2]>>
  <2>1. Truth(a + k) \in Range(stream) /\ r.carries[a + k] = Truth(a + k)
    BY <1>3, <1>7, NamedIsTold, ToldIsHeld DEF offsets, Slots
  <2> QED
    BY <2>1, LayoutAssumption DEF LayoutInv
<1>10. r.carries[a + k][1] = f.word
  BY <1>3, <1>6, <1>7, <1>8 DEF WordAt
<1>11. r.carries[a + k][2] = IF f.order = "little-endian" THEN k ELSE n - 1 - k
  <2> DEFINE idx == [j \in 1 .. n |-> SlotAt(BytesNow, a + j - 1)[2]]
  <2>1. f.order = IF idx = [j \in 1 .. n |-> j - 1] THEN "little-endian"
                  ELSE IF idx = [j \in 1 .. n |-> n - j] THEN "big-endian" ELSE "mixed"
    BY <1>1, <1>2, <1>4
  <2>2. idx[k + 1] = r.carries[a + k][2]
    BY <1>7, <1>8
  <2> HIDE DEF idx
  <2>3. CASE idx = [j \in 1 .. n |-> j - 1]
    BY <1>7, <2>1, <2>2, <2>3
  <2>4. CASE idx # [j \in 1 .. n |-> j - 1] /\ idx = [j \in 1 .. n |-> n - j]
    <3>1. idx[k + 1] = n - (k + 1) /\ n - (k + 1) = n - 1 - k
      BY <1>5, <1>7, <2>4
    <3>2. f.order = "big-endian"
      BY <2>1, <2>4
    <3> QED
      BY <2>2, <3>1, <3>2
  <2> QED
    BY <2>1, <2>3, <2>4
<1> QED
  BY <1>6, <1>9, <1>10, <1>11

LEMMA LayoutShows == LayoutInv => LayoutIsTrue
<1> SUFFICES ASSUME LayoutInv, layout \notin {<<>>, NoLayout} PROVE LayoutIsTrue
  BY DEF LayoutIsTrue
<1>1. samples # {}
  BY Zenon DEF LayoutInv
<1>2. PICK table \in Tables(Pairings(BytesNow)) : layout = MeasuredBy(table)
  BY Zenon DEF LayoutInv
<1>3. /\ layout.bytes = BytesNow /\ layout.table = table
      /\ layout.conflicts = (Cardinality(Pairings(BytesNow)) > Cardinality(DOMAIN table))
      /\ layout.disagreeing = Disagreeing(BytesNow, table)
  BY <1>2, Zenon DEF MeasuredBy
<1>4. \A i \in Told : IF Constant(Truth(i)) THEN layout.bytes[i] = {} ELSE Truth(i) \in layout.bytes[i]
  <2> TAKE i \in Told
  <2>1. layout.bytes[i] = Carries(i)
    BY <1>3 DEF Told, BytesNow
  <2> QED
    BY <1>1, <2>1, HeldIsFound
<1>5. ASSUME Told = 1 .. payload_len
      PROVE  /\ ~ layout.conflicts /\ layout.disagreeing = {}
             /\ \A p \in DOMAIN layout.table : layout.table[p] = p
  BY <1>1, <1>3, <1>5, TableIsTrue, Zenon
<1>6. ASSUME Told = 1 .. payload_len
      PROVE  \A f \in field_order : \A k \in 0 .. f.bytes - 1 :
               f.order # "mixed" => \A r \in rows : r.carries[f.at + k] =
                 <<f.word, IF f.order = "little-endian" THEN k ELSE f.bytes - 1 - k>>
  BY <1>1, <1>3, <1>6, OrdersAreTrue, Zenon
<1> QED
  BY <1>4, <1>5, <1>6, Zenon DEF LayoutIsTrue

\* For any class, order of its words and blocks of it, what recover says of a payload
\* position that carries one slot throughout is true, and so is the table when all do
\* (layout.rs:170-290, 331-372).
THEOREM LayoutsAreTrue == LayoutSpec => []LayoutIsTrue
<1>1. LayoutInit => LayoutInv
  BY FS_EmptySet DEF LayoutInit, LayoutStart, LayoutInv
<1> QED
  BY <1>1, LayoutStep, LayoutShows, PTL DEF LayoutSpec

-----------------------------------------------------------------------------
(* Fingerprints: shares mixed by weight                                    *)

LEMMA ProductIsPositive == ASSUME NEW x \in Nat \ {0}, NEW y \in Nat \ {0} PROVE x * y \in Nat \ {0}
  OBVIOUS

LEMMA ThreeWays ==
  ASSUME NEW x \in Nat, NEW y \in Nat, NEW z \in Nat
  PROVE  x * y = y * x /\ (x * y) * z = x * (y * z)
  OBVIOUS

LEMMA LessThanTimes ==
  ASSUME NEW x \in Nat, NEW y \in Nat, NEW c \in Nat \ {0}, c * x <= c * y
  PROVE  x <= y
<1> SUFFICES ASSUME y + 1 <= x PROVE FALSE
  OBVIOUS
<1>1. c * (y + 1) <= c * x
  BY TimesMore
<1>2. c * (y + 1) = c * y + c * 1 /\ c * 1 = c
  BY Distributes
<1> DEFINE a == c * x  b == c * y  d == c * (y + 1)
<1>3. a \in Nat /\ b \in Nat /\ d = b + c /\ d <= a /\ a <= b
  BY <1>1, <1>2, ProductIsNat
<1> HIDE DEF a, b, d
<1> QED
  BY <1>3

LEMMA Ring ==
  ASSUME NEW x \in Int, NEW y \in Int, NEW z \in Int, NEW w \in Int, NEW v \in Int
  PROVE  /\ x * (y * z * (w + v)) = y * (x * z * w + x * z * v)
         /\ x * (z * y * (w + v)) = y * (x * z * w + x * z * v)
  OBVIOUS

\* What is mixed lies between the two.
LEMMA MixIsBetween ==
  ASSUME NEW a \in Nat \X (Nat \ {0}), NEW b \in Nat \X (Nat \ {0}),
         NEW w \in Nat \ {0}, NEW v \in Nat \ {0}
  PROVE  /\ Mix(a, w, b, v) \in Nat \X (Nat \ {0})
         /\ AtMost(a, b) => AtMost(a, Mix(a, w, b, v)) /\ AtMost(Mix(a, w, b, v), b)
         /\ ~ AtMost(a, b) => AtMost(b, Mix(a, w, b, v)) /\ AtMost(Mix(a, w, b, v), a)
<1>1. PICK a1 \in Nat, a2 \in Nat \ {0}, b1 \in Nat, b2 \in Nat \ {0} : a = <<a1, a2>> /\ b = <<b1, b2>>
  OBVIOUS
<1>2. PICK p, q, m : p = a1 * b2 /\ q = b1 * a2 /\ m = <<p * w + q * v, a2 * b2 * (w + v)>>
  OBVIOUS
<1>3. Mix(a, w, b, v) = m
  BY <1>1, <1>2 DEF Mix
<1>4. p \in Nat /\ q \in Nat /\ p * w \in Nat /\ q * v \in Nat /\ p * v \in Nat /\ q * w \in Nat
  BY <1>2, ProductIsNat
<1>5. a2 * b2 \in Nat \ {0} /\ w + v \in Nat \ {0} /\ a2 * b2 * (w + v) \in Nat \ {0}
  BY ProductIsPositive
<1>6. a1 * m[2] = a2 * (p * w + p * v)
  BY <1>2, Ring
<1>7. b1 * m[2] = b2 * (q * w + q * v)
  BY <1>2, Ring
<1>8. m[1] * a2 = a2 * (p * w + q * v) /\ m[1] * b2 = b2 * (p * w + q * v)
  BY <1>2, <1>4
<1>9. ASSUME p <= q
      PROVE  a1 * m[2] <= m[1] * a2 /\ m[1] * b2 <= b1 * m[2]
  <2>1. p * v <= q * v /\ p * w <= q * w
    BY <1>4, <1>9, TimesMore
  <2>2. p * w + p * v <= p * w + q * v /\ p * w + q * v <= q * w + q * v
    BY <1>4, <2>1
  <2> QED
    BY <1>4, <1>6, <1>7, <1>8, <2>2, TimesMore
<1>10. ASSUME q <= p
       PROVE  b1 * m[2] <= m[1] * b2 /\ m[1] * a2 <= a1 * m[2]
  <2>1. q * v <= p * v /\ q * w <= p * w
    BY <1>4, <1>10, TimesMore
  <2>2. q * w + q * v <= p * w + q * v /\ p * w + q * v <= p * w + p * v
    BY <1>4, <2>1
  <2> QED
    BY <1>4, <1>6, <1>7, <1>8, <2>2, TimesMore
<1>11. AtMost(a, b) <=> p <= q
  BY <1>1, <1>2 DEF AtMost
<1>12. m \in Nat \X (Nat \ {0})
  BY <1>2, <1>4, <1>5
<1> QED
  BY <1>1, <1>3, <1>4, <1>9, <1>10, <1>11, <1>12 DEF AtMost

LEMMA AtMostThrough ==
  ASSUME NEW a \in Nat \X (Nat \ {0}), NEW b \in Nat \X (Nat \ {0}), NEW c \in Nat \X (Nat \ {0}),
         AtMost(a, b), AtMost(b, c)
  PROVE  AtMost(a, c)
<1>1. PICK a1 \in Nat, a2 \in Nat \ {0}, b1 \in Nat, b2 \in Nat \ {0}, c1 \in Nat, c2 \in Nat \ {0} :
        a = <<a1, a2>> /\ b = <<b1, b2>> /\ c = <<c1, c2>>
  OBVIOUS
<1>2. a1 * b2 <= b1 * a2 /\ b1 * c2 <= c1 * b2
  BY <1>1 DEF AtMost
<1>3. c2 * (a1 * b2) <= c2 * (b1 * a2) /\ a2 * (b1 * c2) <= a2 * (c1 * b2)
  BY <1>2, ProductIsNat, TimesMore
<1>4. /\ c2 * (a1 * b2) = b2 * (a1 * c2) /\ c2 * (b1 * a2) = a2 * (b1 * c2)
      /\ a2 * (c1 * b2) = b2 * (c1 * a2)
  OBVIOUS
<1>5. PICK x, y, z : x = a1 * c2 /\ y = c1 * a2 /\ z = a2 * (b1 * c2)
  OBVIOUS
<1>6. x \in Nat /\ y \in Nat /\ z \in Nat /\ b2 * x \in Nat /\ b2 * y \in Nat
  BY <1>5, ProductIsNat
<1>7. b2 * x <= z /\ z <= b2 * y
  BY <1>3, <1>4, <1>5
<1>8. b2 * x <= b2 * y
  BY <1>6, <1>7
<1>9. x <= y
  BY <1>6, <1>8, LessThanTimes
<1> QED
  BY <1>1, <1>5, <1>9 DEF AtMost

\* The share of all is what both have.
LEMMA MixAddsUp ==
  ASSUME NEW a \in Nat \X (Nat \ {0}), NEW w \in Nat \ {0}, NEW g \in Nat, a[1] * w = g * a[2],
         NEW h \in Nat, NEW v \in Nat \ {0}
  PROVE  Mix(a, w, <<h, v>>, v)[1] * (w + v) = (g + h) * Mix(a, w, <<h, v>>, v)[2]
<1>1. PICK a1 \in Nat, a2 \in Nat \ {0} : a = <<a1, a2>>
  OBVIOUS
<1>2. a1 * w = g * a2
  BY <1>1
<1>3. Mix(a, w, <<h, v>>, v) = <<a1 * v * w + h * a2 * v, a2 * v * (w + v)>>
  BY <1>1 DEF Mix
<1>4. a1 * v * w = v * (a1 * w) /\ h * a2 * v = v * (h * a2)
  OBVIOUS
<1>5. a1 * v * w + h * a2 * v = v * (g * a2) + v * (h * a2)
  BY <1>2, <1>4
<1>6. (v * (g * a2) + v * (h * a2)) * (w + v) = (g + h) * (a2 * v * (w + v))
  OBVIOUS
<1> QED
  BY <1>3, <1>5, <1>6

-----------------------------------------------------------------------------
(* Fingerprints: the pool                                                  *)


-----------------------------------------------------------------------------
Share == Nat \X (Nat \ {0})
PrintType == [blocks : Nat \ {0}, length : [listed : BOOLEAN, sizes : SUBSET Nat],
              global_share : Share, entities : Nat, champion_share : Share, first : Nat, last : Nat]
HadType == [blocks : Nat, global : Nat, lengths : SUBSET Nat, times : SUBSET Nat]
ClassType == [blocks : Nat, global : Nat, params : SUBSET Units, lengths : SUBSET Nat, first : Nat, last : Nat]

\* What was had before the class of this replay, and with it.
Both(old, now) ==
  [blocks |-> old.blocks + now.blocks, global |-> old.global + now.global,
   lengths |-> old.lengths \cup now.lengths, times |-> old.times \cup now.times]

Ends(first, last, times) ==
  /\ first \in times /\ \A t \in times : first <= t
  /\ last \in times /\ \A t \in times : t <= last

\* The class is what was had of it, but for the lengths beyond the cap.
ClassTells(c, now) ==
  /\ c \in ClassType /\ now \in HadType /\ IsFiniteSet(now.lengths) /\ IsFiniteSet(now.times)
  /\ c.blocks = now.blocks /\ c.global = now.global /\ IsFiniteSet(c.params)
  /\ c.lengths \subseteq now.lengths
  /\ Cardinality(c.lengths) < LENGTH_CAP => c.lengths = now.lengths
  /\ c.blocks = 0 => c.global = 0 /\ now.lengths = {} /\ now.times = {}
  /\ c.blocks > 0 => c.lengths # {} /\ Ends(c.first, c.last, now.times)

\* The lengths of the prints s, against those that were had.
LengthTells(l, every) ==
  /\ l.sizes \subseteq every /\ l.sizes # {}
  /\ ~ l.listed => Cardinality(every) >= LENGTH_CAP
LengthsTell(s, every) ==
  /\ \A i \in DOMAIN s : LengthTells(s[i].length, every)
  /\ (\A i \in DOMAIN s : s[i].length.listed) => \A n \in every : \E i \in DOMAIN s : n \in s[i].length.sizes

Between(s, share) ==
  \E i, j \in DOMAIN s : AtMost(s[i].champion_share, share) /\ AtMost(share, s[j].champion_share)

\* e sums up what was had.
SumsUp(e, old) ==
  /\ e \in PrintType /\ e.blocks = old.blocks
  /\ e.global_share[1] * e.blocks = old.global * e.global_share[2]
  /\ Ends(e.first, e.last, old.times)

UpTo(f, s) == f = [i \in DOMAIN s |-> IF i = 1 THEN s[1] ELSE Mixed(f[i - 1], s[i])]

PrintsTell(s, old) ==
  /\ s \in Seq(PrintType) /\ old \in HadType /\ IsFiniteSet(old.lengths) /\ IsFiniteSet(old.times)
  /\ s = <<>> => old = NothingHad
  /\ LengthsTell(s, old.lengths)
  /\ \E f : UpTo(f, s)
  /\ s # <<>> => \A f : UpTo(f, s) => SumsUp(f[Len(s)], old) /\ Between(s, f[Len(s)].champion_share)

PoolInv ==
  /\ \E old, now : had = Both(old, now) /\ ClassTells(class, now) /\ PrintsTell(prints, old)
  /\ fingerprint # <<>> => PoolIsTheWhole

-----------------------------------------------------------------------------
LEMMA MixedIs ==
  ASSUME NEW h \in PrintType, NEW p \in PrintType
  PROVE  LET m == Mixed(h, p) IN
         /\ m \in PrintType /\ m.blocks = h.blocks + p.blocks
         /\ m.global_share = Mix(h.global_share, h.blocks, p.global_share, p.blocks)
         /\ m.champion_share = Mix(h.champion_share, h.blocks, p.champion_share, p.blocks)
         /\ m.first = Smaller(h.first, p.first) /\ m.last = Larger(h.last, p.last)
<1> DEFINE m == Mixed(h, p)
<1>1. /\ h.blocks \in Nat \ {0} /\ h.global_share \in Share /\ h.champion_share \in Share
      /\ h.entities \in Nat /\ h.first \in Nat /\ h.last \in Nat
      /\ p.blocks \in Nat \ {0} /\ p.global_share \in Share /\ p.champion_share \in Share
      /\ p.entities \in Nat /\ p.first \in Nat /\ p.last \in Nat
  BY DEF PrintType
<1>2. PICK gs, cs, e, fi, la :
        /\ gs = Mix(h.global_share, h.blocks, p.global_share, p.blocks)
        /\ cs = Mix(h.champion_share, h.blocks, p.champion_share, p.blocks)
        /\ e = Max({h.entities, p.entities}) /\ fi = Min({h.first, p.first}) /\ la = Max({h.last, p.last})
  OBVIOUS
<1>3. gs \in Share /\ cs \in Share
  BY <1>1, <1>2, MixIsBetween DEF Share
<1>4. /\ e = Larger(h.entities, p.entities) /\ fi = Smaller(h.first, p.first) /\ la = Larger(h.last, p.last)
      /\ e \in Nat /\ fi \in Nat /\ la \in Nat
  <2>1. /\ Max({h.entities, p.entities}) = Larger(h.entities, p.entities)
        /\ Min({h.first, p.first}) = Smaller(h.first, p.first)
        /\ Max({h.last, p.last}) = Larger(h.last, p.last)
    <3>1. \A x, y \in Nat : Min({x, y}) = Smaller(x, y) /\ Max({x, y}) = Larger(x, y)
      <4> TAKE x, y \in Nat
      <4>1. x \in Int /\ y \in Int
        OBVIOUS
      <4> QED
        BY <4>1, OfTwo
    <3> QED
      BY <1>1, <3>1, Zenon
  <2> QED
    BY <1>1, <1>2, <2>1 DEF Larger, Smaller
<1>5. m = [h EXCEPT !.blocks = h.blocks + p.blocks, !.global_share = gs, !.champion_share = cs,
                    !.entities = e, !.first = fi, !.last = la]
  BY <1>2, Zenon DEF Mixed
<1>6. h.blocks + p.blocks \in Nat \ {0}
  BY <1>1
<1> HIDE DEF m
<1>7. /\ m \in PrintType /\ m.blocks = h.blocks + p.blocks /\ m.global_share = gs /\ m.champion_share = cs
      /\ m.first = fi /\ m.last = la
  BY <1>3, <1>4, <1>5, <1>6 DEF PrintType
<1> QED
  BY <1>2, <1>4, <1>7 DEF m

\* A print of now, mixed to those of old, sums up both.
LEMMA MixedSumsUp ==
  ASSUME NEW h, NEW old \in HadType, SumsUp(h, old), NEW p, NEW now \in HadType, SumsUp(p, now),
         p.global_share = <<now.global, p.blocks>>
  PROVE  SumsUp(Mixed(h, p), Both(old, now))
<1>1. h \in PrintType /\ p \in PrintType
  BY DEF SumsUp
<1>2. PICK m : m = Mixed(h, p)
  OBVIOUS
<1>3. /\ m \in PrintType /\ m.blocks = h.blocks + p.blocks
      /\ m.global_share = Mix(h.global_share, h.blocks, p.global_share, p.blocks)
      /\ m.first = Smaller(h.first, p.first) /\ m.last = Larger(h.last, p.last)
  BY <1>1, <1>2, MixedIs
<1>4. PICK b : b = Both(old, now)
  OBVIOUS
<1>5. /\ b.blocks = old.blocks + now.blocks /\ b.global = old.global + now.global
      /\ b.times = old.times \cup now.times
  BY <1>4 DEF Both
<1>6. h.blocks = old.blocks /\ p.blocks = now.blocks
  BY DEF SumsUp
<1>7. m.global_share[1] * m.blocks = b.global * m.global_share[2]
  <2>1. /\ h.global_share \in Nat \X (Nat \ {0}) /\ h.blocks \in Nat \ {0} /\ p.blocks \in Nat \ {0}
        /\ old.global \in Nat /\ now.global \in Nat
    BY <1>1 DEF PrintType, Share, HadType
  <2>2. h.global_share[1] * h.blocks = old.global * h.global_share[2]
    BY DEF SumsUp
  <2>3. PICK a, w, v, g, k :
          a = h.global_share /\ w = h.blocks /\ v = p.blocks /\ g = old.global /\ k = now.global
    OBVIOUS
  <2>4. /\ a \in Nat \X (Nat \ {0}) /\ w \in Nat \ {0} /\ v \in Nat \ {0} /\ g \in Nat /\ k \in Nat
        /\ a[1] * w = g * a[2]
    BY <2>1, <2>2, <2>3
  <2>5. Mix(a, w, <<k, v>>, v)[1] * (w + v) = (g + k) * Mix(a, w, <<k, v>>, v)[2]
    BY <2>4, MixAddsUp
  <2> QED
    BY <1>3, <1>5, <2>3, <2>5, Zenon
<1>8. Ends(m.first, m.last, b.times)
  <2>1. Ends(h.first, h.last, old.times) /\ Ends(p.first, p.last, now.times)
    BY DEF SumsUp
  <2>2. h.first \in Nat /\ h.last \in Nat /\ p.first \in Nat /\ p.last \in Nat
    BY <1>1 DEF PrintType
  <2>3. old.times \subseteq Nat /\ now.times \subseteq Nat
    BY DEF HadType
  <2>4. PICK f, g, k, l : f = h.first /\ g = p.first /\ k = h.last /\ l = p.last
    OBVIOUS
  <2> QED
    BY <1>3, <1>5, <2>1, <2>2, <2>3, <2>4 DEF Ends, Smaller, Larger
<1>9. m.blocks = b.blocks
  BY <1>3, <1>5, <1>6
<1> QED
  BY <1>2, <1>3, <1>4, <1>7, <1>8, <1>9 DEF SumsUp

LEMMA BetweenMore ==
  ASSUME NEW s \in Seq(PrintType), NEW h \in PrintType, Between(s, h.champion_share), NEW p \in PrintType
  PROVE  Between(Append(s, p), Mixed(h, p).champion_share)
<1>1. PICK m : m = Mix(h.champion_share, h.blocks, p.champion_share, p.blocks)
  OBVIOUS
<1>2. Mixed(h, p).champion_share = m
  BY <1>1, MixedIs
<1>3. PICK a, c : a = h.champion_share /\ c = p.champion_share
  OBVIOUS
<1>4. a \in Share /\ c \in Share /\ h.blocks \in Nat \ {0} /\ p.blocks \in Nat \ {0}
  BY <1>3 DEF PrintType
<1>5. /\ m \in Share
      /\ AtMost(a, c) => AtMost(a, m) /\ AtMost(m, c)
      /\ ~ AtMost(a, c) => AtMost(c, m) /\ AtMost(m, a)
  BY <1>1, <1>3, <1>4, MixIsBetween DEF Share
<1>6. PICK i, j \in DOMAIN s : AtMost(s[i].champion_share, a) /\ AtMost(a, s[j].champion_share)
  BY <1>3 DEF Between
<1>7. s[i].champion_share \in Share /\ s[j].champion_share \in Share
  <2>1. s[i] \in PrintType /\ s[j] \in PrintType
    OBVIOUS
  <2> QED
    BY <2>1 DEF PrintType
<1>8. PICK t : t = Append(s, p)
  OBVIOUS
<1>9. /\ i \in DOMAIN t /\ j \in DOMAIN t /\ t[i] = s[i] /\ t[j] = s[j]
      /\ Len(t) \in DOMAIN t /\ t[Len(t)] = p
  BY <1>8
<1>10. CASE AtMost(a, c)
  <2>1. AtMost(s[i].champion_share, m)
    BY <1>4, <1>5, <1>6, <1>7, <1>10, AtMostThrough DEF Share
  <2>2. AtMost(t[i].champion_share, m) /\ AtMost(m, t[Len(t)].champion_share)
    BY <1>3, <1>5, <1>9, <1>10, <2>1
  <2> QED
    BY <1>2, <1>8, <1>9, <2>2 DEF Between
<1>11. CASE ~ AtMost(a, c)
  <2>1. AtMost(m, s[j].champion_share)
    BY <1>4, <1>5, <1>6, <1>7, <1>11, AtMostThrough DEF Share
  <2>2. AtMost(t[Len(t)].champion_share, m) /\ AtMost(m, t[j].champion_share)
    BY <1>3, <1>5, <1>9, <1>11, <2>1
  <2> QED
    BY <1>2, <1>8, <1>9, <2>2 DEF Between
<1> QED
  BY <1>10, <1>11

\* One more print, of what was had now.
LEMMA OneMorePrint ==
  ASSUME NEW s, NEW old, PrintsTell(s, old), NEW p, NEW now \in HadType,
         IsFiniteSet(now.lengths), IsFiniteSet(now.times),
         SumsUp(p, now), p.global_share = <<now.global, p.blocks>>, LengthTells(p.length, now.lengths),
         p.length.listed => p.length.sizes = now.lengths
  PROVE  PrintsTell(Append(s, p), Both(old, now))
<1>1. PICK t, b, n : t = Append(s, p) /\ b = Both(old, now) /\ n = Len(s)
  OBVIOUS
<1>2. s \in Seq(PrintType) /\ p \in PrintType /\ old \in HadType /\ n \in Nat /\ DOMAIN s = 1 .. n
  BY <1>1 DEF PrintsTell, SumsUp
<1>3. /\ t \in Seq(PrintType) /\ Len(t) = n + 1 /\ DOMAIN t = 1 .. n + 1 /\ t[n + 1] = p /\ t # <<>>
      /\ \A i \in DOMAIN s : i \in DOMAIN t /\ t[i] = s[i] /\ i # n + 1
      /\ \A i \in DOMAIN t : i = n + 1 \/ i \in DOMAIN s
      /\ n + 1 \in DOMAIN t
  BY <1>1, <1>2
<1>4. /\ b \in HadType /\ b.lengths = old.lengths \cup now.lengths /\ b.times = old.times \cup now.times
      /\ b.blocks = old.blocks + now.blocks /\ b.global = old.global + now.global
  BY <1>1, <1>2 DEF Both, HadType
<1>5. IsFiniteSet(b.lengths) /\ IsFiniteSet(b.times)
  <2>1. PICK k, l, u, v : k = old.lengths /\ l = now.lengths /\ u = old.times /\ v = now.times
    OBVIOUS
  <2>2. IsFiniteSet(k) /\ IsFiniteSet(l) /\ IsFiniteSet(u) /\ IsFiniteSet(v)
    BY <2>1 DEF PrintsTell
  <2>3. IsFiniteSet(k \cup l) /\ IsFiniteSet(u \cup v)
    BY <2>2, FS_Union
  <2> QED
    BY <1>4, <2>1, <2>3
<1>6. Cardinality(b.lengths) >= Cardinality(old.lengths) /\ Cardinality(b.lengths) >= Cardinality(now.lengths)
      /\ Cardinality(b.lengths) \in Nat /\ Cardinality(old.lengths) \in Nat /\ Cardinality(now.lengths) \in Nat
  <2>1. IsFiniteSet(old.lengths) /\ old.lengths \in SUBSET b.lengths /\ now.lengths \in SUBSET b.lengths
    BY <1>4 DEF PrintsTell
  <2>2. Cardinality(old.lengths) <= Cardinality(b.lengths) /\ Cardinality(now.lengths) <= Cardinality(b.lengths)
    BY <1>5, <2>1, FS_Subset
  <2> QED
    BY <1>5, <2>1, <2>2, FS_CardinalityType
<1>7. LengthsTell(t, b.lengths)
  <2>1. \A i \in DOMAIN s : LengthTells(s[i].length, b.lengths)
    <3> SUFFICES ASSUME NEW i \in DOMAIN s PROVE LengthTells(s[i].length, b.lengths)
      OBVIOUS
    <3>1. LengthTells(s[i].length, old.lengths)
      BY DEF PrintsTell, LengthsTell
    <3> QED
      BY <1>4, <1>6, <3>1, FingerprintAssumption DEF LengthTells
  <2>2. LengthTells(p.length, b.lengths)
    BY <1>4, <1>6, FingerprintAssumption DEF LengthTells
  <2>3. ASSUME \A i \in DOMAIN t : t[i].length.listed, NEW k \in b.lengths
        PROVE  \E i \in DOMAIN t : k \in t[i].length.sizes
    <3>1. CASE k \in old.lengths
      <4>1. \A i \in DOMAIN s : s[i].length.listed
        BY <1>3, <2>3
      <4>2. PICK i \in DOMAIN s : k \in s[i].length.sizes
        BY <3>1, <4>1 DEF PrintsTell, LengthsTell
      <4> QED
        BY <1>3, <4>2
    <3>2. CASE k \in now.lengths
      BY <1>3, <2>3, <3>2
    <3> QED
      BY <1>4, <3>1, <3>2
  <2>4. \A i \in DOMAIN t : LengthTells(t[i].length, b.lengths)
    BY <1>3, <2>1, <2>2
  <2> QED
    BY <2>3, <2>4 DEF LengthsTell
<1>8. \E f : UpTo(f, t)
  <2>1. PICK f : UpTo(f, s)
    BY DEF PrintsTell
  <2>2. PICK last : last = IF n + 1 = 1 THEN t[1] ELSE Mixed(f[n], p)
    OBVIOUS
  <2> DEFINE g == [i \in DOMAIN t |-> IF i = n + 1 THEN last ELSE f[i]]
  <2>3. \A i \in DOMAIN s : g[i] = f[i] /\ f[i] = IF i = 1 THEN s[1] ELSE Mixed(f[i - 1], s[i])
    BY <1>3, <2>1 DEF UpTo
  <2>4. ASSUME NEW i \in DOMAIN t PROVE g[i] = IF i = 1 THEN t[1] ELSE Mixed(g[i - 1], t[i])
    <3>1. CASE i = n + 1
      <4>1. g[i] = last /\ i - 1 = n /\ t[i] = p
        BY <1>2, <1>3, <3>1
      <4>2. n + 1 # 1 => g[n] = f[n]
        BY <1>2, <1>3
      <4> HIDE DEF g
      <4> QED
        BY <2>2, <3>1, <4>1, <4>2
    <3>2. CASE i \in DOMAIN s
      <4>1. i # 1 => i - 1 \in DOMAIN s
        BY <1>2, <3>2
      <4>2. t[i] = s[i] /\ (i = 1 => t[1] = s[1])
        BY <1>3, <3>2
      <4> HIDE DEF g
      <4> QED
        BY <2>3, <3>2, <4>1, <4>2
    <3> QED
      BY <1>3, <3>1, <3>2
  <2>5. g = [i \in DOMAIN t |-> g[i]]
    OBVIOUS
  <2> HIDE DEF g
  <2>6. UpTo(g, t)
    BY <2>4, <2>5 DEF UpTo
  <2> QED
    BY <2>6
<1>9. ASSUME NEW f, UpTo(f, t)
      PROVE  SumsUp(f[n + 1], b) /\ Between(t, f[n + 1].champion_share)
  <2>1. \A i \in DOMAIN t : f[i] = IF i = 1 THEN t[1] ELSE Mixed(f[i - 1], t[i])
    BY <1>9 DEF UpTo
  <2>2. CASE n = 0
    <3>1. f[n + 1] = p
      BY <1>3, <2>1, <2>2
    <3>2. old = NothingHad
      BY <1>1, <1>2, <2>2 DEF PrintsTell
    <3>3. b.blocks = now.blocks /\ b.global = now.global /\ b.times = now.times
      BY <1>4, <3>2 DEF NothingHad, HadType
    <3>4. SumsUp(p, b)
      BY <3>3 DEF SumsUp
    <3>5. AtMost(p.champion_share, p.champion_share)
      <4>1. p.champion_share[1] \in Nat /\ p.champion_share[2] \in Nat
        BY <1>2 DEF PrintType, Share
      <4> QED
        BY <4>1 DEF AtMost
    <3>6. Between(t, p.champion_share)
      BY <1>3, <3>5 DEF Between
    <3> QED
      BY <3>1, <3>4, <3>6
  <2>3. CASE n # 0
    <3> DEFINE r == [i \in DOMAIN s |-> f[i]]
    <3>0. s # <<>> /\ n \in DOMAIN s /\ n + 1 # 1 /\ n + 1 - 1 = n
      BY <1>1, <1>2, <2>3
    <3>1. ASSUME NEW i \in DOMAIN s PROVE r[i] = IF i = 1 THEN s[1] ELSE Mixed(r[i - 1], s[i])
      <4>1. f[i] = IF i = 1 THEN s[1] ELSE Mixed(f[i - 1], s[i])
        BY <1>3, <2>1, <3>1
      <4>2. i # 1 => i - 1 \in DOMAIN s
        BY <1>2, <3>1
      <4>3. r[i] = f[i] /\ (i # 1 => r[i - 1] = f[i - 1])
        BY <4>2
      <4> HIDE DEF r
      <4> QED
        BY <4>1, <4>3
    <3>2. r = [i \in DOMAIN s |-> r[i]] /\ r[n] = f[n]
      BY <3>0
    <3> HIDE DEF r
    <3>3. UpTo(r, s)
      BY <3>1, <3>2 DEF UpTo
    <3>4. SumsUp(f[n], old) /\ Between(s, f[n].champion_share)
      BY <1>1, <3>0, <3>2, <3>3 DEF PrintsTell
    <3>5. f[n + 1] = Mixed(f[n], p)
      BY <1>3, <2>1, <3>0
    <3>6. SumsUp(f[n + 1], b)
      BY <1>1, <1>2, <3>4, <3>5, MixedSumsUp
    <3>7. f[n] \in PrintType
      BY <3>4 DEF SumsUp
    <3>8. Between(t, f[n + 1].champion_share)
      BY <1>1, <1>2, <3>4, <3>5, <3>7, BetweenMore
    <3> QED
      BY <3>6, <3>8
  <2> QED
    BY <2>2, <2>3
<1>10. PrintsTell(t, b)
  BY <1>3, <1>4, <1>5, <1>7, <1>8, <1>9 DEF PrintsTell
<1> QED
  BY <1>1, <1>10

-----------------------------------------------------------------------------
LEMMA ClassBlockKeeps ==
  ASSUME PoolInv, NEW len \in Lengths, NEW param \in {Game} \cup {{u} : u \in Units}, NEW t \in Stamps,
         ClassBlock(len, param, t)
  PROVE  PoolInv'
<1>1. PICK old, now : had = Both(old, now) /\ ClassTells(class, now) /\ PrintsTell(prints, old)
  BY DEF PoolInv
<1>2. PICK one : one = IF param = Game THEN 1 ELSE 0
  OBVIOUS
<1>3. one \in Nat /\ len \in Nat /\ t \in Nat
  BY <1>2, FingerprintAssumption
<1> DEFINE new == [blocks |-> now.blocks + 1, global |-> now.global + one,
                   lengths |-> now.lengths \cup {len}, times |-> now.times \cup {t}]
<1>4. /\ class' = [blocks  |-> class.blocks + 1, global  |-> class.global + one,
                   params  |-> class.params \cup param, lengths |-> KeptLengths(len),
                   first   |-> IF class.blocks = 0 THEN t ELSE class.first, last |-> t]
      /\ had' = [blocks  |-> had.blocks + 1, global |-> had.global + one,
                 lengths |-> had.lengths \cup {len}, times |-> had.times \cup {t}]
      /\ UNCHANGED <<prints, fingerprint>> /\ fingerprint = <<>>
      /\ class.blocks > 0 => t >= class.last
  BY <1>2, Zenon DEF ClassBlock
<1>5. /\ class \in ClassType /\ now \in HadType /\ old \in HadType /\ class.blocks = now.blocks
      /\ class.global = now.global /\ IsFiniteSet(class.params) /\ class.lengths \subseteq now.lengths
      /\ IsFiniteSet(now.lengths) /\ IsFiniteSet(now.times)
  BY <1>1 DEF ClassTells, PrintsTell
<1>6. new \in HadType /\ IsFiniteSet(new.lengths) /\ IsFiniteSet(new.times)
  <2>1. now.blocks \in Nat /\ now.global \in Nat /\ now.lengths \subseteq Nat /\ now.times \subseteq Nat
    BY <1>5 DEF HadType
  <2>2. IsFiniteSet(now.lengths \cup {len}) /\ IsFiniteSet(now.times \cup {t})
    BY <1>5, FS_AddElement
  <2> QED
    BY <1>3, <2>1, <2>2 DEF HadType
<1>7. had' = Both(old, new)
  <2>1. /\ had.blocks = old.blocks + now.blocks /\ had.global = old.global + now.global
        /\ had.lengths = old.lengths \cup now.lengths /\ had.times = old.times \cup now.times
    BY <1>1 DEF Both
  <2>2. old.blocks \in Nat /\ now.blocks \in Nat /\ old.global \in Nat /\ now.global \in Nat
    BY <1>5 DEF HadType
  <2>3. /\ had.blocks + 1 = old.blocks + (now.blocks + 1) /\ had.global + one = old.global + (now.global + one)
        /\ had.lengths \cup {len} = old.lengths \cup (now.lengths \cup {len})
        /\ had.times \cup {t} = old.times \cup (now.times \cup {t})
    BY <1>3, <2>1, <2>2
  <2> QED
    BY <1>4, <2>3 DEF Both
<1>8. /\ KeptLengths(len) \subseteq new.lengths /\ KeptLengths(len) # {}
      /\ Cardinality(KeptLengths(len)) < LENGTH_CAP => KeptLengths(len) = new.lengths
  <2>1. CASE Cardinality(class.lengths) < LENGTH_CAP
    <3>1. class.lengths = now.lengths /\ KeptLengths(len) = class.lengths \cup {len}
      BY <1>1, <2>1, Zenon DEF ClassTells, KeptLengths
    <3> QED
      BY <3>1
  <2>2. CASE ~ (Cardinality(class.lengths) < LENGTH_CAP)
    <3>1. KeptLengths(len) = class.lengths
      BY <2>2, Zenon DEF KeptLengths
    <3>2. class.lengths # {}
      BY <2>2, FS_EmptySet, FingerprintAssumption
    <3> QED
      BY <1>5, <2>2, <3>1, <3>2
  <2> QED
    BY <2>1, <2>2
<1>9. ClassTells(class', new)
  <2>1. /\ class.blocks \in Nat /\ class.global \in Nat /\ class.params \subseteq Units
        /\ class.first \in Nat /\ class.last \in Nat /\ now.lengths \subseteq Nat
    BY <1>5 DEF ClassType, HadType
  <2>2. param \subseteq Units /\ IsFiniteSet(param)
    BY FS_EmptySet, FS_Singleton DEF Game
  <2>3. IsFiniteSet(class.params \cup param)
    BY <1>5, <2>2, FS_Union
  <2>4. KeptLengths(len) \subseteq Nat
    BY <1>6, <1>8 DEF HadType
  <2>5. class' \in ClassType
    <3>1. (IF class.blocks = 0 THEN t ELSE class.first) \in Nat /\ class.blocks + 1 \in Nat
          /\ class.global + one \in Nat
      BY <1>3, <2>1
    <3> QED
      BY <1>3, <1>4, <2>1, <2>2, <2>4, <3>1 DEF ClassType
  <2>6. class'.blocks = new.blocks /\ class'.global = new.global /\ class'.blocks > 0 /\ class'.blocks # 0
    BY <1>4, <1>5, <2>1
  <2>7. Ends(class'.first, class'.last, new.times)
    <3>1. class'.last = t /\ new.times = now.times \cup {t} /\ now.times \subseteq Nat
      BY <1>4, <1>5 DEF HadType
    <3>2. CASE class.blocks = 0
      <4>1. now.times = {} /\ class'.first = t
        BY <1>1, <1>4, <3>2 DEF ClassTells
      <4> QED
        BY <1>3, <3>1, <4>1 DEF Ends
    <3>3. CASE class.blocks > 0
      <4>1. Ends(class.first, class.last, now.times) /\ t >= class.last /\ class'.first = class.first
        BY <1>1, <1>4, <2>1, <3>3 DEF ClassTells
      <4>2. PICK f, l, s : f = class.first /\ l = class.last /\ s = now.times
        OBVIOUS
      <4>3. f \in Nat /\ l \in Nat /\ s \subseteq Nat /\ Ends(f, l, s) /\ t >= l
        BY <2>1, <3>1, <4>1, <4>2
      <4>4. Ends(f, t, s \cup {t})
        BY <1>3, <4>3 DEF Ends
      <4> QED
        BY <3>1, <4>1, <4>2, <4>4
    <3> QED
      BY <2>1, <3>2, <3>3
  <2> HIDE DEF new
  <2> QED
    BY <1>4, <1>6, <1>8, <2>3, <2>5, <2>6, <2>7 DEF ClassTells
<1> HIDE DEF new
<1> QED
  BY <1>1, <1>4, <1>7, <1>9 DEF PoolInv

\* A print's lengths are the class's: all of them, or the ends of those kept.
LEMMA LengthOfClass ==
  ASSUME NEW sizes, NEW every \in SUBSET Nat, IsFiniteSet(every), sizes \subseteq every, sizes # {},
         Cardinality(sizes) < LENGTH_CAP => sizes = every
  PROVE  LET l == LengthOf(sizes) IN
         /\ l \in [listed : BOOLEAN, sizes : SUBSET Nat] /\ LengthTells(l, every)
         /\ l.listed => l.sizes = every
<1>1. sizes \in SUBSET Nat /\ IsFiniteSet(sizes) /\ Cardinality(sizes) <= Cardinality(every)
  BY FS_Subset
<1>2. Cardinality(sizes) \in Nat /\ Cardinality(every) \in Nat /\ LENGTH_CAP \in Nat
  BY <1>1, FS_CardinalityType, FingerprintAssumption
<1>3. {Min(sizes), Max(sizes)} \subseteq sizes
  BY <1>1, EndsOf
<1>4. CASE Cardinality(sizes) < LENGTH_CAP
  <2>1. LengthOf(sizes) = [listed |-> TRUE, sizes |-> sizes]
    BY <1>4, Zenon DEF LengthOf, Listed
  <2> QED
    BY <1>1, <1>4, <2>1 DEF LengthTells
<1>5. CASE ~ (Cardinality(sizes) < LENGTH_CAP)
  <2>1. PICK e : e = {Min(sizes), Max(sizes)}
    OBVIOUS
  <2>2. e \subseteq sizes /\ e # {}
    BY <1>3, <2>1
  <2>3. LengthOf(sizes) = [listed |-> FALSE, sizes |-> e]
    BY <1>5, <2>1, Zenon DEF LengthOf, Variable
  <2> QED
    BY <1>1, <1>2, <1>5, <2>2, <2>3 DEF LengthTells
<1> QED
  BY <1>4, <1>5

LEMMA ClassEndKeeps == ASSUME PoolInv, ClassEnd PROVE PoolInv'
<1>1. PICK old, now : had = Both(old, now) /\ ClassTells(class, now) /\ PrintsTell(prints, old)
  BY DEF PoolInv
<1>2. PICK cs, k, l :
        /\ k = Cardinality(class.params) /\ l = LengthOf(class.lengths)
        /\ cs = <<Cardinality(class.params \cap ChampionIds), AtLeastOne(Cardinality(class.params))>>
  OBVIOUS
<1>3. PICK p : p = [blocks |-> class.blocks, length |-> l, global_share |-> <<class.global, class.blocks>>,
                    entities |-> k, champion_share |-> cs, first |-> class.first, last |-> class.last]
  OBVIOUS
<1>4. /\ prints' = Append(prints, p) /\ class' = NoBlocks /\ UNCHANGED <<had, fingerprint>>
      /\ fingerprint = <<>> /\ class.blocks > 0
  BY <1>2, <1>3, Zenon DEF ClassEnd
<1>5. /\ class \in ClassType /\ now \in HadType /\ old \in HadType /\ class.blocks = now.blocks
      /\ class.global = now.global /\ IsFiniteSet(class.params) /\ class.lengths \subseteq now.lengths
      /\ IsFiniteSet(now.lengths) /\ IsFiniteSet(now.times) /\ class.lengths # {}
      /\ Cardinality(class.lengths) < LENGTH_CAP => class.lengths = now.lengths
      /\ Ends(class.first, class.last, now.times)
  BY <1>1, <1>4 DEF ClassTells, PrintsTell
<1>6. /\ class.blocks \in Nat \ {0} /\ class.global \in Nat /\ class.first \in Nat /\ class.last \in Nat
      /\ now.lengths \in SUBSET Nat
  BY <1>4, <1>5 DEF ClassType, HadType
<1>7. cs \in Share /\ k \in Nat
  <2>1. IsFiniteSet(class.params \cap ChampionIds)
    BY <1>5, FS_Intersection
  <2>2. Cardinality(class.params \cap ChampionIds) \in Nat /\ k \in Nat
    BY <1>2, <1>5, <2>1, FS_CardinalityType
  <2>3. AtLeastOne(k) \in Nat \ {0}
    <3>1. Max({k, 1}) >= 1 /\ Max({k, 1}) \in Int
      <4>1. k \in Int /\ 1 \in Int
        BY <2>2
      <4> QED
        BY <4>1, OfTwo
    <3> QED
      BY <3>1 DEF AtLeastOne
  <2> QED
    BY <1>2, <2>2, <2>3 DEF Share
<1>8. /\ l \in [listed : BOOLEAN, sizes : SUBSET Nat] /\ LengthTells(l, now.lengths)
      /\ l.listed => l.sizes = now.lengths
  BY <1>2, <1>5, <1>6, LengthOfClass
<1>9. p \in PrintType
  BY <1>3, <1>6, <1>7, <1>8 DEF PrintType, Share
<1>10. SumsUp(p, now)
  <2>1. p.global_share[1] * p.blocks = now.global * p.global_share[2]
    <3>1. p.global_share[1] = class.global /\ p.global_share[2] = class.blocks /\ p.blocks = class.blocks
      BY <1>3
    <3> QED
      BY <1>5, <3>1
  <2> QED
    BY <1>3, <1>5, <1>9, <2>1 DEF SumsUp
<1>11. PrintsTell(prints', had)
  <2>1. p.global_share = <<now.global, p.blocks>> /\ p.length = l
    BY <1>3, <1>5
  <2>2. PrintsTell(Append(prints, p), Both(old, now))
    BY <1>1, <1>5, <1>8, <1>10, <2>1, OneMorePrint
  <2> QED
    BY <1>1, <1>4, <2>2
<1>12. had' = Both(had, NothingHad)
  <2>1. PICK b, g, ls, ts : /\ b = old.blocks + now.blocks /\ g = old.global + now.global
                            /\ ls = old.lengths \cup now.lengths /\ ts = old.times \cup now.times
    OBVIOUS
  <2>2. had = [blocks |-> b, global |-> g, lengths |-> ls, times |-> ts]
    BY <1>1, <2>1, Zenon DEF Both
  <2>3. b \in Nat /\ g \in Nat
    BY <1>5, <2>1 DEF HadType
  <2>4. b + 0 = b /\ g + 0 = g /\ ls \cup {} = ls /\ ts \cup {} = ts
    BY <2>3
  <2>5. Both(had, NothingHad) = [blocks |-> b + 0, global |-> g + 0, lengths |-> ls \cup {}, times |-> ts \cup {}]
    BY <2>2 DEF Both, NothingHad
  <2> QED
    BY <1>4, <2>2, <2>4, <2>5
<1>13. ClassTells(NoBlocks, NothingHad)
  BY FS_EmptySet DEF ClassTells, NoBlocks, NothingHad, ClassType, HadType
<1> QED
  BY <1>4, <1>11, <1>12, <1>13 DEF PoolInv

\* The sizes of all prints.
LEMMA PooledLengthTells ==
  ASSUME NEW old, PrintsTell(prints, old), prints # <<>>
  PROVE  IF PooledLength.listed THEN PooledLength.sizes = old.lengths
         ELSE PooledLength.sizes \subseteq old.lengths /\ Cardinality(old.lengths) >= LENGTH_CAP
<1>1. PICK sizes : sizes = UNION {prints[i].length.sizes : i \in DOMAIN prints}
  OBVIOUS
<1>2. /\ \A i \in DOMAIN prints : LengthTells(prints[i].length, old.lengths)
      /\ old.lengths \in SUBSET Nat /\ IsFiniteSet(old.lengths)
      /\ (\A i \in DOMAIN prints : prints[i].length.listed) =>
           \A n \in old.lengths : \E i \in DOMAIN prints : n \in prints[i].length.sizes
  BY DEF PrintsTell, LengthsTell, HadType
<1>3. 1 \in DOMAIN prints
  <2>1. prints \in Seq(PrintType)
    BY DEF PrintsTell
  <2> QED
    BY <2>1
<1>4. sizes \subseteq old.lengths /\ sizes # {}
  BY <1>1, <1>2, <1>3 DEF LengthTells
<1>5. (\A i \in DOMAIN prints : prints[i].length.listed) => sizes = old.lengths
  BY <1>1, <1>2, <1>4
<1>6. CASE \E i \in DOMAIN prints : ~ prints[i].length.listed
  <2>1. PooledLength = Variable(sizes)
    BY <1>1, <1>6, Zenon DEF PooledLength
  <2>2. PooledLength.listed = FALSE /\ PooledLength.sizes = {Min(sizes), Max(sizes)}
    BY <2>1, Zenon DEF Variable
  <2>3. sizes \in SUBSET Nat /\ IsFiniteSet(sizes)
    BY <1>2, <1>4, FS_Subset
  <2>4. {Min(sizes), Max(sizes)} \subseteq sizes
    BY <1>4, <2>3, EndsOf
  <2>5. Cardinality(old.lengths) >= LENGTH_CAP
    BY <1>2, <1>6 DEF LengthTells
  <2> QED
    BY <1>4, <2>2, <2>4, <2>5
<1>7. CASE ~ \E i \in DOMAIN prints : ~ prints[i].length.listed
  <2>1. PooledLength = LengthOf(sizes) /\ sizes = old.lengths
    BY <1>1, <1>5, <1>7, Zenon DEF PooledLength
  <2>2. LengthTells(LengthOf(sizes), old.lengths) /\ (LengthOf(sizes).listed => LengthOf(sizes).sizes = old.lengths)
    BY <1>2, <1>4, <2>1, LengthOfClass
  <2> QED
    BY <2>1, <2>2 DEF LengthTells
<1> QED
  BY <1>6, <1>7

LEMMA PoolKeeps == ASSUME PoolInv, Pool PROVE PoolInv'
<1>1. PICK old, now : had = Both(old, now) /\ ClassTells(class, now) /\ PrintsTell(prints, old)
  BY DEF PoolInv
<1>2. /\ class.blocks = 0 /\ prints # <<>> /\ UNCHANGED <<class, prints, had>>
      /\ fingerprint' = [mixed[Len(prints)] EXCEPT !.length = PooledLength]
  BY Zenon DEF Pool
<1>3. /\ had.blocks = old.blocks /\ had.global = old.global /\ had.lengths = old.lengths /\ had.times = old.times
  <2>1. now.blocks = 0 /\ now.global = 0 /\ now.lengths = {} /\ now.times = {}
    BY <1>1, <1>2 DEF ClassTells
  <2>2. old.blocks \in Nat /\ old.global \in Nat
    BY <1>1 DEF PrintsTell, HadType
  <2>3. /\ had.blocks = old.blocks + 0 /\ had.global = old.global + 0
        /\ had.lengths = old.lengths \cup {} /\ had.times = old.times \cup {}
    BY <1>1, <2>1 DEF Both
  <2> QED
    BY <2>2, <2>3
<1>4. UpTo(mixed, prints)
  <2>1. \E f : UpTo(f, prints)
    BY <1>1 DEF PrintsTell
  <2> QED
    BY <2>1, Zenon DEF mixed, UpTo
<1>5. PICK e : e = mixed[Len(prints)]
  OBVIOUS
<1>6. SumsUp(e, old) /\ Between(prints, e.champion_share)
  BY <1>1, <1>2, <1>4, <1>5 DEF PrintsTell
<1>7. e \in PrintType
  BY <1>6 DEF SumsUp
<1>8. PICK len : len = PooledLength
  OBVIOUS
<1>9. /\ fingerprint'.blocks = e.blocks /\ fingerprint'.global_share = e.global_share
      /\ fingerprint'.first = e.first /\ fingerprint'.last = e.last
      /\ fingerprint'.champion_share = e.champion_share /\ fingerprint'.length = len
  BY <1>2, <1>5, <1>7, <1>8 DEF PrintType
<1>10. IF len.listed THEN len.sizes = had.lengths
       ELSE len.sizes \subseteq had.lengths /\ Cardinality(had.lengths) >= LENGTH_CAP
  BY <1>1, <1>2, <1>3, <1>8, PooledLengthTells
<1>11. e.first = Min(had.times) /\ e.last = Max(had.times)
  <2>1. had.times \in SUBSET Nat /\ IsFiniteSet(had.times) /\ Ends(e.first, e.last, had.times)
    BY <1>1, <1>3, <1>6 DEF PrintsTell, HadType, SumsUp
  <2>2. PICK s, f, l, m, n : s = had.times /\ f = e.first /\ l = e.last /\ m = Min(s) /\ n = Max(s)
    OBVIOUS
  <2>3. s # {}
    BY <2>1, <2>2 DEF Ends
  <2>4. m \in s /\ (\A x \in s : m <= x) /\ n \in s /\ \A x \in s : x <= n
    BY <2>1, <2>2, <2>3, EndsOf
  <2>5. f \in s /\ (\A x \in s : f <= x) /\ l \in s /\ \A x \in s : x <= l
    BY <2>1, <2>2 DEF Ends
  <2>6. f = m /\ l = n
    <3>1. f <= m /\ m <= f /\ l <= n /\ n <= l
      BY <2>4, <2>5
    <3>2. f \in Nat /\ m \in Nat /\ l \in Nat /\ n \in Nat
      BY <2>1, <2>2, <2>4, <2>5
    <3> QED
      BY <3>1, <3>2
  <2> QED
    BY <2>2, <2>6
<1>12. \E low, high \in {prints[i].champion_share : i \in DOMAIN prints} :
         AtMost(low, e.champion_share) /\ AtMost(e.champion_share, high)
  BY <1>6 DEF Between
<1>13. e.blocks = had.blocks /\ e.global_share[1] * had.blocks = had.global * e.global_share[2]
  BY <1>3, <1>6 DEF SumsUp
<1>14. PoolIsTheWhole'
  BY <1>2, <1>9, <1>10, <1>11, <1>12, <1>13, Zenon DEF PoolIsTheWhole, AtMost
<1> QED
  BY <1>1, <1>2, <1>14, Zenon DEF PoolInv

LEMMA PoolStep == PoolInv /\ [FingerprintNext]_fingerprintPart => PoolInv'
<1> SUFFICES ASSUME PoolInv, [FingerprintNext]_fingerprintPart PROVE PoolInv'
  OBVIOUS
<1>1. CASE UNCHANGED fingerprintPart
  BY <1>1, Zenon DEF fingerprintPart, PoolInv, PoolIsTheWhole
<1> QED
  BY <1>1, ClassBlockKeeps, ClassEndKeeps, PoolKeeps DEF FingerprintNext

\* However blocks and replays come, the pool's fingerprint is that of all blocks
\* together (explore.rs:1612-1669).
THEOREM PoolsAreWhole == FingerprintSpec => []PoolIsTheWhole
<1>1. FingerprintInit => PoolInv
  <2> SUFFICES ASSUME FingerprintInit PROVE PoolInv
    OBVIOUS
  <2>1. had = Both(NothingHad, NothingHad)
    BY DEF FingerprintInit, Both, NothingHad
  <2>2. ClassTells(class, NothingHad)
    BY FS_EmptySet DEF FingerprintInit, ClassTells, NoBlocks, NothingHad, ClassType, HadType
  <2>3. prints = <<>> /\ DOMAIN prints = {} /\ prints \in Seq(PrintType) /\ fingerprint = <<>>
    BY DEF FingerprintInit
  <2>4. UpTo([i \in {} |-> 0], prints)
    BY <2>3 DEF UpTo
  <2>5. PrintsTell(prints, NothingHad)
    BY <2>3, <2>4, FS_EmptySet DEF PrintsTell, LengthsTell, NothingHad, HadType
  <2> QED
    BY <2>1, <2>2, <2>3, <2>5 DEF PoolInv
<1>2. PoolInv => PoolIsTheWhole
  BY DEF PoolInv, PoolIsTheWhole
<1> QED
  BY <1>1, <1>2, PoolStep, PTL DEF FingerprintSpec

-----------------------------------------------------------------------------
(* Arrays: entry sizes                                                     *)

\* A number has one place in one entry.
LEMMA NotBefore ==
  ASSUME NEW T \in Nat \ {0}, NEW e \in Nat, NEW f \in Nat, NEW i \in 0 .. T - 1, NEW k \in 0 .. T - 1,
         e * T + i = f * T + k
  PROVE  ~ (e < f)
<1> SUFFICES ASSUME e + 1 <= f PROVE FALSE
  OBVIOUS
<1>1. (e + 1) * T <= f * T
  BY TimesMore
<1>2. (e + 1) * T = e * T + 1 * T /\ 1 * T = T
  BY Distributes
<1>3. PICK x, y : x = e * T /\ y = f * T
  OBVIOUS
<1>4. x \in Nat /\ y \in Nat /\ x + T <= y /\ x + i = y + k
  BY <1>1, <1>2, <1>3, ProductIsNat
<1> QED
  BY <1>4

LEMMA OnePlace ==
  ASSUME NEW T \in Nat \ {0}, NEW e \in Nat, NEW f \in Nat, NEW i \in 0 .. T - 1, NEW k \in 0 .. T - 1,
         e * T + i = f * T + k
  PROVE  e = f /\ i = k
<1>1. ~ (e < f) /\ ~ (f < e)
  BY NotBefore
<1>2. e = f
  BY <1>1
<1>3. PICK x : x = e * T
  OBVIOUS
<1>4. x \in Nat /\ x + i = x + k
  BY <1>2, <1>3, ProductIsNat
<1> QED
  BY <1>2, <1>4

\* Of two sizes of as many entries, one entry's size is the other's.
LEMMA SameSize ==
  ASSUME NEW c \in Nat \ {0}, NEW s \in Nat, NEW t \in Nat, s * c = t * c
  PROVE  s = t
<1>1. c * s = s * c /\ c * t = t * c /\ c * s \in Nat
  BY ProductIsNat
<1>2. c * s <= c * t /\ c * t <= c * s
  BY <1>1
<1> QED
  BY <1>2, LessThanTimes

WordsOf(E, T, count) == {e * T + k : e \in 0 .. count - 1, k \in E}

\* The first entry's words; entries repeat with their size, and with no multiple of it.
LEMMA FirstEntry ==
  ASSUME NEW T \in Nat \ {0}, NEW E, E \subseteq 0 .. T - 1, NEW count \in Nat \ {0},
         NEW e \in Nat, NEW i \in 0 .. T - 1, NEW j, j = e * T + i
  PROVE  j \in WordsOf(E, T, count) <=> e <= count - 1 /\ i \in E
<1>1. ASSUME j \in WordsOf(E, T, count) PROVE e <= count - 1 /\ i \in E
  <2>1. PICK f \in 0 .. count - 1, k \in E : e * T + i = f * T + k
    BY <1>1 DEF WordsOf
  <2>2. f \in Nat /\ k \in 0 .. T - 1 /\ f <= count - 1
    OBVIOUS
  <2>3. e = f /\ i = k
    BY <2>1, <2>2, OnePlace
  <2> QED
    BY <2>2, <2>3
<1>2. ASSUME e <= count - 1, i \in E PROVE j \in WordsOf(E, T, count)
  <2>1. e \in 0 .. count - 1
    BY <1>2
  <2> QED
    BY <1>2, <2>1 DEF WordsOf
<1> QED
  BY <1>1, <1>2

LEMMA RepeatsOwn ==
  ASSUME NEW T \in Nat \ {0}, NEW E, E \subseteq 0 .. T - 1, E # {}, NEW count \in Nat \ {0}
  PROVE  /\ Repeats(WordsOf(E, T, count), count, T)
         /\ {k \in 0 .. T - 1 : k \in WordsOf(E, T, count)} = E
<1>1. PICK W : W = WordsOf(E, T, count)
  OBVIOUS
<1>2. \A i \in 0 .. T - 1 : i \in W <=> i \in E
  <2> TAKE i \in 0 .. T - 1
  <2>1. i = 0 * T + i /\ 0 <= count - 1 /\ 0 \in Nat
    OBVIOUS
  <2>2. i \in WordsOf(E, T, count) <=> 0 <= count - 1 /\ i \in E
    BY <2>1, FirstEntry
  <2> QED
    BY <1>1, <2>1, <2>2
<1>3. \A i \in 0 .. T - 1, e \in 1 .. count - 1 : i \in W <=> e * T + i \in W
  <2> TAKE i \in 0 .. T - 1, e \in 1 .. count - 1
  <2>1. e \in Nat /\ e <= count - 1
    OBVIOUS
  <2>2. e * T + i \in W <=> i \in E
    BY <1>1, <2>1, FirstEntry
  <2> QED
    BY <1>2, <2>2
<1>4. W \cap (0 .. T - 1) # {}
  BY <1>2
<1> QED
  BY <1>1, <1>2, <1>3, <1>4 DEF Repeats

LEMMA RepeatsNoMultiple ==
  ASSUME NEW T \in Nat \ {0}, NEW E, E \subseteq 0 .. T - 1, E # {}, NEW count \in Nat, count >= 2,
         NEW room \in Nat, room >= 2
  PROVE  ~ Repeats(WordsOf(E, T, count), count, room * T)
<1> SUFFICES ASSUME Repeats(WordsOf(E, T, count), count, room * T) PROVE FALSE
  OBVIOUS
<1>1. PICK W, s, l : W = WordsOf(E, T, count) /\ s = room * T /\ l = count - 1
  OBVIOUS
<1>2. l \in Nat /\ l >= 1 /\ count \in Nat \ {0} /\ l \in 1 .. count - 1
  BY <1>1
<1>3. PICK k \in E : k \in 0 .. T - 1
  OBVIOUS
<1>4. k \in W
  <2>1. k = 0 * T + k /\ 0 <= count - 1 /\ 0 \in Nat
    BY <1>2, <1>3
  <2>2. k \in WordsOf(E, T, count) <=> 0 <= count - 1 /\ k \in E
    BY <1>2, <1>3, <2>1, FirstEntry
  <2> QED
    BY <1>1, <2>1, <2>2
<1>5. k \in 0 .. s - 1
  <2>1. 1 * T <= room * T /\ 1 * T = T
    <3>1. 1 <= room /\ 1 \in Nat
      OBVIOUS
    <3> QED
      BY <3>1, TimesMore
  <2>2. s \in Nat /\ T <= s
    BY <1>1, <2>1, ProductIsNat
  <2> QED
    BY <1>3, <2>2
<1>6. l * s + k \in W
  BY <1>1, <1>2, <1>4, <1>5 DEF Repeats
<1>7. l * s + k = (l * room) * T + k /\ l * room \in Nat
  <2>1. l * (room * T) = (l * room) * T
    BY <1>2
  <2> QED
    BY <1>1, <1>2, <2>1, ProductIsNat
<1>8. l * room <= l
  <2>1. PICK j, e : j = l * s + k /\ e = l * room
    OBVIOUS
  <2>2. e \in Nat /\ j = e * T + k /\ j \in WordsOf(E, T, count)
    BY <1>1, <1>6, <1>7, <2>1
  <2>3. e <= count - 1
    BY <1>2, <1>3, <2>2, FirstEntry
  <2> QED
    BY <1>1, <2>1, <2>3
<1>9. l * 2 <= l * room /\ l * 2 = l + l
  <2>1. l * 2 <= l * room
    BY <1>2, TimesMore
  <2> QED
    BY <1>2, <2>1
<1>10. PICK x : x = l * room
  OBVIOUS
<1> QED
  BY <1>2, <1>7, <1>8, <1>9, <1>10

\* Exactly the full blocks that show how entries repeat give a size, and the true one.
LEMMA OwnStrides ==
  ASSUME NEW T \in 1 .. STRIDE_MAX, NEW E, E \subseteq 0 .. T - 1, E # {},
         NEW count \in Nat \ {0}, NEW room \in Nat \ {0}
  PROVE  /\ room * count * T = count * T <=> room = 1
         /\ Strides(room * count * T, WordsOf(E, T, count), count) = IF count >= 2 /\ room = 1 THEN {T} ELSE {}
<1>0. T \in Nat \ {0} /\ STRIDE_MAX \in Nat
  BY ArraysAssumption
<1>1. room * count * T = (room * T) * count /\ count * T = T * count
  BY <1>0
<1>2. room * T \in Nat /\ T \in Nat
  BY <1>0, ProductIsNat
<1>3. \A s \in Nat : room * count * T = s * count <=> s = room * T
  <2> TAKE s \in Nat
  <2> QED
    BY <1>1, <1>2, SameSize
<1>4. T = room * T <=> room = 1
  <2>1. ASSUME T = room * T PROVE room = 1
    <3>1. 1 * T = room * T /\ 1 \in Nat
      BY <1>0, <2>1
    <3> QED
      BY <1>0, <3>1, SameSize
  <2>2. 1 * T = T
    BY <1>0
  <2> QED
    BY <2>1, <2>2
<1>5. room * count * T = count * T <=> room = 1
  BY <1>0, <1>1, <1>3, <1>4
<1>6. PICK W, size : W = WordsOf(E, T, count) /\ size = room * count * T
  OBVIOUS
<1>7. CASE count >= 2 /\ room = 1
  <2>1. \A s \in 1 .. STRIDE_MAX : size = s * count <=> s = T
    <3>1. \A s \in 1 .. STRIDE_MAX : s \in Nat
      BY <1>0
    <3> QED
      BY <1>3, <1>4, <1>6, <1>7, <3>1
  <2>2. Repeats(W, count, T)
    BY <1>0, <1>6, RepeatsOwn
  <2>3. Strides(size, W, count) = {T}
    BY <1>7, <2>1, <2>2 DEF Strides
  <2> QED
    BY <1>5, <1>6, <1>7, <2>3
<1>8. CASE ~ (count >= 2 /\ room = 1)
  <2>1. ASSUME NEW s \in Strides(size, W, count) PROVE FALSE
    <3>1. s \in Nat /\ count >= 2 /\ size = s * count /\ Repeats(W, count, s)
      BY <1>0 DEF Strides
    <3>2. s = room * T
      BY <1>3, <1>6, <3>1
    <3>3. room >= 2
      BY <1>8, <3>1
    <3> QED
      BY <1>0, <1>6, <3>1, <3>2, <3>3, RepeatsNoMultiple
  <2> QED
    BY <1>5, <1>6, <1>8, <2>1
<1> QED
  BY <1>7, <1>8

-----------------------------------------------------------------------------
(* Arrays: what is counted                                                 *)
MetType == [count : Nat \ {0}, size : Nat, array : BOOLEAN, taken : BOOLEAN]
CapsOf(m) == [i \in DOMAIN m |-> Min({m[i].count, ENTRIES_PER_BLOCK})]

\* a profiles the blocks S of m; its words are known if none of them is a stray.
ProfileTells(a, S, m, E) ==
  /\ a.blocks = Cardinality(S) /\ a.entries = SumFunctionOnSet(CapsOf(m), S)
  /\ a.max_entries \in {m[i].count : i \in S} /\ \A i \in S : m[i].count <= a.max_entries
  /\ (\A i \in S : m[i].array) => a.words = [k \in E |-> a.entries]
PartTells(a, S, m, E) == IF S = {} THEN a = NoArrays ELSE ProfileTells(a, S, m, E)

OfStride(I, g, s) == {i \in I : g[i] = s}
DictTells(d, I, g, m, E) ==
  /\ DOMAIN d = {g[i] : i \in I}
  /\ \A s : PartTells(Get(d, s, NoArrays), OfStride(I, g, s), m, E)

\* The blocks of m that gave a size, in these chunks.
TakenIn(m, place, C) == {i \in DOMAIN m : m[i].taken /\ place[i] \in C}

EntriesInv ==
  /\ entry_words # {} /\ entry_words \subseteq 0 .. TrueStride - 1
  /\ met \in Seq(MetType)
  /\ \A i \in DOMAIN met : met[i].array =>
       (met[i].taken <=> met[i].count >= 2 /\ met[i].size = met[i].count * TrueStride)
  /\ DOMAIN arrays \subseteq Chunks
  /\ \E g \in [DOMAIN met -> Nat], place \in [DOMAIN met -> Chunks] :
       /\ \A i \in DOMAIN met : met[i].taken /\ met[i].array => g[i] = TrueStride
       /\ \A c \in DOMAIN arrays : DictTells(arrays[c], TakenIn(met, place, {c}), g, met, entry_words)
       /\ DictTells(profiled, TakenIn(met, place, Chunks \ DOMAIN arrays), g, met, entry_words)

-----------------------------------------------------------------------------
LEMMA CapsAre ==
  ASSUME NEW m \in Seq(MetType)
  PROVE  CapsOf(m) \in [DOMAIN m -> Nat \ {0}]
<1> SUFFICES ASSUME NEW i \in DOMAIN m PROVE Min({m[i].count, ENTRIES_PER_BLOCK}) \in Nat \ {0}
  BY DEF CapsOf
<1>1. PICK x, y : x = m[i].count /\ y = ENTRIES_PER_BLOCK
  OBVIOUS
<1>2. m[i] \in MetType
  OBVIOUS
<1>3. x \in Nat \ {0} /\ y \in Nat \ {0}
  BY <1>1, <1>2, ArraysAssumption DEF MetType
<1>4. Min({x, y}) = Smaller(x, y)
  BY <1>3, OfTwo
<1>5. Min({x, y}) \in Nat \ {0}
  BY <1>3, <1>4 DEF Smaller
<1> QED
  BY <1>1, <1>5

\* The sum over blocks of m is that over the same of more.
LEMMA CapsSame ==
  ASSUME NEW m \in Seq(MetType), NEW e \in MetType, NEW S \in SUBSET DOMAIN m
  PROVE  /\ IsFiniteSet(S) /\ S \in SUBSET DOMAIN Append(m, e)
         /\ \A i \in S : Append(m, e)[i] = m[i]
         /\ SumFunctionOnSet(CapsOf(Append(m, e)), S) = SumFunctionOnSet(CapsOf(m), S)
<1>1. PICK t : t = Append(m, e)
  OBVIOUS
<1>2. /\ t \in Seq(MetType) /\ DOMAIN m = 1 .. Len(m) /\ Len(m) \in Nat
      /\ \A i \in S : i \in DOMAIN t /\ i \in DOMAIN m /\ t[i] = m[i]
  BY <1>1
<1>3. IsFiniteSet(S)
  <2>1. IsFiniteSet(DOMAIN m)
    BY <1>2, FS_Interval
  <2> QED
    BY <2>1, FS_Subset
<1>4. PICK w, v : w = CapsOf(t) /\ v = CapsOf(m)
  OBVIOUS
<1>5. w \in [DOMAIN t -> Nat \ {0}] /\ v \in [DOMAIN m -> Nat \ {0}]
  BY <1>2, <1>4, CapsAre
<1>6. w \in [DOMAIN t -> Nat] /\ v \in [DOMAIN m -> Nat] /\ S \in SUBSET DOMAIN t /\ S \in SUBSET DOMAIN m
  BY <1>2, <1>5
<1>7. \A x \in S : w[x] = v[x]
  BY <1>2, <1>4 DEF CapsOf
<1>8. SumFunctionOnSet(w, S) = SumFunctionOnSet(v, S)
  BY <1>3, <1>6, <1>7, SumSame
<1> QED
  BY <1>1, <1>2, <1>3, <1>4, <1>8

LEMMA StaysTold ==
  ASSUME NEW m \in Seq(MetType), NEW e \in MetType, NEW S \in SUBSET DOMAIN m, NEW E, NEW a, PartTells(a, S, m, E)
  PROVE  PartTells(a, S, Append(m, e), E)
<1>1. PICK t : t = Append(m, e)
  OBVIOUS
<1>2. /\ \A i \in S : t[i] = m[i]
      /\ SumFunctionOnSet(CapsOf(t), S) = SumFunctionOnSet(CapsOf(m), S)
  BY <1>1, CapsSame
<1>3. PartTells(a, S, t, E)
  BY <1>2 DEF PartTells, ProfileTells
<1> QED
  BY <1>1, <1>3

\* One block more.
LEMMA ObservedTells ==
  ASSUME NEW m \in Seq(MetType), NEW e \in MetType, NEW S \in SUBSET DOMAIN m, NEW E, NEW a, PartTells(a, S, m, E),
         NEW written, NEW stride, e.array => {k \in 0 .. stride - 1 : k \in written} = E
  PROVE  ProfileTells(Observed(a, written, e.count, stride), S \cup {Len(m) + 1}, Append(m, e), E)
<1>1. PICK t, l, R, n, here :
        /\ t = Append(m, e) /\ l = Len(m) + 1 /\ R = S \cup {l}
        /\ n = Min({e.count, ENTRIES_PER_BLOCK}) /\ here = {k \in 0 .. stride - 1 : k \in written}
  OBVIOUS
<1>2. /\ t \in Seq(MetType) /\ l \in DOMAIN t /\ t[l] = e /\ l \notin S /\ R \ {l} = S /\ R \in SUBSET DOMAIN t
      /\ l \in R /\ IsFiniteSet(S) /\ \A i \in S : t[i] = m[i]
  <2>1. IsFiniteSet(S) /\ S \in SUBSET DOMAIN t /\ \A i \in S : t[i] = m[i]
    BY <1>1, CapsSame
  <2> QED
    BY <1>1, <2>1
<1>3. IsFiniteSet(R) /\ Cardinality(R) = Cardinality(S) + 1 /\ Cardinality(S) \in Nat
  BY <1>1, <1>2, FS_AddElement, FS_CardinalityType
<1>4. CapsOf(t) \in [DOMAIN t -> Nat] /\ CapsOf(t)[l] = n /\ n \in Nat
  <2>1. CapsOf(t) \in [DOMAIN t -> Nat \ {0}]
    BY <1>2, CapsAre
  <2> QED
    BY <1>1, <1>2, <2>1 DEF CapsOf
<1>5. SumFunctionOnSet(CapsOf(t), R) = n + SumFunctionOnSet(CapsOf(m), S)
  <2>1. SumFunctionOnSet(CapsOf(t), R) = CapsOf(t)[l] + SumFunctionOnSet(CapsOf(t), R \ {l})
    BY <1>2, <1>3, <1>4, SumWith
  <2>2. SumFunctionOnSet(CapsOf(t), S) = SumFunctionOnSet(CapsOf(m), S)
    BY <1>1, CapsSame
  <2> QED
    BY <1>2, <1>4, <2>1, <2>2
<1>6. /\ a.blocks = Cardinality(S) /\ a.entries = SumFunctionOnSet(CapsOf(m), S) /\ a.entries \in Nat
      /\ a.max_entries \in Nat /\ \A i \in S : m[i].count <= a.max_entries
      /\ S # {} => a.max_entries \in {m[i].count : i \in S}
      /\ S = {} => a.max_entries = 0
  <2>1. CapsOf(m) \in [DOMAIN m -> Nat]
    BY CapsAre
  <2>2. SumFunctionOnSet(CapsOf(m), {}) = 0 /\ SumFunctionOnSet(CapsOf(m), S) \in Nat
    BY <1>2, <2>1, SumWith
  <2>3. CASE S = {}
    <3>1. a = NoArrays /\ Cardinality(S) = 0
      BY <2>3, FS_EmptySet DEF PartTells
    <3> QED
      BY <2>2, <2>3, <3>1 DEF NoArrays
  <2>4. CASE S # {}
    <3>1. ProfileTells(a, S, m, E)
      BY <2>4 DEF PartTells
    <3>2. \A i \in S : m[i].count \in Nat
      <4> TAKE i \in S
      <4>1. m[i] \in MetType
        OBVIOUS
      <4> QED
        BY <4>1 DEF MetType
    <3> QED
      BY <2>2, <2>4, <3>1, <3>2 DEF ProfileTells
  <2> QED
    BY <2>3, <2>4
<1>7. PICK o : o = Observed(a, written, e.count, stride)
  OBVIOUS
<1>8. /\ o.blocks = a.blocks + 1 /\ o.entries = a.entries + n /\ o.max_entries = Max({a.max_entries, e.count})
      /\ o.words = [k \in DOMAIN a.words \cup here |-> Get(a.words, k, 0) + IF k \in here THEN n ELSE 0]
  BY <1>1, <1>7, Zenon DEF Observed
<1>9. o.blocks = Cardinality(R) /\ o.entries = SumFunctionOnSet(CapsOf(t), R)
  BY <1>3, <1>4, <1>5, <1>6, <1>8
<1>10. o.max_entries \in {t[i].count : i \in R} /\ \A i \in R : t[i].count <= o.max_entries
  <2>1. PICK x, y, z : x = a.max_entries /\ y = e.count /\ z = o.max_entries
    OBVIOUS
  <2>2. x \in Nat /\ y \in Nat \ {0}
    BY <1>6, <2>1 DEF MetType
  <2>3. z = Larger(x, y)
    <3>1. x \in Int /\ y \in Int
      BY <2>2
    <3>2. Max({x, y}) = Larger(x, y)
      BY <3>1, OfTwo
    <3> QED
      BY <1>8, <2>1, <3>2
  <2>4. z \in Nat /\ x <= z /\ y <= z /\ (z = x \/ z = y) /\ (x = 0 => z = y)
    BY <2>2, <2>3 DEF Larger
  <2>5. \A i \in S : m[i].count \in Nat
    <3> TAKE i \in S
    <3>1. m[i] \in MetType
      OBVIOUS
    <3> QED
      BY <3>1 DEF MetType
  <2>6. \A i \in S : t[i].count <= z
    BY <1>2, <1>6, <2>1, <2>2, <2>4, <2>5
  <2>7. t[l].count = y /\ y <= z
    BY <1>2, <2>1, <2>4
  <2>8. \A i \in R : t[i].count <= z
    BY <1>1, <2>6, <2>7
  <2>9. z \in {t[i].count : i \in R}
    <3>1. CASE z = y
      BY <1>2, <2>7, <3>1
    <3>2. CASE z = x /\ z # y
      <4>1. S # {}
        BY <1>6, <2>1, <2>4, <3>2
      <4>2. PICK i \in S : m[i].count = x
        BY <1>6, <2>1, <4>1
      <4> QED
        BY <1>1, <1>2, <3>2, <4>2
    <3> QED
      BY <2>4, <3>1, <3>2
  <2> QED
    BY <2>1, <2>8, <2>9
<1>11. ASSUME \A i \in R : t[i].array PROVE o.words = [k \in E |-> o.entries]
  <2>1. here = E /\ \A i \in S : m[i].array
    BY <1>1, <1>2, <1>11
  <2>2. CASE S = {}
    <3>1. DOMAIN a.words = {} /\ a.entries = 0
      BY <2>2 DEF PartTells, NoArrays
    <3>2. \A k \in E : Get(a.words, k, 0) + (IF k \in here THEN n ELSE 0) = a.entries + n
      BY <1>4, <2>1, <3>1 DEF Get
    <3> QED
      BY <1>8, <2>1, <3>1, <3>2
  <2>3. CASE S # {}
    <3>1. a.words = [k \in E |-> a.entries]
      BY <2>1, <2>3 DEF PartTells, ProfileTells
    <3>2. \A k \in E : Get(a.words, k, 0) + (IF k \in here THEN n ELSE 0) = a.entries + n
      BY <2>1, <3>1 DEF Get
    <3>3. DOMAIN a.words = E
      BY <3>1
    <3> QED
      BY <1>8, <2>1, <3>2, <3>3
  <2> QED
    BY <2>2, <2>3
<1>12. ProfileTells(o, R, t, E)
  BY <1>9, <1>10, <1>11 DEF ProfileTells
<1> QED
  BY <1>1, <1>7, <1>12

\* The caps of two parts.
LEMMA CapsJoin ==
  ASSUME NEW m, CapsOf(m) \in [DOMAIN m -> Nat], NEW S \in SUBSET DOMAIN m, NEW R \in SUBSET DOMAIN m,
         IsFiniteSet(S), IsFiniteSet(R), S \cap R = {}
  PROVE  SumFunctionOnSet(CapsOf(m), S \cup R) = SumFunctionOnSet(CapsOf(m), S) + SumFunctionOnSet(CapsOf(m), R)
<1>1. PICK w : w = CapsOf(m)
  OBVIOUS
<1>2. w \in [DOMAIN m -> Nat]
  BY <1>1
<1>3. SumFunctionOnSet(w, S \cup R) = SumFunctionOnSet(w, S) + SumFunctionOnSet(w, R)
  BY <1>2, SumJoin
<1> QED
  BY <1>1, <1>3

\* Two parts of the blocks, counted apart.
LEMMA AddedTells ==
  ASSUME NEW m \in Seq(MetType), NEW S \in SUBSET DOMAIN m, NEW R \in SUBSET DOMAIN m, S \cap R = {},
         S \cup R # {}, NEW E, NEW a, NEW b, PartTells(a, S, m, E), PartTells(b, R, m, E)
  PROVE  ProfileTells(Added(a, b), S \cup R, m, E)
<1>1. /\ IsFiniteSet(S) /\ IsFiniteSet(R) /\ CapsOf(m) \in [DOMAIN m -> Nat]
      /\ \A i \in DOMAIN m : m[i].count \in Nat \ {0}
  <2>1. PICK e : e \in MetType
    <3>1. [count |-> 1, size |-> 0, array |-> TRUE, taken |-> TRUE] \in MetType
      BY DEF MetType
    <3> QED
      BY <3>1
  <2>2. IsFiniteSet(S) /\ IsFiniteSet(R)
    BY <2>1, CapsSame
  <2>3. CapsOf(m) \in [DOMAIN m -> Nat \ {0}]
    BY CapsAre
  <2>4. ASSUME NEW i \in DOMAIN m PROVE m[i].count \in Nat \ {0}
    <3>1. m[i] \in MetType
      OBVIOUS
    <3> QED
      BY <3>1 DEF MetType
  <2> QED
    BY <2>2, <2>3, <2>4
<1>2. Cardinality(S \cup R) = Cardinality(S) + Cardinality(R)
  <2>1. Cardinality(S \cap R) = 0
    BY FS_EmptySet
  <2>2. Cardinality(S \cup R) = Cardinality(S) + Cardinality(R) - Cardinality(S \cap R)
    BY <1>1, FS_Union
  <2>3. Cardinality(S) \in Nat /\ Cardinality(R) \in Nat
    BY <1>1, FS_CardinalityType
  <2> QED
    BY <2>1, <2>2, <2>3
<1>3. SumFunctionOnSet(CapsOf(m), S \cup R) = SumFunctionOnSet(CapsOf(m), S) + SumFunctionOnSet(CapsOf(m), R)
  BY <1>1, CapsJoin
<1>4. ASSUME NEW c, NEW Q \in SUBSET DOMAIN m, IsFiniteSet(Q), PartTells(c, Q, m, E)
      PROVE  /\ c.blocks = Cardinality(Q) /\ c.entries = SumFunctionOnSet(CapsOf(m), Q) /\ c.entries \in Nat
             /\ c.max_entries \in Nat /\ \A i \in Q : m[i].count <= c.max_entries
             /\ Q # {} => c.max_entries \in {m[i].count : i \in Q}
             /\ Q = {} => c.max_entries = 0 /\ c.words = <<>> /\ c.entries = 0
             /\ Q # {} /\ (\A i \in Q : m[i].array) => c.words = [k \in E |-> c.entries]
  <2>1. SumFunctionOnSet(CapsOf(m), {}) = 0 /\ SumFunctionOnSet(CapsOf(m), Q) \in Nat
    BY <1>1, <1>4, SumWith
  <2>2. CASE Q = {}
    <3>1. c = NoArrays /\ Cardinality(Q) = 0
      BY <1>4, <2>2, FS_EmptySet DEF PartTells
    <3> QED
      BY <2>1, <2>2, <3>1 DEF NoArrays
  <2>3. CASE Q # {}
    <3>1. ProfileTells(c, Q, m, E)
      BY <1>4, <2>3 DEF PartTells
    <3> QED
      BY <1>1, <2>1, <2>3, <3>1 DEF ProfileTells
  <2> QED
    BY <2>2, <2>3
<1>5. /\ a.blocks = Cardinality(S) /\ a.entries = SumFunctionOnSet(CapsOf(m), S) /\ a.entries \in Nat
      /\ a.max_entries \in Nat /\ \A i \in S : m[i].count <= a.max_entries
      /\ S # {} => a.max_entries \in {m[i].count : i \in S}
      /\ S = {} => a.max_entries = 0 /\ a.words = <<>> /\ a.entries = 0
      /\ S # {} /\ (\A i \in S : m[i].array) => a.words = [k \in E |-> a.entries]
  BY <1>1, <1>4
<1>6. /\ b.blocks = Cardinality(R) /\ b.entries = SumFunctionOnSet(CapsOf(m), R) /\ b.entries \in Nat
      /\ b.max_entries \in Nat /\ \A i \in R : m[i].count <= b.max_entries
      /\ R # {} => b.max_entries \in {m[i].count : i \in R}
      /\ R = {} => b.max_entries = 0 /\ b.words = <<>> /\ b.entries = 0
      /\ R # {} /\ (\A i \in R : m[i].array) => b.words = [k \in E |-> b.entries]
  BY <1>1, <1>4
<1>7. PICK o : o = Added(a, b)
  OBVIOUS
<1>8. /\ o.blocks = a.blocks + b.blocks /\ o.entries = a.entries + b.entries
      /\ o.max_entries = Max({a.max_entries, b.max_entries})
      /\ o.words = [k \in DOMAIN a.words \cup DOMAIN b.words |-> Get(a.words, k, 0) + Get(b.words, k, 0)]
  BY <1>7, Zenon DEF Added
<1>9. o.blocks = Cardinality(S \cup R) /\ o.entries = SumFunctionOnSet(CapsOf(m), S \cup R)
  BY <1>2, <1>3, <1>5, <1>6, <1>8
<1>10. o.max_entries \in {m[i].count : i \in S \cup R} /\ \A i \in S \cup R : m[i].count <= o.max_entries
  <2>1. PICK x, y, z : x = a.max_entries /\ y = b.max_entries /\ z = o.max_entries
    OBVIOUS
  <2>2. x \in Nat /\ y \in Nat /\ x \in Int /\ y \in Int
    BY <1>5, <1>6, <2>1
  <2>3. Max({x, y}) = Larger(x, y)
    BY <2>2, OfTwo
  <2>4. z = Larger(x, y)
    BY <1>8, <2>1, <2>3
  <2>5. z \in Nat /\ x <= z /\ y <= z /\ (z = x \/ z = y)
    BY <2>2, <2>4 DEF Larger
  <2>6. \A i \in S \cup R : m[i].count <= z
    <3> TAKE i \in S \cup R
    <3>1. PICK n : n = m[i].count
      OBVIOUS
    <3>2. n \in Nat /\ (n <= x \/ n <= y)
      BY <1>1, <1>5, <1>6, <2>1, <3>1
    <3>3. n <= z
      BY <2>2, <2>5, <3>2
    <3> QED
      BY <3>1, <3>3
  <2>7. z \in {m[i].count : i \in S \cup R}
    <3>1. CASE z = x /\ S # {}
      BY <1>5, <2>1, <3>1
    <3>2. CASE z = y /\ R # {}
      BY <1>6, <2>1, <3>2
    <3>3. CASE S = {} /\ z = x
      <4>1. z = 0
        BY <1>5, <2>1, <3>3
      <4>2. PICK i \in R : TRUE
        BY <3>3
      <4>3. m[i].count <= z /\ m[i].count \in Nat \ {0}
        BY <1>1, <2>6, <4>2
      <4> QED
        BY <4>1, <4>3
    <3>4. CASE R = {} /\ z = y
      <4>1. z = 0
        BY <1>6, <2>1, <3>4
      <4>2. PICK i \in S : TRUE
        BY <3>4
      <4>3. m[i].count <= z /\ m[i].count \in Nat \ {0}
        BY <1>1, <2>6, <4>2
      <4> QED
        BY <4>1, <4>3
    <3> QED
      BY <2>5, <3>1, <3>2, <3>3, <3>4
  <2> QED
    BY <2>1, <2>6, <2>7
<1>11. ASSUME \A i \in S \cup R : m[i].array PROVE o.words = [k \in E |-> o.entries]
  <2>1. (\A i \in S : m[i].array) /\ (\A i \in R : m[i].array)
    BY <1>11
  <2>2. PICK u, v : u = a.words /\ v = b.words
    OBVIOUS
  <2>3. DOMAIN u \cup DOMAIN v = E
    BY <1>5, <1>6, <2>1, <2>2
  <2>4. ASSUME NEW k \in E PROVE Get(u, k, 0) + Get(v, k, 0) = o.entries
    <3>1. Get(u, k, 0) = a.entries
      BY <1>5, <2>1, <2>2, <2>4 DEF Get
    <3>2. Get(v, k, 0) = b.entries
      BY <1>6, <2>1, <2>2, <2>4 DEF Get
    <3> QED
      BY <1>8, <3>1, <3>2
  <2>5. o.words = [k \in DOMAIN u \cup DOMAIN v |-> Get(u, k, 0) + Get(v, k, 0)]
    BY <1>8, <2>2, Zenon
  <2> QED
    BY <2>3, <2>4, <2>5
<1>12. ProfileTells(o, S \cup R, m, E)
  BY <1>9, <1>10, <1>11 DEF ProfileTells
<1> QED
  BY <1>7, <1>12

-----------------------------------------------------------------------------
\* A dictionary whose blocks stay as they were.
LEMMA DictStays ==
  ASSUME NEW m \in Seq(MetType), NEW e \in MetType, NEW I \in SUBSET DOMAIN m, NEW E, NEW d, NEW g, NEW h,
         \A i \in I : h[i] = g[i], DictTells(d, I, g, m, E)
  PROVE  DictTells(d, I, h, Append(m, e), E)
<1>1. DOMAIN d = {h[i] : i \in I}
  BY DEF DictTells
<1>2. ASSUME NEW s PROVE PartTells(Get(d, s, NoArrays), OfStride(I, h, s), Append(m, e), E)
  <2>1. OfStride(I, h, s) = OfStride(I, g, s) /\ OfStride(I, g, s) \in SUBSET DOMAIN m
    BY DEF OfStride
  <2>2. PartTells(Get(d, s, NoArrays), OfStride(I, g, s), m, E)
    BY DEF DictTells
  <2>3. PartTells(Get(d, s, NoArrays), OfStride(I, g, s), Append(m, e), E)
    BY <2>1, <2>2, StaysTold
  <2> QED
    BY <2>1, <2>3
<1> QED
  BY <1>1, <1>2 DEF DictTells

\* A dictionary that counts one block more.
LEMMA DictObserves ==
  ASSUME NEW m \in Seq(MetType), NEW e \in MetType, NEW I \in SUBSET DOMAIN m, NEW E, NEW d, NEW g, NEW h,
         \A i \in I : h[i] = g[i], DictTells(d, I, g, m, E), NEW written, NEW stride,
         h[Len(m) + 1] = stride,
         e.array => {k \in 0 .. stride - 1 : k \in written} = E
  PROVE  DictTells(Put(d, stride, Observed(Get(d, stride, NoArrays), written, e.count, stride)),
                   I \cup {Len(m) + 1}, h, Append(m, e), E)
<1>1. PICK l, t, J, o, f :
        /\ l = Len(m) + 1 /\ t = Append(m, e) /\ J = I \cup {l}
        /\ o = Observed(Get(d, stride, NoArrays), written, e.count, stride) /\ f = Put(d, stride, o)
  OBVIOUS
<1>2. DOMAIN f = DOMAIN d \cup {stride} /\ f[stride] = o /\ \A s \in DOMAIN d \ {stride} : f[s] = d[s]
  BY <1>1 DEF Put
<1>3. DOMAIN d = {g[i] : i \in I} /\ \A s : PartTells(Get(d, s, NoArrays), OfStride(I, g, s), m, E)
  BY DEF DictTells
<1>4. DOMAIN f = {h[i] : i \in J}
  BY <1>1, <1>2, <1>3
<1>5. \A s : OfStride(I, h, s) = OfStride(I, g, s) /\ OfStride(I, g, s) \in SUBSET DOMAIN m
  BY DEF OfStride
<1>6. ASSUME NEW s PROVE PartTells(Get(f, s, NoArrays), OfStride(J, h, s), t, E)
  <2>1. PartTells(Get(d, s, NoArrays), OfStride(I, g, s), m, E)
    BY <1>3
  <2>2. CASE s = stride
    <3>1. OfStride(J, h, s) = OfStride(I, g, s) \cup {l}
      BY <1>1, <1>5, <2>2 DEF OfStride
    <3>2. PICK S : S = OfStride(I, g, s)
      OBVIOUS
    <3>3. S \in SUBSET DOMAIN m /\ PartTells(Get(d, stride, NoArrays), S, m, E)
      BY <1>5, <2>1, <2>2, <3>2
    <3>4. ProfileTells(Observed(Get(d, stride, NoArrays), written, e.count, stride), S \cup {Len(m) + 1}, Append(m, e), E)
      BY <3>3, ObservedTells
    <3>5. Get(f, s, NoArrays) = o
      BY <1>2, <2>2 DEF Get
    <3> QED
      BY <1>1, <3>1, <3>2, <3>4, <3>5 DEF PartTells
  <2>3. CASE s # stride
    <3>1. OfStride(J, h, s) = OfStride(I, g, s)
      BY <1>1, <1>5, <2>3 DEF OfStride
    <3>2. Get(f, s, NoArrays) = Get(d, s, NoArrays)
      BY <1>2, <2>3 DEF Get
    <3>3. PartTells(Get(d, s, NoArrays), OfStride(I, g, s), Append(m, e), E)
      BY <1>5, <2>1, StaysTold
    <3> QED
      BY <1>1, <3>1, <3>2, <3>3
  <2> QED
    BY <2>2, <2>3
<1>7. DictTells(f, J, h, t, E)
  BY <1>4, <1>6 DEF DictTells
<1> QED
  BY <1>1, <1>7

\* The dictionaries of two parts, merged.
LEMMA DictsMerge ==
  ASSUME NEW m \in Seq(MetType), NEW I \in SUBSET DOMAIN m, NEW J \in SUBSET DOMAIN m, I \cap J = {},
         NEW E, NEW d, NEW f, NEW g, DictTells(d, I, g, m, E), DictTells(f, J, g, m, E),
         NEW u, u = [s \in DOMAIN d \cup DOMAIN f |-> Added(Get(d, s, NoArrays), Get(f, s, NoArrays))]
  PROVE  DictTells(u, I \cup J, g, m, E)
<1>2. DOMAIN d = {g[i] : i \in I} /\ DOMAIN f = {g[i] : i \in J} /\ DOMAIN u = DOMAIN d \cup DOMAIN f
  BY DEF DictTells
<1>3. DOMAIN u = {g[i] : i \in I \cup J}
  BY <1>2
<1>4. ASSUME NEW s PROVE PartTells(Get(u, s, NoArrays), OfStride(I \cup J, g, s), m, E)
  <2>1. PICK S, R : S = OfStride(I, g, s) /\ R = OfStride(J, g, s)
    OBVIOUS
  <2>2. /\ S \in SUBSET DOMAIN m /\ R \in SUBSET DOMAIN m /\ S \cap R = {}
        /\ OfStride(I \cup J, g, s) = S \cup R
        /\ S \cup R # {} <=> s \in DOMAIN u
    BY <1>2, <2>1 DEF OfStride
  <2>3. PartTells(Get(d, s, NoArrays), S, m, E) /\ PartTells(Get(f, s, NoArrays), R, m, E)
    BY <2>1 DEF DictTells
  <2>4. CASE S \cup R # {}
    <3>1. ProfileTells(Added(Get(d, s, NoArrays), Get(f, s, NoArrays)), S \cup R, m, E)
      BY <2>2, <2>3, <2>4, AddedTells
    <3>2. Get(u, s, NoArrays) = Added(Get(d, s, NoArrays), Get(f, s, NoArrays))
      BY <1>2, <2>2, <2>4 DEF Get
    <3> QED
      BY <2>2, <2>4, <3>1, <3>2 DEF PartTells
  <2>5. CASE S \cup R = {}
    <3>1. Get(u, s, NoArrays) = NoArrays
      BY <2>2, <2>5 DEF Get
    <3> QED
      BY <2>2, <2>5, <3>1 DEF PartTells
  <2> QED
    BY <2>4, <2>5
<1> QED
  BY <1>3, <1>4 DEF DictTells

\* What a step does to the dictionaries.
LEMMA ObserveTells ==
  ASSUME EntriesInv, NEW c \in Chunks, NEW size \in Nat, NEW written, NEW count \in Nat \ {0},
         NEW isArray \in BOOLEAN, Observe(c, size, written, count, isArray),
         isArray => /\ Strides(size, written, count) =
                         IF count >= 2 /\ size = count * TrueStride THEN {TrueStride} ELSE {}
                    /\ {k \in 0 .. TrueStride - 1 : k \in written} = entry_words
  PROVE  EntriesInv'
<1>1. PICK found, s, e, l, t :
        /\ found = Strides(size, written, count) /\ s = (CHOOSE x \in found : TRUE)
        /\ e = [count |-> count, size |-> size, array |-> isArray, taken |-> found # {}]
        /\ l = Len(met) + 1 /\ t = Append(met, e)
  OBVIOUS
<1>2. /\ entry_words # {} /\ entry_words \subseteq 0 .. TrueStride - 1 /\ met \in Seq(MetType)
      /\ \A i \in DOMAIN met : met[i].array =>
           (met[i].taken <=> met[i].count >= 2 /\ met[i].size = met[i].count * TrueStride)
      /\ DOMAIN arrays \subseteq Chunks
  BY DEF EntriesInv
<1>3. PICK g \in [DOMAIN met -> Nat], place \in [DOMAIN met -> Chunks] :
       /\ \A i \in DOMAIN met : met[i].taken /\ met[i].array => g[i] = TrueStride
       /\ \A d \in DOMAIN arrays : DictTells(arrays[d], TakenIn(met, place, {d}), g, met, entry_words)
       /\ DictTells(profiled, TakenIn(met, place, Chunks \ DOMAIN arrays), g, met, entry_words)
  BY DEF EntriesInv
<1>4. /\ met' = t /\ entry_words' = entry_words /\ profiled' = profiled /\ c \in DOMAIN arrays
      /\ DOMAIN arrays' = DOMAIN arrays /\ \A d \in DOMAIN arrays \ {c} : arrays'[d] = arrays[d]
      /\ found = {} => arrays'[c] = arrays[c]
      /\ found # {} => arrays'[c] = Put(arrays[c], s, Observed(Get(arrays[c], s, NoArrays), written, count, s))
  BY <1>1 DEF Observe
<1>5. /\ e \in MetType /\ e.count = count /\ e.size = size /\ e.array = isArray /\ (e.taken <=> found # {})
  BY <1>1 DEF MetType
<1>6. /\ t \in Seq(MetType) /\ DOMAIN met \subseteq DOMAIN t /\ DOMAIN t = DOMAIN met \cup {l} /\ l \notin DOMAIN met
      /\ t[l] = e /\ \A i \in DOMAIN met : t[i] = met[i]
  BY <1>1, <1>2, <1>5
<1>7. found # {} => s \in found /\ s \in Nat
  BY <1>1, ArraysAssumption DEF Strides
<1>8. PICK h, q :
        /\ h = [i \in DOMAIN t |-> IF i = l THEN IF found = {} THEN 0 ELSE s ELSE g[i]]
        /\ q = [i \in DOMAIN t |-> IF i = l THEN c ELSE place[i]]
  OBVIOUS
<1>9. /\ h \in [DOMAIN t -> Nat] /\ q \in [DOMAIN t -> Chunks] /\ q[l] = c /\ (found # {} => h[l] = s)
      /\ \A i \in DOMAIN met : h[i] = g[i] /\ q[i] = place[i]
  BY <1>3, <1>6, <1>7, <1>8
<1>10. isArray /\ found # {} => s = TrueStride
  BY <1>1, <1>7
<1>11. \A i \in DOMAIN t : t[i].array => (t[i].taken <=> t[i].count >= 2 /\ t[i].size = t[i].count * TrueStride)
  <2> TAKE i \in DOMAIN t
  <2>1. CASE i = l
    <3>1. t[i] = e
      BY <1>6, <2>1
    <3>2. isArray => (found # {} <=> count >= 2 /\ size = count * TrueStride)
      BY <1>1
    <3> QED
      BY <1>5, <3>1, <3>2
  <2>2. CASE i \in DOMAIN met
    BY <1>2, <1>6, <2>2
  <2> QED
    BY <1>6, <2>1, <2>2
<1>12. \A i \in DOMAIN t : t[i].taken /\ t[i].array => h[i] = TrueStride
  BY <1>3, <1>5, <1>6, <1>9, <1>10
<1>13. ASSUME NEW C
       PROVE  /\ TakenIn(met, place, C) \in SUBSET DOMAIN met
              /\ found = {} \/ c \notin C => TakenIn(t, q, C) = TakenIn(met, place, C)
              /\ found # {} /\ c \in C => TakenIn(t, q, C) = TakenIn(met, place, C) \cup {l}
  BY <1>5, <1>6, <1>9 DEF TakenIn
<1>14. ASSUME NEW C, NEW d, found = {} \/ c \notin C, DictTells(d, TakenIn(met, place, C), g, met, entry_words)
       PROVE  DictTells(d, TakenIn(t, q, C), h, t, entry_words)
  <2>1. PICK I : I = TakenIn(met, place, C)
    OBVIOUS
  <2>2. I \in SUBSET DOMAIN met /\ TakenIn(t, q, C) = I /\ DictTells(d, I, g, met, entry_words) /\ \A i \in I : h[i] = g[i]
    BY <1>9, <1>13, <1>14, <2>1
  <2>3. DictTells(d, I, h, Append(met, e), entry_words)
    BY <1>2, <1>5, <2>2, DictStays
  <2> QED
    BY <1>1, <2>2, <2>3
<1>15. ASSUME NEW d \in DOMAIN arrays' PROVE DictTells(arrays'[d], TakenIn(t, q, {d}), h, t, entry_words)
  <2>1. DictTells(arrays[d], TakenIn(met, place, {d}), g, met, entry_words)
    BY <1>3, <1>4
  <2>2. CASE d # c \/ found = {}
    <3>1. arrays'[d] = arrays[d] /\ (found = {} \/ c \notin {d})
      BY <1>4, <2>2
    <3> QED
      BY <1>14, <2>1, <3>1
  <2>3. CASE d = c /\ found # {}
    <3>1. PICK I, a : I = TakenIn(met, place, {c}) /\ a = arrays[c]
      OBVIOUS
    <3>2. I \in SUBSET DOMAIN met /\ TakenIn(t, q, {c}) = I \cup {l} /\ \A i \in I : h[i] = g[i]
      BY <1>9, <1>13, <2>3, <3>1
    <3>3. DictTells(a, I, g, met, entry_words)
      BY <2>1, <2>3, <3>1
    <3>4. e.array => {k \in 0 .. s - 1 : k \in written} = entry_words
      BY <1>5, <1>10, <2>3
    <3>5. h[Len(met) + 1] = s
      BY <1>1, <1>9, <2>3
    <3>6. DictTells(Put(a, s, Observed(Get(a, s, NoArrays), written, e.count, s)),
                    I \cup {Len(met) + 1}, h, Append(met, e), entry_words)
      BY <1>2, <1>5, <3>2, <3>3, <3>4, <3>5, DictObserves
    <3> QED
      BY <1>1, <1>4, <1>5, <2>3, <3>1, <3>2, <3>6
  <2> QED
    BY <2>2, <2>3
<1>16. DictTells(profiled, TakenIn(t, q, Chunks \ DOMAIN arrays), h, t, entry_words)
  <2>1. c \notin Chunks \ DOMAIN arrays
    BY <1>4
  <2> QED
    BY <1>3, <1>14, <2>1
<1>17. \E f \in [DOMAIN met' -> Nat], p \in [DOMAIN met' -> Chunks] :
       /\ \A i \in DOMAIN met' : met'[i].taken /\ met'[i].array => f[i] = TrueStride
       /\ \A d \in DOMAIN arrays' : DictTells(arrays[d], TakenIn(met, p, {d}), f, met, entry_words)'
       /\ DictTells(profiled, TakenIn(met, p, Chunks \ DOMAIN arrays), f, met, entry_words)'
  BY <1>4, <1>9, <1>12, <1>15, <1>16
<1> QED
  BY <1>2, <1>4, <1>6, <1>11, <1>17 DEF EntriesInv

LEMMA ArrayBlockTells ==
  ASSUME EntriesInv, NEW c \in Chunks, NEW count \in Counts, NEW room \in Rooms, ArrayBlock(c, count, room)
  PROVE  EntriesInv'
<1>1. PICK W, size : W = WordsOf(entry_words, TrueStride, count) /\ size = room * count * TrueStride
  OBVIOUS
<1>2. count \in Nat \ {0} /\ room \in Nat \ {0} /\ TrueStride \in 1 .. STRIDE_MAX /\ TrueStride \in Nat \ {0}
  BY ArraysAssumption
<1>3. entry_words # {} /\ entry_words \subseteq 0 .. TrueStride - 1
  BY DEF EntriesInv
<1>4. size \in Nat
  <2>1. room * count \in Nat
    BY <1>2, ProductIsNat
  <2> QED
    BY <1>1, <1>2, <2>1, ProductIsNat
<1>5. Observe(c, size, W, count, TRUE)
  <2>1. W = {e * TrueStride + k : e \in 0 .. count - 1, k \in entry_words}
    BY <1>1 DEF WordsOf
  <2> QED
    BY <1>1, <2>1 DEF ArrayBlock, Observe
<1>6. /\ room * count * TrueStride = count * TrueStride <=> room = 1
      /\ Strides(room * count * TrueStride, WordsOf(entry_words, TrueStride, count), count) =
           IF count >= 2 /\ room = 1 THEN {TrueStride} ELSE {}
  BY <1>2, <1>3, OwnStrides
<1>7. Strides(size, W, count) = IF count >= 2 /\ size = count * TrueStride THEN {TrueStride} ELSE {}
  BY <1>1, <1>6
<1>8. {k \in 0 .. TrueStride - 1 : k \in W} = entry_words
  <2>1. {k \in 0 .. TrueStride - 1 : k \in WordsOf(entry_words, TrueStride, count)} = entry_words
    BY <1>2, <1>3, RepeatsOwn
  <2> QED
    BY <1>1, <2>1
<1> QED
  BY <1>2, <1>4, <1>5, <1>7, <1>8, ObserveTells

LEMMA StrayBlockTells ==
  ASSUME EntriesInv, NEW c \in Chunks, NEW size \in StraySizes, NEW count \in Counts, NEW written,
         StrayBlock(c, size, written, count)
  PROVE  EntriesInv'
<1>1. size \in Nat /\ count \in Nat \ {0}
  BY ArraysAssumption
<1>2. Observe(c, size, written, count, FALSE)
  BY DEF StrayBlock
<1> QED
  BY <1>1, <1>2, ObserveTells

LEMMA MergeArraysTells ==
  ASSUME EntriesInv, NEW c \in Chunks, MergeArrays(c)
  PROVE  EntriesInv'
<1>1. /\ entry_words # {} /\ entry_words \subseteq 0 .. TrueStride - 1 /\ met \in Seq(MetType)
      /\ \A i \in DOMAIN met : met[i].array =>
           (met[i].taken <=> met[i].count >= 2 /\ met[i].size = met[i].count * TrueStride)
      /\ DOMAIN arrays \subseteq Chunks
  BY DEF EntriesInv
<1>2. PICK g \in [DOMAIN met -> Nat], place \in [DOMAIN met -> Chunks] :
       /\ \A i \in DOMAIN met : met[i].taken /\ met[i].array => g[i] = TrueStride
       /\ \A d \in DOMAIN arrays : DictTells(arrays[d], TakenIn(met, place, {d}), g, met, entry_words)
       /\ DictTells(profiled, TakenIn(met, place, Chunks \ DOMAIN arrays), g, met, entry_words)
  BY DEF EntriesInv
<1>3. PICK I, J : I = TakenIn(met, place, Chunks \ DOMAIN arrays) /\ J = TakenIn(met, place, {c})
  OBVIOUS
<1>4. /\ entry_words' = entry_words /\ met' = met /\ c \in DOMAIN arrays
      /\ DOMAIN arrays' = DOMAIN arrays \ {c} /\ \A d \in DOMAIN arrays \ {c} : arrays'[d] = arrays[d]
      /\ profiled' = [s \in DOMAIN profiled \cup DOMAIN arrays[c] |->
           Added(Get(profiled, s, NoArrays), Get(arrays[c], s, NoArrays))]
  BY DEF MergeArrays, Restrict
<1>5. /\ I \in SUBSET DOMAIN met /\ J \in SUBSET DOMAIN met /\ I \cap J = {}
      /\ I \cup J = TakenIn(met, place, Chunks \ (DOMAIN arrays \ {c}))
  BY <1>3, <1>4 DEF TakenIn
<1>6. DictTells(profiled, I, g, met, entry_words) /\ DictTells(arrays[c], J, g, met, entry_words)
  BY <1>2, <1>3, <1>4
<1>7. DictTells(profiled', I \cup J, g, met, entry_words)
  <2>1. PICK d, f, u, m, E : d = profiled /\ f = arrays[c] /\ u = profiled' /\ m = met /\ E = entry_words
    OBVIOUS
  <2>2. /\ m \in Seq(MetType) /\ I \in SUBSET DOMAIN m /\ J \in SUBSET DOMAIN m /\ I \cap J = {}
        /\ DictTells(d, I, g, m, E) /\ DictTells(f, J, g, m, E)
    BY <1>1, <1>5, <1>6, <2>1
  <2>3. u = [s \in DOMAIN d \cup DOMAIN f |-> Added(Get(d, s, NoArrays), Get(f, s, NoArrays))]
    BY <1>4, <2>1
  <2>4. DictTells(u, I \cup J, g, m, E)
    BY <2>2, <2>3, DictsMerge
  <2> QED
    BY <2>1, <2>4
<1>8. DictTells(profiled', TakenIn(met, place, Chunks \ DOMAIN arrays'), g, met, entry_words)
  BY <1>4, <1>5, <1>7
<1>9. \A d \in DOMAIN arrays' : DictTells(arrays'[d], TakenIn(met, place, {d}), g, met, entry_words)
  BY <1>2, <1>4
<1>10. \E h \in [DOMAIN met' -> Nat], q \in [DOMAIN met' -> Chunks] :
       /\ \A i \in DOMAIN met' : met'[i].taken /\ met'[i].array => h[i] = TrueStride
       /\ \A d \in DOMAIN arrays' : DictTells(arrays[d], TakenIn(met, q, {d}), h, met, entry_words)'
       /\ DictTells(profiled, TakenIn(met, q, Chunks \ DOMAIN arrays), h, met, entry_words)'
  BY <1>2, <1>4, <1>8, <1>9
<1> QED
  BY <1>1, <1>4, <1>10 DEF EntriesInv

LEMMA NoneTold ==
  ASSUME ArraysInit PROVE EntriesInv
<1>1. /\ entry_words # {} /\ entry_words \subseteq 0 .. TrueStride - 1 /\ met = <<>> /\ profiled = <<>>
      /\ DOMAIN arrays = Chunks /\ \A c \in Chunks : arrays[c] = <<>>
  BY DEF ArraysInit, ArraysStart
<1>2. DOMAIN met = {} /\ met \in Seq(MetType)
  BY <1>1
<1>3. PICK g, place : g = [i \in DOMAIN met |-> 0] /\ place = [i \in DOMAIN met |-> 0]
  OBVIOUS
<1>4. g \in [DOMAIN met -> Nat] /\ place \in [DOMAIN met -> Chunks]
  BY <1>2, <1>3
<1>5. ASSUME NEW C PROVE DictTells(<<>>, TakenIn(met, place, C), g, met, entry_words)
  <2>1. TakenIn(met, place, C) = {} /\ DOMAIN <<>> = {}
    BY <1>2 DEF TakenIn
  <2>2. \A s : OfStride({}, g, s) = {} /\ Get(<<>>, s, NoArrays) = NoArrays
    BY <2>1 DEF OfStride, Get
  <2> QED
    BY <2>1, <2>2 DEF DictTells, PartTells
<1> QED
  BY <1>1, <1>2, <1>4, <1>5 DEF EntriesInv

-----------------------------------------------------------------------------
\* Blocks counted by stride are all the blocks.
LEMMA StridesPart ==
  ASSUME NEW I, IsFiniteSet(I), NEW D, IsFiniteSet(D), NEW g, NEW w \in [D -> Nat],
         \A s \in D : w[s] = Cardinality(OfStride(I, g, s)), \A i \in I : g[i] \in D
  PROVE  SumFunctionOnSet(w, D) = Cardinality(I)
<1> DEFINE With(S) == {i \in I : g[i] \in S}
           Good == {n \in Nat : \A S \in SUBSET D : Cardinality(S) = n => SumFunctionOnSet(w, S) = Cardinality(With(S))}
<1>1. 0 \in Good
  <2> SUFFICES ASSUME NEW S \in SUBSET D, Cardinality(S) = 0 PROVE SumFunctionOnSet(w, S) = Cardinality(With(S))
    OBVIOUS
  <2>1. IsFiniteSet(S)
    BY FS_Subset
  <2>2. S = {}
    BY <2>1, FS_EmptySet
  <2>3. With(S) = {} /\ Cardinality({}) = 0
    BY <2>2, FS_EmptySet
  <2>4. SumFunctionOnSet(w, {}) = 0
    BY <2>1, SumWith
  <2> QED
    BY <2>2, <2>3, <2>4
<1>2. ASSUME NEW n \in Good PROVE n + 1 \in Good
  <2> SUFFICES ASSUME NEW S \in SUBSET D, Cardinality(S) = n + 1 PROVE SumFunctionOnSet(w, S) = Cardinality(With(S))
    BY <1>2
  <2>1. IsFiniteSet(S) /\ n \in Nat
    BY FS_Subset
  <2>2. PICK s : s \in S
    BY <2>1, FS_EmptySet
  <2>3. IsFiniteSet(S \ {s}) /\ Cardinality(S \ {s}) = n /\ S \ {s} \in SUBSET D
    <3>1. IsFiniteSet(S \ {s}) /\ Cardinality(S \ {s}) = Cardinality(S) - 1
      BY <2>1, <2>2, OneLess
    <3> QED
      BY <2>1, <3>1
  <2>4. SumFunctionOnSet(w, S \ {s}) = Cardinality(With(S \ {s}))
    BY <2>3
  <2>5. SumFunctionOnSet(w, S) = w[s] + SumFunctionOnSet(w, S \ {s})
    BY <2>1, <2>2, SumWith
  <2>6. PICK A, B, C : A = With(S \ {s}) /\ B = OfStride(I, g, s) /\ C = With(S)
    OBVIOUS
  <2>7. A \subseteq I /\ B \subseteq I /\ C = A \cup B /\ A \cap B = {}
    BY <2>2, <2>6 DEF OfStride
  <2>8. Cardinality(C) = Cardinality(A) + Cardinality(B) /\ Cardinality(A) \in Nat /\ Cardinality(B) \in Nat
    <3>1. IsFiniteSet(A) /\ IsFiniteSet(B)
      BY <2>7, FS_Subset
    <3>2. Cardinality(A \cap B) = 0
      BY <2>7, FS_EmptySet
    <3>3. Cardinality(A \cup B) = Cardinality(A) + Cardinality(B) - Cardinality(A \cap B)
      BY <3>1, FS_Union
    <3>4. Cardinality(A) \in Nat /\ Cardinality(B) \in Nat
      BY <3>1, FS_CardinalityType
    <3> QED
      BY <2>7, <3>2, <3>3, <3>4
  <2>9. w[s] = Cardinality(B)
    BY <2>2, <2>6
  <2> QED
    BY <2>4, <2>5, <2>6, <2>8, <2>9
<1>3. Good = Nat
  <2>1. Good \in SUBSET Nat
    OBVIOUS
  <2> HIDE DEF Good
  <2> QED
    BY <1>1, <1>2, <2>1, CountsUp
<1>4. Cardinality(D) \in Nat /\ With(D) = I
  BY FS_CardinalityType
<1>5. SumFunctionOnSet(w, D) = Cardinality(With(D))
  BY <1>3, <1>4
<1> QED
  BY <1>4, <1>5

LEMMA SumOfPart ==
  ASSUME NEW D, NEW w \in [D -> Nat], NEW S \in SUBSET D, IsFiniteSet(S), NEW v, v = [x \in S |-> w[x]]
  PROVE  SumFunctionOnSet(w, S) = SumFunction(v)
<1>1. v \in [S -> Nat] /\ S \in SUBSET S /\ DOMAIN v = S /\ \A x \in S : w[x] = v[x]
  OBVIOUS
<1>2. SumFunctionOnSet(w, S) = SumFunctionOnSet(v, S)
  BY <1>1, SumSame
<1> QED
  BY <1>1, <1>2 DEF SumFunction

LEMMA CapsOfPart ==
  ASSUME NEW m, CapsOf(m) \in [DOMAIN m -> Nat], NEW S \in SUBSET DOMAIN m, IsFiniteSet(S),
         NEW v, v = [x \in S |-> CapsOf(m)[x]]
  PROVE  SumFunctionOnSet(CapsOf(m), S) = SumFunction(v)
<1>1. PICK w : w = CapsOf(m)
  OBVIOUS
<1>2. w \in [DOMAIN m -> Nat] /\ v = [x \in S |-> w[x]]
  BY <1>1
<1>3. SumFunctionOnSet(w, S) = SumFunction(v)
  BY <1>2, SumOfPart
<1> QED
  BY <1>1, <1>3

LEMMA SmallerPart ==
  ASSUME NEW A, NEW B, A \subseteq B, IsFiniteSet(B)
  PROVE  IsFiniteSet(A) /\ Cardinality(A) \in Nat /\ Cardinality(B) \in Nat /\ Cardinality(A) <= Cardinality(B)
BY FS_Subset, FS_CardinalityType

\* What all chunks together show.
LEMMA EntriesShow ==
  ASSUME EntriesInv
  PROVE  EntriesAreTrue
<1> SUFFICES ASSUME DOMAIN arrays = {}
             PROVE  /\ Measured(TRUE) = Filled
                    /\ Cardinality(Measured(TRUE)) > Cardinality(Measured(FALSE)) => entry_layout = {TrueStride}
                    /\ Measured(TRUE) # {} /\ Measured(FALSE) = {} =>
                         LET a == profiled[TrueStride]
                             n == SumFunction([i \in Measured(TRUE) |-> Min({met[i].count, ENTRIES_PER_BLOCK})])
                         IN  /\ a.max_entries = Max({met[i].count : i \in Measured(TRUE)})
                             /\ a.entries = n /\ a.words = [k \in entry_words |-> n]
  BY DEF EntriesAreTrue
<1>1. /\ met \in Seq(MetType)
      /\ \A i \in DOMAIN met : met[i].array =>
           (met[i].taken <=> met[i].count >= 2 /\ met[i].size = met[i].count * TrueStride)
  BY DEF EntriesInv
<1>2. PICK g \in [DOMAIN met -> Nat], place \in [DOMAIN met -> Chunks] :
       /\ \A i \in DOMAIN met : met[i].taken /\ met[i].array => g[i] = TrueStride
       /\ DictTells(profiled, TakenIn(met, place, Chunks \ DOMAIN arrays), g, met, entry_words)
  BY DEF EntriesInv
<1>3. \A i \in DOMAIN met : met[i].array \in BOOLEAN /\ met[i].taken \in BOOLEAN /\ met[i].count \in Nat \ {0}
  <2> TAKE i \in DOMAIN met
  <2>1. met[i] \in MetType
    BY <1>1
  <2> QED
    BY <2>1 DEF MetType
<1>4. PICK own, strays, I, T : own = Measured(TRUE) /\ strays = Measured(FALSE) /\ I = {i \in DOMAIN met : met[i].taken} /\ T = TrueStride
  OBVIOUS
<1>5. /\ own \cup strays = I /\ I \subseteq DOMAIN met /\ own \cap strays = {}
      /\ \A i \in own : g[i] = T /\ met[i].array
      /\ \A i \in I : ~ met[i].array => i \in strays
      /\ TakenIn(met, place, Chunks \ DOMAIN arrays) = I
  BY <1>2, <1>3, <1>4 DEF Measured, TakenIn
<1>6. IsFiniteSet(DOMAIN met) /\ IsFiniteSet(I) /\ IsFiniteSet(own) /\ IsFiniteSet(strays)
  <2>1. DOMAIN met = 1 .. Len(met) /\ Len(met) \in Nat
    BY <1>1
  <2>2. IsFiniteSet(DOMAIN met)
    BY <2>1, FS_Interval
  <2> QED
    BY <1>5, <2>2, FS_Subset
<1>7. /\ DOMAIN profiled = {g[i] : i \in I}
      /\ \A s : PartTells(Get(profiled, s, NoArrays), OfStride(I, g, s), met, entry_words)
  BY <1>2, <1>5 DEF DictTells
<1>8. \A s \in DOMAIN profiled : ProfileTells(profiled[s], OfStride(I, g, s), met, entry_words) /\ OfStride(I, g, s) # {}
  <2> TAKE s \in DOMAIN profiled
  <2>1. OfStride(I, g, s) # {}
    BY <1>7 DEF OfStride
  <2>2. Get(profiled, s, NoArrays) = profiled[s]
    BY DEF Get
  <2>3. PartTells(profiled[s], OfStride(I, g, s), met, entry_words)
    BY <1>7, <2>2
  <2> QED
    BY <2>1, <2>3 DEF PartTells
<1>9. Measured(TRUE) = Filled
  BY <1>1, <1>3 DEF Measured, Filled
<1>10. CapsOf(met) \in [DOMAIN met -> Nat \ {0}] /\ CapsOf(met) \in [DOMAIN met -> Nat]
  <2>1. CapsOf(met) \in [DOMAIN met -> Nat \ {0}]
    BY <1>1, CapsAre
  <2> QED
    BY <2>1
<1>11. ASSUME Cardinality(own) > Cardinality(strays) PROVE entry_layout = {T}
  <2> DEFINE B(s) == profiled[s].blocks
  <2>1. \A s \in DOMAIN profiled : B(s) = Cardinality(OfStride(I, g, s)) /\ B(s) \in Nat
    <3> TAKE s \in DOMAIN profiled
    <3>1. OfStride(I, g, s) \subseteq I
      BY DEF OfStride
    <3>2. Cardinality(OfStride(I, g, s)) \in Nat
      BY <1>6, <3>1, SmallerPart
    <3> QED
      BY <1>8, <3>2 DEF ProfileTells
  <2>2. Cardinality(own) \in Nat /\ Cardinality(strays) \in Nat /\ Cardinality(I) = Cardinality(own) + Cardinality(strays)
    <3>1. Cardinality(own \cap strays) = 0
      BY <1>5, FS_EmptySet
    <3>2. Cardinality(own \cup strays) = Cardinality(own) + Cardinality(strays) - Cardinality(own \cap strays)
      BY <1>6, FS_Union
    <3>3. Cardinality(own) \in Nat /\ Cardinality(strays) \in Nat
      BY <1>6, FS_CardinalityType
    <3>4. Cardinality(I) = Cardinality(own) + Cardinality(strays) - Cardinality(own \cap strays)
      BY <1>5, <3>2
    <3> QED
      BY <3>1, <3>3, <3>4
  <2>3. PICK i \in own : TRUE
    <3>1. own # {}
      <4> SUFFICES ASSUME own = {} PROVE FALSE
        OBVIOUS
      <4>1. Cardinality(own) = 0
        BY FS_EmptySet
      <4> QED
        BY <1>11, <2>2, <4>1
    <3> QED
      BY <3>1
  <2>4. T \in DOMAIN profiled /\ i \in OfStride(I, g, T)
    BY <1>5, <1>7, <2>3 DEF OfStride
  <2>5. B(T) >= Cardinality(own)
    <3>1. own \subseteq OfStride(I, g, T) /\ OfStride(I, g, T) \subseteq I
      BY <1>5 DEF OfStride
    <3>2. IsFiniteSet(OfStride(I, g, T))
      BY <1>6, <3>1, FS_Subset
    <3>3. Cardinality(own) <= Cardinality(OfStride(I, g, T))
      BY <3>1, <3>2, SmallerPart
    <3> QED
      BY <2>1, <2>2, <2>4, <3>3
  <2>6. \A s \in DOMAIN profiled : s # T => B(s) < B(T)
    <3> TAKE s \in DOMAIN profiled
    <3> HAVE s # T
    <3>1. OfStride(I, g, s) \subseteq strays
      BY <1>5 DEF OfStride
    <3>2. Cardinality(OfStride(I, g, s)) <= Cardinality(strays)
      BY <1>6, <3>1, SmallerPart
    <3> QED
      BY <1>11, <2>1, <2>2, <2>4, <2>5, <3>2
  <2>7. PICK w : w = [s \in DOMAIN profiled |-> B(s)]
    OBVIOUS
  <2>8. SumFunction(w) = Cardinality(I)
    <3>1. w \in [DOMAIN profiled -> Nat] /\ DOMAIN w = DOMAIN profiled
          /\ \A s \in DOMAIN profiled : w[s] = Cardinality(OfStride(I, g, s))
      BY <2>1, <2>7
    <3>2. IsFiniteSet(DOMAIN profiled)
      <4>1. PICK f : f = [j \in I |-> g[j]]
        OBVIOUS
      <4>2. DOMAIN f = I /\ f = [j \in I |-> f[j]] /\ {f[j] : j \in I} = {g[j] : j \in I}
        BY <4>1
      <4>3. IsFiniteSet({f[j] : j \in I})
        BY <1>6, <4>2, ValuesFinite
      <4> QED
        BY <1>7, <4>2, <4>3
    <3>3. \A j \in I : g[j] \in DOMAIN profiled
      BY <1>7
    <3>4. SumFunctionOnSet(w, DOMAIN profiled) = Cardinality(I)
      BY <1>6, <3>1, <3>2, <3>3, StridesPart
    <3> QED
      BY <3>1, <3>4 DEF SumFunction
  <2>9. 2 * B(T) >= SumFunction(w)
    BY <1>11, <2>1, <2>2, <2>4, <2>5, <2>8
  <2>10. profiled[T].entries > 0
    <3>1. PICK S : S = OfStride(I, g, T)
      OBVIOUS
    <3>2. S \in SUBSET DOMAIN met /\ IsFiniteSet(S) /\ i \in S
      <4>1. S \subseteq I
        BY <3>1 DEF OfStride
      <4> QED
        BY <1>5, <1>6, <2>4, <3>1, <4>1, FS_Subset
    <3>3. profiled[T].entries = SumFunctionOnSet(CapsOf(met), S)
      BY <1>8, <2>4, <3>1 DEF ProfileTells
    <3>4. SumFunctionOnSet(CapsOf(met), S) = CapsOf(met)[i] + SumFunctionOnSet(CapsOf(met), S \ {i})
      BY <1>10, <3>2, SumWith
    <3>5. SumFunctionOnSet(CapsOf(met), S \ {i}) \in Nat
      <4>1. S \ {i} \in SUBSET DOMAIN met /\ IsFiniteSet(S \ {i})
        BY <3>2, FS_Subset
      <4> QED
        BY <1>10, <4>1, SumWith
    <3>6. CapsOf(met)[i] \in Nat \ {0}
      BY <1>10, <3>2
    <3> QED
      BY <3>3, <3>4, <3>5, <3>6
  <2>11. {s \in DOMAIN profiled : \A r \in DOMAIN profiled : B(r) < B(s) \/ (B(r) = B(s) /\ r <= s)} = {T}
    <3>1. T \in Nat
      BY <1>4, ArraysAssumption
    <3>2. \A r \in DOMAIN profiled : B(r) < B(T) \/ (B(r) = B(T) /\ r <= T)
      BY <2>6, <3>1
    <3>3. ASSUME NEW s \in DOMAIN profiled, s # T PROVE ~ (B(T) < B(s) \/ (B(T) = B(s) /\ T <= s))
      BY <2>1, <2>4, <2>6, <3>3
    <3> QED
      BY <2>4, <3>2, <3>3
  <2>12. {s \in {T} : 2 * B(s) >= SumFunction(w) /\ profiled[s].entries > 0} = {T}
    BY <2>9, <2>10
  <2> QED
    BY <2>7, <2>11, <2>12 DEF entry_layout
<1>12. ASSUME own # {}, strays = {}, NEW n, n = SumFunction([i \in own |-> Min({met[i].count, ENTRIES_PER_BLOCK})])
       PROVE  /\ profiled[T].max_entries = Max({met[i].count : i \in own})
              /\ profiled[T].entries = n /\ profiled[T].words = [k \in entry_words |-> n]
  <2>1. OfStride(I, g, T) = own /\ T \in DOMAIN profiled
    BY <1>5, <1>7, <1>12 DEF OfStride
  <2>2. ProfileTells(profiled[T], own, met, entry_words)
    BY <1>8, <2>1
  <2>3. PICK w, v : w = CapsOf(met) /\ v = [i \in own |-> Min({met[i].count, ENTRIES_PER_BLOCK})]
    OBVIOUS
  <2>4. own \in SUBSET DOMAIN met
    BY <1>5
  <2>5. v = [i \in own |-> w[i]]
    BY <2>3, <2>4 DEF CapsOf
  <2>6. w \in [DOMAIN met -> Nat]
    BY <1>10, <2>3
  <2>7. SumFunctionOnSet(w, own) = SumFunction(v)
    <3>1. v = [x \in own |-> CapsOf(met)[x]]
      BY <2>3, <2>5
    <3>2. CapsOf(met) \in [DOMAIN met -> Nat]
      BY <1>10
    <3>3. IsFiniteSet(own)
      BY <1>6
    <3>4. SumFunctionOnSet(CapsOf(met), own) = SumFunction(v)
      BY <2>4, <3>1, <3>2, <3>3, CapsOfPart, Zenon
    <3> QED
      BY <2>3, <3>4
  <2>8. profiled[T].entries = n
    BY <1>12, <2>2, <2>3, <2>7 DEF ProfileTells
  <2>9. profiled[T].words = [k \in entry_words |-> n]
    BY <1>5, <2>2, <2>8 DEF ProfileTells
  <2>10. profiled[T].max_entries = Max({met[i].count : i \in own})
    <3>1. PICK f : f = [i \in own |-> met[i].count]
      OBVIOUS
    <3>2. DOMAIN f = own /\ f = [i \in own |-> f[i]] /\ {f[i] : i \in own} = {met[i].count : i \in own}
      BY <3>1
    <3>3. PICK Z : Z = {met[i].count : i \in own}
      OBVIOUS
    <3>4. IsFiniteSet(Z)
      <4>1. IsFiniteSet({f[i] : i \in own})
        BY <1>6, <3>2, ValuesFinite
      <4> QED
        BY <3>2, <3>3, <4>1
    <3>5. Z \in SUBSET Nat /\ Z # {}
      BY <1>3, <1>12, <2>4, <3>3
    <3>6. Max(Z) \in Z /\ \A x \in Z : x <= Max(Z)
      BY <3>4, <3>5, EndsOf
    <3>7. PICK x, y : x = profiled[T].max_entries /\ y = Max(Z)
      OBVIOUS
    <3>8. x \in Z /\ \A z \in Z : z <= x
      BY <2>2, <3>3, <3>7 DEF ProfileTells
    <3>9. x <= y /\ y <= x /\ x \in Nat /\ y \in Nat
      BY <3>5, <3>6, <3>7, <3>8
    <3> QED
      BY <3>3, <3>7, <3>9
  <2> QED
    BY <2>8, <2>9, <2>10
<1> QED
  BY <1>4, <1>9, <1>11, <1>12

\* The entry size that entry_layout takes is that of the class's arrays if more of
\* them than of strays were measured, and what is counted of the entries is exact
\* (fields.rs:347-357, 803-836).
THEOREM EntriesAreMeasured == ArraysSpec => []EntriesAreTrue
<1>1. ArraysInit => EntriesInv
  BY NoneTold
<1>2. EntriesInv /\ [ArraysNext]_arraysPart => EntriesInv'
  <2> SUFFICES ASSUME EntriesInv, [ArraysNext]_arraysPart PROVE EntriesInv'
    OBVIOUS
  <2>1. ASSUME NEW c \in Chunks, NEW count \in Counts, NEW room \in Rooms, ArrayBlock(c, count, room)
        PROVE  EntriesInv'
    BY <2>1, ArrayBlockTells
  <2>2. ASSUME NEW c \in Chunks, NEW size \in StraySizes, NEW count \in Counts,
               NEW written \in SUBSET (0 .. Max(StraySizes) - 1), StrayBlock(c, size, written, count)
        PROVE  EntriesInv'
    BY <2>2, StrayBlockTells
  <2>3. ASSUME NEW c \in Chunks, MergeArrays(c)
        PROVE  EntriesInv'
    BY <2>3, MergeArraysTells
  <2>4. ASSUME UNCHANGED arraysPart
        PROVE  EntriesInv'
    BY <2>4 DEF EntriesInv, arraysPart
  <2> QED
    BY <2>1, <2>2, <2>3, <2>4 DEF ArraysNext
<1>3. EntriesInv => EntriesAreTrue
  BY EntriesShow
<1> QED
  BY <1>1, <1>2, <1>3, PTL DEF ArraysSpec
=============================================================================
