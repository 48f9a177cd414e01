-------------------------- MODULE DbrcIndexProofs --------------------------
(* What TLAPS proves about DbrcIndex, for every size of the tables, every    *)
(* number of levels, slots, attempts and TLB entries: types and widths, the  *)
(* agreement of cache_TLB with its order vector, and what a search finds.    *)
(* Every slot in use has an owner, the block of memory it was installed for, *)
(* and a walk meets only slots whose owner has the path searched so far.     *)
EXTENDS DbrcIndex, FiniteSetTheorems, SequenceTheorems, TLAPS
-----------------------------------------------------------------------------
(* Sequences without repetition.                                             *)

LEMMA AppendFacts ==
    ASSUME NEW S, NEW s \in Seq(S), NEW x \in S,
           IsInjective(s), x \notin Range(s)
    PROVE  /\ Append(s, x) \in Seq(S)
           /\ Len(Append(s, x)) = Len(s) + 1
           /\ IsInjective(Append(s, x))
           /\ Range(Append(s, x)) = Range(s) \cup {x}
<1>1. \A k \in 1 .. Len(s) + 1 :
         Append(s, x)[k] = IF k <= Len(s) THEN s[k] ELSE x
  OBVIOUS
<1>2. DOMAIN Append(s, x) = 1 .. Len(s) + 1 /\ DOMAIN s = 1 .. Len(s)
  OBVIOUS
<1>3. \A k \in 1 .. Len(s) : s[k] \in Range(s) /\ s[k] # x
  BY <1>2 DEF Range
<1>4. IsInjective(Append(s, x))
  BY <1>1, <1>2, <1>3 DEF IsInjective
<1>5. Range(Append(s, x)) = Range(s) \cup {x}
  <2>1. ASSUME NEW y \in Range(Append(s, x)) PROVE y \in Range(s) \cup {x}
    BY <1>1, <1>2, <1>3 DEF Range
  <2>2. ASSUME NEW y \in Range(s) PROVE y \in Range(Append(s, x))
    <3>1. PICK k \in 1 .. Len(s) : y = s[k]
      BY <1>2 DEF Range
    <3>2. k \in DOMAIN Append(s, x) /\ Append(s, x)[k] = y
      BY <1>1, <1>2, <3>1
    <3> QED BY <3>2 DEF Range
  <2>3. x \in Range(Append(s, x))
    <3>1. /\ Len(s) + 1 \in DOMAIN Append(s, x)
          /\ Append(s, x)[Len(s) + 1] = x
      BY <1>1, <1>2
    <3> QED BY <3>1 DEF Range
  <2> QED BY <2>1, <2>2, <2>3
<1> QED BY <1>4, <1>5

LEMMA TailFacts ==
    ASSUME NEW S, NEW s \in Seq(S), s # << >>, IsInjective(s)
    PROVE  /\ Tail(s) \in Seq(S)
           /\ Len(Tail(s)) = Len(s) - 1
           /\ IsInjective(Tail(s))
           /\ Range(Tail(s)) = Range(s) \ {Head(s)}
<1>1. /\ Tail(s) \in Seq(S)
      /\ Len(s) \in Nat /\ Len(s) > 0
      /\ Len(Tail(s)) = Len(s) - 1
      /\ \A k \in 1 .. Len(s) - 1 : Tail(s)[k] = s[k + 1]
      /\ Head(s) = s[1]
  BY HeadTailProperties, EmptySeq
<1>2. DOMAIN Tail(s) = 1 .. Len(s) - 1 /\ DOMAIN s = 1 .. Len(s)
  BY <1>1
<1>3. IsInjective(Tail(s))
  BY <1>1, <1>2 DEF IsInjective
<1>4. ASSUME NEW y \in Range(Tail(s)) PROVE y \in Range(s) /\ y # Head(s)
  <2>1. PICK k \in 1 .. Len(s) - 1 : y = s[k + 1]
    BY <1>1, <1>2 DEF Range
  <2>2. k + 1 \in DOMAIN s /\ 1 \in DOMAIN s /\ k + 1 # 1
    BY <1>1, <1>2
  <2> QED BY <1>1, <2>1, <2>2 DEF Range, IsInjective
<1>5. ASSUME NEW y \in Range(s), y # Head(s) PROVE y \in Range(Tail(s))
  <2>1. PICK k \in 1 .. Len(s) : y = s[k]
    BY <1>2 DEF Range
  <2>2. k - 1 \in DOMAIN Tail(s) /\ Tail(s)[k - 1] = s[k]
    BY <1>1, <1>2, <1>5, <2>1
  <2> QED BY <2>1, <2>2 DEF Range
<1> QED BY <1>1, <1>3, <1>4, <1>5

LEMMA ErasedFacts ==
    ASSUME NEW S, NEW s \in Seq(S), NEW x \in Range(s), IsInjective(s)
    PROVE  /\ Erased(s, x) \in Seq(S)
           /\ Len(Erased(s, x)) = Len(s) - 1
           /\ IsInjective(Erased(s, x))
           /\ Range(Erased(s, x)) = Range(s) \ {x}
<1> DEFINE t == Erased(s, x)
<1>1. DOMAIN s = 1 .. Len(s) /\ Len(s) \in Nat
  OBVIOUS
<1>2. PICK k \in 1 .. Len(s) : /\ s[k] = x
                               /\ k = CHOOSE i \in DOMAIN s : s[i] = x
  BY <1>1 DEF Range
<1>3. /\ SubSeq(s, 1, k - 1) \in Seq(S)
      /\ Len(SubSeq(s, 1, k - 1)) = k - 1
      /\ \A i \in 1 .. k - 1 : SubSeq(s, 1, k - 1)[i] = s[i]
  <2>1. \A i \in 1 .. k - 1 : s[i] \in S
    BY <1>1, <1>2
  <2> QED BY <1>1, <1>2, <2>1, SubSeqProperties
<1>4. /\ SubSeq(s, k + 1, Len(s)) \in Seq(S)
      /\ Len(SubSeq(s, k + 1, Len(s))) = Len(s) - k
      /\ \A i \in 1 .. Len(s) - k : SubSeq(s, k + 1, Len(s))[i] = s[k + i]
  <2>1. \A i \in k + 1 .. Len(s) : s[i] \in S
    BY <1>1, <1>2
  <2>2. /\ SubSeq(s, k + 1, Len(s)) \in Seq(S)
        /\ Len(SubSeq(s, k + 1, Len(s)))
             = IF k + 1 <= Len(s) THEN Len(s) - (k + 1) + 1 ELSE 0
        /\ \A i \in 1 .. Len(s) - (k + 1) + 1 :
              SubSeq(s, k + 1, Len(s))[i] = s[(k + 1) + i - 1]
    <3>1. k + 1 \in Int /\ Len(s) \in Int
      BY <1>1, <1>2
    <3> QED BY ONLY <2>1, <3>1, SubSeqProperties
  <2>3. Len(SubSeq(s, k + 1, Len(s))) = Len(s) - k
    BY <1>1, <1>2, <2>2
  <2>4. ASSUME NEW i \in 1 .. Len(s) - k
        PROVE  SubSeq(s, k + 1, Len(s))[i] = s[k + i]
    <3>1. i \in 1 .. Len(s) - (k + 1) + 1 /\ (k + 1) + i - 1 = k + i
      BY <1>1, <1>2
    <3>2. SubSeq(s, k + 1, Len(s))[i] = s[(k + 1) + i - 1]
      BY <2>2, <3>1
    <3> QED BY <3>1, <3>2
  <2> QED BY <2>2, <2>3, <2>4
<1>5. t = SubSeq(s, 1, k - 1) \o SubSeq(s, k + 1, Len(s))
  BY <1>2 DEF Erased, RemoveAt
<1>6. /\ t \in Seq(S)
      /\ Len(t) = Len(s) - 1
      /\ \A i \in 1 .. Len(s) - 1 : t[i] = IF i < k THEN s[i] ELSE s[i + 1]
  <2> DEFINE u == SubSeq(s, 1, k - 1)
             v == SubSeq(s, k + 1, Len(s))
  <2>0. u \in Seq(S) /\ v \in Seq(S) /\ Len(u) = k - 1 /\ Len(v) = Len(s) - k
    BY <1>3, <1>4
  <2> HIDE DEF u, v
  <2>3. /\ u \o v \in Seq(S)
        /\ Len(u \o v) = Len(u) + Len(v)
        /\ \A i \in 1 .. Len(u) + Len(v) :
              (u \o v)[i] = IF i <= Len(u) THEN u[i] ELSE v[i - Len(u)]
    BY <2>0, ConcatProperties
  <2>1. /\ t \in Seq(S)
        /\ Len(t) = (k - 1) + (Len(s) - k)
        /\ \A i \in 1 .. (k - 1) + (Len(s) - k) :
              t[i] = IF i <= k - 1 THEN SubSeq(s, 1, k - 1)[i]
                     ELSE SubSeq(s, k + 1, Len(s))[i - (k - 1)]
    BY <1>5, <2>0, <2>3, Zenon DEF u, v
  <2>2. ASSUME NEW i \in 1 .. Len(s) - 1
        PROVE  t[i] = IF i < k THEN s[i] ELSE s[i + 1]
    <3>1. CASE i < k
      <4>1. i \in 1 .. k - 1 /\ i <= k - 1 /\ i \in 1 .. (k - 1) + (Len(s) - k)
        BY <1>1, <1>2, <3>1
      <4> QED BY <1>3, <2>1, <3>1, <4>1
    <3>2. CASE ~(i < k)
      <4>1. /\ i - (k - 1) \in 1 .. Len(s) - k
            /\ ~(i <= k - 1)
            /\ i \in 1 .. (k - 1) + (Len(s) - k)
            /\ k + (i - (k - 1)) = i + 1
        BY <1>1, <1>2, <3>2
      <4> QED BY <1>4, <2>1, <3>2, <4>1
    <3> QED BY <3>1, <3>2
  <2> QED BY <1>1, <1>2, <2>1, <2>2
<1>7. DOMAIN t = 1 .. Len(s) - 1
  BY <1>6
<1> HIDE DEF t
<1>8. IsInjective(t)
  <2> SUFFICES ASSUME NEW i \in 1 .. Len(s) - 1, NEW j \in 1 .. Len(s) - 1,
                      t[i] = t[j]
               PROVE  i = j
    BY <1>7 DEF IsInjective
  <2> DEFINE p == IF i < k THEN i ELSE i + 1
             q == IF j < k THEN j ELSE j + 1
  <2>1. p \in DOMAIN s /\ q \in DOMAIN s
    BY <1>1, <1>2
  <2>2. t[i] = s[p] /\ t[j] = s[q]
    BY <1>6
  <2>3. p = q => i = j
    BY <1>1, <1>2
  <2> HIDE DEF p, q
  <2> QED BY <2>1, <2>2, <2>3 DEF IsInjective
<1>9. ASSUME NEW y \in Range(t) PROVE y \in Range(s) /\ y # x
  <2>1. PICK i \in 1 .. Len(s) - 1 : y = t[i]
    BY <1>7 DEF Range
  <2> DEFINE p == IF i < k THEN i ELSE i + 1
  <2>2. p \in 1 .. Len(s) /\ p # k
    BY <1>1
  <2>3. y = s[p]
    BY <1>6, <2>1
  <2> HIDE DEF p
  <2> QED BY <1>1, <1>2, <2>2, <2>3 DEF Range, IsInjective
<1>10. ASSUME NEW y \in Range(s), y # x PROVE y \in Range(t)
  <2>1. PICK i \in 1 .. Len(s) : y = s[i]
    BY <1>1 DEF Range
  <2>2. i # k
    BY <1>2, <1>10, <2>1
  <2> DEFINE p == IF i < k THEN i ELSE i - 1
  <2>3. /\ p \in 1 .. Len(s) - 1
        /\ i < k => p = i /\ p < k
        /\ ~(i < k) => ~(p < k) /\ p + 1 = i
    BY <1>1, <1>2, <2>2
  <2> HIDE DEF p
  <2>4. t[p] = y
    BY <1>6, <2>1, <2>3
  <2> QED BY <1>7, <2>3, <2>4 DEF Range
<1> QED BY <1>6, <1>8, <1>9, <1>10 DEF t

\* A sequence without repetition is as long as the set of its elements.
LEMMA LengthCounts ==
    ASSUME NEW S, NEW s \in Seq(S), IsInjective(s)
    PROVE  Cardinality(Range(s)) = Len(s)
<1>1. DOMAIN s = 1 .. Len(s) /\ Len(s) \in Nat
  OBVIOUS
<1>2. s \in Bijection(1 .. Len(s), Range(s))
  BY <1>1 DEF Bijection, Injection, Surjection, Range, IsInjective
<1>3. ExistsBijection(1 .. Len(s), Range(s))
  BY <1>2 DEF ExistsBijection
<1> QED BY <1>1, <1>3, FS_CountingElements
-----------------------------------------------------------------------------
(* The TLB and its order vector: filled, refreshed, erased.                  *)

TLBTypeOK ==
    /\ DOMAIN cache_TLB \subseteq Blocks
    /\ cache_TLB \in [DOMAIN cache_TLB -> Slots]
    /\ cache_TLB_order \in Seq(Blocks)

TLBInv == TLBTypeOK /\ TLBOrdered /\ TLBBounded

LEMMA RecordKeeps ==
    ASSUME TLBInv, NEW b \in Blocks, NEW s \in Slots, b \notin DOMAIN cache_TLB,
           cache_TLB' = TLBRecord(b, s), cache_TLB_order' = TLBRecordOrder(b)
    PROVE  TLBInv'
<1> DEFINE kept  == IF TLBFull THEN Without(cache_TLB, Head(cache_TLB_order))
                    ELSE cache_TLB
           order == IF TLBFull THEN Tail(cache_TLB_order) ELSE cache_TLB_order
<1>0. TLB_size \in Nat
  BY SizesAssumption
<1>1. /\ cache_TLB_order \in Seq(Blocks)
      /\ IsInjective(cache_TLB_order)
      /\ Range(cache_TLB_order) = DOMAIN cache_TLB
      /\ Cardinality(DOMAIN cache_TLB) = Len(cache_TLB_order)
      /\ Len(cache_TLB_order) \in Nat
      /\ Len(cache_TLB_order) <= TLB_size + 1
  BY LengthCounts DEF TLBInv, TLBTypeOK, TLBOrdered, TLBBounded
<1>2. /\ DOMAIN kept \subseteq Blocks
      /\ kept \in [DOMAIN kept -> Slots]
      /\ order \in Seq(Blocks)
      /\ IsInjective(order)
      /\ Range(order) = DOMAIN kept
      /\ Len(order) <= TLB_size
      /\ b \notin DOMAIN kept
  <2>1. CASE TLBFull
    <3>1. cache_TLB_order # << >>
      <4>1. Len(cache_TLB_order) > TLB_size
        BY <1>1, <2>1 DEF TLBFull
      <4> QED BY <1>0, <4>1
    <3>2. /\ Tail(cache_TLB_order) \in Seq(Blocks)
          /\ Len(Tail(cache_TLB_order)) = Len(cache_TLB_order) - 1
          /\ IsInjective(Tail(cache_TLB_order))
          /\ Range(Tail(cache_TLB_order))
               = Range(cache_TLB_order) \ {Head(cache_TLB_order)}
      BY <1>1, <3>1, TailFacts
    <3>3. kept = Without(cache_TLB, Head(cache_TLB_order))
          /\ order = Tail(cache_TLB_order)
      BY <2>1
    <3>4. /\ DOMAIN kept = DOMAIN cache_TLB \ {Head(cache_TLB_order)}
          /\ \A t \in DOMAIN kept : kept[t] = cache_TLB[t]
          /\ kept = [t \in DOMAIN kept |-> cache_TLB[t]]
      BY <3>3 DEF Without, Restrict
    <3>5. kept \in [DOMAIN kept -> Slots] /\ DOMAIN kept \subseteq Blocks
      BY <3>4 DEF TLBInv, TLBTypeOK
    <3>6. Len(order) <= TLB_size
      BY <1>0, <1>1, <3>2, <3>3
    <3> QED BY <1>1, <3>2, <3>3, <3>4, <3>5, <3>6
  <2>2. CASE ~TLBFull
    <3>1. kept = cache_TLB /\ order = cache_TLB_order
      BY <2>2
    <3>2. Len(cache_TLB_order) <= TLB_size
      BY <1>0, <1>1, <2>2 DEF TLBFull
    <3> QED BY <1>1, <3>1, <3>2 DEF TLBInv, TLBTypeOK
  <2> QED BY <2>1, <2>2
<1>3. /\ cache_TLB' = [t \in DOMAIN kept \cup {b} |-> IF t = b THEN s ELSE kept[t]]
      /\ cache_TLB_order' = Append(order, b)
  BY DEF TLBRecord, TLBRecordOrder
<1> HIDE DEF kept, order
<1>4. /\ cache_TLB_order' \in Seq(Blocks)
      /\ Len(cache_TLB_order') = Len(order) + 1
      /\ IsInjective(cache_TLB_order')
      /\ Range(cache_TLB_order') = Range(order) \cup {b}
  BY <1>2, <1>3, AppendFacts
<1>5. TLBTypeOK'
  BY <1>2, <1>3, <1>4 DEF TLBTypeOK
<1>6. TLBOrdered'
  BY <1>2, <1>3, <1>4 DEF TLBOrdered
<1>7. TLBBounded'
  BY <1>0, <1>2, <1>4 DEF TLBBounded
<1> QED BY <1>5, <1>6, <1>7 DEF TLBInv

LEMMA EraseKeeps ==
    ASSUME TLBInv, NEW b \in DOMAIN cache_TLB,
           cache_TLB' = Without(cache_TLB, b),
           cache_TLB_order' = Erased(cache_TLB_order, b)
    PROVE  TLBInv' /\ DOMAIN cache_TLB' \subseteq DOMAIN cache_TLB
<1>1. /\ cache_TLB_order \in Seq(Blocks)
      /\ IsInjective(cache_TLB_order)
      /\ Range(cache_TLB_order) = DOMAIN cache_TLB
      /\ Len(cache_TLB_order) \in Nat
      /\ Len(cache_TLB_order) <= TLB_size + 1
  BY DEF TLBInv, TLBTypeOK, TLBOrdered, TLBBounded
<1>2. /\ cache_TLB_order' \in Seq(Blocks)
      /\ Len(cache_TLB_order') = Len(cache_TLB_order) - 1
      /\ IsInjective(cache_TLB_order')
      /\ Range(cache_TLB_order') = DOMAIN cache_TLB \ {b}
  BY <1>1, ErasedFacts
<1>3. /\ DOMAIN cache_TLB' = DOMAIN cache_TLB \ {b}
      /\ cache_TLB' \in [DOMAIN cache_TLB' -> Slots]
  BY DEF Without, Restrict, TLBInv, TLBTypeOK
<1>4. TLBTypeOK'
  BY <1>2, <1>3 DEF TLBTypeOK, TLBInv
<1>5. TLBOrdered'
  BY <1>2, <1>3 DEF TLBOrdered
<1>6. TLBBounded'
  BY <1>1, <1>2, SizesAssumption DEF TLBBounded
<1> QED BY <1>3, <1>4, <1>5, <1>6 DEF TLBInv

LEMMA RefreshKeeps ==
    ASSUME TLBInv, NEW b \in DOMAIN cache_TLB, UNCHANGED cache_TLB,
           cache_TLB_order' = Append(Erased(cache_TLB_order, b), b)
    PROVE  TLBInv'
<1> DEFINE order == Erased(cache_TLB_order, b)
<1>1. /\ cache_TLB_order \in Seq(Blocks)
      /\ IsInjective(cache_TLB_order)
      /\ Range(cache_TLB_order) = DOMAIN cache_TLB
      /\ Len(cache_TLB_order) \in Nat
      /\ Len(cache_TLB_order) <= TLB_size + 1
      /\ b \in Blocks
  BY DEF TLBInv, TLBTypeOK, TLBOrdered, TLBBounded
<1>2. /\ order \in Seq(Blocks)
      /\ Len(order) = Len(cache_TLB_order) - 1
      /\ IsInjective(order)
      /\ Range(order) = DOMAIN cache_TLB \ {b}
  BY <1>1, ErasedFacts
<1>3. cache_TLB_order' = Append(order, b)
  OBVIOUS
<1> HIDE DEF order
<1>4. /\ cache_TLB_order' \in Seq(Blocks)
      /\ Len(cache_TLB_order') = Len(order) + 1
      /\ IsInjective(cache_TLB_order')
      /\ Range(cache_TLB_order') = Range(order) \cup {b}
  BY <1>1, <1>2, <1>3, AppendFacts
<1>5. TLBTypeOK'
  BY <1>4 DEF TLBTypeOK, TLBInv
<1>6. TLBOrdered'
  BY <1>2, <1>4 DEF TLBOrdered
<1>7. TLBBounded'
  BY <1>1, <1>2, <1>4, SizesAssumption DEF TLBBounded
<1> QED BY <1>5, <1>6, <1>7 DEF TLBInv
-----------------------------------------------------------------------------
(* What insert and the search do to the block array keeps every field to its *)
(* width and every index inside its array.                                   *)

Array == [Slots -> Block]

LEMMA Numbers ==
    /\ num_BTH \in Nat /\ num_BTH > 0
    /\ capacity \in Nat /\ capacity > 0
    /\ RMax \in Nat /\ RMax > 0
    /\ PTSize \in Nat /\ PTSize > 0
    /\ TLB_size \in Nat
    /\ MNA \in Nat
    /\ Slots \subseteq Nat /\ 0 \in Slots
    /\ None \notin Slots
    /\ Levels \subseteq Nat
    /\ Blocks \subseteq Nat /\ 0 \in Blocks
<1> DEFINE below == Fanout ^ (num_BTH - 1)
<1>1. below \in Nat /\ below > 0 /\ L0Size \in Nat /\ L0Size > 0
  BY SizesAssumption
<1> HIDE DEF below
<1>2. L0Size * below \in Nat /\ L0Size * below > 0
  BY <1>1
<1>3. Blocks = 0 .. L0Size * below - 1
  BY DEF Blocks, below
<1>4. Blocks \subseteq Nat /\ 0 \in Blocks
  BY <1>2, <1>3
<1> QED BY <1>4, SizesAssumption DEF Slots, Levels, None

LEMMA ReuseFacts ==
    ASSUME NEW path, NEW s
    PROVE  Reuse(path, s) \in Nat
<1>1. IsFiniteSet(Levels)
  BY Numbers, FS_Interval DEF Levels
<1>2. {l \in Levels \ {1} : path[l] = s} \in SUBSET Levels
  OBVIOUS
<1> QED BY <1>1, <1>2, FS_Subset, FS_CardinalityType DEF Reuse

LEMMA TouchedType ==
    ASSUME cache_DBA \in Array, NEW path
    PROVE  /\ Touched(path) \in Array
           /\ \A s \in Slots : Touched(path)[s].LF = cache_DBA[s].LF
<1> SUFFICES ASSUME NEW s \in Slots
             PROVE  /\ Touched(path)[s] \in Block
                    /\ Touched(path)[s].LF = cache_DBA[s].LF
  BY DEF Touched, Array
<1> DEFINE r == Capped(cache_DBA[s].R + Reuse(path, s))
<1>1. cache_DBA[s] \in Block /\ cache_DBA[s].R \in 0 .. RMax
  BY DEF Array, Block
<1>2. r \in 0 .. RMax
  BY <1>1, ReuseFacts, Numbers DEF Capped
<1>3. Touched(path)[s] = [cache_DBA[s] EXCEPT !.R = r]
  BY DEF Touched
<1> HIDE DEF r
<1> QED BY <1>1, <1>2, <1>3 DEF Block

LEMMA ScannedType ==
    ASSUME cache_DBA \in Array, NEW n
    PROVE  Scanned(n) \in Array
<1> SUFFICES ASSUME NEW s \in Slots PROVE Scanned(n)[s] \in Block
  BY DEF Scanned, Array
<1>1. cache_DBA[s] \in Block /\ 0 \in 0 .. RMax
  BY Numbers DEF Array
<1>2. [cache_DBA[s] EXCEPT !.R = 0] \in Block
  BY <1>1 DEF Block
<1> QED BY <1>1, <1>2 DEF Scanned

LEMMA UnlinkedType ==
    ASSUME NEW dba \in Array, NEW v \in Slots
    PROVE  Unlinked(dba, v) \in Array
<1> DEFINE p == dba[v].PT
           i == Min(Naming(dba, v))
           cut(t) == [t EXCEPT ![i].V = FALSE]
<1>1. CASE Unlinked(dba, v) = dba
  BY <1>1
<1>2. CASE Unlinked(dba, v) = [dba EXCEPT ![p].BTH[i].V = FALSE]
  <2> HIDE DEF p, i
  <2>1. ASSUME NEW t \in [Entries -> Pointer] PROVE cut(t) \in [Entries -> Pointer]
    BY DEF Pointer
  <2>2. ASSUME NEW s \in Slots PROVE Unlinked(dba, v)[s] \in Block
    <3>1. dba[s] \in Block
      BY DEF Array
    <3>2. dba[s].BTH \in [Entries -> Pointer]
      BY <3>1 DEF Block
    <3>3. [dba[s] EXCEPT !.BTH = cut(dba[s].BTH)] \in Block
      BY <2>1, <3>1, <3>2 DEF Block
    <3> QED BY <1>2, <3>1, <3>3 DEF Array
  <2> QED BY <1>2, <2>2 DEF Array
<1> QED BY <1>1, <1>2 DEF Unlinked

LEMMA VacatedType ==
    ASSUME NEW dba \in Array, NEW v \in Slots
    PROVE  Vacated(dba, v) \in Array
<1>1. ASSUME NEW s \in Slots
      PROVE  /\ dba[s] \in Block
             /\ [dba[s] EXCEPT !.TAG = 0] \in Block
             /\ [dba[s] EXCEPT !.PV = FALSE] \in Block
  <2>1. dba[s] \in Block /\ 0 \in Blocks
    BY Numbers DEF Array
  <2> QED BY <2>1 DEF Block
<1>2. CASE ~Evicted(dba, v)
  BY <1>2 DEF Vacated
<1>3. CASE Evicted(dba, v) /\ IsData(dba, v)
  <2>1. Vacated(dba, v) = [dba EXCEPT ![v].TAG = 0]
    BY <1>3 DEF Vacated
  <2> QED BY <1>1, <2>1 DEF Array
<1>4. CASE Evicted(dba, v) /\ ~IsData(dba, v)
  <2>1. Vacated(dba, v) =
           [s \in Slots |-> IF s \in Children(dba, v)
                            THEN [dba[s] EXCEPT !.PV = FALSE] ELSE dba[s]]
    BY <1>4 DEF Vacated
  <2> QED BY <1>1, <2>1 DEF Array
<1> QED BY <1>2, <1>3, <1>4

LEMMA LinkedType ==
    ASSUME NEW dba \in Array, NEW b, NEW l, NEW w \in Slots
    PROVE  Linked(dba, b, l, w) \in Array
<1> DEFINE i == TableIndex(b, l)
           ptr == [V |-> TRUE, I |-> w]
<1>1. CASE l = 1
  BY <1>1 DEF Linked
<1>2. CASE l # 1
  <2>1. Linked(dba, b, l, w) = [dba EXCEPT ![last_BTH].BTH[i] = ptr]
    BY <1>2 DEF Linked
  <2>2. ptr \in Pointer
    BY DEF Pointer
  <2> HIDE DEF i, ptr
  <2>3. ASSUME NEW s \in Slots PROVE Linked(dba, b, l, w)[s] \in Block
    <3>1. dba[s] \in Block
      BY DEF Array
    <3>2. CASE s = last_BTH
      <4>1. dba[s].BTH \in [Entries -> Pointer]
        BY <3>1 DEF Block
      <4>2. [dba[s].BTH EXCEPT ![i] = ptr] \in [Entries -> Pointer]
        BY <2>2, <4>1
      <4>3. [dba[s] EXCEPT !.BTH = [dba[s].BTH EXCEPT ![i] = ptr]] \in Block
        BY <3>1, <4>2 DEF Block
      <4>4. Linked(dba, b, l, w)[s]
              = [dba[s] EXCEPT !.BTH = [dba[s].BTH EXCEPT ![i] = ptr]]
        BY <2>1, <3>2 DEF Array
      <4> QED BY <4>3, <4>4
    <3>3. CASE s # last_BTH
      BY <2>1, <3>1, <3>3 DEF Array
    <3> QED BY <3>2, <3>3
  <2> QED BY <2>1, <2>3 DEF Array
<1> QED BY <1>1, <1>2

LEMMA InstalledType ==
    ASSUME NEW dba \in Array, NEW b \in Blocks, NEW l \in Levels, NEW w \in Slots,
           last_BTH \in Slots \cup {None}
    PROVE  Installed(dba, b, l, w) \in Array
<1> DEFINE pt == (IF l = 1 THEN L0TIndex(b) ELSE last_BTH) % PTSize
<1>1. pt \in 0 .. PTSize - 1
  <2>1. L0TIndex(b) \in Int
    <3>1. Fanout ^ (num_BTH - 1) \in Nat \ {0}
      BY SizesAssumption
    <3> QED BY <3>1, Numbers DEF L0TIndex
  <2>2. last_BTH \in Int
    BY Numbers DEF None
  <2> QED BY <2>1, <2>2, Numbers
<1>2. EmptyTable \in [Entries -> Pointer]
  BY Numbers DEF EmptyTable, NullPointer, Pointer
<1>3. dba[w] \in Block /\ l \in 0 .. num_BTH /\ 1 \in 0 .. RMax
  BY Numbers DEF Array, Levels
<1> DEFINE new == [dba[w] EXCEPT !.V = TRUE, !.PV = TRUE, !.LF = l, !.R = 1,
                                 !.PT = pt, !.BTH = EmptyTable]
<1>4. Installed(dba, b, l, w) = [dba EXCEPT ![w] = new]
  BY DEF Installed
<1> HIDE DEF pt
<1>5. new \in Block
  BY <1>1, <1>2, <1>3 DEF Block
<1> HIDE DEF new
<1> QED BY <1>4, <1>5 DEF Array

LEMMA DirtiedType ==
    ASSUME NEW dba \in Array, NEW s \in Slots, NEW store \in BOOLEAN
    PROVE  Dirtied(dba, s, store) \in Array
<1>1. dba[s] \in Block
  BY DEF Array
<1>2. [dba[s] EXCEPT !.D = @ \/ store] \in Block
  BY <1>1 DEF Block
<1> QED BY <1>1, <1>2 DEF Dirtied, Array

LEMMA L0TType ==
    ASSUME NEW l0t \in [0 .. L0Size - 1 -> Pointer], NEW t, NEW w \in Slots
    PROVE  /\ [l0t EXCEPT ![t].V = FALSE] \in [0 .. L0Size - 1 -> Pointer]
           /\ [l0t EXCEPT ![t] = [V |-> TRUE, I |-> w]] \in [0 .. L0Size - 1 -> Pointer]
<1>1. \A p \in Pointer : [p EXCEPT !.V = FALSE] \in Pointer
  BY DEF Pointer
<1>2. [V |-> TRUE, I |-> w] \in Pointer
  BY DEF Pointer
<1> QED BY <1>1, <1>2
-----------------------------------------------------------------------------
(* The inductive invariant.  TypeOK alone is not inductive: the slot that    *)
(* InsertEnd enters in the TLB is last_BTH, and the entry that makes room is *)
(* the head of the order vector.                                             *)

InsertState ==
    phase = "insert" => /\ req.block \notin DOMAIN cache_TLB
                        /\ current_level > 0
                        /\ last_BTH = None => current_level = 1

IndexInv == TypeOK /\ TLBOrdered /\ TLBBounded /\ InsertState

RestTypeOK ==
    /\ cache_L0T \in [0 .. L0Size - 1 -> Pointer]
    /\ cache_DBA \in Array
    /\ VBIR \in Slots
    /\ phase \in Phases
    /\ req \in Requests
    /\ last_BTH \in Slots \cup {None}
    /\ current_level \in 0 .. num_BTH + 1
    /\ wb \in Int

LEMMA IndexInvParts == IndexInv <=> RestTypeOK /\ TLBInv /\ InsertState
BY DEF IndexInv, RestTypeOK, TLBInv, TLBTypeOK, TypeOK, Array

LEMMA IndexInvPartsNext == IndexInv' <=> RestTypeOK' /\ TLBInv' /\ InsertState'
BY DEF IndexInv, RestTypeOK, TLBInv, TLBTypeOK, TypeOK, Array

LEMMA IndexInvInit == Init => IndexInv
<1> SUFFICES ASSUME Init PROVE RestTypeOK /\ TLBInv /\ InsertState
  BY IndexInvParts
<1>1. NullPointer \in Pointer /\ EmptyTable \in [Entries -> Pointer]
  BY Numbers DEF NullPointer, EmptyTable, Pointer
<1>2. EmptyBlock \in Block
  BY <1>1, Numbers DEF EmptyBlock, Block
<1>3. req \in Requests /\ phase \in Phases /\ wb \in Int
  BY Numbers DEF Init, Requests, Phases, None
<1>4. RestTypeOK
  BY <1>1, <1>2, <1>3, Numbers DEF Init, RestTypeOK, Array
<1>5. /\ cache_TLB = << >> /\ cache_TLB_order = << >>
      /\ DOMAIN cache_TLB = {} /\ Len(cache_TLB_order) = 0
  BY DEF Init
<1>6. TLBTypeOK
  BY <1>5 DEF TLBTypeOK
<1>7. TLBOrdered
  BY <1>5 DEF TLBOrdered, Range, IsInjective
<1>8. TLBBounded
  BY <1>5, Numbers DEF TLBBounded
<1> QED BY <1>4, <1>6, <1>7, <1>8 DEF TLBInv, InsertState, Init

\* A hit enters the TLB or refreshes its order; a miss leaves it alone.
LEMMA HitKeeps ==
    ASSUME RestTypeOK, TLBInv, NEW b \in Blocks, NEW store \in BOOLEAN,
           Hit(b, store)
    PROVE  TLBInv' /\ cache_DBA' \in Array /\ UNCHANGED <<cache_L0T, VBIR>>
<1>1. CASE HitTLB(b, store)
  <2>1. cache_TLB[b] \in Slots /\ b \in DOMAIN cache_TLB
    BY <1>1 DEF HitTLB, TLBInv, TLBTypeOK
  <2>2. cache_DBA' \in Array
    BY <1>1, <2>1, DirtiedType DEF HitTLB, RestTypeOK
  <2>3. TLBInv'
    BY <1>1, <2>1, RefreshKeeps DEF HitTLB
  <2> QED BY <1>1, <2>2, <2>3 DEF HitTLB
<1>2. CASE HitSearch(b, store)
  <2> DEFINE s == Walk(b)[num_BTH]
  <2>1. s \in Slots
    BY <1>2 DEF HitSearch, Found
  <2>2. /\ b \notin DOMAIN cache_TLB
        /\ cache_TLB' = TLBRecord(b, s)
        /\ cache_TLB_order' = TLBRecordOrder(b)
        /\ cache_DBA' = Dirtied(Touched(Walk(b)), s, store)
        /\ UNCHANGED <<cache_L0T, VBIR>>
    BY <1>2 DEF HitSearch
  <2> HIDE DEF s
  <2>3. TLBInv'
    BY <2>1, <2>2, RecordKeeps
  <2>4. cache_DBA' \in Array
    BY <2>1, <2>2, DirtiedType, TouchedType DEF RestTypeOK
  <2> QED BY <2>2, <2>3, <2>4
<1> QED BY <1>1, <1>2 DEF Hit

LEMMA MissKeeps ==
    ASSUME RestTypeOK, TLBInv, NEW b, Miss(b)
    PROVE  TLBInv' /\ cache_DBA' \in Array /\ UNCHANGED <<cache_L0T, VBIR>>
<1>1. cache_DBA' \in Array
  BY TouchedType DEF Miss, RestTypeOK
<1>2. UNCHANGED <<cache_TLB, cache_TLB_order, cache_L0T, VBIR>>
  BY DEF Miss
<1> QED BY <1>1, <1>2 DEF TLBInv, TLBTypeOK, TLBOrdered, TLBBounded

LEMMA AccessKeeps ==
    ASSUME IndexInv, NEW b \in Blocks, NEW store \in Stores,
           \/ TimingHit(b, store)
           \/ \E upgraded \in BOOLEAN : TimingMiss(b, store /\ upgraded)
           \/ Functional(b, store)
    PROVE  IndexInv'
<1>1. RestTypeOK /\ TLBInv /\ InsertState /\ store \in BOOLEAN
  BY IndexInvParts, SizesAssumption
<1>2. wb' = None /\ None \in Int
  BY DEF TimingHit, TimingMiss, Functional, None
<1>3. CASE TimingHit(b, store)
  <2>1. /\ Hit(b, store)
        /\ phase = "ready"
        /\ UNCHANGED <<phase, req, last_BTH, current_level>>
    BY <1>3 DEF TimingHit
  <2>2. TLBInv' /\ cache_DBA' \in Array /\ UNCHANGED <<cache_L0T, VBIR>>
    BY <1>1, <2>1, HitKeeps
  <2>3. RestTypeOK'
    BY <1>1, <1>2, <2>1, <2>2 DEF RestTypeOK
  <2>4. InsertState'
    BY <2>1 DEF InsertState
  <2> QED BY <2>2, <2>3, <2>4, IndexInvPartsNext
<1>4. ASSUME NEW upgraded \in BOOLEAN, TimingMiss(b, store /\ upgraded)
      PROVE  IndexInv'
  <2>1. /\ Miss(b)
        /\ phase' = "wait"
        /\ req' = [block |-> b, dirties |-> store /\ upgraded]
        /\ UNCHANGED <<last_BTH, current_level>>
    BY <1>4 DEF TimingMiss
  <2>2. TLBInv' /\ cache_DBA' \in Array /\ UNCHANGED <<cache_L0T, VBIR>>
    BY <1>1, <2>1, MissKeeps
  <2>3. req' \in Requests /\ phase' \in Phases
    BY <1>1, <2>1 DEF Requests, Phases
  <2>4. RestTypeOK'
    BY <1>1, <1>2, <2>1, <2>2, <2>3 DEF RestTypeOK
  <2>5. InsertState'
    BY <2>1 DEF InsertState
  <2> QED BY <2>2, <2>4, <2>5, IndexInvPartsNext
<1>5. CASE Functional(b, store)
  <2>1. /\ Hit(b, store) \/ Miss(b)
        /\ phase # "insert"
        /\ UNCHANGED <<phase, req, last_BTH, current_level>>
    BY <1>5 DEF Functional
  <2>2. TLBInv' /\ cache_DBA' \in Array /\ UNCHANGED <<cache_L0T, VBIR>>
    BY <1>1, <2>1, HitKeeps, MissKeeps
  <2>3. RestTypeOK'
    BY <1>1, <1>2, <2>1, <2>2 DEF RestTypeOK
  <2>4. InsertState'
    BY <2>1 DEF InsertState
  <2> QED BY <2>2, <2>3, <2>4, IndexInvPartsNext
<1> QED BY <1>3, <1>4, <1>5

LEMMA InsertBeginKeeps ==
    ASSUME IndexInv, InsertBegin
    PROVE  IndexInv'
<1>1. RestTypeOK /\ TLBInv
  BY IndexInvParts
<1>2. PICK s \in Slots \cup {None} :
         /\ last_BTH' = s
         /\ current_level' = IF s = None THEN 1 ELSE cache_DBA[s].LF + 1
  BY DEF InsertBegin
<1>3. current_level' \in 1 .. num_BTH + 1
  <2>1. CASE s = None
    BY <1>2, <2>1, Numbers
  <2>2. CASE s # None
    <3>1. cache_DBA[s].LF \in 0 .. num_BTH
      BY <1>1, <2>2 DEF RestTypeOK, Array, Block
    <3> QED BY <1>2, <2>2, <3>1, Numbers
  <2> QED BY <2>1, <2>2
<1>4. cache_DBA' \in Array
  BY <1>1, TouchedType DEF InsertBegin, RestTypeOK
<1>5. phase' \in Phases /\ wb' \in Int
  BY DEF InsertBegin, Phases, Crashes, None
<1>6. UNCHANGED <<cache_L0T, cache_TLB, cache_TLB_order, VBIR, req>>
  BY DEF InsertBegin
<1>7. RestTypeOK'
  BY <1>1, <1>2, <1>3, <1>4, <1>5, <1>6 DEF RestTypeOK
<1>8. TLBInv'
  BY <1>1, <1>6 DEF TLBInv, TLBTypeOK, TLBOrdered, TLBBounded
<1>9. InsertState'
  <2>1. phase' = "insert" => req.block \notin DOMAIN cache_TLB
    BY DEF InsertBegin
  <2>2. current_level' > 0 /\ (last_BTH' = None => current_level' = 1)
    BY <1>2, <1>3, Numbers
  <2> QED BY <1>6, <2>1, <2>2 DEF InsertState
<1> QED BY <1>7, <1>8, <1>9, IndexInvPartsNext

LEMMA TurnKeeps ==
    ASSUME IndexInv, phase = "insert", current_level <= num_BTH,
           NEW n \in 0 .. MNA, NEW w \in Slots \cup {None}, Turn(n, w)
    PROVE  IndexInv'
<1>1. RestTypeOK /\ TLBInv /\ InsertState
  BY IndexInvParts
<1>2. phase = "insert" /\ current_level <= num_BTH /\ UNCHANGED req
  BY DEF Turn
<1> DEFINE vacated == Vacated(Unlinked(Scanned(n), Slot(n)), Slot(n))
<1>3. /\ wb' = WrittenBack(Scanned(n), Slot(n))
      /\ IF TLBDrops(Scanned(n), Slot(n))
         THEN /\ cache_TLB' = Without(cache_TLB, Scanned(n)[Slot(n)].TAG)
              /\ cache_TLB_order'
                   = Erased(cache_TLB_order, Scanned(n)[Slot(n)].TAG)
         ELSE UNCHANGED <<cache_TLB, cache_TLB_order>>
      /\ IF w = None
         THEN /\ phase' = "overrun"
              /\ cache_DBA' = vacated
              /\ cache_L0T' = L0TUnlinked(Scanned(n), Slot(n))
              /\ UNCHANGED <<VBIR, last_BTH, current_level>>
         ELSE /\ cache_DBA' = Installed(Linked(vacated, req.block,
                                               current_level, w),
                                        req.block, current_level, w)
              /\ cache_L0T' = L0TLinked(L0TUnlinked(Scanned(n), Slot(n)),
                                        req.block, current_level, w)
              /\ VBIR' = (w + 1) % capacity
              /\ last_BTH' = w
              /\ current_level' = current_level + 1
              /\ UNCHANGED phase
  BY DEF Turn
<1>4. Slot(n) \in Slots
  BY <1>1, Numbers DEF Slot, Slots, RestTypeOK
<1>5. Scanned(n) \in Array /\ vacated \in Array
  BY <1>1, <1>4, ScannedType, UnlinkedType, VacatedType DEF RestTypeOK
<1>6. wb' \in Int
  <2>1. Vacated(Scanned(n), Slot(n))[Slot(n)].TAG \in Blocks
    BY <1>4, <1>5, VacatedType DEF Array, Block
  <2>2. wb' \in Blocks \cup {None}
    BY <1>3, <2>1 DEF WrittenBack
  <2> QED BY <2>2, Numbers DEF None
<1>7. TLBInv' /\ DOMAIN cache_TLB' \subseteq DOMAIN cache_TLB
  <2>1. CASE TLBDrops(Scanned(n), Slot(n))
    BY <1>1, <1>3, <2>1, EraseKeeps DEF TLBDrops
  <2>2. CASE ~TLBDrops(Scanned(n), Slot(n))
    BY <1>1, <1>3, <2>2 DEF TLBInv, TLBTypeOK, TLBOrdered, TLBBounded
  <2> QED BY <2>1, <2>2
<1>8. L0TUnlinked(Scanned(n), Slot(n)) \in [0 .. L0Size - 1 -> Pointer]
  BY <1>1, <1>4, L0TType DEF L0TUnlinked, RestTypeOK
<1>9. CASE w = None
  <2>1. /\ phase' = "overrun"
        /\ cache_DBA' = vacated
        /\ cache_L0T' = L0TUnlinked(Scanned(n), Slot(n))
        /\ UNCHANGED <<VBIR, last_BTH, current_level>>
    BY <1>3, <1>9
  <2>2. phase' \in Phases
    BY <2>1 DEF Phases, Crashes
  <2> HIDE DEF vacated
  <2>3. RestTypeOK'
    BY <1>1, <1>2, <1>5, <1>6, <1>8, <2>1, <2>2 DEF RestTypeOK
  <2>4. InsertState'
    BY <2>1 DEF InsertState
  <2> QED BY <1>7, <2>3, <2>4, IndexInvPartsNext
<1>10. CASE w # None
  <2>1. /\ cache_DBA' = Installed(Linked(vacated, req.block, current_level, w),
                                  req.block, current_level, w)
        /\ cache_L0T' = L0TLinked(L0TUnlinked(Scanned(n), Slot(n)),
                                  req.block, current_level, w)
        /\ VBIR' = (w + 1) % capacity
        /\ last_BTH' = w
        /\ current_level' = current_level + 1
        /\ UNCHANGED phase
        /\ w \in Slots
    BY <1>3, <1>10
  <2>2. current_level \in Levels /\ req.block \in Blocks
    <3>1. current_level > 0
      BY <1>1, <1>2 DEF InsertState
    <3> QED BY <1>1, <1>2, <3>1, Numbers DEF RestTypeOK, Levels, Requests
  <2> HIDE DEF vacated
  <2>3. cache_DBA' \in Array
    BY <1>1, <1>5, <2>1, <2>2, LinkedType, InstalledType DEF RestTypeOK
  <2>4. cache_L0T' \in [0 .. L0Size - 1 -> Pointer]
    BY <1>8, <2>1, L0TType DEF L0TLinked
  <2>5. VBIR' \in Slots
    BY <2>1, Numbers DEF Slots
  <2>6. current_level' \in 0 .. num_BTH + 1
    BY <1>2, <2>1, <2>2, Numbers DEF Levels
  <2>7. RestTypeOK'
    BY <1>1, <1>2, <1>6, <2>1, <2>3, <2>4, <2>5, <2>6 DEF RestTypeOK
  <2>8. InsertState'
    <3>1. current_level' > 0 /\ last_BTH' # None
      BY <2>1, <2>2, Numbers DEF Levels
    <3>2. req.block \notin DOMAIN cache_TLB'
      BY <1>1, <1>2, <1>7 DEF InsertState
    <3> QED BY <1>2, <3>1, <3>2 DEF InsertState
  <2> QED BY <1>7, <2>7, <2>8, IndexInvPartsNext
<1> QED BY <1>9, <1>10

LEMMA InstallLevelKeeps ==
    ASSUME IndexInv, InstallLevel
    PROVE  IndexInv'
BY TurnKeeps DEF InstallLevel

LEMMA InsertEndKeeps ==
    ASSUME IndexInv, InsertEnd
    PROVE  IndexInv'
<1>1. RestTypeOK /\ TLBInv /\ InsertState
  BY IndexInvParts
<1>2. /\ phase = "insert" /\ current_level > num_BTH
      /\ cache_TLB' = TLBRecord(req.block, last_BTH)
      /\ cache_TLB_order' = TLBRecordOrder(req.block)
      /\ phase' = "ready"
      /\ wb' = None
      /\ UNCHANGED <<cache_L0T, VBIR, req, last_BTH, current_level>>
  BY DEF InsertEnd
<1>3. /\ req.block \in Blocks /\ req.dirties \in BOOLEAN
      /\ req.block \notin DOMAIN cache_TLB
  BY <1>1, <1>2 DEF RestTypeOK, Requests, InsertState
<1>4. last_BTH \in Slots
  <2>1. ~(last_BTH = None)
    <3> SUFFICES ASSUME last_BTH = None PROVE FALSE
      OBVIOUS
    <3>1. current_level = 1
      BY <1>1, <1>2 DEF InsertState
    <3> QED BY <1>2, <3>1, Numbers
  <2> QED BY <1>1, <2>1 DEF RestTypeOK
<1>5. TLBInv'
  BY <1>1, <1>2, <1>3, <1>4, RecordKeeps
<1>6. cache_DBA' \in Array
  <2> DEFINE tagged == [cache_DBA EXCEPT ![last_BTH].TAG = req.block]
  <2>1. cache_DBA[last_BTH] \in Block
    BY <1>1, <1>4 DEF RestTypeOK, Array
  <2>2. [cache_DBA[last_BTH] EXCEPT !.TAG = req.block] \in Block
    BY <1>3, <2>1 DEF Block
  <2>3. tagged \in Array
    BY <1>1, <2>2 DEF RestTypeOK, Array
  <2>4. cache_DBA' = Dirtied(tagged, last_BTH, req.dirties)
    BY DEF InsertEnd
  <2> HIDE DEF tagged
  <2> QED BY <1>3, <1>4, <2>3, <2>4, DirtiedType
<1>7. RestTypeOK'
  <2>1. phase' \in Phases /\ wb' \in Int
    BY <1>2 DEF Phases, None
  <2> QED BY <1>1, <1>2, <1>6, <2>1 DEF RestTypeOK
<1>8. InsertState'
  BY <1>2 DEF InsertState
<1> QED BY <1>5, <1>7, <1>8, IndexInvPartsNext

LEMMA IndexInvNext == IndexInv /\ [Next]_vars => IndexInv'
<1> SUFFICES ASSUME IndexInv, [Next]_vars PROVE IndexInv'
  OBVIOUS
<1>1. CASE Access
  BY <1>1, AccessKeeps DEF Access
<1>2. CASE FunctionalAccess
  BY <1>2, AccessKeeps DEF FunctionalAccess
<1>3. CASE InsertBegin
  BY <1>3, InsertBeginKeeps
<1>4. CASE InstallLevel
  BY <1>4, InstallLevelKeeps
<1>5. CASE InsertEnd
  BY <1>5, InsertEndKeeps
<1>6. CASE UNCHANGED vars
  BY <1>6 DEF IndexInv, TypeOK, TLBOrdered, TLBBounded, InsertState, vars, index
<1> QED BY <1>1, <1>2, <1>3, <1>4, <1>5, <1>6 DEF Next

LEMMA IndexInvAlways == Spec => []IndexInv
BY IndexInvInit, IndexInvNext, PTL DEF Spec

\* For every size of the cache, every field keeps to its width and every index
\* to its array through all of accessFunctional and insert, but for the -1 of
\* smallest_r_idx, which ends the process (dbrc_cache.cc:358-658).
THEOREM FieldsKeepTheirTypes == Spec => []TypeOK
BY IndexInvAlways, PTL DEF IndexInv

\* For every size of the cache, cache_TLB_order lists the keys of cache_TLB
\* once each: the assertions that std::find succeeds hold, and the entry
\* erased to make room is one that exists (dbrc_cache.cc:411, 421, 560, 649).
\* And for every TLB_size, the TLB never exceeds TLB_size + 1 entries, whatever
\* evictions take out of it in between (dbrc_cache.cc:419, 647).
THEOREM OrderVectorMatchesTLB == Spec => []TLBInStep
BY IndexInvAlways, PTL DEF IndexInv, TLBInStep
-----------------------------------------------------------------------------
(* A miss stays a miss.  What a search finds depends on the tables and on    *)
(* the V, LF and TAG fields; an access changes R and D only.                 *)

SameSearch(dba) ==
    \A s \in Slots : /\ dba[s].BTH = cache_DBA[s].BTH
                     /\ dba[s].V = cache_DBA[s].V
                     /\ dba[s].LF = cache_DBA[s].LF
                     /\ dba[s].TAG = cache_DBA[s].TAG

LEMMA TouchedSearch ==
    ASSUME cache_DBA \in Array, NEW path
    PROVE  SameSearch(Touched(path))
<1> SUFFICES ASSUME NEW s \in Slots
             PROVE  /\ Touched(path)[s].BTH = cache_DBA[s].BTH
                    /\ Touched(path)[s].V = cache_DBA[s].V
                    /\ Touched(path)[s].LF = cache_DBA[s].LF
                    /\ Touched(path)[s].TAG = cache_DBA[s].TAG
  BY DEF SameSearch
<1> DEFINE r == Capped(cache_DBA[s].R + Reuse(path, s))
<1>1. Touched(path)[s] = [cache_DBA[s] EXCEPT !.R = r]
  BY DEF Touched
<1> HIDE DEF r
<1>2. cache_DBA[s] \in Block
  BY DEF Array
<1> QED BY <1>1, <1>2 DEF Block

LEMMA DirtiedSearch ==
    ASSUME cache_DBA \in Array, NEW dba \in Array, SameSearch(dba),
           NEW w \in Slots, NEW store
    PROVE  SameSearch(Dirtied(dba, w, store))
<1> SUFFICES ASSUME NEW s \in Slots
             PROVE  /\ Dirtied(dba, w, store)[s].BTH = dba[s].BTH
                    /\ Dirtied(dba, w, store)[s].V = dba[s].V
                    /\ Dirtied(dba, w, store)[s].LF = dba[s].LF
                    /\ Dirtied(dba, w, store)[s].TAG = dba[s].TAG
  BY DEF SameSearch
<1>1. dba[s] \in Block
  BY DEF Array
<1> DEFINE d == dba[s].D \/ store
<1>2. Dirtied(dba, w, store)[s] = IF s = w THEN [dba[s] EXCEPT !.D = d] ELSE dba[s]
  BY DEF Dirtied, Array
<1> HIDE DEF d
<1> QED BY <1>1, <1>2 DEF Block

LEMMA SearchUnchanged ==
    ASSUME SameSearch(cache_DBA'), UNCHANGED cache_L0T, NEW b
    PROVE  Walk(b)' = Walk(b) /\ (Found(Walk(b), b)' <=> Found(Walk(b), b))
<1>1. Tables' = Tables
  BY DEF Tables, SameSearch
<1>2. Walk(b)' = Walk(b)
  BY <1>1 DEF Walk
<1> DEFINE path == Walk(b)
<1>3. Found(path, b)' <=> Found(path, b)
  <2> HIDE DEF path
  <2>1. path' = path
    BY <1>2 DEF path
  <2> QED BY <2>1 DEF Found, SameSearch
<1> QED BY <1>2, <1>3

LEMMA HitSearchUnchanged ==
    ASSUME RestTypeOK, TLBInv, NEW b \in Blocks, NEW store \in BOOLEAN,
           Hit(b, store)
    PROVE  /\ SameSearch(cache_DBA')
           /\ UNCHANGED cache_L0T
           /\ DOMAIN cache_TLB' \subseteq DOMAIN cache_TLB \cup {b}
           /\ b \in DOMAIN cache_TLB \/ Found(Walk(b), b)
<1>0. cache_DBA \in Array /\ SameSearch(cache_DBA)
  BY DEF RestTypeOK, SameSearch
<1>1. CASE HitTLB(b, store)
  <2>1. cache_TLB[b] \in Slots /\ b \in DOMAIN cache_TLB
    BY <1>1 DEF HitTLB, TLBInv, TLBTypeOK
  <2>2. SameSearch(cache_DBA')
    BY <1>0, <1>1, <2>1, DirtiedSearch DEF HitTLB
  <2> QED BY <1>1, <2>1, <2>2 DEF HitTLB
<1>2. CASE HitSearch(b, store)
  <2> DEFINE s == Walk(b)[num_BTH]
  <2>1. s \in Slots /\ Found(Walk(b), b)
    BY <1>2 DEF HitSearch, Found
  <2>2. /\ cache_TLB' = TLBRecord(b, s)
        /\ cache_DBA' = Dirtied(Touched(Walk(b)), s, store)
        /\ UNCHANGED cache_L0T
    BY <1>2 DEF HitSearch
  <2> HIDE DEF s
  <2>3. SameSearch(cache_DBA')
    BY <1>0, <2>1, <2>2, TouchedSearch, TouchedType, DirtiedSearch
  <2>4. DOMAIN cache_TLB' \subseteq DOMAIN cache_TLB \cup {b}
    BY <2>2 DEF TLBRecord, Without, Restrict
  <2> QED BY <2>1, <2>2, <2>3, <2>4
<1> QED BY <1>1, <1>2 DEF Hit

LEMMA MissSearchUnchanged ==
    ASSUME RestTypeOK, NEW b, Miss(b)
    PROVE  /\ SameSearch(cache_DBA')
           /\ UNCHANGED <<cache_L0T, cache_TLB>>
           /\ b \notin DOMAIN cache_TLB
           /\ ~Found(Walk(b), b)
BY TouchedSearch DEF Miss, RestTypeOK

LEMMA MissStaysMissStep ==
    IndexInv /\ MissStaysMiss /\ [Next]_vars => MissStaysMiss'
<1> SUFFICES ASSUME IndexInv, MissStaysMiss, [Next]_vars PROVE MissStaysMiss'
  OBVIOUS
<1>0. RestTypeOK /\ TLBInv
  BY IndexInvParts
<1>1. ASSUME NEW b \in Blocks, NEW store \in Stores, TimingHit(b, store)
      PROVE  MissStaysMiss'
  BY <1>1 DEF TimingHit, MissStaysMiss
<1>2. ASSUME NEW b \in Blocks, NEW d \in BOOLEAN, TimingMiss(b, d)
      PROVE  MissStaysMiss'
  <2>1. Miss(b) /\ phase' = "wait" /\ req' = [block |-> b, dirties |-> d]
    BY <1>2 DEF TimingMiss
  <2>2. /\ SameSearch(cache_DBA')
        /\ UNCHANGED <<cache_L0T, cache_TLB>>
        /\ b \notin DOMAIN cache_TLB
        /\ ~Found(Walk(b), b)
    BY <1>0, <2>1, MissSearchUnchanged
  <2>3. ~Found(Walk(b), b)' /\ req'.block = b
    BY <2>1, <2>2, SearchUnchanged
  <2>4. ~Found(Walk(req.block), req.block)' /\ (req.block \notin DOMAIN cache_TLB)'
    BY <2>2, <2>3
  <2> QED BY <2>1, <2>4 DEF MissStaysMiss
<1>3. ASSUME NEW b \in Blocks, NEW store \in Stores, Functional(b, store)
      PROVE  MissStaysMiss'
  <2>1. /\ Hit(b, store) \/ Miss(b)
        /\ phase \in {"ready", "wait"}
        /\ UNCHANGED <<phase, req>>
        /\ store \in BOOLEAN
    BY <1>3, SizesAssumption DEF Functional
  <2>2. SUFFICES ASSUME phase = "wait"
                 PROVE  /\ (req.block \notin DOMAIN cache_TLB)'
                        /\ ~Found(Walk(req.block), req.block)'
    BY <2>1 DEF MissStaysMiss
  <2> DEFINE m == req.block
  <2>3. m \notin DOMAIN cache_TLB /\ ~Found(Walk(m), m)
    BY <2>2 DEF MissStaysMiss
  <2>4. /\ SameSearch(cache_DBA')
        /\ UNCHANGED cache_L0T
        /\ m \notin DOMAIN cache_TLB'
    <3>1. CASE Hit(b, store)
      <4>1. /\ SameSearch(cache_DBA')
            /\ UNCHANGED cache_L0T
            /\ DOMAIN cache_TLB' \subseteq DOMAIN cache_TLB \cup {b}
            /\ b \in DOMAIN cache_TLB \/ Found(Walk(b), b)
        BY <1>0, <2>1, <3>1, HitSearchUnchanged
      <4> HIDE DEF m
      <4>2. m # b
        BY <2>3, <4>1
      <4> QED BY <2>3, <4>1, <4>2
    <3>2. CASE Miss(b)
      BY <1>0, <2>3, <3>2, MissSearchUnchanged
    <3> QED BY <2>1, <3>1, <3>2
  <2>5. ~Found(Walk(m), m)'
    <3>1. ASSUME NEW c PROVE Found(Walk(c), c)' <=> Found(Walk(c), c)
      BY <2>4, SearchUnchanged
    <3>2. req' = req
      BY <2>1
    <3> QED BY <2>3, <3>1, <3>2
  <2> QED BY <2>1, <2>4, <2>5
<1>4. CASE InsertBegin
  <2>1. /\ req.block \notin DOMAIN cache_TLB
        /\ ~Found(Walk(req.block), req.block)
    BY <1>4 DEF InsertBegin, MissStaysMiss
  <2>2. phase' = "insert"
    BY <1>4, <2>1 DEF InsertBegin
  <2> QED BY <2>2 DEF MissStaysMiss
<1>5. CASE InstallLevel
  <2>1. phase' \in {"insert", "overrun"}
    BY <1>5 DEF InstallLevel, Turn
  <2> QED BY <2>1 DEF MissStaysMiss
<1>6. CASE InsertEnd
  BY <1>6 DEF InsertEnd, MissStaysMiss
<1>7. CASE UNCHANGED vars
  <2>1. UNCHANGED <<cache_L0T, cache_DBA, cache_TLB, phase, req>>
    BY <1>7 DEF vars, index
  <2>2. Tables' = Tables
    BY <2>1 DEF Tables
  <2>3. ASSUME NEW c PROVE Found(Walk(c), c)' <=> Found(Walk(c), c)
    BY <2>1, SearchUnchanged DEF SameSearch
  <2> QED BY <2>1, <2>3 DEF MissStaysMiss
<1>8. CASE Access
  <2>1. PICK b \in Blocks, store \in Stores :
           \/ TimingHit(b, store)
           \/ \E upgraded \in BOOLEAN : TimingMiss(b, store /\ upgraded)
    BY <1>8 DEF Access
  <2>2. ASSUME NEW upgraded \in BOOLEAN, TimingMiss(b, store /\ upgraded)
        PROVE  MissStaysMiss'
    <3> DEFINE d == store /\ upgraded
    <3>1. d \in BOOLEAN /\ TimingMiss(b, d)
      BY <2>2
    <3> HIDE DEF d
    <3> QED BY <1>2, <3>1
  <2> QED BY <1>1, <2>1, <2>2
<1>9. CASE FunctionalAccess
  BY <1>3, <1>9 DEF FunctionalAccess
<1> QED BY <1>4, <1>5, <1>6, <1>7, <1>8, <1>9 DEF Next

\* For every size of the cache and whatever functional requests run meanwhile,
\* the two assertions at the head of insert hold (dbrc_cache.cc:473, 475).
THEOREM InsertAssertionsHold == Spec => []MissStaysMiss
<1>1. Init => MissStaysMiss
  BY DEF Init, MissStaysMiss
<1> QED BY <1>1, IndexInvAlways, MissStaysMissStep, PTL DEF Spec
-----------------------------------------------------------------------------
(* Induction over numbers, stated about sets.                                *)

LEMMA LeastNatural ==
    ASSUME NEW T \in SUBSET Nat, T # {}
    PROVE  \E k \in T : \A j \in T : k <= j
<1>1. PICK n \in T : TRUE
  OBVIOUS
<1> DEFINE below == {0 .. k : k \in {j \in T : j <= n}}
<1>2. IsWellFoundedOn(StrictSubsetOrdering(0 .. n), SUBSET (0 .. n))
  <2>1. IsFiniteSet(0 .. n)
    BY FS_Interval
  <2>2. FiniteSubsetsOf(0 .. n) = SUBSET (0 .. n)
    BY <2>1, FS_FiniteSubsetsOfFinite
  <2> QED BY <2>2, FS_StrictSubsetOrderingWellFounded
<1>3. below \subseteq SUBSET (0 .. n) /\ below # {}
  OBVIOUS
<1> HIDE DEF below
<1>4. PICK x \in below : \A y \in below :
             <<y, x>> \notin StrictSubsetOrdering(0 .. n)
  BY <1>2, <1>3, WFMin
<1>5. PICK k \in T : k <= n /\ x = 0 .. k
  BY DEF below
<1>6. SUFFICES ASSUME NEW j \in T, j < k PROVE FALSE
  BY <1>5
<1>7. 0 .. j \in below
  BY <1>5, <1>6 DEF below
<1>8. <<0 .. j, x>> \in StrictSubsetOrdering(0 .. n)
  <2>1. 0 .. j \subseteq 0 .. k
    BY <1>6
  <2>2. k \in 0 .. k /\ k \notin 0 .. j
    BY <1>6
  <2> QED BY <1>3, <1>5, <1>7, <2>1, <2>2 DEF StrictSubsetOrdering
<1> QED BY <1>4, <1>7, <1>8

LEMMA LevelInduction ==
    ASSUME NEW S, NEW n \in Nat, 1 \in S,
           \A k \in 1 .. n - 1 : k \in S => k + 1 \in S
    PROVE  1 .. n \subseteq S
<1> SUFFICES ASSUME (1 .. n) \ S # {} PROVE FALSE
  OBVIOUS
<1>1. PICK k \in (1 .. n) \ S : \A j \in (1 .. n) \ S : k <= j
  <2>1. (1 .. n) \ S \in SUBSET Nat
    OBVIOUS
  <2> QED BY <2>1, LeastNatural
<1>2. k - 1 \in S /\ k - 1 \in 1 .. n - 1
  BY <1>1
<1> QED BY <1>1, <1>2

\* f starts at top and takes a step from each level to the next.
Descends(f, top, step) ==
    \A l \in Levels : f[l] = IF l = 1 THEN top ELSE step[f[l - 1]][l]

LEMMA LevelRecursion ==
    ASSUME NEW X, NEW top \in X, NEW step \in [X -> [Levels -> X]]
    PROVE  \E f \in [Levels -> X] : Descends(f, top, step)
<1> DEFINE Is(f, n) == \A l \in 1 .. n : f[l] = IF l = 1 THEN top ELSE step[f[l - 1]][l]
           S == {n \in Nat : \E f \in [1 .. n -> X] : Is(f, n)}
<1>1. 1 \in S
  <2>1. [l \in 1 .. 1 |-> top] \in [1 .. 1 -> X] /\ Is([l \in 1 .. 1 |-> top], 1)
    OBVIOUS
  <2> QED BY <2>1
<1>2. ASSUME NEW k \in 1 .. num_BTH - 1, k \in S PROVE k + 1 \in S
  <2>1. PICK f \in [1 .. k -> X] : Is(f, k)
    BY <1>2
  <2> DEFINE g == [l \in 1 .. k + 1 |-> IF l <= k THEN f[l] ELSE step[f[k]][l]]
  <2>2. k \in 1 .. k /\ k + 1 \in Levels /\ k + 1 \in Nat
    BY Numbers DEF Levels
  <2>3. g \in [1 .. k + 1 -> X]
    <3>1. f[k] \in X
      BY <2>2
    <3>2. step[f[k]][k + 1] \in X
      BY <2>2, <3>1
    <3>3. \A l \in 1 .. k + 1 : l <= k \/ l = k + 1
      OBVIOUS
    <3>4. \A l \in 1 .. k + 1 : l <= k => l \in 1 .. k
      OBVIOUS
    <3> QED BY <3>2, <3>3, <3>4
  <2>4. ASSUME NEW l \in 1 .. k + 1
        PROVE  g[l] = IF l = 1 THEN top ELSE step[g[l - 1]][l]
    <3>1. l # 1 => l - 1 \in 1 .. k /\ g[l - 1] = f[l - 1]
      BY Numbers
    <3>2. CASE l <= k
      <4>1. l \in 1 .. k /\ g[l] = f[l]
        BY <3>2
      <4> HIDE DEF g
      <4> QED BY <2>1, <3>1, <4>1
    <3>3. CASE l = k + 1
      <4>1. l # 1 /\ l - 1 = k /\ g[l] = step[f[k]][l]
        BY <3>3
      <4> HIDE DEF g
      <4> QED BY <3>1, <4>1
    <3> QED BY <3>2, <3>3
  <2> HIDE DEF g
  <2> QED BY <2>2, <2>3, <2>4
<1>3. num_BTH \in S
  <2> HIDE DEF S
  <2>1. 1 .. num_BTH \subseteq S
    BY <1>1, <1>2, LevelInduction, Numbers
  <2> QED BY <2>1, Numbers
<1> QED BY <1>3 DEF Levels, Descends
-----------------------------------------------------------------------------
(* The search, level by level.                                               *)

\* The recursion of CacheSearch defines a path at every level.
LEMMA PathSteps ==
    ASSUME NEW l0t, NEW tables, NEW b, NEW path, path = Path(l0t, tables, b)
    PROVE  /\ path = [l \in Levels |-> path[l]]
           /\ \A l \in Levels :
                 path[l] = IF l = 1 THEN Followed(l0t[L0TIndex(b)])
                           ELSE IF path[l - 1] = None THEN None
                           ELSE Followed(tables[path[l - 1]][TableIndex(b, l)])
<1> DEFINE Top == Followed(l0t[L0TIndex(b)])
           Step(s, l) == IF s = None THEN None
                         ELSE Followed(tables[s][TableIndex(b, l)])
           Is(f, n) == f = [l \in 1 .. n |-> IF l = 1 THEN Top ELSE Step(f[l - 1], l)]
           S == {n \in Nat : \E f : Is(f, n)}
<1> HIDE DEF Top, Step
<1>1. 1 \in S
  <2>1. Is([l \in 1 .. 1 |-> Top], 1)
    OBVIOUS
  <2> QED BY <2>1
<1>2. ASSUME NEW k \in 1 .. num_BTH - 1, k \in S PROVE k + 1 \in S
  <2>1. PICK f : Is(f, k)
    BY <1>2
  <2> DEFINE g == [l \in 1 .. k + 1 |-> IF l <= k THEN f[l] ELSE Step(f[k], l)]
  <2>2. Is(g, k + 1)
    <3>1. \A l \in 1 .. k + 1 : l # 1 => l - 1 \in 1 .. k /\ g[l - 1] = f[l - 1]
      BY Numbers
    <3>2. \A l \in 1 .. k : f[l] = IF l = 1 THEN Top ELSE Step(f[l - 1], l)
      BY <2>1
    <3>3. ASSUME NEW l \in 1 .. k + 1
          PROVE  g[l] = IF l = 1 THEN Top ELSE Step(g[l - 1], l)
      <4>1. CASE l <= k
        BY <3>1, <3>2, <4>1, Numbers
      <4>2. CASE l = k + 1
        BY <3>1, <4>2, Numbers
      <4> QED BY <4>1, <4>2, Numbers
    <3> HIDE DEF g
    <3>4. g = [l \in 1 .. k + 1 |-> g[l]]
      BY DEF g
    <3> QED BY <3>3, <3>4
  <2>3. k + 1 \in Nat
    OBVIOUS
  <2> HIDE DEF g
  <2> QED BY <2>2, <2>3
<1>3. num_BTH \in S
  <2> HIDE DEF S
  <2>1. 1 .. num_BTH \subseteq S
    BY <1>1, <1>2, LevelInduction, Numbers
  <2> QED BY <2>1, Numbers
<1>4. PICK f : Is(f, num_BTH)
  BY <1>3
<1>5. f = [l \in Levels |-> IF l = 1 THEN Top
                            ELSE IF f[l - 1] = None THEN None
                            ELSE Followed(tables[f[l - 1]][TableIndex(b, l)])]
  BY <1>4 DEF Levels, Step
<1>6. path = [l \in Levels |-> IF l = 1 THEN Top
                               ELSE IF path[l - 1] = None THEN None
                               ELSE Followed(tables[path[l - 1]][TableIndex(b, l)])]
  BY <1>5 DEF Path, Top
<1> QED BY <1>6 DEF Top

LEMMA WalkSteps ==
    ASSUME NEW b, NEW l \in Levels
    PROVE  Walk(b)[l] = IF l = 1 THEN Followed(cache_L0T[L0TIndex(b)])
                        ELSE IF Walk(b)[l - 1] = None THEN None
                        ELSE Followed(Tables[Walk(b)[l - 1]][TableIndex(b, l)])
<1>1. PICK path : path = Walk(b) /\ path = Path(cache_L0T, Tables, b)
  BY DEF Walk
<1> QED BY <1>1, PathSteps
-----------------------------------------------------------------------------
(* Block numbers.  What the index tells apart at level l is the number of    *)
(* the block without its last num_BTH - l digits to the base Fanout.         *)

Prefix(b, l) == b \div Fanout ^ (num_BTH - l)

LEMMA DivideTwice ==
    ASSUME NEW b \in Nat, NEW p \in Nat \ {0}, NEW q \in Nat \ {0}
    PROVE  b \div (q * p) = (b \div p) \div q
<1> DEFINE x == b \div p
           y == x \div q
           r == b % p
           t == x % q
<1>1. /\ x \in Nat /\ y \in Nat
      /\ r \in 0 .. p - 1 /\ b = p * x + r
      /\ t \in 0 .. q - 1 /\ x = q * y + t
  OBVIOUS
<1> HIDE DEF x, y, r, t
<1>2. b = (q * p) * y + (p * t + r)
  <2>1. p * (q * y + t) = (q * p) * y + p * t
    BY <1>1
  <2> QED BY <1>1, <2>1
<1>3. q * p \in Nat /\ q * p > 0
  OBVIOUS
<1>4. p * t + r \in Nat /\ p * t + r < q * p
  <2>1. p * t <= p * (q - 1)
    BY <1>1
  <2>2. p * (q - 1) = q * p - p
    OBVIOUS
  <2> QED BY <1>1, <2>1, <2>2
<1> DEFINE d == q * p
           rest == p * t + r
<1>5. d \in Nat /\ d > 0 /\ rest \in Nat /\ rest < d /\ b = d * y + rest
  BY <1>2, <1>3, <1>4
<1> HIDE DEF d, rest
<1>6. b \div d = y
  BY <1>1, <1>5
<1> QED BY <1>6 DEF d, y, x

LEMMA PrefixFacts ==
    ASSUME NEW b \in Blocks
    PROVE  /\ \A l \in Levels : Prefix(b, l) \in Nat
           /\ Prefix(b, num_BTH) = b
           /\ Prefix(b, 1) = L0TIndex(b)
           /\ \A l \in Levels : TableIndex(b, l) = Prefix(b, l) % Fanout
           /\ \A l \in 1 .. num_BTH - 1 :
                 l + 1 \in Levels /\ Prefix(b, l) = Prefix(b, l + 1) \div Fanout
<1>1. b \in Nat /\ Fanout \in Nat \ {0}
  BY Numbers, SizesAssumption
<1>2. ASSUME NEW l \in Levels PROVE Prefix(b, l) \in Nat
  <2>1. num_BTH - l \in 0 .. num_BTH - 1
    BY Numbers DEF Levels
  <2>2. Fanout ^ (num_BTH - l) \in Nat \ {0}
    BY <2>1, SizesAssumption
  <2> QED BY <1>1, <2>2 DEF Prefix
<1>3. Prefix(b, num_BTH) = b
  <2>1. num_BTH - num_BTH = 0 /\ Fanout ^ 0 = 1
    BY PowersAssumption, Numbers
  <2>2. b \div 1 = b
    BY <1>1
  <2> QED BY <2>1, <2>2 DEF Prefix
<1>4. ASSUME NEW l \in 1 .. num_BTH - 1
      PROVE  l + 1 \in Levels /\ Prefix(b, l) = Prefix(b, l + 1) \div Fanout
  <2> DEFINE k == num_BTH - (l + 1)
             p == Fanout ^ k
  <2>1. k \in 0 .. num_BTH - 1 /\ k + 1 = num_BTH - l /\ l + 1 \in Levels
    BY Numbers DEF Levels
  <2>2. p \in Nat \ {0} /\ Fanout ^ (k + 1) = Fanout * p
    BY <2>1, SizesAssumption, PowersAssumption
  <2>3. Prefix(b, l + 1) = b \div p /\ Prefix(b, l) = b \div Fanout ^ (k + 1)
    BY <2>1 DEF Prefix
  <2> HIDE DEF p, k
  <2>4. b \div (Fanout * p) = (b \div p) \div Fanout
    BY <1>1, <2>2, DivideTwice
  <2> QED BY <2>1, <2>2, <2>3, <2>4, Zenon
<1> QED BY <1>2, <1>3, <1>4 DEF Prefix, L0TIndex, TableIndex

LEMMA IndexTypes ==
    ASSUME NEW b \in Blocks
    PROVE  /\ L0TIndex(b) \in 0 .. L0Size - 1
           /\ \A l \in Levels : TableIndex(b, l) \in Entries
<1> DEFINE p == Fanout ^ (num_BTH - 1)
           t == b \div p
<1>1. num_BTH - 1 \in 0 .. num_BTH - 1
  BY Numbers
<1>2. p \in Nat \ {0} /\ L0Size \in Nat \ {0} /\ Fanout \in Nat \ {0}
  BY <1>1, SizesAssumption
<1>3. b \in Nat /\ b < L0Size * p
  BY <1>2 DEF Blocks
<1> HIDE DEF p
<1>4. t \in Nat /\ b - p * t \in 0 .. p - 1
  BY <1>2, <1>3
<1> HIDE DEF t
<1>5. t < L0Size
  <2> SUFFICES ASSUME t >= L0Size PROVE FALSE
    BY <1>2, <1>4
  <2>1. p * t >= p * L0Size
    BY <1>2, <1>4
  <2> QED BY <1>2, <1>3, <1>4, <2>1
<1>6. L0TIndex(b) = t
  BY DEF L0TIndex, t, p
<1>7. \A l \in Levels : TableIndex(b, l) \in Entries
  BY <1>2, PrefixFacts DEF Entries
<1> QED BY <1>2, <1>4, <1>5, <1>6, <1>7

\* Two blocks that have a path in common down to level l have it so far, and part
\* at level l + 1 if their entries there differ.
LEMMA PrefixDown ==
    ASSUME NEW a \in Blocks, NEW b \in Blocks, NEW l \in 1 .. num_BTH - 1
    PROVE  Prefix(a, l + 1) = Prefix(b, l + 1) <=>
             Prefix(a, l) = Prefix(b, l) /\ TableIndex(a, l + 1) = TableIndex(b, l + 1)
<1> DEFINE x == Prefix(a, l + 1)
           y == Prefix(b, l + 1)
<1>1. l + 1 \in Levels /\ Fanout \in Nat \ {0}
  BY Numbers, SizesAssumption DEF Levels
<1>2. /\ x \in Nat /\ Prefix(a, l) = x \div Fanout /\ TableIndex(a, l + 1) = x % Fanout
      /\ y \in Nat /\ Prefix(b, l) = y \div Fanout /\ TableIndex(b, l + 1) = y % Fanout
  BY <1>1, PrefixFacts
<1> HIDE DEF x, y
<1>3. x = Fanout * (x \div Fanout) + (x % Fanout)
  BY <1>1, <1>2
<1>4. y = Fanout * (y \div Fanout) + (y % Fanout)
  BY <1>1, <1>2
<1>5. x = y <=> x \div Fanout = y \div Fanout /\ x % Fanout = y % Fanout
  BY <1>3, <1>4
<1> QED BY <1>2, <1>5 DEF x, y
-----------------------------------------------------------------------------
(* What the index says of the blocks.  The owner of a slot is the block of   *)
(* memory it was installed for: it is not stored anywhere but in the TAG of  *)
(* data, and a table has the blocks of a whole range under it.               *)

\* The owner of a pointer's slot has the entry the pointer is in on its path, and
\* the pointer's slot is of the right level, has its parent and is not orphaned.
RootsOwned(l0t, dba, owner) ==
    \A t \in DOMAIN l0t : l0t[t].V =>
        /\ dba[l0t[t].I].V /\ dba[l0t[t].I].PV
        /\ dba[l0t[t].I].LF = 1
        /\ dba[l0t[t].I].PT = t % PTSize
        /\ Prefix(owner[l0t[t].I], 1) = t

\* The pointer in entry e of slot s leads to slot i.
Points(dba, s, e, i) == dba[s].BTH[e].V /\ dba[s].BTH[e].I = i

TablesOwned(dba, owner) ==
    \A s \in Slots, e \in Entries, i \in Slots : Points(dba, s, e, i) =>
        /\ dba[s].V /\ dba[s].LF \in 1 .. num_BTH - 1
        /\ dba[i].V /\ dba[i].PV
        /\ dba[i].LF = dba[s].LF + 1
        /\ dba[i].PT = s % PTSize
        /\ Prefix(owner[i], dba[s].LF) = Prefix(owner[s], dba[s].LF)
        /\ TableIndex(owner[i], dba[s].LF + 1) = e

\* No slot has pointers from two tables.
OneParent(dba) ==
    \A r, s \in Slots, e, f \in Entries, i \in Slots :
        Points(dba, r, e, i) /\ Points(dba, s, f, i) => r = s

\* Data is tagged with its owner, but for the slot that insert is filling.
DataTagged(dba, owner, filling) ==
    \A s \in Slots \ filling :
        dba[s].V /\ dba[s].LF = num_BTH => dba[s].TAG = owner[s]

Owned(l0t, dba, owner, filling) ==
    /\ owner \in [Slots -> Blocks]
    /\ RootsOwned(l0t, dba, owner)
    /\ TablesOwned(dba, owner)
    /\ OneParent(dba)
    /\ DataTagged(dba, owner, filling)

L0Table == [0 .. L0Size - 1 -> Pointer]

\* A search ends, at each level, in a slot of that level whose owner's path is
\* the one searched.
LEMMA WalkOwned ==
    ASSUME NEW l0t \in L0Table, NEW dba \in Array, NEW owner, NEW filling,
           Owned(l0t, dba, owner, filling), NEW b \in Blocks,
           NEW path, path = Path(l0t, [s \in Slots |-> dba[s].BTH], b),
           NEW l \in Levels, path[l] # None
    PROVE  /\ path[l] \in Slots
           /\ dba[path[l]].V /\ dba[path[l]].LF = l
           /\ Prefix(owner[path[l]], l) = Prefix(b, l)
<1> DEFINE tables == [s \in Slots |-> dba[s].BTH]
           Fine(k) == path[k] # None =>
                         /\ path[k] \in Slots
                         /\ dba[path[k]].V /\ dba[path[k]].LF = k
                         /\ Prefix(owner[path[k]], k) = Prefix(b, k)
           S == {k \in Nat : Fine(k)}
<1>1. \A k \in Levels :
         path[k] = IF k = 1 THEN Followed(l0t[L0TIndex(b)])
                   ELSE IF path[k - 1] = None THEN None
                   ELSE Followed(tables[path[k - 1]][TableIndex(b, k)])
  BY PathSteps
<1>2. 1 \in S
  <2> DEFINE e == l0t[L0TIndex(b)]
  <2>1. path[1] = Followed(e)
    BY <1>1, Numbers DEF Levels
  <2>2. L0TIndex(b) \in DOMAIN l0t /\ Prefix(b, 1) = L0TIndex(b)
    BY IndexTypes, PrefixFacts DEF L0Table
  <2>3. e \in Pointer
    BY <2>2 DEF L0Table
  <2>4. ASSUME e.V PROVE Fine(1)
    BY <2>1, <2>2, <2>3, <2>4 DEF Followed, Owned, RootsOwned, Pointer
  <2>5. ASSUME ~e.V PROVE Fine(1)
    BY <2>1, <2>5 DEF Followed
  <2> QED BY <2>4, <2>5
<1>3. ASSUME NEW k \in 1 .. num_BTH - 1, k \in S PROVE k + 1 \in S
  <2> DEFINE s == path[k]
             x == TableIndex(b, k + 1)
             e == dba[s].BTH[x]
  <2>1. k + 1 \in Levels /\ k \in Levels /\ k + 1 # 1 /\ (k + 1) - 1 = k
    BY Numbers DEF Levels
  <2>2. path[k + 1] = IF s = None THEN None ELSE Followed(tables[s][x])
    BY <1>1, <2>1
  <2>3. CASE s = None
    BY <2>1, <2>2, <2>3
  <2>4. CASE s # None
    <3>1. /\ s \in Slots /\ dba[s].V /\ dba[s].LF = k
          /\ Prefix(owner[s], k) = Prefix(b, k)
      BY <1>3, <2>4
    <3>2. x \in Entries
      BY <2>1, IndexTypes
    <3>3. e \in Pointer
      BY <3>1, <3>2 DEF Array, Block
    <3>4. path[k + 1] = Followed(e)
      BY <2>2, <2>4, <3>1
    <3> HIDE DEF s, x
    <3>5. ASSUME e.V PROVE Fine(k + 1)
      <4> DEFINE i == e.I
      <4>1. i \in Slots /\ path[k + 1] = i /\ Points(dba, s, x, i)
        BY <3>3, <3>4, <3>5 DEF Followed, Pointer, Points
      <4> HIDE DEF e, i
      <4>2. /\ dba[i].V /\ dba[i].LF = k + 1
            /\ Prefix(owner[i], k) = Prefix(owner[s], k)
            /\ TableIndex(owner[i], k + 1) = x
        BY <3>1, <3>2, <4>1 DEF Owned, TablesOwned
      <4>3. owner[i] \in Blocks
        BY <4>1 DEF Owned
      <4>4. Prefix(owner[i], k + 1) = Prefix(b, k + 1)
        BY <3>1, <4>2, <4>3, PrefixDown DEF x
      <4> QED BY <4>1, <4>2, <4>4
    <3>6. ASSUME ~e.V PROVE Fine(k + 1)
      BY <3>4, <3>6 DEF Followed
    <3> QED BY <2>1, <3>5, <3>6
  <2> QED BY <2>3, <2>4
<1> HIDE DEF S
<1>4. 1 .. num_BTH \subseteq S
  BY <1>2, <1>3, LevelInduction, Numbers
<1>5. l \in S
  BY <1>4 DEF Levels
<1> QED BY <1>5 DEF S
-----------------------------------------------------------------------------
(* What the steps of insert do to the index, whatever else they do.          *)

LEMMA OwnedInit ==
    ASSUME NEW l0t, NEW dba,
           \A t \in DOMAIN l0t : l0t[t] = NullPointer,
           \A s \in Slots : dba[s] = EmptyBlock
    PROVE  \E owner : Owned(l0t, dba, owner, {})
<1> DEFINE owner == [s \in Slots |-> 0]
<1>1. owner \in [Slots -> Blocks]
  BY Numbers
<1>2. RootsOwned(l0t, dba, owner)
  BY DEF RootsOwned, NullPointer
<1>3. \A s \in Slots, e \in Entries : dba[s].BTH[e].V = FALSE
  BY DEF EmptyBlock, EmptyTable, NullPointer
<1>4. TablesOwned(dba, owner) /\ OneParent(dba)
  BY <1>3 DEF TablesOwned, OneParent, Points
<1>5. DataTagged(dba, owner, {})
  BY DEF DataTagged, EmptyBlock
<1> HIDE DEF owner
<1> QED BY <1>1, <1>2, <1>4, <1>5 DEF Owned

\* The same blocks, but for reuse counts and dirty bits.
SameBlocks(dba, new) ==
    \A s \in Slots : /\ new[s].BTH = dba[s].BTH
                     /\ new[s].V = dba[s].V /\ new[s].PV = dba[s].PV
                     /\ new[s].LF = dba[s].LF /\ new[s].PT = dba[s].PT
                     /\ new[s].TAG = dba[s].TAG

LEMMA OwnedSame ==
    ASSUME NEW l0t \in L0Table, NEW dba, NEW new, NEW owner, NEW filling,
           Owned(l0t, dba, owner, filling), SameBlocks(dba, new)
    PROVE  Owned(l0t, new, owner, filling)
<1>1. RootsOwned(l0t, new, owner)
  BY DEF Owned, RootsOwned, SameBlocks, L0Table, Pointer
<1>2. \A s \in Slots, e \in Entries, i \in Slots :
         Points(new, s, e, i) <=> Points(dba, s, e, i)
  BY DEF Points, SameBlocks
<1>3. TablesOwned(new, owner)
  BY <1>2 DEF Owned, TablesOwned, SameBlocks
<1>4. OneParent(new)
  BY <1>2 DEF Owned, OneParent
<1>5. DataTagged(new, owner, filling)
  BY DEF Owned, DataTagged, SameBlocks
<1> QED BY <1>1, <1>3, <1>4, <1>5 DEF Owned

\* A turn that installs slot w for block b at level l: what pointed to w does no
\* more, and w is linked, if at all, where b's path has its level-l entry.  The
\* tables may lose pointers, and the slots that w pointed to their parent.
Installs(l0t, dba, l0t2, new, b, l, w, last) ==
    /\ \A s \in Slots \ {w} :
          /\ new[s].V = dba[s].V /\ new[s].LF = dba[s].LF
          /\ new[s].PT = dba[s].PT /\ new[s].TAG = dba[s].TAG
          /\ \/ new[s].PV = dba[s].PV
             \/ \E e \in Entries : Points(dba, w, e, s)
          /\ \A e \in Entries, i \in Slots : Points(new, s, e, i) =>
                \/ Points(dba, s, e, i) /\ i # w
                \/ i = w /\ l > 1 /\ s = last /\ e = TableIndex(b, l)
    /\ new[w].V /\ new[w].PV /\ new[w].LF = l
    /\ new[w].PT = (IF l = 1 THEN L0TIndex(b) ELSE last) % PTSize
    /\ new[w].BTH = EmptyTable
    /\ \A t \in 0 .. L0Size - 1 : l0t2[t].V =>
          \/ l0t[t].V /\ l0t2[t].I = l0t[t].I /\ l0t[t].I # w
          \/ l = 1 /\ t = L0TIndex(b) /\ l0t2[t].I = w

\* The slot insert links to is a table on the path of b.
OnPath(dba, owner, b, l, last) ==
    l > 1 => /\ last \in Slots
             /\ dba[last].V /\ dba[last].LF = l - 1
             /\ Prefix(owner[last], l - 1) = Prefix(b, l - 1)

LEMMA InstallOwned ==
    ASSUME NEW l0t \in L0Table, NEW dba \in Array, NEW owner,
           Owned(l0t, dba, owner, {}),
           NEW l0t2 \in L0Table, NEW new \in Array,
           NEW b \in Blocks, NEW l \in Levels, NEW w \in Slots, NEW last,
           OnPath(dba, owner, b, l, last),
           Installs(l0t, dba, l0t2, new, b, l, w, last)
    PROVE  /\ Owned(l0t2, new, [owner EXCEPT ![w] = b],
                    IF l = num_BTH THEN {w} ELSE {})
           /\ OnPath(new, [owner EXCEPT ![w] = b], b, l + 1, w)
<1> DEFINE own == [owner EXCEPT ![w] = b]
<1>1. /\ owner \in [Slots -> Blocks] /\ RootsOwned(l0t, dba, owner)
      /\ TablesOwned(dba, owner) /\ OneParent(dba) /\ DataTagged(dba, owner, {})
  BY DEF Owned
<1>2. /\ own \in [Slots -> Blocks] /\ own[w] = b
      /\ \A s \in Slots \ {w} : own[s] = owner[s]
  BY <1>1
<1> HIDE DEF own
<1>3. l \in Nat /\ l > 0 /\ l <= num_BTH /\ num_BTH \in Nat
  BY Numbers DEF Levels
<1>4. RootsOwned(l0t2, new, own)
  <2> SUFFICES ASSUME NEW t \in 0 .. L0Size - 1, l0t2[t].V
               PROVE  LET i == l0t2[t].I IN
                      /\ new[i].V /\ new[i].PV /\ new[i].LF = 1
                      /\ new[i].PT = t % PTSize
                      /\ Prefix(own[i], 1) = t
    BY DEF RootsOwned, L0Table
  <2> DEFINE i == l0t2[t].I
  <2>1. CASE l0t[t].V /\ i = l0t[t].I /\ i # w
    <3>1. i \in Slots
      BY DEF L0Table, Pointer
    <3>2. /\ dba[i].V /\ dba[i].PV /\ dba[i].LF = 1
          /\ dba[i].PT = t % PTSize
          /\ Prefix(owner[i], 1) = t
      BY <1>1, <2>1 DEF RootsOwned, L0Table
    <3>3. ~\E e \in Entries : Points(dba, w, e, i)
      <4> SUFFICES ASSUME NEW e \in Entries, Points(dba, w, e, i) PROVE FALSE
        OBVIOUS
      <4>1. dba[i].LF = dba[w].LF + 1 /\ dba[w].LF \in 1 .. num_BTH - 1
        BY <1>1, <3>1 DEF TablesOwned
      <4> QED BY <1>3, <3>2, <4>1
    <3> HIDE DEF i
    <3> QED BY <1>2, <2>1, <3>1, <3>2, <3>3 DEF Installs, i
  <2>2. CASE l = 1 /\ t = L0TIndex(b) /\ i = w
    <3>1. Prefix(b, 1) = t
      BY <2>2, PrefixFacts
    <3> QED BY <1>2, <2>2, <3>1 DEF Installs
  <2> QED BY <2>1, <2>2 DEF Installs
\* A pointer of the new array is one of the old, or the link to w.
<1>5. ASSUME NEW s \in Slots, NEW e \in Entries, NEW i \in Slots, Points(new, s, e, i)
      PROVE  /\ s # w
             /\ \/ Points(dba, s, e, i) /\ i # w
                \/ i = w /\ l > 1 /\ s = last /\ e = TableIndex(b, l)
  <2>1. s # w
    BY <1>5 DEF Installs, Points, EmptyTable, NullPointer
  <2> QED BY <1>5, <2>1 DEF Installs
<1>6. TablesOwned(new, own)
  <2> SUFFICES ASSUME NEW s \in Slots, NEW e \in Entries, NEW i \in Slots,
                      Points(new, s, e, i)
               PROVE  /\ new[s].V /\ new[s].LF \in 1 .. num_BTH - 1
                      /\ new[i].V /\ new[i].PV
                      /\ new[i].LF = new[s].LF + 1
                      /\ new[i].PT = s % PTSize
                      /\ Prefix(own[i], new[s].LF) = Prefix(own[s], new[s].LF)
                      /\ TableIndex(own[i], new[s].LF + 1) = e
    BY DEF TablesOwned
  <2>1. s # w
    BY <1>5
  <2>2. CASE Points(dba, s, e, i) /\ i # w
    <3>1. /\ dba[s].V /\ dba[s].LF \in 1 .. num_BTH - 1
          /\ dba[i].V /\ dba[i].PV
          /\ dba[i].LF = dba[s].LF + 1
          /\ dba[i].PT = s % PTSize
          /\ Prefix(owner[i], dba[s].LF) = Prefix(owner[s], dba[s].LF)
          /\ TableIndex(owner[i], dba[s].LF + 1) = e
      BY <1>1, <2>2 DEF TablesOwned
    <3>2. ~\E f \in Entries : Points(dba, w, f, i)
      BY <1>1, <2>1, <2>2 DEF OneParent
    <3> QED BY <1>2, <2>1, <2>2, <3>1, <3>2 DEF Installs
  <2>3. CASE i = w /\ l > 1 /\ s = last /\ e = TableIndex(b, l)
    <3>1. /\ dba[s].V /\ dba[s].LF = l - 1
          /\ Prefix(owner[s], l - 1) = Prefix(b, l - 1)
      BY <2>3 DEF OnPath
    <3>2. new[s].V /\ new[s].LF = l - 1 /\ own[s] = owner[s] /\ own[i] = b
      BY <1>2, <2>1, <2>3, <3>1 DEF Installs
    <3>3. /\ new[i].V /\ new[i].PV /\ new[i].LF = l
          /\ new[i].PT = s % PTSize
      BY <1>3, <2>3 DEF Installs
    <3>4. (l - 1) + 1 = l /\ l - 1 \in 1 .. num_BTH - 1
      BY <1>3, <2>3
    <3> QED BY <2>3, <3>1, <3>2, <3>3, <3>4
  <2> QED BY <1>5, <2>2, <2>3
<1>7. OneParent(new)
  <2> SUFFICES ASSUME NEW r \in Slots, NEW s \in Slots,
                      NEW e \in Entries, NEW f \in Entries, NEW i \in Slots,
                      Points(new, r, e, i), Points(new, s, f, i)
               PROVE  r = s
    BY DEF OneParent
  <2>1. CASE i = w
    BY <1>5, <2>1
  <2>2. CASE i # w
    <3>1. Points(dba, r, e, i) /\ Points(dba, s, f, i)
      BY <1>5, <2>2
    <3> QED BY <1>1, <3>1 DEF OneParent
  <2> QED BY <2>1, <2>2
<1>8. DataTagged(new, own, IF l = num_BTH THEN {w} ELSE {})
  <2> SUFFICES ASSUME NEW s \in Slots, l = num_BTH => s # w,
                      new[s].V, new[s].LF = num_BTH
               PROVE  new[s].TAG = own[s]
    BY DEF DataTagged
  <2>1. s # w
    BY DEF Installs
  <2> QED BY <1>1, <1>2, <2>1 DEF Installs, DataTagged
<1>9. OnPath(new, own, b, l + 1, w)
  <2>1. (l + 1) - 1 = l
    BY <1>3
  <2>2. new[w].V /\ new[w].LF = l
    BY DEF Installs
  <2> QED BY <1>2, <2>1, <2>2 DEF OnPath
<1> QED BY <1>2, <1>4, <1>6, <1>7, <1>8, <1>9 DEF Owned, own

\* A turn that installs w leaves a search where it led, cuts it off, or leads it
\* to w, but only the search of the block installed to its end.
LEMMA KeptWalk ==
    ASSUME NEW l0t, NEW dba, NEW l0t2 \in L0Table, NEW new \in Array,
           NEW own, NEW filling, Owned(l0t2, new, own, filling),
           NEW b \in Blocks, NEW l, NEW w \in Slots, NEW last, own[w] = b,
           Installs(l0t, dba, l0t2, new, b, l, w, last),
           NEW c \in Blocks, NEW old, old = Path(l0t, [s \in Slots |-> dba[s].BTH], c),
           NEW path, path = Path(l0t2, [s \in Slots |-> new[s].BTH], c),
           path[num_BTH] # None
    PROVE  \/ path[num_BTH] = old[num_BTH]
           \/ path[num_BTH] = w /\ l = num_BTH /\ c = b
<1> DEFINE Kept(k) == path[k] # None => path[k] = w \/ path[k] = old[k]
           S == {k \in Nat : Kept(k)}
<1>1. \A k \in Levels :
         path[k] = IF k = 1 THEN Followed(l0t2[L0TIndex(c)])
                   ELSE IF path[k - 1] = None THEN None
                   ELSE Followed([s \in Slots |-> new[s].BTH][path[k - 1]]
                                 [TableIndex(c, k)])
  BY PathSteps
<1>2. \A k \in Levels :
         old[k] = IF k = 1 THEN Followed(l0t[L0TIndex(c)])
                  ELSE IF old[k - 1] = None THEN None
                  ELSE Followed([s \in Slots |-> dba[s].BTH][old[k - 1]]
                                [TableIndex(c, k)])
  BY PathSteps
<1>3. \A k \in Levels : path[k] # None =>
         /\ path[k] \in Slots
         /\ new[path[k]].V /\ new[path[k]].LF = k
         /\ Prefix(own[path[k]], k) = Prefix(c, k)
  BY WalkOwned
<1>4. 1 \in Levels /\ num_BTH \in Levels
  BY Numbers DEF Levels
<1>5. 1 \in S
  <2> SUFFICES ASSUME path[1] # None PROVE path[1] = w \/ path[1] = old[1]
    OBVIOUS
  <2> DEFINE t == L0TIndex(c)
  <2>1. t \in 0 .. L0Size - 1
    BY IndexTypes
  <2>2. path[1] = Followed(l0t2[t]) /\ old[1] = Followed(l0t[t])
    BY <1>1, <1>2, <1>4
  <2> HIDE DEF t
  <2>3. l0t2[t].V /\ path[1] = l0t2[t].I
    BY <2>2 DEF Followed
  <2> QED BY <2>1, <2>2, <2>3 DEF Installs, Followed
<1>6. ASSUME NEW k \in 1 .. num_BTH - 1, k \in S PROVE k + 1 \in S
  <2> SUFFICES ASSUME path[k + 1] # None
               PROVE  path[k + 1] = w \/ path[k + 1] = old[k + 1]
    BY Numbers
  <2> DEFINE s == path[k]
             x == TableIndex(c, k + 1)
             i == path[k + 1]
  <2>1. k + 1 \in Levels /\ k \in Levels /\ k + 1 # 1 /\ (k + 1) - 1 = k
    BY Numbers DEF Levels
  <2>2. s # None /\ s \in Slots /\ i \in Slots
    BY <1>1, <1>3, <2>1
  <2>3. i = Followed(new[s].BTH[x])
    BY <1>1, <2>1, <2>2
  <2>4. x \in Entries
    BY <2>1, IndexTypes
  <2>5. s = w \/ s = old[k]
    BY <1>6, <2>2
  <2>6. s = old[k] => old[k + 1] = Followed(dba[s].BTH[x])
    BY <1>2, <2>1, <2>2
  <2>7. i # None
    OBVIOUS
  <2> HIDE DEF s, x, i
  <2>8. Points(new, s, x, i)
    BY <2>3, <2>7 DEF Followed, Points
  <2>9. s # w
    BY <2>4, <2>8 DEF Installs, Points, EmptyTable, NullPointer
  <2>10. Points(dba, s, x, i) \/ i = w
    BY <2>2, <2>4, <2>8, <2>9 DEF Installs
  <2> QED BY <2>5, <2>6, <2>9, <2>10 DEF Points, Followed, i
<1> HIDE DEF S
<1>7. num_BTH \in S
  <2>1. 1 .. num_BTH \subseteq S
    BY <1>5, <1>6, LevelInduction, Numbers
  <2> QED BY <2>1, Numbers
<1>8. ASSUME path[num_BTH] = w PROVE l = num_BTH /\ c = b
  <2>1. new[w].LF = num_BTH /\ Prefix(b, num_BTH) = Prefix(c, num_BTH)
    BY <1>3, <1>4, <1>8
  <2> QED BY <2>1, PrefixFacts DEF Installs
<1> QED BY <1>7, <1>8 DEF S

\* The same of the search for a block, before and after the turn.
LEMMA TurnKeepsSearch ==
    ASSUME NEW own, NEW filling, Owned(cache_L0T', cache_DBA', own, filling),
           cache_L0T' \in L0Table, cache_DBA' \in Array,
           NEW b \in Blocks, NEW l, NEW w \in Slots, NEW last, own[w] = b,
           Installs(cache_L0T, cache_DBA, cache_L0T', cache_DBA', b, l, w, last),
           NEW c \in Blocks, NEW s, s = Walk(c)'[num_BTH], s # None
    PROVE  s = Walk(c)[num_BTH] \/ (s = w /\ l = num_BTH /\ c = b)
<1>1. PICK l0t, dba, l0t2, new : /\ l0t = cache_L0T /\ dba = cache_DBA
                                /\ l0t2 = cache_L0T' /\ new = cache_DBA'
  OBVIOUS
<1>2. PICK old : old = Path(l0t, [x \in Slots |-> dba[x].BTH], c)
  OBVIOUS
<1>3. PICK path : path = Path(l0t2, [x \in Slots |-> new[x].BTH], c)
  OBVIOUS
<1>4. old = Walk(c) /\ path = Walk(c)'
  BY <1>1, <1>2, <1>3 DEF Walk, Tables
<1>5. /\ l0t2 \in L0Table /\ new \in Array /\ Owned(l0t2, new, own, filling)
      /\ Installs(l0t, dba, l0t2, new, b, l, w, last)
  BY <1>1
<1>6. path[num_BTH] # None
  BY <1>4
<1>7. path[num_BTH] = old[num_BTH] \/ (path[num_BTH] = w /\ l = num_BTH /\ c = b)
  BY <1>2, <1>3, <1>5, <1>6, KeptWalk
<1> QED BY <1>4, <1>7
-----------------------------------------------------------------------------
(* Accesses change reuse counts and dirty bits only.                         *)

LEMMA TouchedBlocks ==
    ASSUME cache_DBA \in Array, NEW path
    PROVE  SameBlocks(cache_DBA, Touched(path))
<1> SUFFICES ASSUME NEW s \in Slots
             PROVE  LET new == Touched(path)[s]
                        old == cache_DBA[s]
                    IN  /\ new.BTH = old.BTH /\ new.V = old.V /\ new.PV = old.PV
                        /\ new.LF = old.LF /\ new.PT = old.PT /\ new.TAG = old.TAG
  BY DEF SameBlocks
<1> DEFINE r == Capped(cache_DBA[s].R + Reuse(path, s))
<1>1. Touched(path)[s] = [cache_DBA[s] EXCEPT !.R = r]
  BY DEF Touched
<1> HIDE DEF r
<1>2. cache_DBA[s] \in Block
  BY DEF Array
<1> QED BY <1>1, <1>2 DEF Block

LEMMA DirtiedBlocks ==
    ASSUME NEW from, NEW dba \in Array, SameBlocks(from, dba), NEW w \in Slots, NEW store
    PROVE  SameBlocks(from, Dirtied(dba, w, store))
<1> SUFFICES ASSUME NEW s \in Slots
             PROVE  LET new == Dirtied(dba, w, store)[s]
                        old == dba[s]
                    IN  /\ new.BTH = old.BTH /\ new.V = old.V /\ new.PV = old.PV
                        /\ new.LF = old.LF /\ new.PT = old.PT /\ new.TAG = old.TAG
  BY DEF SameBlocks
<1>1. dba[s] \in Block
  BY DEF Array
<1> DEFINE d == dba[s].D \/ store
<1>2. Dirtied(dba, w, store)[s] = IF s = w THEN [dba[s] EXCEPT !.D = d] ELSE dba[s]
  BY DEF Dirtied, Array
<1> HIDE DEF d
<1> QED BY <1>1, <1>2 DEF Block

LEMMA AccessBlocks ==
    ASSUME RestTypeOK, TLBInv, NEW b \in Blocks, NEW store \in BOOLEAN,
           Hit(b, store) \/ Miss(b)
    PROVE  SameBlocks(cache_DBA, cache_DBA') /\ UNCHANGED <<cache_L0T, VBIR>>
<1>0. cache_DBA \in Array /\ SameBlocks(cache_DBA, cache_DBA)
  BY DEF RestTypeOK, SameBlocks
<1>1. CASE HitTLB(b, store)
  <2>1. cache_TLB[b] \in Slots
    BY <1>1 DEF HitTLB, TLBInv, TLBTypeOK
  <2> QED BY <1>0, <1>1, <2>1, DirtiedBlocks DEF HitTLB
<1>2. CASE HitSearch(b, store)
  <2> DEFINE s == Walk(b)[num_BTH]
  <2>1. s \in Slots /\ cache_DBA' = Dirtied(Touched(Walk(b)), s, store)
    BY <1>2 DEF HitSearch, Found
  <2> HIDE DEF s
  <2>2. SameBlocks(cache_DBA, cache_DBA')
    BY <1>0, <2>1, TouchedBlocks, TouchedType, DirtiedBlocks
  <2> QED BY <1>2, <2>2 DEF HitSearch
<1>3. CASE Miss(b)
  BY <1>0, <1>3, TouchedBlocks DEF Miss
<1> QED BY <1>1, <1>2, <1>3 DEF Hit
-----------------------------------------------------------------------------
(* The invariant of an index that is exact.                                  *)

\* The slot that insert has linked, but not yet tagged.
Filling == IF phase = "insert" /\ current_level > num_BTH THEN {last_BTH} ELSE {}

IndexOwned(owner) ==
    /\ Owned(cache_L0T, cache_DBA, owner, Filling)
    /\ phase = "insert" => OnPath(cache_DBA, owner, req.block, current_level, last_BTH)

\* The entry that insert is about to fill is free.
EntryFree(l0t, dba, b, l, last) ==
    IF l = 1 THEN ~l0t[L0TIndex(b)].V ELSE ~dba[last].BTH[TableIndex(b, l)].V
InsertFillsGap ==
    phase = "insert" /\ current_level \in Levels =>
        EntryFree(cache_L0T, cache_DBA, req.block, current_level, last_BTH)

\* No TLB entry names the slot that is about to be tagged.
FillingNotInTLB ==
    \A t \in DOMAIN cache_TLB : cache_TLB[t] \notin Filling

TLBExact == TLBCoherent /\ FillingNotInTLB

LEMMA OwnedPointersSound ==
    ASSUME cache_DBA \in Array, NEW owner, IndexOwned(owner)
    PROVE  PointersSound
<1>1. /\ RootsOwned(cache_L0T, cache_DBA, owner)
      /\ TablesOwned(cache_DBA, owner)
  BY DEF IndexOwned, Owned
<1>2. \A t \in DOMAIN cache_L0T : Leads(cache_L0T[t], 1, t)
  BY <1>1 DEF RootsOwned, Leads
<1>3. ASSUME NEW s \in Slots, NEW e \in Entries
      PROVE  Leads(cache_DBA[s].BTH[e], cache_DBA[s].LF + 1, s)
  <2>1. cache_DBA[s].BTH[e] \in Pointer
    BY DEF Array, Block
  <2> QED BY <1>1, <2>1 DEF TablesOwned, Points, Leads, Pointer
<1> QED BY <1>2, <1>3 DEF PointersSound

\* A search that goes all the way finds its block.
LEMMA OwnedWalksFind ==
    ASSUME cache_L0T \in L0Table, cache_DBA \in Array, NEW owner, Owned(cache_L0T, cache_DBA, owner, {}),
           NEW b \in Blocks, Walk(b)[num_BTH] # None
    PROVE  Found(Walk(b), b)
<1> DEFINE path == Walk(b)
           s == path[num_BTH]
<1>1. num_BTH \in Levels
  BY Numbers DEF Levels
<1>2. path = Path(cache_L0T, [x \in Slots |-> cache_DBA[x].BTH], b)
  BY DEF Walk, Tables
<1>3. path[num_BTH] # None
  OBVIOUS
<1> HIDE DEF path
<1>4. /\ s \in Slots /\ cache_DBA[s].V /\ cache_DBA[s].LF = num_BTH
      /\ Prefix(owner[s], num_BTH) = Prefix(b, num_BTH)
  BY <1>1, <1>2, <1>3, WalkOwned
<1> HIDE DEF s
<1>5. owner[s] = b
  BY <1>4, PrefixFacts DEF Owned
<1>6. cache_DBA[s].TAG = b
  BY <1>4, <1>5 DEF Owned, DataTagged
<1> QED BY <1>4, <1>6 DEF Found, s, path

LEMMA OwnedWalksExact ==
    ASSUME cache_L0T \in L0Table, cache_DBA \in Array, NEW owner, IndexOwned(owner)
    PROVE  WalksExact
<1> SUFFICES ASSUME phase \in {"ready", "wait"}, NEW b \in Blocks,
                    Walk(b)[num_BTH] # None
             PROVE  Found(Walk(b), b)
  BY DEF WalksExact
<1>1. Filling = {}
  BY DEF Filling
<1> QED BY <1>1, OwnedWalksFind DEF IndexOwned

\* What recording b in the TLB leaves there of the other entries.
LEMMA TLBRecordEntries ==
    ASSUME NEW b, NEW s, NEW t \in DOMAIN TLBRecord(b, s)
    PROVE  \/ t = b /\ TLBRecord(b, s)[t] = s
           \/ t # b /\ t \in DOMAIN cache_TLB /\ TLBRecord(b, s)[t] = cache_TLB[t]
<1> DEFINE kept == IF TLBFull THEN Without(cache_TLB, Head(cache_TLB_order))
                   ELSE cache_TLB
<1>1. TLBRecord(b, s) = [x \in DOMAIN kept \cup {b} |-> IF x = b THEN s ELSE kept[x]]
  BY DEF TLBRecord
<1>2. \A x \in DOMAIN kept : x \in DOMAIN cache_TLB /\ kept[x] = cache_TLB[x]
  BY DEF Without, Restrict
<1> HIDE DEF kept
<1> QED BY <1>1, <1>2

\* Accesses.
LEMMA AccessOwned ==
    ASSUME IndexInv, NEW owner, IndexOwned(owner), TLBExact,
           NEW b \in Blocks, NEW store \in BOOLEAN, Hit(b, store) \/ Miss(b),
           phase \in {"ready", "wait"}, phase' \in {"ready", "wait"}
    PROVE  IndexOwned(owner)' /\ InsertFillsGap' /\ TLBExact'
<1>1. RestTypeOK /\ TLBInv /\ cache_L0T \in L0Table
  BY IndexInvParts DEF RestTypeOK, L0Table
<1>2. SameBlocks(cache_DBA, cache_DBA') /\ UNCHANGED <<cache_L0T, VBIR>>
  BY <1>1, AccessBlocks
<1>3. Filling = {} /\ Filling' = {}
  BY DEF Filling
<1>4. IndexOwned(owner)'
  <2>1. Owned(cache_L0T, cache_DBA', owner, {})
    BY <1>1, <1>2, <1>3, OwnedSame DEF IndexOwned
  <2> QED BY <1>2, <1>3, <2>1 DEF IndexOwned
<1>5. InsertFillsGap'
  BY DEF InsertFillsGap
<1>6. \A s \in Slots : \A t : Holds(s, t)' <=> Holds(s, t)
  BY <1>2 DEF SameBlocks, Holds
<1>7. TLBCoherent'
  <2>1. \A t \in DOMAIN cache_TLB : cache_TLB[t] \in Slots /\ Holds(cache_TLB[t], t)
    BY <1>1 DEF TLBExact, TLBCoherent, TLBInv, TLBTypeOK
  <2>2. CASE UNCHANGED cache_TLB
    BY <1>6, <2>1, <2>2 DEF TLBCoherent
  <2>3. CASE HitSearch(b, store)
    <3> DEFINE s == Walk(b)[num_BTH]
    <3>1. s \in Slots /\ Holds(s, b) /\ cache_TLB' = TLBRecord(b, s)
      BY <2>3 DEF HitSearch, Found, Holds
    <3> HIDE DEF s
    <3>2. \A t \in DOMAIN cache_TLB' :
             \/ t = b /\ cache_TLB'[t] = s
             \/ t \in DOMAIN cache_TLB /\ cache_TLB'[t] = cache_TLB[t]
      BY <3>1, TLBRecordEntries
    <3> QED BY <1>6, <2>1, <3>1, <3>2 DEF TLBCoherent
  <2> QED BY <2>2, <2>3 DEF Hit, HitTLB, Miss
<1> QED BY <1>3, <1>4, <1>5, <1>7 DEF TLBExact, FillingNotInTLB
-----------------------------------------------------------------------------
(* The steps of insert.                                                      *)

\* insert goes on from a table on the path of the block, at an entry of it that
\* leads nowhere.
LEMMA SearchEnds ==
    ASSUME cache_L0T \in L0Table, cache_DBA \in Array, NEW owner,
           Owned(cache_L0T, cache_DBA, owner, {}),
           NEW b \in Blocks, Walk(b)[num_BTH] = None,
           NEW s, EndsAt(Walk(b), s),
           NEW next, next = IF s = None THEN 1 ELSE cache_DBA[s].LF + 1
    PROVE  /\ next \in Levels
           /\ OnPath(cache_DBA, owner, b, next, s)
           /\ EntryFree(cache_L0T, cache_DBA, b, next, s)
<1> DEFINE path == Walk(b)
<1>1. path = Path(cache_L0T, [x \in Slots |-> cache_DBA[x].BTH], b)
  BY DEF Walk, Tables
<1>2. \A l \in Levels :
         path[l] = IF l = 1 THEN Followed(cache_L0T[L0TIndex(b)])
                   ELSE IF path[l - 1] = None THEN None
                   ELSE Followed([x \in Slots |-> cache_DBA[x].BTH][path[l - 1]]
                                 [TableIndex(b, l)])
  BY <1>1, PathSteps
<1>3. path[num_BTH] = None /\ EndsAt(path, s)
  OBVIOUS
<1> HIDE DEF path
<1>4. CASE s = None /\ path[1] = None
  <2>1. next = 1 /\ 1 \in Levels /\ ~(1 > 1)
    BY <1>4, Numbers DEF Levels
  <2>2. path[1] = Followed(cache_L0T[L0TIndex(b)])
    BY <1>2, <2>1
  <2>3. cache_L0T[L0TIndex(b)] \in Pointer
    BY IndexTypes DEF L0Table
  <2>4. ~cache_L0T[L0TIndex(b)].V
    BY <1>4, <2>2, <2>3, Numbers DEF Followed, Pointer
  <2> QED BY <2>1, <2>4 DEF OnPath, EntryFree
<1>5. ASSUME NEW l \in Levels, s = path[l], s # None,
             l < num_BTH => path[l + 1] = None
      PROVE  /\ next \in Levels
             /\ OnPath(cache_DBA, owner, b, next, s)
             /\ EntryFree(cache_L0T, cache_DBA, b, next, s)
  <2>1. /\ s \in Slots /\ cache_DBA[s].V /\ cache_DBA[s].LF = l
        /\ Prefix(owner[s], l) = Prefix(b, l)
    BY <1>1, <1>5, WalkOwned
  <2>2. /\ l < num_BTH /\ l + 1 \in Levels /\ l + 1 # 1 /\ l + 1 > 1
        /\ (l + 1) - 1 = l /\ path[l + 1] = None
    BY <1>3, <1>5, Numbers DEF Levels
  <2>3. next = l + 1
    BY <1>5, <2>1
  <2>4. OnPath(cache_DBA, owner, b, l + 1, s)
    BY <2>1, <2>2 DEF OnPath
  <2> DEFINE x == TableIndex(b, l + 1)
  <2>5. None = Followed(cache_DBA[s].BTH[x])
    BY <1>2, <1>5, <2>1, <2>2
  <2>6. cache_DBA[s].BTH[x] \in Pointer
    BY <2>1, <2>2, IndexTypes DEF Array, Block
  <2>7. ~cache_DBA[s].BTH[x].V
    BY <2>1, <2>5, <2>6, Numbers DEF Followed, Pointer
  <2> QED BY <2>2, <2>3, <2>4, <2>7 DEF EntryFree
<1> QED BY <1>3, <1>4, <1>5 DEF EndsAt

LEMMA BeginOwned ==
    ASSUME IndexInv, NEW owner, IndexOwned(owner), TLBExact, MissStaysMiss,
           InsertBegin
    PROVE  IndexOwned(owner)' /\ InsertFillsGap' /\ TLBExact'
<1> DEFINE b == req.block
           path == Walk(b)
<1>1. /\ RestTypeOK /\ cache_L0T \in L0Table /\ cache_DBA \in Array
      /\ b \in Blocks
  BY IndexInvParts DEF RestTypeOK, L0Table, Requests
<1>2. /\ phase' = "insert" /\ ~Found(path, b)
      /\ cache_DBA' = Touched(path)
      /\ UNCHANGED <<cache_L0T, cache_TLB, req>>
  BY DEF MissStaysMiss, InsertBegin
<1>3. Filling = {} /\ Owned(cache_L0T, cache_DBA, owner, {})
  BY DEF InsertBegin, Filling, IndexOwned
<1>4. SameBlocks(cache_DBA, cache_DBA')
  BY <1>1, <1>2, TouchedBlocks
<1>5. Owned(cache_L0T, cache_DBA', owner, {})
  BY <1>1, <1>3, <1>4, OwnedSame
<1>6. path[num_BTH] = None
  BY <1>1, <1>2, <1>3, OwnedWalksFind
<1>7. PICK s \in Slots \cup {None} :
         /\ EndsAt(path, s)
         /\ last_BTH' = s
         /\ current_level' = IF s = None THEN 1 ELSE cache_DBA[s].LF + 1
  BY DEF InsertBegin
<1>8. /\ current_level' \in Levels
      /\ OnPath(cache_DBA, owner, b, current_level', s)
      /\ EntryFree(cache_L0T, cache_DBA, b, current_level', s)
  BY <1>1, <1>3, <1>6, <1>7, SearchEnds
<1> HIDE DEF path, b
<1>9. current_level' > 1 => s \in Slots
  BY <1>8 DEF OnPath
<1>10. /\ OnPath(cache_DBA', owner, b, current_level', s)
       /\ EntryFree(cache_L0T, cache_DBA', b, current_level', s)
  BY <1>4, <1>8, <1>9, Numbers DEF OnPath, EntryFree, SameBlocks, Levels
<1>11. Filling' = {}
  BY <1>8, Numbers DEF Filling, Levels
<1>12. IndexOwned(owner)'
  BY <1>2, <1>5, <1>7, <1>10, <1>11 DEF IndexOwned, b
<1>13. InsertFillsGap'
  BY <1>2, <1>7, <1>10 DEF InsertFillsGap, b
<1>14. TLBCoherent'
  <2>1. \A t \in DOMAIN cache_TLB : cache_TLB[t] \in Slots /\ Holds(cache_TLB[t], t)
    BY IndexInvParts DEF TLBExact, TLBCoherent, TLBInv, TLBTypeOK
  <2> QED BY <1>2, <1>4, <2>1 DEF TLBCoherent, Holds, SameBlocks
<1> QED BY <1>11, <1>12, <1>13, <1>14 DEF TLBExact, FillingNotInTLB

\* The end of insert tags the block it has installed, and may make it dirty.
LEMMA EndFields ==
    ASSUME IndexInv, InsertEnd
    PROVE  /\ last_BTH \in Slots
           /\ \A s \in Slots : LET new == cache_DBA'[s]
                                old == cache_DBA[s]
                            IN  /\ new.BTH = old.BTH /\ new.V = old.V /\ new.PV = old.PV
                                /\ new.LF = old.LF /\ new.PT = old.PT /\ new.R = old.R
                                /\ new.TAG = IF s = last_BTH THEN req.block ELSE old.TAG
<1> DEFINE b == req.block
           w == last_BTH
           tagged == [cache_DBA EXCEPT ![w].TAG = b]
           dirty == tagged[w].D \/ req.dirties
<1>1. /\ cache_DBA \in Array /\ b \in Blocks /\ InsertState /\ w \in Slots \cup {None}
      /\ phase = "insert" /\ current_level > num_BTH
  BY IndexInvParts DEF RestTypeOK, Requests, InsertEnd
<1>2. w \in Slots
  BY <1>1, Numbers DEF InsertState
<1>3. cache_DBA' = [tagged EXCEPT ![w].D = dirty]
  BY DEF InsertEnd, Dirtied
<1> HIDE DEF dirty, b, w
<1>4. ASSUME NEW s \in Slots
      PROVE  /\ s # w => cache_DBA'[s] = cache_DBA[s]
             /\ s = w => cache_DBA'[s] = [[cache_DBA[s] EXCEPT !.TAG = b] EXCEPT !.D = dirty]
  BY <1>1, <1>2, <1>3 DEF Array
<1>5. \A s \in Slots : cache_DBA[s] \in Block
  BY <1>1 DEF Array
<1>6. ASSUME NEW s \in Slots
      PROVE  LET new == cache_DBA'[s]
                 old == cache_DBA[s]
             IN  /\ new.BTH = old.BTH /\ new.V = old.V /\ new.PV = old.PV
                 /\ new.LF = old.LF /\ new.PT = old.PT /\ new.R = old.R
                 /\ new.TAG = IF s = w THEN b ELSE old.TAG
  <2>1. CASE s = w
    BY <1>4, <1>5, <2>1 DEF Block
  <2>2. CASE s # w
    BY <1>4, <2>2
  <2> QED BY <2>1, <2>2
<1> QED BY <1>2, <1>6 DEF b, w

\* The same blocks, but for the tag of w.
Tagged(dba, new, w, b) ==
    \A s \in Slots : /\ new[s].BTH = dba[s].BTH
                     /\ new[s].V = dba[s].V /\ new[s].PV = dba[s].PV
                     /\ new[s].LF = dba[s].LF /\ new[s].PT = dba[s].PT
                     /\ new[s].TAG = IF s = w THEN b ELSE dba[s].TAG

\* The tag a block gets at the end of insert is that of its owner.
LEMMA TagOwned ==
    ASSUME NEW l0t \in L0Table, NEW dba, NEW new, NEW owner, NEW w \in Slots, NEW b \in Blocks,
           Owned(l0t, dba, owner, {w}), OnPath(dba, owner, b, num_BTH + 1, w),
           Tagged(dba, new, w, b)
    PROVE  /\ Owned(l0t, new, owner, {})
           /\ owner[w] = b /\ dba[w].V /\ dba[w].LF = num_BTH
<1>1. num_BTH + 1 > 1 /\ (num_BTH + 1) - 1 = num_BTH
  BY Numbers
<1>2. /\ dba[w].V /\ dba[w].LF = num_BTH
      /\ Prefix(owner[w], num_BTH) = Prefix(b, num_BTH)
  BY <1>1 DEF OnPath
<1>3. owner[w] = b
  BY <1>2, PrefixFacts DEF Owned
<1>4. RootsOwned(l0t, new, owner)
  BY DEF Owned, RootsOwned, L0Table, Pointer, Tagged
<1>5. \A s \in Slots, e \in Entries, i \in Slots :
         Points(new, s, e, i) <=> Points(dba, s, e, i)
  BY DEF Points, Tagged
<1>6. TablesOwned(new, owner)
  BY <1>5 DEF Owned, TablesOwned, Tagged
<1>7. OneParent(new)
  BY <1>5 DEF Owned, OneParent
<1>8. DataTagged(new, owner, {})
  BY <1>3 DEF Owned, DataTagged, Tagged
<1> QED BY <1>2, <1>3, <1>4, <1>6, <1>7, <1>8 DEF Owned

LEMMA EndOwned ==
    ASSUME IndexInv, NEW owner, IndexOwned(owner), TLBExact, InsertEnd
    PROVE  IndexOwned(owner)' /\ InsertFillsGap' /\ TLBExact'
<1> DEFINE b == req.block
           w == last_BTH
<1>1. RestTypeOK /\ TLBInv /\ cache_L0T \in L0Table /\ b \in Blocks
  BY IndexInvParts DEF RestTypeOK, L0Table, Requests
<1>2. /\ phase = "insert" /\ current_level > num_BTH /\ phase' = "ready"
      /\ UNCHANGED <<cache_L0T, VBIR>>
      /\ cache_TLB' = TLBRecord(b, w)
  BY DEF InsertEnd
<1>3. current_level = num_BTH + 1
  BY <1>1, <1>2, Numbers DEF RestTypeOK
<1>4. /\ w \in Slots
      /\ \A s \in Slots :
            /\ cache_DBA'[s].BTH = cache_DBA[s].BTH
            /\ cache_DBA'[s].V = cache_DBA[s].V
            /\ cache_DBA'[s].PV = cache_DBA[s].PV
            /\ cache_DBA'[s].LF = cache_DBA[s].LF
            /\ cache_DBA'[s].PT = cache_DBA[s].PT
            /\ cache_DBA'[s].TAG = IF s = w THEN b ELSE cache_DBA[s].TAG
  BY EndFields
<1>5. Filling = {w} /\ Filling' = {}
  BY <1>2 DEF Filling
<1>6. /\ Owned(cache_L0T, cache_DBA, owner, {w})
      /\ OnPath(cache_DBA, owner, b, num_BTH + 1, w)
  BY <1>2, <1>3, <1>5 DEF IndexOwned
<1> HIDE DEF b, w
<1>8. /\ Owned(cache_L0T, cache_DBA', owner, {})
      /\ cache_DBA[w].V /\ cache_DBA[w].LF = num_BTH
  <2>1. Tagged(cache_DBA, cache_DBA', w, b)
    BY <1>4 DEF Tagged
  <2> QED BY <1>1, <1>4, <1>6, <2>1, TagOwned
<1>9. IndexOwned(owner)' /\ InsertFillsGap'
  BY <1>2, <1>5, <1>8 DEF IndexOwned, InsertFillsGap
<1>10. ASSUME NEW t \in DOMAIN cache_TLB'
       PROVE  /\ cache_DBA'[cache_TLB'[t]].V /\ cache_DBA'[cache_TLB'[t]].LF = num_BTH
              /\ cache_DBA'[cache_TLB'[t]].TAG = t
  <2>1. \A x \in DOMAIN cache_TLB :
           /\ cache_TLB[x] \in Slots /\ Holds(cache_TLB[x], x)
           /\ cache_TLB[x] # w
    BY <1>1, <1>5 DEF TLBExact, TLBCoherent, FillingNotInTLB, TLBInv, TLBTypeOK
  <2>2. \/ t = b /\ cache_TLB'[t] = w
        \/ t \in DOMAIN cache_TLB /\ cache_TLB'[t] = cache_TLB[t]
    BY <1>2, TLBRecordEntries
  <2> QED BY <1>4, <1>8, <2>1, <2>2 DEF Holds
<1>11. TLBExact'
  BY <1>5, <1>10 DEF TLBExact, TLBCoherent, Holds, FillingNotInTLB
<1> QED BY <1>9, <1>11

\* A turn of the loop that severs what led to the slot it takes.
LEMMA TurnOwned ==
    ASSUME cache_L0T \in L0Table, cache_DBA \in Array, req.block \in Blocks, TLBTypeOK,
           NEW owner, IndexOwned(owner), TLBExact,
           phase = "insert", current_level \in Levels, NEW w \in Slots,
           NEW own, own = [owner EXCEPT ![w] = req.block],
           Installs(cache_L0T, cache_DBA, cache_L0T', cache_DBA',
                    req.block, current_level, w, last_BTH),
           cache_L0T' \in L0Table, cache_DBA' \in Array,
           last_BTH' = w, current_level' = current_level + 1, UNCHANGED <<phase, req>>,
           \A t \in DOMAIN cache_TLB' :
              /\ t \in DOMAIN cache_TLB /\ cache_TLB'[t] = cache_TLB[t]
              /\ cache_TLB[t] # w
    PROVE  IndexOwned(own)' /\ InsertFillsGap' /\ TLBExact'
<1>2. /\ Filling = {}
      /\ Filling' = IF current_level = num_BTH THEN {w} ELSE {}
  BY Numbers DEF Filling, Levels
<1>3. /\ Owned(cache_L0T, cache_DBA, owner, {})
      /\ OnPath(cache_DBA, owner, req.block, current_level, last_BTH)
  BY <1>2 DEF IndexOwned
<1>4. /\ Owned(cache_L0T', cache_DBA', own, Filling')
      /\ OnPath(cache_DBA', own, req.block, current_level + 1, w)
  BY <1>2, <1>3, InstallOwned
<1>5. IndexOwned(own)'
  BY <1>4 DEF IndexOwned
<1>6. InsertFillsGap'
  <2> SUFFICES ASSUME current_level + 1 \in Levels
               PROVE  EntryFree(cache_L0T', cache_DBA', req.block, current_level + 1, w)
    BY DEF InsertFillsGap
  <2>1. TableIndex(req.block, current_level + 1) \in Entries
    BY IndexTypes
  <2>2. current_level + 1 # 1
    BY Numbers DEF Levels
  <2> QED BY <2>1, <2>2 DEF Installs, EntryFree, EmptyTable, NullPointer
<1>7. \A t \in DOMAIN cache_TLB : cache_TLB[t] \in Slots /\ Holds(cache_TLB[t], t)
  BY DEF TLBExact, TLBCoherent, TLBTypeOK
<1>8. TLBExact'
  <2>1. \A s \in Slots \ {w} : \A t : Holds(s, t) => Holds(s, t)'
    BY DEF Installs, Holds
  <2>2. TLBCoherent'
    BY <1>7, <2>1 DEF TLBCoherent
  <2> QED BY <1>2, <2>2 DEF TLBExact, FillingNotInTLB
<1> QED BY <1>5, <1>6, <1>8
-----------------------------------------------------------------------------
\* The array after a turn of insert, field by field.
LEMMA InstalledFields ==
    ASSUME NEW dba \in Array, NEW b, NEW l, NEW w \in Slots,
           l = 1 \/ (last_BTH \in Slots /\ TableIndex(b, l) \in Entries)
    PROVE  LET new == Installed(Linked(dba, b, l, w), b, l, w)
           IN  /\ \A s \in Slots \ {w} :
                     /\ new[s].V = dba[s].V /\ new[s].PV = dba[s].PV
                     /\ new[s].LF = dba[s].LF /\ new[s].PT = dba[s].PT
                     /\ new[s].TAG = dba[s].TAG /\ new[s].R = dba[s].R
                     /\ \A e \in Entries :
                           new[s].BTH[e] =
                             IF l # 1 /\ s = last_BTH /\ e = TableIndex(b, l)
                             THEN [V |-> TRUE, I |-> w] ELSE dba[s].BTH[e]
               /\ new[w].V /\ new[w].PV /\ new[w].LF = l /\ new[w].R = 1
               /\ new[w].PT = (IF l = 1 THEN L0TIndex(b) ELSE last_BTH) % PTSize
               /\ new[w].BTH = EmptyTable
<1> DEFINE pt     == (IF l = 1 THEN L0TIndex(b) ELSE last_BTH) % PTSize
           i      == TableIndex(b, l)
           ptr    == [V |-> TRUE, I |-> w]
           linked == Linked(dba, b, l, w)
           new    == Installed(linked, b, l, w)
           old    == linked[w]
           top    == [old EXCEPT !.V = TRUE, !.PV = TRUE, !.LF = l, !.R = 1,
                                 !.PT = pt, !.BTH = EmptyTable]
<1>1. linked \in Array
  BY LinkedType
<1>2. new = [linked EXCEPT ![w] = top]
  BY DEF Installed
<1>3. linked = IF l = 1 THEN dba ELSE [dba EXCEPT ![last_BTH].BTH[i] = ptr]
  BY DEF Linked
<1>0. l = 1 \/ (last_BTH \in Slots /\ i \in Entries)
  OBVIOUS
<1> HIDE DEF i, linked, new, pt
<1>4. top.V /\ top.PV /\ top.LF = l /\ top.R = 1 /\ top.PT = pt /\ top.BTH = EmptyTable
  <2>1. old \in Block
    BY <1>1 DEF Array
  <2> HIDE DEF old
  <2> QED BY <2>1 DEF Block
<1> HIDE DEF old, top
<1>5. new[w] = top
  BY <1>1, <1>2 DEF Array
<1>6. ASSUME NEW s \in Slots \ {w}
      PROVE  /\ new[s].V = dba[s].V /\ new[s].PV = dba[s].PV
             /\ new[s].LF = dba[s].LF /\ new[s].PT = dba[s].PT
             /\ new[s].TAG = dba[s].TAG /\ new[s].R = dba[s].R
             /\ \A e \in Entries :
                   new[s].BTH[e] = IF l # 1 /\ s = last_BTH /\ e = i
                                   THEN ptr ELSE dba[s].BTH[e]
  <2>1. new[s] = linked[s] /\ dba[s] \in Block
    BY <1>1, <1>2 DEF Array
  <2> DEFINE table == [dba[s].BTH EXCEPT ![i] = ptr]
  <2>2. linked[s] = IF l # 1 /\ s = last_BTH THEN [dba[s] EXCEPT !.BTH = table]
                    ELSE dba[s]
    BY <1>0, <1>3 DEF Array
  <2>3. \A e \in Entries : table[e] = IF e = i THEN ptr ELSE dba[s].BTH[e]
    <3>1. dba[s].BTH \in [Entries -> Pointer]
      BY <2>1 DEF Block
    <3> QED BY <3>1
  <2> HIDE DEF table, ptr
  <2>4. CASE ~(l # 1 /\ s = last_BTH)
    BY <2>1, <2>2, <2>4
  <2>5. CASE l # 1 /\ s = last_BTH
    <3>1. /\ linked[s].V = dba[s].V /\ linked[s].PV = dba[s].PV
          /\ linked[s].LF = dba[s].LF /\ linked[s].PT = dba[s].PT
          /\ linked[s].TAG = dba[s].TAG /\ linked[s].R = dba[s].R
          /\ linked[s].BTH = table
      BY <2>1, <2>2, <2>5 DEF Block
    <3> QED BY <2>1, <2>3, <2>5, <3>1
  <2> QED BY <2>4, <2>5
<1> QED BY <1>4, <1>5, <1>6 DEF new, linked, pt, i
-----------------------------------------------------------------------------
(* Reachability: with every block linked, the search finds them all.         *)

\* Every slot in use has its link, in the first-level table or in a table.
AllLinked(owner) ==
    \A s \in Slots : cache_DBA[s].V =>
        /\ cache_DBA[s].LF \in Levels
        /\ IF cache_DBA[s].LF = 1
           THEN cache_L0T[Prefix(owner[s], 1)] = [V |-> TRUE, I |-> s]
           ELSE \E p \in Slots :
                   Points(cache_DBA, p, TableIndex(owner[s], cache_DBA[s].LF), s)

LEMMA LinkedWalk ==
    ASSUME NEW owner, NEW filling,
           Owned(cache_L0T, cache_DBA, owner, filling), AllLinked(owner),
           NEW b \in Blocks, NEW s \in Slots, cache_DBA[s].V,
           Prefix(owner[s], cache_DBA[s].LF) = Prefix(b, cache_DBA[s].LF)
    PROVE  Walk(b)[cache_DBA[s].LF] = s
<1> DEFINE path == Walk(b)
           Fine(k) == \A i \in Slots :
                         /\ cache_DBA[i].V /\ cache_DBA[i].LF = k
                         /\ Prefix(owner[i], k) = Prefix(b, k)
                         => path[k] = i
           S == {k \in Nat : Fine(k)}
<1>1. path = Path(cache_L0T, [x \in Slots |-> cache_DBA[x].BTH], b)
  BY DEF Walk, Tables
<1>2. \A l \in Levels :
         path[l] = IF l = 1 THEN Followed(cache_L0T[L0TIndex(b)])
                   ELSE IF path[l - 1] = None THEN None
                   ELSE Followed([x \in Slots |-> cache_DBA[x].BTH][path[l - 1]]
                                 [TableIndex(b, l)])
  BY <1>1, PathSteps
<1>3. /\ owner \in [Slots -> Blocks] /\ TablesOwned(cache_DBA, owner)
      /\ 1 \in Levels
  BY Numbers DEF Owned, Levels
<1> HIDE DEF path
<1>4. 1 \in S
  <2> SUFFICES ASSUME NEW i \in Slots, cache_DBA[i].V, cache_DBA[i].LF = 1,
                      Prefix(owner[i], 1) = Prefix(b, 1)
               PROVE  path[1] = i
    OBVIOUS
  <2>1. cache_L0T[L0TIndex(b)] = [V |-> TRUE, I |-> i]
    BY PrefixFacts DEF AllLinked
  <2>2. path[1] = Followed(cache_L0T[L0TIndex(b)])
    BY <1>2, <1>3
  <2> QED BY <2>1, <2>2 DEF Followed
<1>5. ASSUME NEW k \in 1 .. num_BTH - 1, k \in S PROVE k + 1 \in S
  <2> SUFFICES ASSUME NEW i \in Slots, cache_DBA[i].V, cache_DBA[i].LF = k + 1,
                      Prefix(owner[i], k + 1) = Prefix(b, k + 1)
               PROVE  path[k + 1] = i
    BY Numbers
  <2>1. k + 1 \in Levels /\ k + 1 # 1 /\ (k + 1) - 1 = k /\ owner[i] \in Blocks
    BY <1>3, Numbers DEF Levels
  <2>2. PICK p \in Slots : Points(cache_DBA, p, TableIndex(owner[i], k + 1), i)
    BY <2>1 DEF AllLinked
  <2>3. TableIndex(owner[i], k + 1) \in Entries
    BY <2>1, IndexTypes
  <2>4. /\ cache_DBA[p].V /\ cache_DBA[p].LF \in 1 .. num_BTH - 1
        /\ k + 1 = cache_DBA[p].LF + 1
        /\ Prefix(owner[i], cache_DBA[p].LF) = Prefix(owner[p], cache_DBA[p].LF)
    BY <1>3, <2>2, <2>3 DEF TablesOwned
  <2>5. cache_DBA[p].LF = k
    BY <2>4
  <2>6. /\ Prefix(owner[i], k) = Prefix(b, k)
        /\ TableIndex(owner[i], k + 1) = TableIndex(b, k + 1)
    BY <2>1, PrefixDown
  <2>7. path[k] = p
    BY <1>5, <2>4, <2>5, <2>6
  <2>8. path[k + 1] = Followed(cache_DBA[p].BTH[TableIndex(b, k + 1)])
    BY <1>2, <2>1, <2>7, Numbers
  <2> QED BY <2>2, <2>6, <2>8 DEF Points, Followed
<1> HIDE DEF S
<1>6. 1 .. num_BTH \subseteq S
  BY <1>4, <1>5, LevelInduction, Numbers
<1>7. cache_DBA[s].LF \in S
  BY <1>6 DEF AllLinked, Levels
<1> QED BY <1>7 DEF S, path

LEMMA LinkedReachable ==
    ASSUME TLBTypeOK, NEW owner, IndexOwned(owner), AllLinked(owner), TLBCoherent
    PROVE  Reachable
<1> SUFFICES ASSUME phase \in {"ready", "wait"}, NEW b \in DOMAIN cache_TLB
             PROVE  Found(Walk(b), b)
  BY DEF Reachable
<1> DEFINE s == cache_TLB[b]
<1>1. s \in Slots /\ b \in Blocks /\ Holds(s, b)
  BY DEF TLBTypeOK, TLBCoherent
<1>2. Filling = {}
  BY DEF Filling
<1>3. Owned(cache_L0T, cache_DBA, owner, {})
  BY <1>2 DEF IndexOwned
<1> HIDE DEF s
<1>4. owner[s] = b /\ cache_DBA[s].V /\ cache_DBA[s].LF = num_BTH /\ cache_DBA[s].TAG = b
  BY <1>1, <1>3 DEF Holds, Owned, DataTagged
<1>5. Walk(b)[num_BTH] = s
  BY <1>1, <1>3, <1>4, LinkedWalk
<1> QED BY <1>1, <1>4, <1>5 DEF Found
=============================================================================
