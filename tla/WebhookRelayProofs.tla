------------------------- MODULE WebhookRelayProofs -------------------------
(***************************************************************************)
(* Proofs about WebhookRelay, for any webhooks, replicas, concurrency,     *)
(* retry limits, batch sizes and gaps.                                     *)
(***************************************************************************)
EXTENDS WebhookRelay, FiniteSetTheorems, SequenceTheorems, TLAPS

-----------------------------------------------------------------------------
(* Smallest and largest elements of sets of heights. *)

\* A nonempty set of naturals has a smallest element, which Min returns.
LEMMA MinOfNats ==
    ASSUME NEW S \in SUBSET Nat, S # {}
    PROVE  Min(S) \in S /\ \A x \in S : Min(S) <= x
<1>1. PICK m \in S : \A y \in S : ~ (<<y, m>> \in OpToRel(<, Nat))
  BY NatLessThanWellFounded, WFMin
<1>2. ASSUME NEW y \in S PROVE ~ (y < m)
  <2>1. <<y, m>> \notin { ss \in Nat \X Nat : ss[1] < ss[2] }
    BY <1>1 DEF OpToRel
  <2> QED
    BY <2>1
<1>3. \A y \in S : m <= y
  BY <1>2
<1> QED
  BY <1>3 DEF Min

\* A nonempty set of heights has a largest element, which Max returns.
LEMMA MaxOfHeights ==
    ASSUME NEW n \in Nat, NEW S \in SUBSET (1 .. n), S # {}
    PROVE  Max(S) \in S /\ \A x \in S : x <= Max(S)
<1> DEFINE T == { n - x : x \in S }
<1>1. T \in SUBSET Nat /\ T # {}
  <2>1. \A x \in S : n - x \in Nat
    OBVIOUS
  <2> QED
    BY <2>1
<1>2. PICK x \in S : n - x = Min(T)
  BY <1>1, MinOfNats
<1>3. \A y \in S : n - x <= n - y
  BY <1>1, <1>2, MinOfNats
<1>4. \A y \in S : y <= x
  BY <1>3
<1> QED
  BY <1>4 DEF Max

-----------------------------------------------------------------------------
(* What the block store answers. *)

\* An answer comes from a cache that holds some of the stored heights, the
\* newest of them and each once as long as no batch was repeated.
LEMMA AnswerFrom ==
    ASSUME TypeOK, NEW j \in Job, NEW B \in Answers(j)
    PROVE  \E C \in SUBSET stored, two \in SUBSET stored :
              /\ two \subseteq C
              /\ ~repeated => two = {} /\ \A c \in C, h \in stored : c < h => h \in C
              /\ B = IF j.new THEN GetLatestBlocks(MaxBlocks[j.w], C, two)
                     ELSE GetBlocks(j.h, j.h + MaxBlocks[j.w] - 1, C, two)
<1>0. PICK C \in Caches : \E two \in Versions(C) :
          B = IF j.new THEN GetLatestBlocks(MaxBlocks[j.w], C, two)
              ELSE GetBlocks(j.h, j.h + MaxBlocks[j.w] - 1, C, two)
  BY DEF Answers
<1>1. PICK two \in Versions(C) :
          B = IF j.new THEN GetLatestBlocks(MaxBlocks[j.w], C, two)
              ELSE GetBlocks(j.h, j.h + MaxBlocks[j.w] - 1, C, two)
  BY <1>0
<1>2. C \subseteq stored
  BY DEF Caches
<1>3. two \subseteq C /\ (~repeated => two = {})
  BY DEF Versions
<1>4. ASSUME ~repeated, NEW c \in C, NEW h \in stored, c < h PROVE h \in C
  <2>1. PICK x \in {0} \cup stored : C = { g \in stored : g > x }
    BY <1>4 DEF Caches
  <2>2. x \in Nat /\ c \in Nat /\ h \in Nat /\ c > x
    BY <1>2, <2>1, ConstantsAssumption DEF TypeOK
  <2>3. h > x
    BY <1>4, <2>2
  <2> QED
    BY <2>1, <2>3
<1> QED
  BY <1>1, <1>2, <1>3, <1>4

\* The store answers with stored blocks, for a range with blocks of it.
LEMMA AnswerStored ==
    ASSUME TypeOK, NEW j \in Job, NEW B \in Answers(j)
    PROVE  /\ B \subseteq stored /\ B \subseteq 1 .. MaxHeight
           /\ ~j.new => \A b \in B : j.h <= b /\ b <= j.h + MaxBlocks[j.w] - 1
<1>1. PICK C \in SUBSET stored, two \in SUBSET stored :
          B = IF j.new THEN GetLatestBlocks(MaxBlocks[j.w], C, two)
              ELSE GetBlocks(j.h, j.h + MaxBlocks[j.w] - 1, C, two)
  BY AnswerFrom
<1>2. stored \subseteq 1 .. MaxHeight
  BY DEF TypeOK
<1>3. CASE j.new
  BY <1>1, <1>2, <1>3 DEF GetLatestBlocks
<1>4. CASE ~j.new
  BY <1>1, <1>2, <1>4 DEF GetBlocks
<1> QED
  BY <1>3, <1>4

\* Nothing is above the largest element of a set of heights.
LEMMA AboveNone ==
    ASSUME NEW S \in SUBSET Nat, NEW m \in Nat, \A x \in S : x <= m
    PROVE  Above(S, m) = 0
<1>1. ASSUME NEW g \in S PROVE ~(g > m)
  <2>1. g \in Nat /\ g <= m
    OBVIOUS
  <2> QED
    BY <2>1
<1>2. { g \in S : g > m } = {}
  BY <1>1
<1> QED
  BY <1>2, FS_EmptySet DEF Above

\* The store has an answer for a first batch as soon as it has a block, and for
\* a range as soon as it has a block of it, whatever the cache holds.
LEMMA AnswerThere ==
    ASSUME TypeOK, NEW j \in Job, NEW B \in Answers(j), NEW g \in stored,
           ~j.new => j.h <= g /\ g <= j.h + MaxBlocks[j.w] - 1
    PROVE  B # {}
<1> DEFINE n == MaxBlocks[j.w]
<1>1. PICK C \in SUBSET stored, two \in SUBSET stored :
          /\ two \subseteq C
          /\ B = IF j.new THEN GetLatestBlocks(n, C, two)
                 ELSE GetBlocks(j.h, j.h + n - 1, C, two)
  BY AnswerFrom
<1>2. /\ stored \in SUBSET (1 .. MaxHeight) /\ MaxHeight \in Nat /\ n \in Nat \ {0}
      /\ j.h \in Nat /\ stored \in SUBSET Nat
  BY ConstantsAssumption DEF TypeOK, Job
<1> HIDE DEF n
<1>3. CASE j.new /\ C = {}
  <2>1. PICK m \in stored : \A x \in stored : x <= m
    BY <1>2, MaxOfHeights
  <2>2. Above(stored, m) = 0
    BY <1>2, <2>1, AboveNone
  <2>3. Above(stored, m) < n
    BY <1>2, <2>2
  <2> QED
    BY <1>1, <1>3, <2>3 DEF GetLatestBlocks
<1>4. CASE j.new /\ C # {}
  <2>1. C \in SUBSET (1 .. MaxHeight) /\ C \in SUBSET Nat /\ two \in SUBSET Nat
    BY <1>2
  <2>2. PICK m \in C : \A x \in C : x <= m
    BY <1>2, <1>4, <2>1, MaxOfHeights
  <2>3. Above(C, m) = 0 /\ Above(two, m) = 0
    BY <1>1, <2>1, <2>2, AboveNone
  <2>4. Above(C, m) + Above(two, m) < n
    BY <1>2, <2>3
  <2> QED
    BY <1>1, <1>4, <2>4 DEF GetLatestBlocks
<1>5. CASE ~j.new
  <2> DEFINE hi == j.h + n - 1
             found == { h \in C : j.h <= h /\ h <= hi }
             below == { h \in stored : j.h <= h /\ h <= hi /\ \A c \in found : h < c }
  <2>1. \/ B = found /\ Cardinality(found) + Cardinality(found \cap two) = hi - j.h + 1
        \/ B = found \cup below
    BY <1>1, <1>5 DEF GetBlocks
  <2>2. hi - j.h + 1 # 0
    BY <1>2
  <2>3. j.h <= g /\ g <= hi
    BY <1>5 DEF n
  <2>4. CASE found = {}
    <3>1. g \in below
      BY <2>3, <2>4
    <3>2. Cardinality(found) = 0 /\ Cardinality(found \cap two) = 0
      BY <2>4, FS_EmptySet
    <3>3. Cardinality(found) + Cardinality(found \cap two) # hi - j.h + 1
      BY <2>2, <3>2
    <3> QED
      BY <2>1, <3>1, <3>3
  <2> QED
    BY <2>1, <2>4
<1> QED
  BY <1>3, <1>4, <1>5

\* A set of heights is finite.
LEMMA HeightsFinite ==
    ASSUME NEW n \in Nat, NEW S \in SUBSET (1 .. n) PROVE IsFiniteSet(S)
<1>1. IsFiniteSet(1 .. n)
  BY FS_Interval
<1> QED
  BY <1>1, FS_Subset

\* As many heights of a range as it has are all of it.
LEMMA RangeFull ==
    ASSUME NEW lo \in Nat, NEW n \in Nat, NEW F \in SUBSET (lo .. lo + n - 1),
           Cardinality(F) = n
    PROVE  F = lo .. lo + n - 1
<1>1. IsFiniteSet(lo .. lo + n - 1) /\ Cardinality(lo .. lo + n - 1) = n
  <2>1. lo \in Int /\ lo + n - 1 \in Int
    OBVIOUS
  <2>2. /\ IsFiniteSet(lo .. lo + n - 1)
        /\ Cardinality(lo .. lo + n - 1) = IF lo > lo + n - 1 THEN 0 ELSE lo + n - 1 - lo + 1
    BY <2>1, FS_Interval
  <2> QED
    BY <2>2
<1> QED
  BY <1>1, FS_Subset

\* As long as no batch was repeated the answer for a range is all that is stored
\* of it.
LEMMA RangeComplete ==
    ASSUME TypeOK, ~repeated, NEW j \in Job, ~j.new, NEW B \in Answers(j),
           NEW g \in stored, j.h <= g, g <= j.h + MaxBlocks[j.w] - 1
    PROVE  g \in B
<1> DEFINE n == MaxBlocks[j.w]
<1>1. PICK C \in SUBSET stored, two \in SUBSET stored :
          /\ two = {} /\ \A c \in C, x \in stored : c < x => x \in C
          /\ B = GetBlocks(j.h, j.h + n - 1, C, two)
  BY AnswerFrom
<1>2. /\ stored \in SUBSET Nat /\ n \in Nat \ {0} /\ j.h \in Nat
      /\ stored \in SUBSET (1 .. MaxHeight) /\ MaxHeight \in Nat
  BY ConstantsAssumption DEF TypeOK, Job
<1>3. j.h <= g /\ g <= j.h + n - 1
  OBVIOUS
<1> HIDE DEF n
<1> DEFINE hi == j.h + n - 1
           found == { h \in C : j.h <= h /\ h <= hi }
           below == { h \in stored : j.h <= h /\ h <= hi /\ \A c \in found : h < c }
<1>4. \/ B = found /\ Cardinality(found) + Cardinality(found \cap two) = hi - j.h + 1
      \/ B = found \cup below
  BY <1>1 DEF GetBlocks
<1>5. CASE B = found \cup below
  <2>1. CASE \A c \in found : g < c
    BY <1>3, <1>5, <2>1
  <2>2. CASE \E c \in found : ~(g < c)
    <3>1. PICK c \in found : ~(g < c)
      BY <2>2
    <3>2. c \in C /\ c \in stored /\ c \in Nat /\ g \in Nat
      BY <1>2, <3>1
    <3>4. c = g \/ c < g
      BY <3>1, <3>2
    <3>3. g \in C
      BY <1>1, <3>2, <3>4
    <3> QED
      BY <1>3, <1>5, <3>3
  <2> QED
    BY <2>1, <2>2
<1>6. CASE B = found /\ Cardinality(found) + Cardinality(found \cap two) = hi - j.h + 1
  <2>1. found \in SUBSET (j.h .. j.h + n - 1)
    <3>1. ASSUME NEW x \in found PROVE x \in j.h .. j.h + n - 1
      <4>1. x \in Nat /\ j.h <= x /\ x <= j.h + n - 1
        BY <1>2
      <4> QED
        BY <1>2, <4>1
    <3> QED
      BY <3>1
  <2>2. Cardinality(found \cap two) = 0
    BY <1>1, FS_EmptySet
  <2>3. IsFiniteSet(found)
    <3>1. found \in SUBSET (1 .. MaxHeight)
      BY <1>2
    <3> QED
      BY <1>2, <3>1, HeightsFinite
  <2>4. Cardinality(found) \in Nat
    BY <2>3, FS_CardinalityType
  <2>5. Cardinality(found) = n
    BY <1>2, <1>6, <2>2, <2>4
  <2> HIDE DEF found
  <2>6. found = j.h .. j.h + n - 1
    BY <1>2, <2>1, <2>5, RangeFull
  <2>7. g \in j.h .. j.h + n - 1
    BY <1>2, <1>3
  <2> QED
    BY <1>6, <2>6, <2>7
<1> QED
  BY <1>4, <1>5, <1>6

\* A set that shrinks has no more elements.
LEMMA AboveFewer ==
    ASSUME NEW S \in SUBSET Nat, IsFiniteSet(S), NEW a \in Nat, NEW h \in Nat, a <= h
    PROVE  Above(S, h) <= Above(S, a) /\ Above(S, h) \in Nat /\ Above(S, a) \in Nat
<1>0. ASSUME NEW g \in S, g > h PROVE g > a
  <2>1. g \in Nat
    OBVIOUS
  <2> QED
    BY <1>0, <2>1
<1>1. { g \in S : g > h } \subseteq { g \in S : g > a }
  BY <1>0
<1>2. IsFiniteSet({ g \in S : g > a })
  BY FS_Subset
<1> QED
  BY <1>1, <1>2, FS_Subset, FS_CardinalityType DEF Above

\* As long as no batch was repeated the latest blocks leave out nothing between
\* them.
LEMMA LatestConvex ==
    ASSUME TypeOK, ~repeated, NEW j \in Job, j.new, NEW B \in Answers(j),
           NEW a \in B, NEW h \in stored, a <= h
    PROVE  h \in B
<1> DEFINE n == MaxBlocks[j.w]
<1>1. PICK C \in SUBSET stored : B = GetLatestBlocks(n, C, {})
                                 /\ \A c \in C, x \in stored : c < x => x \in C
  BY AnswerFrom
<1>2. /\ stored \in SUBSET (1 .. MaxHeight) /\ MaxHeight \in Nat
      /\ stored \in SUBSET Nat /\ n \in Nat \ {0}
  BY ConstantsAssumption DEF TypeOK, Job
<1>3. IsFiniteSet(stored) /\ IsFiniteSet(C) /\ C \in SUBSET Nat
  BY <1>2, HeightsFinite, FS_Subset
<1>4. a \in stored /\ a \in Nat /\ h \in Nat
  BY <1>2, AnswerStored
<1>5. Above({}, a) = 0 /\ Above({}, h) = 0
  <2>1. { g \in {} : g > a } = {} /\ { g \in {} : g > h } = {}
    OBVIOUS
  <2> QED
    BY <2>1, FS_EmptySet DEF Above
<1> HIDE DEF n
<1>6. CASE C = {}
  <2>1. B = { x \in stored : Above(stored, x) < n }
    BY <1>1, <1>6 DEF GetLatestBlocks
  <2>2. Above(stored, a) < n
    BY <2>1
  <2>3. /\ Above(stored, h) <= Above(stored, a)
        /\ Above(stored, h) \in Nat /\ Above(stored, a) \in Nat
    BY <1>2, <1>3, <1>4, AboveFewer
  <2>4. Above(stored, h) < n
    BY <1>2, <2>2, <2>3
  <2> QED
    BY <2>1, <2>4
<1>7. CASE C # {}
  <2> DEFINE low == Min(C) - (n - Cardinality(C) - Cardinality({}))
             newest == { x \in C : Above(C, x) + Above({}, x) < n }
             older == { x \in stored : 0 <= low /\ low <= x /\ x < Min(C) }
  <2>1. B = newest \cup older
    BY <1>1, <1>7 DEF GetLatestBlocks
  <2>2. Min(C) \in C /\ Min(C) \in Nat /\ \A x \in C : Min(C) <= x
    BY <1>3, <1>7, MinOfNats
  <2>3. Cardinality(C) \in Nat /\ Cardinality({}) = 0
    BY <1>3, FS_CardinalityType, FS_EmptySet
  <2>4. low \in Int
    BY <1>2, <2>2, <2>3
  <2> HIDE DEF low
  <2>5. CASE a \in newest
    <3>1. h \in C
      BY <1>1, <1>4, <2>5
    <3>2. Above(C, a) + 0 < n
      BY <1>5, <2>5
    <3>3. Above(C, h) <= Above(C, a) /\ Above(C, h) \in Nat /\ Above(C, a) \in Nat
      BY <1>3, <1>4, AboveFewer
    <3>4. Above(C, h) + Above({}, h) < n
      BY <1>2, <1>5, <3>2, <3>3
    <3> QED
      BY <2>1, <3>1, <3>4
  <2>6. CASE a \in older
    <3>1. 0 <= low /\ low <= a /\ a < Min(C)
      BY <2>6
    <3>2. CASE h < Min(C)
      <4>1. low <= h
        BY <1>4, <2>4, <3>1
      <4> QED
        BY <2>1, <3>1, <3>2, <4>1
    <3>3. CASE ~(h < Min(C))
      <4>1. h \in C
        BY <1>1, <1>4, <2>2, <3>3
      <4>2. Cardinality(C) < n
        BY <1>2, <1>4, <2>2, <2>3, <3>1 DEF low
      <4>3. Above(C, h) \in Nat /\ Above(C, h) <= Cardinality(C)
        <5>1. { g \in C : g > h } \subseteq C
          OBVIOUS
        <5> QED
          BY <1>3, <5>1, FS_Subset, FS_CardinalityType DEF Above
      <4>4. Above(C, h) + Above({}, h) < n
        BY <1>2, <1>5, <2>3, <4>2, <4>3
      <4> QED
        BY <2>1, <4>1, <4>4
    <3> QED
      BY <3>2, <3>3
  <2> QED
    BY <2>1, <2>5, <2>6
<1> QED
  BY <1>6, <1>7

\* Only the largest element of a set of heights has nothing above it.
LEMMA AboveZero ==
    ASSUME NEW S \in SUBSET Nat, IsFiniteSet(S), NEW h \in S, Above(S, h) <= 0
    PROVE  \A g \in S : g <= h
<1>1. IsFiniteSet({ g \in S : g > h })
  BY FS_Subset
<1>2. Cardinality({ g \in S : g > h }) = 0
  BY <1>1, FS_CardinalityType DEF Above
<1>3. { g \in S : g > h } = {}
  BY <1>1, <1>2, FS_EmptySet
<1> QED
  BY <1>3

\* The latest block is one block, whatever the cache holds.
LEMMA OneBlock ==
    ASSUME TypeOK, NEW j \in Job, MaxBlocks[j.w] = 1, j.new,
           NEW B \in Answers(j), NEW x \in B, NEW y \in B
    PROVE  x = y
<1>1. PICK C \in SUBSET stored, two \in SUBSET stored :
          two \subseteq C /\ B = GetLatestBlocks(1, C, two)
  BY AnswerFrom
<1>2. /\ stored \in SUBSET (1 .. MaxHeight) /\ MaxHeight \in Nat /\ stored \in SUBSET Nat
  BY ConstantsAssumption DEF TypeOK
<1>3. /\ IsFiniteSet(stored) /\ IsFiniteSet(C) /\ IsFiniteSet(two)
      /\ C \in SUBSET Nat /\ two \in SUBSET Nat
  BY <1>2, HeightsFinite, FS_Subset
<1>4. x \in Nat /\ y \in Nat
  BY <1>2, AnswerStored
<1>5. CASE C = {}
  <2>1. B = { h \in stored : Above(stored, h) < 1 }
    BY <1>1, <1>5 DEF GetLatestBlocks
  <2>2. ASSUME NEW h \in B PROVE h \in stored /\ \A g \in stored : g <= h
    <3>1. h \in stored /\ Above(stored, h) < 1
      BY <2>1
    <3>2. Above(stored, h) \in Nat
      BY <1>2, <1>3, <3>1, AboveFewer
    <3> QED
      BY <1>2, <1>3, <3>1, <3>2, AboveZero
  <2>3. x <= y /\ y <= x
    BY <2>2
  <2> QED
    BY <1>4, <2>3
<1>6. CASE C # {}
  <2>1. Min(C) \in Nat
    BY <1>3, <1>6, MinOfNats
  <2>2. Cardinality(C) \in Nat \ {0} /\ Cardinality(two) \in Nat
    BY <1>3, <1>6, FS_CardinalityType, FS_EmptySet
  <2>3. \A h \in stored : ~(Min(C) - (1 - Cardinality(C) - Cardinality(two)) <= h /\ h < Min(C))
    BY <1>2, <2>1, <2>2
  <2>4. B = { h \in C : Above(C, h) + Above(two, h) < 1 }
    BY <1>1, <1>6, <2>3 DEF GetLatestBlocks
  <2>5. ASSUME NEW h \in B PROVE h \in C /\ \A g \in C : g <= h
    <3>1. h \in C /\ Above(C, h) + Above(two, h) < 1 /\ h \in Nat
      BY <1>3, <2>4
    <3>2. Above(C, h) \in Nat /\ Above(two, h) \in Nat
      BY <1>3, <3>1, AboveFewer
    <3>3. Above(C, h) <= 0
      BY <3>1, <3>2
    <3> QED
      BY <1>3, <3>1, <3>3, AboveZero
  <2>6. x <= y /\ y <= x
    BY <2>5
  <2> QED
    BY <1>4, <2>6
<1> QED
  BY <1>5, <1>6

\* A whole answer leaves out nothing: for a range, nothing from its first height
\* to the last block that was found, and for a first batch, nothing between two
\* of its blocks.
LEMMA AnswerWhole ==
    ASSUME TypeOK, NEW j \in Job, Whole(j.w), NEW B \in Answers(j), NEW h \in stored,
           NEW b \in B, h <= b, IF j.new THEN \E a \in B : a <= h ELSE j.h <= h
    PROVE  h \in B
<1>1. /\ stored \in SUBSET Nat /\ j.h \in Nat /\ MaxBlocks[j.w] \in Nat \ {0}
  BY ConstantsAssumption DEF TypeOK, Job
<1>0. B \subseteq stored /\ (~j.new => j.h <= b /\ b <= j.h + MaxBlocks[j.w] - 1)
  BY AnswerStored
<1>2. h \in Nat /\ b \in Nat
  BY <1>0, <1>1
<1>3. CASE ~repeated /\ j.new
  BY <1>3, LatestConvex
<1>4. CASE ~repeated /\ ~j.new
  <2>1. j.h <= h /\ h <= j.h + MaxBlocks[j.w] - 1
    BY <1>0, <1>1, <1>2, <1>4
  <2> QED
    BY <1>4, <2>1, RangeComplete
<1>5. CASE MaxBlocks[j.w] = 1 /\ j.new
  <2>1. PICK a \in B : a <= h
    BY <1>5
  <2>2. a = b /\ a \in Nat
    BY <1>0, <1>1, <1>5, OneBlock
  <2>3. h = b
    BY <1>2, <2>1, <2>2
  <2> QED
    BY <2>3
<1>6. CASE MaxBlocks[j.w] = 1 /\ ~j.new
  <2>1. b = h
    BY <1>0, <1>1, <1>2, <1>6
  <2> QED
    BY <2>1
<1> QED
  BY <1>3, <1>4, <1>5, <1>6 DEF Whole

-----------------------------------------------------------------------------
(* The webhooks of a sequence of jobs. *)

\* Taking the first job of a stream removes its webhook, unless the stream has
\* another job of it.
LEMMA IdsOfTail ==
    ASSUME NEW s \in Seq(Job), s # <<>>
    PROVE  /\ Tail(s) \in Seq(Job) /\ Head(s) \in Job
           /\ Ids(s) = Ids(Tail(s)) \cup {Head(s).w}
           /\ Distinct(s) => Distinct(Tail(s)) /\ Head(s).w \notin Ids(Tail(s))
<1>1. /\ Len(s) \in Nat \ {0} /\ Head(s) = s[1] /\ Len(Tail(s)) = Len(s) - 1
      /\ \A i \in 1 .. Len(Tail(s)) : Tail(s)[i] = s[i + 1]
      /\ Tail(s) \in Seq(Job) /\ Head(s) \in Job
  OBVIOUS
<1>2. Distinct(s) => Distinct(Tail(s))
  BY <1>1 DEF Distinct
<1>3. Head(s).w \in Ids(s)
  BY <1>1 DEF Ids
<1>4. ASSUME NEW x \in Ids(Tail(s)) PROVE x \in Ids(s) /\ (Distinct(s) => x # Head(s).w)
  <2>1. PICK i \in 1 .. Len(Tail(s)) : x = Tail(s)[i].w
    BY <1>4 DEF Ids
  <2>2. i + 1 \in 1 .. Len(s) /\ x = s[i + 1].w /\ 1 \in 1 .. Len(s) /\ i + 1 # 1
    BY <1>1, <2>1
  <2> QED
    BY <1>1, <2>2 DEF Ids, Distinct
<1>5. ASSUME NEW x \in Ids(s) \ {Head(s).w} PROVE x \in Ids(Tail(s))
  <2>1. PICK i \in 1 .. Len(s) : x = s[i].w
    BY <1>5 DEF Ids
  <2>2. i - 1 \in 1 .. Len(Tail(s)) /\ Tail(s)[i - 1] = s[i]
    BY <1>1, <1>5, <2>1
  <2> QED
    BY <2>1, <2>2 DEF Ids
<1> QED
  BY <1>1, <1>2, <1>3, <1>4, <1>5

\* Appending a job adds its webhook.
LEMMA IdsOfAppend ==
    ASSUME NEW s \in Seq(Job), NEW j \in Job
    PROVE  /\ Append(s, j) \in Seq(Job)
           /\ Ids(Append(s, j)) = Ids(s) \cup {j.w}
           /\ Distinct(s) /\ j.w \notin Ids(s) => Distinct(Append(s, j))
<1> DEFINE t == Append(s, j)
<1>1. /\ t \in Seq(Job) /\ Len(s) \in Nat /\ Len(t) = Len(s) + 1 /\ t[Len(s) + 1] = j
      /\ \A i \in 1 .. Len(s) : t[i] = s[i]
  OBVIOUS
<1> HIDE DEF t
<1>2. Ids(t) = Ids(s) \cup {j.w}
  <2>1. ASSUME NEW x \in Ids(t) PROVE x \in Ids(s) \cup {j.w}
    BY <1>1, <2>1 DEF Ids
  <2>2. ASSUME NEW x \in Ids(s) PROVE x \in Ids(t)
    BY <1>1, <2>2 DEF Ids
  <2>3. j.w \in Ids(t)
    BY <1>1 DEF Ids
  <2> QED
    BY <2>1, <2>2, <2>3
<1>3. Distinct(s) /\ j.w \notin Ids(s) => Distinct(t)
  BY <1>1 DEF Distinct, Ids
<1> QED
  BY <1>1, <1>2, <1>3 DEF t

\* Appending a sequence of jobs adds its webhooks.
LEMMA IdsOfConcat ==
    ASSUME NEW s \in Seq(Job), NEW t \in Seq(Job)
    PROVE  /\ s \o t \in Seq(Job)
           /\ Ids(s \o t) = Ids(s) \cup Ids(t)
           /\ Distinct(s) /\ Distinct(t) /\ Ids(s) \cap Ids(t) = {}
                => Distinct(s \o t)
<1> DEFINE u == s \o t
<1>1. /\ u \in Seq(Job) /\ Len(s) \in Nat /\ Len(t) \in Nat
      /\ Len(u) = Len(s) + Len(t)
      /\ \A i \in 1 .. Len(s) : u[i] = s[i]
      /\ \A i \in 1 .. Len(t) : u[Len(s) + i] = t[i]
  BY ConcatProperties
<1>2. \A i \in 1 .. Len(u) : \/ i \in 1 .. Len(s) /\ u[i] = s[i]
                             \/ /\ i - Len(s) \in 1 .. Len(t)
                                /\ u[i] = t[i - Len(s)]
  <2>1. ASSUME NEW i \in 1 .. Len(u), i \notin 1 .. Len(s)
        PROVE  i - Len(s) \in 1 .. Len(t) /\ u[i] = t[i - Len(s)]
    <3>1. i - Len(s) \in 1 .. Len(t) /\ i = Len(s) + (i - Len(s))
      BY <1>1, <2>1
    <3> QED
      BY <1>1, <3>1
  <2> QED
    BY <1>1, <2>1
<1> HIDE DEF u
<1>3. Ids(u) = Ids(s) \cup Ids(t)
  <2>1. ASSUME NEW x \in Ids(u) PROVE x \in Ids(s) \cup Ids(t)
    BY <1>2, <2>1 DEF Ids
  <2>2. ASSUME NEW x \in Ids(s) PROVE x \in Ids(u)
    BY <1>1, <2>2 DEF Ids
  <2>3. ASSUME NEW x \in Ids(t) PROVE x \in Ids(u)
    <3>1. PICK i \in 1 .. Len(t) : x = t[i].w
      BY <2>3 DEF Ids
    <3>2. Len(s) + i \in 1 .. Len(u) /\ u[Len(s) + i].w = x
      BY <1>1, <3>1
    <3> QED
      BY <3>2 DEF Ids
  <2> QED
    BY <2>1, <2>2, <2>3
<1>4. ASSUME Distinct(s), Distinct(t), Ids(s) \cap Ids(t) = {} PROVE Distinct(u)
  <2> SUFFICES ASSUME NEW i \in 1 .. Len(u), NEW k \in 1 .. Len(u), u[i].w = u[k].w
               PROVE  i = k
    BY DEF Distinct
  <2>1. CASE i \in 1 .. Len(s) /\ u[i] = s[i] /\ k \in 1 .. Len(s) /\ u[k] = s[k]
    BY <1>4, <2>1 DEF Distinct
  <2>2. CASE /\ i - Len(s) \in 1 .. Len(t) /\ u[i] = t[i - Len(s)]
             /\ k - Len(s) \in 1 .. Len(t) /\ u[k] = t[k - Len(s)]
    <3>1. i - Len(s) = k - Len(s)
      BY <1>4, <2>2 DEF Distinct
    <3> QED
      BY <1>1, <3>1
  <2>3. CASE /\ i \in 1 .. Len(s) /\ u[i] = s[i]
             /\ k - Len(s) \in 1 .. Len(t) /\ u[k] = t[k - Len(s)]
    BY <1>4, <2>3 DEF Ids
  <2>4. CASE /\ k \in 1 .. Len(s) /\ u[k] = s[k]
             /\ i - Len(s) \in 1 .. Len(t) /\ u[i] = t[i - Len(s)]
    BY <1>4, <2>4 DEF Ids
  <2> QED
    BY <1>2, <2>1, <2>2, <2>3, <2>4
<1> QED
  BY <1>1, <1>3, <1>4 DEF u

\* Every order in which a set of jobs can be popped has exactly its jobs.
LEMMA IdsOfPopOrder ==
    ASSUME NEW S \in SUBSET Job, NEW s \in PopOrders(S), IsFiniteSet(S)
    PROVE  /\ s \in Seq(Job)
           /\ Ids(s) = { j.w : j \in S }
           /\ (\A i, j \in S : i.w = j.w => i = j) => Distinct(s)
<1>1. Cardinality(S) \in Nat
  BY FS_CardinalityType
<1>2. /\ s \in [1 .. Cardinality(S) -> S]
      /\ \A i, j \in 1 .. Cardinality(S) : s[i] = s[j] => i = j
      /\ \A j \in S : \E i \in 1 .. Cardinality(S) : s[i] = j
  BY DEF PopOrders, Bijection, Injection, Surjection, IsInjective
<1>3. s \in Seq(Job) /\ Len(s) = Cardinality(S)
  BY <1>1, <1>2
<1> QED
  BY <1>2, <1>3 DEF Ids, Distinct

-----------------------------------------------------------------------------
(* The invariant. *)

Busy == {"find", "drop", "skip", "fetch", "post", "ack"}

\* A worker in the middle of its handler holds the only entry of its backlog.
LEMMA Holding ==
    ASSUME IInv, NEW c \in Consumer, pc[c] \in Busy
    PROVE  /\ pos[c] = 1 /\ pos[c] # 0 /\ Len(pel[c]) = 1 /\ pel[c] \in Seq(Entry)
           /\ pel[c][1] \in Entry /\ Msg(c) = pel[c][1].job /\ Msg(c) \in Job
           /\ PelIds(c) = {Msg(c).w}
           /\ RemoveAt(pel[c], pos[c]) = <<>>
<1>1. pos[c] = 1 /\ pos[c] # 0 /\ Len(pel[c]) = 1 /\ pel[c] \in Seq(Entry)
  BY DEF IInv, WorkerOK, TypeOK, Busy
<1>2. pel[c][1] \in Entry
  BY <1>1
<1>3. Msg(c) = pel[c][1].job /\ Msg(c) \in Job
  BY <1>1, <1>2 DEF Msg, Entry
<1>4. PelIds(c) = {Msg(c).w}
  BY <1>1, <1>3 DEF PelIds
<1>5. RemoveAt(pel[c], pos[c]) = <<>>
  BY <1>1 DEF RemoveAt
<1> QED
  BY <1>1, <1>2, <1>3, <1>4, <1>5

\* What HandlerReturns leaves to say of the worker's variables.
LEMMA ReturnOK ==
    ASSUME TypeOK, NEW c \in Consumer, NEW kept \in BOOLEAN, pos[c] # 0,
           HandlerReturns(c, kept)
    PROVE  /\ pc' \in [Consumer -> PC] /\ pos' \in [Consumer -> Nat]
           /\ backlog' \in [Consumer -> BOOLEAN]
           /\ blocks' \in [Consumer -> SUBSET (1 .. MaxHeight)]
           /\ pc'[c] = "backlog"
           /\ pos'[c] <= pos[c] /\ (~kept => pos'[c] < pos[c])
           /\ \A d \in Consumer : d # c =>
                 /\ pc'[d] = pc[d] /\ pos'[d] = pos[d] /\ blocks'[d] = blocks[d]
                 /\ backlog'[d] = backlog[d]
<1>1. PICK p \in Nat : p = pos[c] /\ p > 0
  BY DEF TypeOK
<1>2. PICK q \in Nat : /\ pos' = [pos EXCEPT ![c] = q]
                       /\ q <= p /\ (~kept => q < p)
  <2>1. /\ 0 \in Nat /\ 0 <= p /\ 0 < p /\ p <= p
        /\ p - 1 \in Nat /\ p - 1 <= p /\ p - 1 < p
    BY <1>1
  <2>2. \/ pos' = [pos EXCEPT ![c] = 0]
        \/ pos' = [pos EXCEPT ![c] = p] /\ kept
        \/ pos' = [pos EXCEPT ![c] = p - 1]
    BY <1>1 DEF HandlerReturns
  <2> QED
    BY <1>1, <2>1, <2>2
<1>3. /\ pos' \in [Consumer -> Nat] /\ pos'[c] = q
      /\ \A d \in Consumer : d # c => pos'[d] = pos[d]
  BY <1>2 DEF TypeOK
<1>4. /\ pc' \in [Consumer -> PC]
      /\ backlog' \in [Consumer -> BOOLEAN]
      /\ blocks' \in [Consumer -> SUBSET (1 .. MaxHeight)]
      /\ pc'[c] = "backlog"
      /\ \A d \in Consumer : d # c =>
            pc'[d] = pc[d] /\ blocks'[d] = blocks[d] /\ backlog'[d] = backlog[d]
  BY DEF TypeOK, HandlerReturns, PC
<1> QED
  BY <1>1, <1>2, <1>3, <1>4

\* A step that leaves every job where it is preserves the bijection between
\* registered webhooks and jobs.
LEMMA JobsStay ==
    ASSUME OneJobPerWebhook, UNCHANGED <<pending, stream, webhookSet>>,
           \A c \in Consumer : /\ Len(pel'[c]) = Len(pel[c])
                               /\ \A i \in 1 .. Len(pel[c]) :
                                     pel'[c][i].job = pel[c][i].job
    PROVE  OneJobPerWebhook'
<1>1. \A c \in Consumer : PelIds(c)' = PelIds(c)
  BY DEF PelIds
<1>2. PendingIds' = PendingIds /\ Ids(stream)' = Ids(stream)
  BY DEF PendingIds, Ids
<1>3. Distinct(stream)'
  BY DEF OneJobPerWebhook, Distinct
<1>4. \A c \in Consumer : \A i, j \in 1 .. Len(pel'[c]) :
          pel'[c][i].job.w = pel'[c][j].job.w => i = j
  BY DEF OneJobPerWebhook
<1>5. DeliveredIds' = DeliveredIds
  BY <1>1 DEF DeliveredIds
<1> QED
  BY <1>1, <1>2, <1>3, <1>4, <1>5 DEF OneJobPerWebhook

\* A step that does not touch the shard's redis only has to keep the types and
\* the worker's knowledge.
LEMMA RedisStays ==
    ASSUME IInv, UNCHANGED redis, TypeOK', WorkerOK'
    PROVE  IInv'
<1>1. OneJobPerWebhook'
  BY JobsStay DEF IInv, redis
<1>2. OneInFlight' /\ NoLostWakeup'
  BY DEF IInv, redis, OneInFlight, NoLostWakeup
<1> QED
  BY <1>1, <1>2 DEF IInv

LEMMA InitIInv == Init => IInv
<1> SUFFICES ASSUME Init PROVE IInv
  OBVIOUS
<1>0. repeated \in BOOLEAN
  BY DEF Init
<1>1. TypeOK
  BY <1>0, ConstantsAssumption, FS_EmptySet DEF Init, TypeOK, PC, Entry, Job
<1>2. OneInFlight /\ WorkerOK /\ NoLostWakeup
  BY DEF Init, OneInFlight, WorkerOK, NoLostWakeup
<1>3. PendingIds = {} /\ Ids(stream) = {} /\ \A c \in Consumer : PelIds(c) = {}
  BY DEF Init, PendingIds, Ids, PelIds
<1>4. OneJobPerWebhook
  BY <1>3 DEF Init, OneJobPerWebhook, Distinct, DeliveredIds
<1> QED
  BY <1>1, <1>2, <1>4 DEF IInv

-----------------------------------------------------------------------------
(* Steps of the API and the router. *)

LEMMA ApiStep ==
    ASSUME IInv, NEW w \in Webhook,
           ActivateSelect(w) \/ ActivateScript(w) \/ RemoveWebhook(w)
    PROVE  IInv'
<1>1. CASE ActivateSelect(w) \/ RemoveWebhook(w)
  <2>1. TypeOK' /\ WorkerOK'
    BY <1>1 DEF ActivateSelect, RemoveWebhook, IInv, TypeOK, WorkerOK, redis,
                router, worker, ghost
  <2> QED
    BY <1>1, <2>1, RedisStays DEF ActivateSelect, RemoveWebhook
<1>2. CASE ActivateScript(w)
  <2> DEFINE j == [w |-> w, h |-> 0, new |-> TRUE]
  <2>1. j \in Job /\ j.w = w
    BY DEF Job
  <2>2. IsFiniteSet(pending')
    BY <1>2, FS_AddElement DEF ActivateScript, IInv, TypeOK
  <2>3. TypeOK'
    BY <1>2, <2>1, <2>2 DEF ActivateScript, IInv, TypeOK, router, worker, ghost
  <2>4. OneInFlight' /\ WorkerOK'
    BY <1>2 DEF ActivateScript, IInv, OneInFlight, WorkerOK, worker
  <2>5. NoLostWakeup'
    BY <1>2 DEF ActivateScript, IInv, NoLostWakeup
  <2>6. CASE w \in webhookSet
    BY <1>2, <2>3, <2>4, <2>5, <2>6, JobsStay DEF ActivateScript, IInv
  <2>7. CASE w \notin webhookSet
    <3>1. /\ pending' = pending \cup {j} /\ webhookSet' = webhookSet \cup {w}
          /\ UNCHANGED <<stream, pel>>
      BY <1>2, <2>7 DEF ActivateScript
    <3> HIDE DEF j
    <3>2. PendingIds' = PendingIds \cup {w}
      BY <2>1, <3>1 DEF PendingIds
    <3>3. Ids(stream)' = Ids(stream) /\ \A c \in Consumer : PelIds(c)' = PelIds(c)
      BY <3>1 DEF Ids, PelIds
    <3>4. /\ w \notin PendingIds /\ w \notin Ids(stream)
          /\ \A c \in Consumer : w \notin PelIds(c)
      BY <2>7 DEF IInv, OneJobPerWebhook, DeliveredIds
    <3>5. \A i, k \in pending' : i.w = k.w => i = k
      BY <2>1, <3>1, <3>4 DEF IInv, OneJobPerWebhook, PendingIds
    <3>6. Distinct(stream)' /\ \A c \in Consumer : \A i, k \in 1 .. Len(pel'[c]) :
              pel'[c][i].job.w = pel'[c][k].job.w => i = k
      BY <3>1 DEF IInv, OneJobPerWebhook, Distinct
    <3>7. DeliveredIds' = DeliveredIds
      BY <3>3 DEF DeliveredIds
    <3>8. OneJobPerWebhook'
      BY <3>1, <3>2, <3>3, <3>4, <3>5, <3>6, <3>7 DEF IInv, OneJobPerWebhook
    <3> QED
      BY <2>3, <2>4, <2>5, <3>8 DEF IInv
  <2> QED
    BY <2>6, <2>7
<1> QED
  BY <1>1, <1>2

LEMMA TipType == ASSUME TypeOK PROVE Tip \in Nat
<1>1. CASE stored = {}
  BY <1>1 DEF Tip
<1>2. CASE stored # {}
  <2>1. MaxHeight \in Nat /\ stored \in SUBSET (1 .. MaxHeight)
    BY ConstantsAssumption DEF TypeOK
  <2>2. Max(stored) \in stored
    BY <1>2, <2>1, MaxOfHeights
  <2>3. Tip = Max(stored)
    BY <1>2 DEF Tip
  <2>4. \A x \in stored : x \in Nat
    BY <2>1
  <2> QED
    BY <2>2, <2>3, <2>4
<1> QED
  BY <1>1, <1>2

LEMMA RouterPutStep == ASSUME IInv, RouterPut PROVE IInv'
<1>1. PICK k \in 1 .. BatchSize, g \in 0 .. MaxGap :
          /\ Tip + g + k <= MaxHeight
          /\ stored' = stored \cup (Tip + g + 1 .. Tip + g + k)
          /\ flushing' = Tip + g + k
  BY DEF RouterPut
<1>2. stored' \subseteq 1 .. MaxHeight /\ flushing' \in Nat
  <2>1. Tip \in Nat /\ stored \subseteq 1 .. MaxHeight
    BY TipType DEF IInv, TypeOK
  <2>2. k \in Nat \ {0} /\ g \in Nat /\ MaxHeight \in Nat
    BY ConstantsAssumption
  <2>3. Tip + g + 1 .. Tip + g + k \subseteq 1 .. MaxHeight
    BY <1>1, <2>1, <2>2
  <2> QED
    BY <1>1, <2>1, <2>2, <2>3
<1>3. TypeOK' /\ WorkerOK'
  BY <1>2 DEF RouterPut, IInv, TypeOK, WorkerOK, redis, api, worker, ghost
<1> QED
  BY <1>3, RedisStays DEF RouterPut

LEMMA RouterReplayStep == ASSUME IInv, RouterReplay PROVE IInv'
<1>1. flushing' \in Nat /\ faults' \in Nat
  BY DEF RouterReplay, Fault, IInv, TypeOK
<1>2. TypeOK' /\ WorkerOK'
  BY <1>1 DEF RouterReplay, IInv, TypeOK, WorkerOK, redis, api, worker, ghost
<1> QED
  BY <1>2, RedisStays DEF RouterReplay

LEMMA RouterAckStep == ASSUME IInv, RouterAck PROVE IInv'
<1>1. TypeOK' /\ WorkerOK'
  BY DEF RouterAck, IInv, TypeOK, WorkerOK, redis, api, worker, ghost
<1> QED
  BY <1>1, RedisStays DEF RouterAck

LEMMA RouterFlushStep == ASSUME IInv, RouterFlush PROVE IInv'
<1> DEFINE ready == { j \in pending : j.h < flushing }
<1>1. /\ latest' = flushing /\ pending' = pending \ ready
      /\ UNCHANGED <<pel, webhookSet, api, router, worker, faults, ghost>>
  BY DEF RouterFlush, Flush
<1>2. PICK s \in PopOrders(ready) : stream' = stream \o s
  BY DEF RouterFlush, Flush
<1>3. ready \in SUBSET Job /\ IsFiniteSet(ready) /\ IsFiniteSet(pending')
  BY <1>1, FS_Subset DEF IInv, TypeOK
<1>4. /\ s \in Seq(Job) /\ Ids(s) = { j.w : j \in ready } /\ Distinct(s)
  BY <1>3, IdsOfPopOrder DEF IInv, OneJobPerWebhook
<1>5. Ids(s) \cap Ids(stream) = {} /\ Ids(s) \subseteq PendingIds
  BY <1>4 DEF IInv, OneJobPerWebhook, PendingIds
<1>6. /\ stream' \in Seq(Job) /\ Ids(stream)' = Ids(stream) \cup Ids(s)
      /\ Distinct(stream)'
  BY <1>2, <1>4, <1>5, IdsOfConcat DEF IInv, TypeOK, OneJobPerWebhook
<1>7. PendingIds' = PendingIds \ Ids(s)
  BY <1>1, <1>4 DEF IInv, OneJobPerWebhook, PendingIds
<1>8. TypeOK'
  BY <1>1, <1>3, <1>6 DEF IInv, TypeOK, api, router, worker, ghost
<1>9. OneInFlight' /\ WorkerOK'
  BY <1>1 DEF IInv, OneInFlight, WorkerOK, worker
<1>10. NoLostWakeup'
  BY <1>1 DEF IInv, TypeOK, Job, NoLostWakeup
<1>11. \A c \in Consumer : PelIds(c)' = PelIds(c)
  BY <1>1 DEF PelIds
<1>12. \A i, j \in pending' : i.w = j.w => i = j
  BY <1>1 DEF IInv, OneJobPerWebhook
<1>13. \A c \in Consumer : \A i, j \in 1 .. Len(pel'[c]) :
           pel'[c][i].job.w = pel'[c][j].job.w => i = j
  BY <1>1 DEF IInv, OneJobPerWebhook
<1>14. DeliveredIds' = DeliveredIds
  BY <1>11 DEF DeliveredIds
<1>15. OneJobPerWebhook'
  <2> USE DEF IInv, OneJobPerWebhook
  <2>1. webhookSet' = PendingIds' \cup Ids(stream)' \cup DeliveredIds'
    BY <1>1, <1>5, <1>6, <1>7, <1>14
  <2>2. PendingIds' \cap Ids(stream)' = {}
    BY <1>6, <1>7
  <2>3. \A c \in Consumer : PelIds(c)' \cap (PendingIds' \cup Ids(stream)') = {}
    BY <1>5, <1>6, <1>7, <1>11
  <2>4. \A c, d \in Consumer : c # d => PelIds(c)' \cap PelIds(d)' = {}
    BY <1>11
  <2> QED
    BY <1>6, <1>12, <1>13, <2>1, <2>2, <2>3, <2>4
<1> QED
  BY <1>8, <1>9, <1>10, <1>15 DEF IInv

-----------------------------------------------------------------------------
(* Steps of the workers that leave the shard's jobs where they are. *)

\* Below an upper bound of one there is one number and its successor.
LEMMA BelowOne ==
    ASSUME NEW m \in Nat, NEW n \in Nat, m < n, n <= 1
    PROVE  m = 0 /\ n = 1
OBVIOUS

\* Rewriting the only entry of a backlog.
LEMMA OnlyEntry ==
    ASSUME NEW s \in Seq(Entry), NEW e \in Entry, Len(s) = 1
    PROVE  LET t == [s EXCEPT ![1] = e]
           IN  t \in Seq(Entry) /\ Len(t) = 1 /\ t[1] = e
OBVIOUS

\* A step that rewrites a worker's only entry but not the entry's job leaves the
\* jobs where they are.
LEMMA EntryUpdated ==
    ASSUME IInv, NEW c \in Consumer, NEW e \in Entry,
           Len(pel[c]) = 1, e.job = pel[c][1].job,
           pel' = [pel EXCEPT ![c] = [pel[c] EXCEPT ![1] = e]],
           UNCHANGED <<pending, stream, webhookSet>>
    PROVE  /\ pel' \in [Consumer -> Seq(Entry)]
           /\ \A d \in Consumer : Len(pel'[d]) = Len(pel[d])
           /\ OneInFlight' /\ OneJobPerWebhook'
<1> DEFINE s == [pel[c] EXCEPT ![1] = e]
<1>1. pel \in [Consumer -> Seq(Entry)] /\ pel[c] \in Seq(Entry)
  BY DEF IInv, TypeOK
<1>2. s \in Seq(Entry) /\ Len(s) = 1 /\ s[1] = e
  BY <1>1, OnlyEntry
<1> HIDE DEF s
<1>3. pel'[c] = s /\ \A d \in Consumer : d # c => pel'[d] = pel[d]
  BY <1>1 DEF s
<1>4. pel' \in [Consumer -> Seq(Entry)]
  BY <1>1, <1>2 DEF s
<1>5. \A d \in Consumer : Len(pel'[d]) = Len(pel[d])
  BY <1>2, <1>3
<1>6. OneInFlight'
  BY <1>5 DEF IInv, OneInFlight
<1>7. \A d \in Consumer : \A i \in 1 .. Len(pel[d]) : pel'[d][i].job = pel[d][i].job
  <2> SUFFICES ASSUME NEW d \in Consumer, NEW i \in 1 .. Len(pel[d])
               PROVE  pel'[d][i].job = pel[d][i].job
    OBVIOUS
  <2>1. CASE d = c
    BY <1>2, <1>3, <2>1
  <2>2. CASE d # c
    BY <1>3, <2>2
  <2> QED
    BY <2>1, <2>2
<1>8. OneJobPerWebhook'
  BY <1>5, <1>7, JobsStay DEF IInv
<1> QED
  BY <1>4, <1>5, <1>6, <1>8

\* Delivering the entry of a backlog once more.
LEMMA RedeliverOK ==
    ASSUME IInv, NEW c \in Consumer, Redeliver(c)
    PROVE  /\ pos[c] = 0 /\ Len(pel[c]) = 1
           /\ pel' \in [Consumer -> Seq(Entry)]
           /\ \A d \in Consumer : Len(pel'[d]) = Len(pel[d])
           /\ OneInFlight' /\ OneJobPerWebhook' /\ NoLostWakeup'
<1>1. pos[c] = 0 /\ Len(pel[c]) = 1 /\ pel[c] \in Seq(Entry)
  <2>1. pel[c] \in Seq(Entry) /\ pos[c] \in Nat
    BY DEF IInv, TypeOK
  <2>2. Len(pel[c]) \in Nat
    BY <2>1
  <2>3. pos[c] < Len(pel[c])
    BY DEF Redeliver
  <2>4. Len(pel[c]) <= 1
    BY DEF IInv, OneInFlight
  <2> QED
    BY <2>1, <2>2, <2>3, <2>4, BelowOne
<1>2. pel[c][1] \in Entry
  BY <1>1
<1> DEFINE e == [pel[c][1] EXCEPT !.n = @ + 1]
<1>3. e \in Entry /\ e.job = pel[c][1].job
  BY <1>2 DEF Entry
<1>4. pel' = [pel EXCEPT ![c] = [pel[c] EXCEPT ![1] = e]]
  BY <1>1 DEF Redeliver
<1>5. UNCHANGED <<pending, stream, webhookSet>>
  BY DEF Redeliver
<1> HIDE DEF e
<1>6. /\ pel' \in [Consumer -> Seq(Entry)]
      /\ \A d \in Consumer : Len(pel'[d]) = Len(pel[d])
      /\ OneInFlight' /\ OneJobPerWebhook'
  BY <1>1, <1>3, <1>4, <1>5, EntryUpdated
<1>7. NoLostWakeup'
  BY DEF Redeliver, IInv, NoLostWakeup
<1> QED
  BY <1>1, <1>6, <1>7

LEMMA BacklogReadStep == ASSUME IInv, NEW c \in Consumer, BacklogRead(c) PROVE IInv'
<1>1. /\ pos[c] = 0 /\ Len(pel[c]) = 1
      /\ pel' \in [Consumer -> Seq(Entry)]
      /\ \A d \in Consumer : Len(pel'[d]) = Len(pel[d])
      /\ OneInFlight' /\ OneJobPerWebhook' /\ NoLostWakeup'
  BY RedeliverOK DEF BacklogRead
<1>2. pos' = [pos EXCEPT ![c] = 1] /\ pc' = [pc EXCEPT ![c] = "find"]
  BY <1>1 DEF BacklogRead
<1>3. TypeOK'
  BY <1>1, <1>2 DEF BacklogRead, Redeliver, IInv, TypeOK, PC, api, router, ghost
<1>4. WorkerOK'
  BY <1>1, <1>2 DEF BacklogRead, IInv, WorkerOK, TypeOK
<1> QED
  BY <1>1, <1>3, <1>4 DEF IInv

LEMMA QuietWorkerStep ==
    ASSUME IInv, NEW c \in Consumer,
           BacklogEnd(c) \/ FindOne(c) \/ FetchBlocks(c) \/ CallError(c)
    PROVE  IInv'
<1>1. CASE BacklogEnd(c)
  <2>1. PICK v \in {"new", "backlog"} :
            pc' = [pc EXCEPT ![c] = v] /\ (v = "new" => pos[c] = 0)
    BY <1>1 DEF BacklogEnd
  <2>2. pos' = [pos EXCEPT ![c] = 0] /\ UNCHANGED <<redis, blocks>> /\ pos[c] >= Len(pel[c])
    BY <1>1 DEF BacklogEnd
  <2>3. TypeOK'
    BY <1>1, <2>1, <2>2 DEF BacklogEnd, IInv, TypeOK, PC, redis, api, router, ghost
  <2>4. v = "new" => Len(pel[c]) = 0
    <3>1. Len(pel[c]) \in Nat
      BY DEF IInv, TypeOK
    <3> QED
      BY <2>1, <2>2, <3>1
  <2>5. WorkerOK'
    BY <2>1, <2>2, <2>4 DEF IInv, TypeOK, WorkerOK, redis
  <2> QED
    BY <2>2, <2>3, <2>5, RedisStays
<1>2. CASE FindOne(c)
  <2>1. PICK v \in {"drop", "skip", "fetch"} : pc' = [pc EXCEPT ![c] = v]
    BY <1>2 DEF FindOne
  <2>2. TypeOK'
    BY <1>2, <2>1 DEF FindOne, IInv, TypeOK, PC, redis, api, router, ghost
  <2>3. WorkerOK'
    BY <1>2, <2>1 DEF FindOne, IInv, TypeOK, WorkerOK, redis
  <2> QED
    BY <1>2, <2>2, <2>3, RedisStays DEF FindOne
<1>3. CASE FetchBlocks(c)
  <2>1. PICK B \in Answers(Msg(c)) : B # {} /\ blocks' = [blocks EXCEPT ![c] = B]
    BY <1>3 DEF FetchBlocks
  <2>0. B \subseteq 1 .. MaxHeight
    <3>1. Msg(c) \in Job /\ TypeOK
      BY <1>3, Holding DEF FetchBlocks, Busy, IInv
    <3> QED
      BY <3>1, AnswerStored
  <2>2. TypeOK'
    BY <1>3, <2>0, <2>1 DEF FetchBlocks, IInv, TypeOK, PC, redis, api, router, ghost
  <2>3. WorkerOK'
    BY <1>3, <2>1 DEF FetchBlocks, IInv, TypeOK, WorkerOK, redis
  <2> QED
    BY <1>3, <2>2, <2>3, RedisStays DEF FetchBlocks
<1>4. CASE CallError(c)
  <2>1. pos[c] = 1 /\ pos[c] # 0
    BY <1>4 DEF CallError, IInv, WorkerOK
  <2>2. HandlerReturns(c, TRUE)
    BY <1>4 DEF CallError
  <2>3. TypeOK'
    <3>1. /\ pc' \in [Consumer -> PC] /\ pos' \in [Consumer -> Nat]
          /\ backlog' \in [Consumer -> BOOLEAN]
          /\ blocks' \in [Consumer -> SUBSET (1 .. MaxHeight)]
      BY <2>1, <2>2, ReturnOK DEF IInv
    <3>2. faults' \in Nat
      BY <1>4 DEF CallError, Fault, IInv, TypeOK
    <3> QED
      BY <1>4, <3>1, <3>2 DEF CallError, IInv, TypeOK, redis, api, router, ghost
  <2>4. WorkerOK'
    BY <1>4, <2>1, <2>2, ReturnOK DEF CallError, IInv, WorkerOK, redis
  <2> QED
    BY <1>4, <2>3, <2>4, RedisStays DEF CallError
<1> QED
  BY <1>1, <1>2, <1>3, <1>4

\* A process that starts again has forgotten what its workers held; redis has
\* not.
LEMMA RestartStep ==
    ASSUME IInv, NEW p, Restart(p), UNCHANGED <<redis, api, router, ghost>>,
           faults' \in Nat
    PROVE  IInv'
<1>1. /\ pc' = [c \in Consumer |-> IF c[1] = p THEN "backlog" ELSE pc[c]]
      /\ pos' = [c \in Consumer |-> IF c[1] = p THEN 0 ELSE pos[c]]
      /\ backlog' = [c \in Consumer |-> IF c[1] = p THEN FALSE ELSE backlog[c]]
      /\ blocks' = [c \in Consumer |-> IF c[1] = p THEN {} ELSE blocks[c]]
  BY DEF Restart
<1>2. TypeOK'
  BY <1>1 DEF IInv, TypeOK, PC, redis, api, router, ghost
<1>3. WorkerOK'
  BY <1>1 DEF IInv, WorkerOK, redis
<1> QED
  BY <1>2, <1>3, RedisStays

LEMMA PostStep ==
    ASSUME IInv, NEW c \in Consumer, PostOk(c) \/ PostError(c)
    PROVE  IInv'
<1> DEFINE e == [pel[c][1] EXCEPT !.tries = @ + 1]
<1>1. /\ pos[c] = 1 /\ pos[c] # 0 /\ Len(pel[c]) = 1
      /\ pel[c] \in Seq(Entry) /\ pel[c][1] \in Entry
      /\ Msg(c) \in Job /\ pc[c] = "post" /\ blocks[c] # {}
  BY Holding DEF PostOk, PostError, Busy, IInv, WorkerOK
<1>2. pel' = [pel EXCEPT ![c] = [pel[c] EXCEPT ![1] = e]]
  BY <1>1 DEF PostOk, PostError, Tried
<1>3. e \in Entry /\ e.job = pel[c][1].job
  BY <1>1 DEF Entry
<1>4. UNCHANGED <<pending, stream, webhookSet>>
  BY DEF PostOk, PostError
<1> HIDE DEF e
<1>5. /\ pel' \in [Consumer -> Seq(Entry)]
      /\ \A d \in Consumer : Len(pel'[d]) = Len(pel[d])
      /\ OneInFlight' /\ OneJobPerWebhook'
  BY <1>1, <1>2, <1>3, <1>4, EntryUpdated
<1>6. NoLostWakeup'
  BY DEF PostOk, PostError, IInv, NoLostWakeup
<1>7. CASE PostOk(c)
  <2>1. /\ pc' = [pc EXCEPT ![c] = "ack"] /\ UNCHANGED <<pos, backlog, blocks>>
    BY <1>7 DEF PostOk
  <2>2. sent' \in [Webhook -> SUBSET Nat]
    <3>1. Msg(c).w \in Webhook
      BY <1>1 DEF Job
    <3>2. blocks[c] \subseteq Nat
      BY DEF IInv, TypeOK
    <3> QED
      BY <1>7, <3>1, <3>2 DEF PostOk, IInv, TypeOK
  <2>3. TypeOK'
    BY <1>5, <1>7, <2>1, <2>2 DEF PostOk, IInv, TypeOK, PC, api, router
  <2>4. WorkerOK'
    BY <1>1, <1>5, <2>1 DEF IInv, TypeOK, WorkerOK
  <2> QED
    BY <1>5, <1>6, <2>3, <2>4 DEF IInv
<1>8. CASE PostError(c)
  <2>1. HandlerReturns(c, TRUE)
    BY <1>8 DEF PostError
  <2>2. /\ pc' \in [Consumer -> PC] /\ pos' \in [Consumer -> Nat]
        /\ backlog' \in [Consumer -> BOOLEAN]
        /\ blocks' \in [Consumer -> SUBSET (1 .. MaxHeight)]
        /\ pc'[c] = "backlog"
        /\ \A d \in Consumer : d # c =>
              pc'[d] = pc[d] /\ pos'[d] = pos[d] /\ blocks'[d] = blocks[d]
    BY <1>1, <2>1, ReturnOK DEF IInv
  <2>3. TypeOK'
    BY <1>5, <1>8, <2>2 DEF PostError, IInv, TypeOK, api, router, ghost
  <2>4. WorkerOK'
    BY <1>5, <2>2 DEF IInv, WorkerOK
  <2> QED
    BY <1>5, <1>6, <2>3, <2>4 DEF IInv
<1> QED
  BY <1>7, <1>8
-----------------------------------------------------------------------------
(* Steps of the workers that move a job. *)

\* With at most one entry in each backlog, no backlog has two jobs of a webhook.
LEMMA OneEntryDistinct ==
    ASSUME NEW q \in [Consumer -> Seq(Entry)], \A c \in Consumer : Len(q[c]) <= 1
    PROVE  \A c \in Consumer : \A i, j \in 1 .. Len(q[c]) :
              q[c][i].job.w = q[c][j].job.w => i = j
<1> SUFFICES ASSUME NEW c \in Consumer, NEW i \in 1 .. Len(q[c]), NEW j \in 1 .. Len(q[c])
             PROVE  i = j
  OBVIOUS
<1>1. Len(q[c]) \in Nat /\ Len(q[c]) <= 1
  OBVIOUS
<1> QED
  BY <1>1

\* Delivering the next job of the stream.
LEMMA DeliverOK ==
    ASSUME IInv, NEW c \in Consumer, Deliver(c)
    PROVE  /\ Len(pel[c]) = 0 /\ Len(pel'[c]) = 1
           /\ \A d \in Consumer : d # c => pel'[d] = pel[d]
           /\ pel' \in [Consumer -> Seq(Entry)] /\ stream' \in Seq(Job)
           /\ OneInFlight' /\ OneJobPerWebhook' /\ NoLostWakeup'
<1> DEFINE e == [job |-> Head(stream), n |-> 1, tries |-> 0]
<1>1. /\ pel \in [Consumer -> Seq(Entry)] /\ Len(pel[c]) = 0
      /\ stream \in Seq(Job) /\ stream # <<>> /\ Distinct(stream)
  BY DEF Deliver, IInv, TypeOK, WorkerOK, OneJobPerWebhook
<1>2. /\ stream' \in Seq(Job) /\ Head(stream) \in Job /\ Distinct(stream)'
      /\ Head(stream).w \in Ids(stream) /\ Ids(stream)' = Ids(stream) \ {Head(stream).w}
  <2>1. stream' = Tail(stream) /\ Ids(stream)' = Ids(Tail(stream))
    BY DEF Deliver, Ids
  <2> QED
    BY <1>1, <2>1, IdsOfTail
<1>3. e \in Entry /\ e.job = Head(stream)
  BY <1>2 DEF Entry
<1> HIDE DEF e
<1>4. /\ Append(pel[c], e) \in Seq(Entry) /\ Len(Append(pel[c], e)) = 1
      /\ Append(pel[c], e)[1] = e /\ Len(Append(pel[c], e)) <= 1
  BY <1>1, <1>3
<1>5. pel' = [pel EXCEPT ![c] = Append(pel[c], e)]
  BY DEF Deliver, e
<1>6. /\ pel' \in [Consumer -> Seq(Entry)] /\ Len(pel'[c]) = 1 /\ pel'[c][1] = e
      /\ Len(pel'[c]) <= 1
      /\ \A d \in Consumer : d # c => pel'[d] = pel[d]
  BY <1>1, <1>4, <1>5
<1>7. OneInFlight'
  <2> SUFFICES ASSUME NEW d \in Consumer PROVE Len(pel'[d]) <= 1
    BY DEF OneInFlight
  <2>1. CASE d = c
    BY <1>6, <2>1
  <2>2. CASE d # c
    BY <1>6, <2>2 DEF IInv, OneInFlight
  <2> QED
    BY <2>1, <2>2
<1>8. NoLostWakeup'
  BY DEF Deliver, IInv, NoLostWakeup
<1>9. /\ PelIds(c) = {} /\ PelIds(c)' = {Head(stream).w}
       /\ \A d \in Consumer : d # c => PelIds(d)' = PelIds(d)
  <2>1. \A d \in Consumer : d # c => PelIds(d)' = PelIds(d)
    BY <1>6 DEF PelIds
  <2>2. PelIds(c) = {}
    <3>1. 1 .. Len(pel[c]) = {}
      BY <1>1
    <3> QED
      BY <3>1 DEF PelIds
  <2>3. \A i : i \in 1 .. Len(pel'[c]) <=> i = 1
    BY <1>6
  <2>4. PelIds(c)' = {Head(stream).w}
    BY <1>3, <1>6, <2>3 DEF PelIds
  <2> QED
    BY <2>1, <2>2, <2>4
<1>10. PendingIds' = PendingIds /\ UNCHANGED <<pending, webhookSet>>
  BY DEF Deliver, PendingIds
<1>11. OneJobPerWebhook'
  <2> USE DEF OneJobPerWebhook
  <2>1. /\ \A d \in Consumer : Head(stream).w \notin PelIds(d)
        /\ Head(stream).w \notin PendingIds
    BY <1>2 DEF IInv
  <2>2. DeliveredIds' = DeliveredIds \cup {Head(stream).w}
    <3>1. ASSUME NEW x PROVE (\E d \in Consumer : x \in PelIds(d)')
                               <=> (x = Head(stream).w \/ \E d \in Consumer : x \in PelIds(d))
      BY <1>9
    <3> QED
      BY <3>1 DEF DeliveredIds
  <2>3. webhookSet' = PendingIds' \cup Ids(stream)' \cup DeliveredIds'
    <3>1. webhookSet = PendingIds \cup Ids(stream) \cup DeliveredIds
      BY DEF IInv
    <3> QED
      BY <1>2, <1>10, <2>2, <3>1
  <2>4. PendingIds' \cap Ids(stream)' = {}
    BY <1>2, <1>10 DEF IInv
  <2>5. \A d \in Consumer : PelIds(d)' \cap (PendingIds' \cup Ids(stream)') = {}
    BY <1>2, <1>9, <1>10, <2>1 DEF IInv
  <2>6. \A d, f \in Consumer : d # f => PelIds(d)' \cap PelIds(f)' = {}
    BY <1>9, <2>1 DEF IInv
  <2>7. \A i, j \in pending' : i.w = j.w => i = j
    BY <1>10 DEF IInv
  <2>8. \A d \in Consumer : \A i, j \in 1 .. Len(pel'[d]) :
            pel'[d][i].job.w = pel'[d][j].job.w => i = j
    BY <1>6, <1>7, OneEntryDistinct DEF OneInFlight
  <2> QED
    BY <1>2, <2>3, <2>4, <2>5, <2>6, <2>7, <2>8
<1> QED
  BY <1>1, <1>2, <1>6, <1>7, <1>8, <1>11

LEMMA NewReadStep == ASSUME IInv, NEW c \in Consumer, NewRead(c) PROVE IInv'
<1>1. /\ Len(pel[c]) = 0 /\ Len(pel'[c]) = 1
      /\ \A d \in Consumer : d # c => pel'[d] = pel[d]
      /\ pel' \in [Consumer -> Seq(Entry)] /\ stream' \in Seq(Job)
      /\ OneInFlight' /\ OneJobPerWebhook' /\ NoLostWakeup'
  BY DeliverOK DEF NewRead
<1>2. pos' = [pos EXCEPT ![c] = 1] /\ pc' = [pc EXCEPT ![c] = "find"]
  BY <1>1 DEF NewRead
<1>3. TypeOK'
  BY <1>1, <1>2 DEF NewRead, Deliver, IInv, TypeOK, PC, api, router, ghost
<1>4. WorkerOK'
  BY <1>1, <1>2 DEF NewRead, IInv, TypeOK, WorkerOK
<1> QED
  BY <1>1, <1>3, <1>4 DEF IInv

\* A worker stops after an error, whether redis delivered an entry or not.
LEMMA ReadErrorStep == ASSUME IInv, NEW c \in Consumer, ReadError(c) PROVE IInv'
<1>1. /\ pc' = [pc EXCEPT ![c] = "stopped"]
      /\ UNCHANGED <<api, router, pos, backlog, blocks, ghost>>
  BY DEF ReadError
<1>2. faults' \in Nat
  BY DEF ReadError, Fault, IInv, TypeOK
<1>3. CASE UNCHANGED redis
  <2>1. TypeOK'
    BY <1>1, <1>2, <1>3 DEF IInv, TypeOK, PC, redis, api, router, ghost
  <2>2. WorkerOK'
    BY <1>1, <1>3 DEF IInv, TypeOK, WorkerOK, redis
  <2> QED
    BY <1>3, <2>1, <2>2, RedisStays
<1>4. CASE Redeliver(c)
  <2>1. /\ pel' \in [Consumer -> Seq(Entry)]
        /\ \A d \in Consumer : Len(pel'[d]) = Len(pel[d])
        /\ OneInFlight' /\ OneJobPerWebhook' /\ NoLostWakeup'
    BY <1>4, RedeliverOK
  <2>2. TypeOK'
    BY <1>1, <1>2, <1>4, <2>1 DEF Redeliver, IInv, TypeOK, PC, api, router, ghost
  <2>3. WorkerOK'
    BY <1>1, <2>1 DEF IInv, TypeOK, WorkerOK
  <2> QED
    BY <2>1, <2>2, <2>3 DEF IInv
<1>5. CASE Deliver(c)
  <2>1. /\ \A d \in Consumer : d # c => pel'[d] = pel[d]
        /\ pel' \in [Consumer -> Seq(Entry)] /\ stream' \in Seq(Job)
        /\ OneInFlight' /\ OneJobPerWebhook' /\ NoLostWakeup'
    BY <1>5, DeliverOK
  <2>2. TypeOK'
    BY <1>1, <1>2, <1>5, <2>1 DEF Deliver, IInv, TypeOK, PC, api, router, ghost
  <2>3. WorkerOK'
    BY <1>1, <2>1 DEF IInv, TypeOK, WorkerOK
  <2> QED
    BY <2>1, <2>2, <2>3 DEF IInv
<1> QED
  BY <1>3, <1>4, <1>5 DEF ReadError

\* An acknowledged entry was the worker's only one.
LEMMA AckedJob ==
    ASSUME IInv, NEW c \in Consumer, pc[c] \in Busy, Acked(c)
    PROVE  /\ pel' \in [Consumer -> Seq(Entry)] /\ pel'[c] = <<>>
           /\ \A d \in Consumer : d # c => pel'[d] = pel[d]
           /\ PelIds(c) = {Msg(c).w} /\ PelIds(c)' = {}
           /\ \A d \in Consumer : d # c => PelIds(d)' = PelIds(d)
           /\ OneInFlight'
           /\ DeliveredIds = DeliveredIds' \cup {Msg(c).w}
           /\ Msg(c).w \notin DeliveredIds'
           /\ Msg(c).w \notin PendingIds /\ Msg(c).w \notin Ids(stream)
<1>1. PelIds(c) = {Msg(c).w} /\ RemoveAt(pel[c], pos[c]) = <<>>
  BY Holding
<1>2. pel' = [pel EXCEPT ![c] = <<>>] /\ pel \in [Consumer -> Seq(Entry)]
  BY <1>1 DEF Acked, IInv, TypeOK
<1>3. /\ pel' \in [Consumer -> Seq(Entry)] /\ pel'[c] = <<>>
      /\ \A d \in Consumer : d # c => pel'[d] = pel[d]
  BY <1>2
<1>4. /\ PelIds(c)' = {}
      /\ \A d \in Consumer : d # c => PelIds(d)' = PelIds(d)
  BY <1>3 DEF PelIds
<1>5. OneInFlight'
  BY <1>3 DEF IInv, OneInFlight
<1>6. /\ \A d \in Consumer : d # c => Msg(c).w \notin PelIds(d)
      /\ Msg(c).w \notin PendingIds /\ Msg(c).w \notin Ids(stream)
  BY <1>1 DEF IInv, OneJobPerWebhook
<1>7. ASSUME NEW x PROVE (\E d \in Consumer : x \in PelIds(d))
                           <=> (x = Msg(c).w \/ \E d \in Consumer : x \in PelIds(d)')
  BY <1>1, <1>4
<1>8. DeliveredIds = DeliveredIds' \cup {Msg(c).w}
  BY <1>7 DEF DeliveredIds
<1>9. Msg(c).w \notin DeliveredIds'
  <2>1. \A d \in Consumer : Msg(c).w \notin PelIds(d)'
    BY <1>4, <1>6
  <2> QED
    BY <2>1 DEF DeliveredIds
<1> QED
  BY <1>1, <1>3, <1>4, <1>5, <1>6, <1>8, <1>9

\* After a handler that acknowledged its entry, the worker's variables are
\* those of a worker at the start of its backlog.
LEMMA AckedReturn ==
    ASSUME IInv, NEW c \in Consumer, pc[c] \in Busy, Acked(c), HandlerReturns(c, FALSE)
    PROVE  /\ pc' \in [Consumer -> PC] /\ pos' \in [Consumer -> Nat]
           /\ backlog' \in [Consumer -> BOOLEAN]
           /\ blocks' \in [Consumer -> SUBSET (1 .. MaxHeight)]
           /\ WorkerOK'
<1>1. pos[c] # 0 /\ TypeOK
  BY Holding DEF IInv
<1>2. /\ pc' \in [Consumer -> PC] /\ pos' \in [Consumer -> Nat]
      /\ backlog' \in [Consumer -> BOOLEAN]
      /\ blocks' \in [Consumer -> SUBSET (1 .. MaxHeight)]
      /\ pc'[c] = "backlog"
      /\ \A d \in Consumer : d # c =>
            pc'[d] = pc[d] /\ pos'[d] = pos[d] /\ blocks'[d] = blocks[d]
  BY <1>1, ReturnOK
<1>3. \A d \in Consumer : d # c => pel'[d] = pel[d]
  BY AckedJob
<1>4. WorkerOK'
  BY <1>2, <1>3 DEF IInv, WorkerOK
<1> QED
  BY <1>2, <1>4

LEMMA DropStep == ASSUME IInv, NEW c \in Consumer, Drop(c) PROVE IInv'
<1> DEFINE w == Msg(c).w
<1>1. /\ pc[c] \in Busy /\ Acked(c) /\ HandlerReturns(c, FALSE)
      /\ webhookSet' = webhookSet \ {w}
      /\ UNCHANGED <<latest, pending, stream, api, router, faults, ghost>>
  BY DEF Drop, Busy
<1> HIDE DEF w
<1>2. /\ pel' \in [Consumer -> Seq(Entry)] /\ PelIds(c)' = {} /\ OneInFlight'
      /\ \A d \in Consumer : d # c => PelIds(d)' = PelIds(d)
      /\ DeliveredIds = DeliveredIds' \cup {w} /\ w \notin DeliveredIds'
      /\ w \notin PendingIds /\ w \notin Ids(stream)
  BY <1>1, AckedJob DEF w
<1>3. /\ pc' \in [Consumer -> PC] /\ pos' \in [Consumer -> Nat]
      /\ backlog' \in [Consumer -> BOOLEAN]
      /\ blocks' \in [Consumer -> SUBSET (1 .. MaxHeight)]
      /\ WorkerOK'
  BY <1>1, AckedReturn
<1>4. TypeOK'
  BY <1>1, <1>2, <1>3 DEF IInv, TypeOK, api, router, ghost
<1>5. NoLostWakeup'
  BY <1>1 DEF IInv, NoLostWakeup
<1>6. OneJobPerWebhook'
  <2>1. /\ PendingIds' = PendingIds /\ Ids(stream)' = Ids(stream)
        /\ Distinct(stream)' /\ \A i, j \in pending' : i.w = j.w => i = j
    BY <1>1 DEF PendingIds, Ids, IInv, OneJobPerWebhook, Distinct
  <2>2. webhookSet' = PendingIds' \cup Ids(stream)' \cup DeliveredIds'
    BY <1>1, <1>2, <2>1 DEF IInv, OneJobPerWebhook
  <2>3. \A d \in Consumer : \A i, j \in 1 .. Len(pel'[d]) :
            pel'[d][i].job.w = pel'[d][j].job.w => i = j
    BY <1>2, OneEntryDistinct DEF OneInFlight
  <2> QED
    BY <1>2, <2>1, <2>2, <2>3 DEF IInv, OneJobPerWebhook
<1> QED
  BY <1>2, <1>3, <1>4, <1>5, <1>6 DEF IInv

\* The successor of the job in hand is a job of the same webhook.
LEMMA SuccessorOfJob ==
    ASSUME TypeOK, NEW c \in Consumer, pc[c] \in {"skip", "ack"}, Msg(c) \in Job,
           pc[c] = "ack" => blocks[c] # {}
    PROVE  Successor(c) \in Job /\ Successor(c).w = Msg(c).w
<1>1. Msg(c).w \in Webhook /\ Msg(c).h \in Nat /\ Msg(c).new \in BOOLEAN
  BY DEF Job
<1>2. CASE pc[c] = "skip"
  BY <1>1, <1>2 DEF Successor, Job
<1>3. CASE pc[c] = "ack"
  <2>1. blocks[c] \in SUBSET (1 .. MaxHeight) /\ blocks[c] # {}
    BY <1>3 DEF TypeOK
  <2>2. MaxHeight \in Nat /\ blocks[c] \in SUBSET Nat
    BY <2>1, ConstantsAssumption
  <2>3. Min(blocks[c]) \in Nat /\ Max(blocks[c]) \in Nat
    BY <2>1, <2>2, MinOfNats, MaxOfHeights
  <2>4. LastBlock(c) + 1 \in Nat
    BY <2>3 DEF LastBlock
  <2>5. Successor(c) = [w |-> Msg(c).w, h |-> LastBlock(c) + 1, new |-> FALSE]
    BY <1>3 DEF Successor
  <2> QED
    BY <1>1, <2>4, <2>5 DEF Job
<1> QED
  BY <1>2, <1>3

LEMMA ReplaceStep == ASSUME IInv, NEW c \in Consumer, Replace(c) PROVE IInv'
<1> DEFINE w == Msg(c).w
<1> DEFINE k == Successor(c)
<1>1. /\ pc[c] \in Busy /\ Acked(c) /\ HandlerReturns(c, FALSE)
      /\ Reschedule(k) /\ GiveUp(c)
      /\ UNCHANGED <<latest, webhookSet, api, router, faults, sent>>
  BY DEF Replace, Busy
<1>2. k \in Job /\ k.w = w
  BY <1>1, Holding, SuccessorOfJob DEF Replace, IInv, WorkerOK
<1>3. skipped' \in [Webhook -> SUBSET Nat]
  <2>1. Msg(c).w \in Webhook /\ Msg(c).h \in Nat
    BY <1>1, Holding DEF Job
  <2> QED
    BY <1>1, <2>1 DEF GiveUp, IInv, TypeOK
<1> HIDE DEF w, k
<1>4. /\ pel' \in [Consumer -> Seq(Entry)] /\ PelIds(c)' = {} /\ OneInFlight'
      /\ \A d \in Consumer : d # c => PelIds(d)' = PelIds(d)
      /\ PelIds(c) = {w}
      /\ DeliveredIds = DeliveredIds' \cup {w} /\ w \notin DeliveredIds'
      /\ w \notin PendingIds /\ w \notin Ids(stream)
  BY <1>1, AckedJob DEF w
<1>5. /\ pc' \in [Consumer -> PC] /\ pos' \in [Consumer -> Nat]
      /\ backlog' \in [Consumer -> BOOLEAN]
      /\ blocks' \in [Consumer -> SUBSET (1 .. MaxHeight)]
      /\ WorkerOK'
  BY <1>1, AckedReturn
<1>6. \A d \in Consumer : \A i, j \in 1 .. Len(pel'[d]) :
          pel'[d][i].job.w = pel'[d][j].job.w => i = j
  BY <1>4, OneEntryDistinct DEF OneInFlight
<1>7. /\ webhookSet' = PendingIds \cup Ids(stream) \cup DeliveredIds' \cup {w}
      /\ PendingIds \cap Ids(stream) = {}
      /\ \A d \in Consumer : PelIds(d)' \cap (PendingIds \cup Ids(stream) \cup {w}) = {}
      /\ \A d, f \in Consumer : d # f => PelIds(d)' \cap PelIds(f)' = {}
      /\ \A i, j \in pending : i.w = j.w => i = j
      /\ Distinct(stream)
  <2>1. \A d \in Consumer : w \notin PelIds(d)'
    BY <1>4 DEF DeliveredIds
  <2> QED
    BY <1>1, <1>4, <2>1 DEF IInv, OneJobPerWebhook
<1>8. CASE k.h >= latest
  <2>1. pending' = pending \cup {k} /\ UNCHANGED stream
    BY <1>1, <1>8 DEF Reschedule
  <2>2. IsFiniteSet(pending')
    BY <2>1, FS_AddElement DEF IInv, TypeOK
  <2>3. TypeOK'
    BY <1>1, <1>2, <1>3, <1>4, <1>5, <2>1, <2>2 DEF IInv, TypeOK, api, router
  <2>4. NoLostWakeup'
    BY <1>1, <1>8, <2>1 DEF IInv, NoLostWakeup
  <2>5. PendingIds' = PendingIds \cup {w} /\ Ids(stream)' = Ids(stream)
    BY <1>2, <2>1 DEF PendingIds, Ids
  <2>6. \A i, j \in pending' : i.w = j.w => i = j
    BY <1>2, <1>4, <1>7, <2>1 DEF PendingIds
  <2>7. Distinct(stream)'
    BY <1>7, <2>1 DEF Distinct
  <2>8. PendingIds' \cap Ids(stream)' = {}
    BY <1>4, <1>7, <2>5
  <2>9. OneJobPerWebhook'
    BY <1>6, <1>7, <2>5, <2>6, <2>7, <2>8 DEF OneJobPerWebhook
  <2> QED
    BY <1>4, <1>5, <2>3, <2>4, <2>9 DEF IInv
<1>9. CASE ~(k.h >= latest)
  <2>1. stream' = Append(stream, k) /\ UNCHANGED pending
    BY <1>1, <1>9 DEF Reschedule
  <2>2. /\ stream' \in Seq(Job) /\ Ids(stream)' = Ids(stream) \cup {w}
        /\ Distinct(stream)'
    BY <1>2, <1>4, <1>7, <2>1, IdsOfAppend DEF IInv, TypeOK
  <2>3. TypeOK'
    BY <1>1, <1>3, <1>4, <1>5, <2>1, <2>2 DEF IInv, TypeOK, api, router
  <2>4. NoLostWakeup'
    BY <1>1, <2>1 DEF IInv, NoLostWakeup
  <2>5. PendingIds' = PendingIds
    BY <2>1 DEF PendingIds
  <2>6. PendingIds' \cap Ids(stream)' = {}
    BY <1>4, <1>7, <2>2, <2>5
  <2>7. OneJobPerWebhook'
    BY <1>6, <1>7, <2>1, <2>2, <2>5, <2>6 DEF OneJobPerWebhook
  <2> QED
    BY <1>4, <1>5, <2>3, <2>4, <2>7 DEF IInv
<1> QED
  BY <1>8, <1>9

-----------------------------------------------------------------------------
(* The theorems. *)

\* The death of a process and its end after all workers have stopped.
LEMMA DeathStep ==
    ASSUME IInv,
           \/ \E c \in Consumer : Panic(c)
           \/ \E p \in Process : Crash(p) \/ Exit(p)
    PROVE  IInv'
<1>1. ASSUME NEW c \in Consumer, Panic(c) PROVE IInv'
  <2>1. faults' \in Nat
    BY <1>1 DEF Panic, IInv, TypeOK
  <2> QED
    BY <1>1, <2>1, RestartStep DEF Panic
<1>2. ASSUME NEW p \in Process, Crash(p) PROVE IInv'
  <2>1. faults' \in Nat
    BY <1>2 DEF Crash, Fault, IInv, TypeOK
  <2> QED
    BY <1>2, <2>1, RestartStep DEF Crash
<1>3. ASSUME NEW p \in Process, Exit(p) PROVE IInv'
  <2>1. faults' \in Nat
    BY <1>3 DEF Exit, IInv, TypeOK
  <2> QED
    BY <1>3, <2>1, RestartStep DEF Exit
<1> QED
  BY <1>1, <1>2, <1>3

\* As long as the redis client does not send a command twice, every step of the
\* system preserves the invariant.
LEMMA NextStep == ASSUME ~ClientResends, IInv, [Next]_vars PROVE IInv'
<1>1. CASE Api
  BY <1>1, ApiStep DEF Api
<1>2. CASE Router
  BY <1>2, RouterPutStep, RouterReplayStep, RouterFlushStep, RouterAckStep DEF Router
<1>3. CASE Failure
  <2>1. ASSUME NEW c \in Consumer, ReadError(c) \/ CallError(c) PROVE IInv'
    BY <2>1, ReadErrorStep, QuietWorkerStep
  <2>2. ASSUME NEW c \in Consumer, ReadAgain(c) \/ ReplaceTwice(c) PROVE IInv'
    BY <2>2 DEF ReadAgain, ReplaceTwice
  <2> QED
    BY <1>3, <2>1, <2>2, DeathStep DEF Failure
<1>4. ASSUME NEW c \in Consumer, Work(c) PROVE IInv'
  <2>1. CASE BacklogEnd(c) \/ FindOne(c) \/ FetchBlocks(c)
    BY <2>1, QuietWorkerStep
  <2>2. CASE BacklogRead(c)
    BY <2>2, BacklogReadStep
  <2>3. CASE NewRead(c)
    BY <2>3, NewReadStep
  <2>4. CASE Panic(c)
    BY <2>4, DeathStep
  <2>5. CASE PostOk(c) \/ PostError(c)
    BY <2>5, PostStep
  <2>6. CASE Drop(c)
    BY <2>6, DropStep
  <2>7. CASE Replace(c)
    BY <2>7, ReplaceStep
  <2> QED
    BY <1>4, <2>1, <2>2, <2>3, <2>4, <2>5, <2>6, <2>7 DEF Work
<1>5. CASE \E p \in Process : Exit(p)
  BY <1>5, DeathStep
<1>6. CASE UNCHANGED vars
  <2>1. TypeOK' /\ WorkerOK' /\ UNCHANGED redis
    BY <1>6 DEF vars, redis, api, router, worker, ghost, IInv, TypeOK, WorkerOK
  <2> QED
    BY <2>1, RedisStays
<1> QED
  BY <1>1, <1>2, <1>3, <1>4, <1>5, <1>6 DEF Next

\* The inductive invariant holds in every reachable state.
THEOREM Invariance == ASSUME ~ClientResends PROVE Spec => []IInv
<1>1. IInv /\ [Next]_vars => IInv'
  BY NextStep
<1> QED
  BY InitIInv, <1>1, PTL DEF Spec

\* A webhook is registered on its shard exactly when it has one job there, for
\* any number of webhooks, replicas and workers, under crashes, errors and
\* races of the API, the router and the workers.
THEOREM JobsAreUnique == ASSUME ~ClientResends PROVE Spec => []OneJobPerWebhook
<1>1. IInv => OneJobPerWebhook
  BY DEF IInv
<1> QED
  BY Invariance, <1>1, PTL

\* No worker ever holds two unacknowledged jobs, whatever failed before.
THEOREM WorkIsBounded == ASSUME ~ClientResends PROVE Spec => []OneInFlight
<1>1. IInv => OneInFlight
  BY DEF IInv
<1> QED
  BY Invariance, <1>1, PTL
=============================================================================
