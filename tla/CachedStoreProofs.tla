-------------------------- MODULE CachedStoreProofs --------------------------
(***************************************************************************)
(* Proofs about CachedStore, for any batch size, flush threshold, number   *)
(* of versions of a block, and number of crashes and rewinds.              *)
(***************************************************************************)
EXTENDS CachedStore, FiniteSetTheorems, SequenceTheorems, TLAPS

-----------------------------------------------------------------------------
(* The inductive invariant. *)

Typed ==
    /\ cache \subseteq Block /\ db \subseteq Block /\ batch \subseteq Block
    /\ next \in Nat /\ rewinds \in Nat
    /\ flusher \in {"read", "put", "delete"}

\* What the flusher is about to delete is in the database.
FlushedIsSafe == flusher = "delete" => Heights(batch) \subseteq Heights(db)

\* As long as heights are not repeated: there is one version of a height, and
\* the next one is new.
OneVersion ==
    /\ \A a, b \in cache \cup db : a.h = b.h => a = b
    /\ \A b \in cache \cup db : b.h < next

\* As long as heights are not repeated: the flusher holds the oldest blocks
\* of the cache.
BatchIsOldest ==
    /\ batch \subseteq cache
    /\ \A b \in batch : \A c \in cache \ batch : b.h < c.h

\* A row that the cache does not have is older than the cache.
RowsAreOlder == \A b \in db : b \notin cache => \A c \in cache : b.h < c.h

Newest == NoRewind => OneVersion /\ BatchIsOldest /\ RowsAreOlder

IInv == Typed /\ IsFiniteSet(cache) /\ FlushedIsSafe /\ NoBlockLost /\ Newest

-----------------------------------------------------------------------------
(* Facts about sets of blocks. *)

\* INSERT keeps a version of every height: the first of those of the batch
\* when the table has none.
LEMMA InsertedCovers ==
    ASSUME Typed
    PROVE  /\ Inserted(batch) \subseteq batch
           /\ Heights(batch) \subseteq Heights(db \cup Inserted(batch))
<1>1. Inserted(batch) \subseteq batch
  BY DEF Inserted
<1>2. ASSUME NEW b \in batch, b.h \notin Heights(db)
      PROVE  \E a \in Inserted(batch) : a.h = b.h
  <2> DEFINE V == { a.d : a \in { c \in batch : c.h = b.h } }
  <2>1. V \subseteq Nat /\ V # {}
    <3>1. \A a \in batch : a.d \in Nat
      BY ConstantsAssumption DEF Typed, Block
    <3> QED
      BY <3>1
  <2> HIDE DEF V
  <2>2. PICK m \in V : \A v \in V : ~ (<<v, m>> \in OpToRel(<, Nat))
    BY <2>1, NatLessThanWellFounded, WFMin
  <2>3. PICK a \in batch : a.h = b.h /\ a.d = m
    BY <2>2 DEF V
  <2>4. ASSUME NEW c \in batch, c.h = a.h PROVE ~Less(c, a)
    <3>1. c.d \in V /\ c.d \in Nat /\ m \in Nat
      BY <2>1, <2>2, <2>3, <2>4 DEF V
    <3>2. <<c.d, m>> \notin { ss \in Nat \X Nat : ss[1] < ss[2] }
      BY <2>2, <3>1 DEF OpToRel
    <3>3. ~(c.d < a.d)
      BY <2>3, <3>1, <3>2
    <3>4. c.h \in Nat
      BY DEF Typed, Block
    <3> QED
      BY <2>4, <3>3, <3>4 DEF Less
  <2> QED
    BY <1>2, <2>3, <2>4 DEF Inserted
<1> QED
  BY <1>1, <1>2 DEF Heights

\* The earliest blocks of a set are a set of oldest blocks.
LEMMA EarliestAreOldest ==
    ASSUME NEW S \in SUBSET Block, IsFiniteSet(S), NEW n \in Nat,
           NEW b \in Earliest(S, n), NEW c \in S \ Earliest(S, n)
    PROVE  b.h <= c.h
<1> SUFFICES ASSUME c.h < b.h PROVE FALSE
  BY DEF Earliest, Block
<1> DEFINE B == { a \in S : Less(a, b) }
           C == { a \in S : Less(a, c) }
<1>1. C \subseteq B
  <2> SUFFICES ASSUME NEW a \in S, Less(a, c) PROVE Less(a, b)
    OBVIOUS
  <2>1. a.h \in Nat /\ b.h \in Nat /\ c.h \in Nat
    BY DEF Earliest, Block
  <2> QED
    BY <2>1 DEF Less
<1>2. IsFiniteSet(B) /\ B \subseteq S
  BY FS_Subset
<1>3. Cardinality(C) \in Nat /\ Cardinality(B) \in Nat /\ Cardinality(C) <= Cardinality(B)
  BY <1>1, <1>2, FS_Subset, FS_CardinalityType
<1>4. Cardinality(B) < n /\ ~(Cardinality(C) < n)
  BY DEF Earliest
<1> QED
  BY <1>3, <1>4

-----------------------------------------------------------------------------
(* Every step preserves the invariant. *)

\* Both tiers start empty.
LEMMA InitIInv == Init => IInv
<1> SUFFICES ASSUME Init PROVE IInv
  OBVIOUS
<1>1. IsFiniteSet({})
  BY FS_EmptySet
<1>2. Typed
  BY ConstantsAssumption DEF Init, Typed
<1>3. FlushedIsSafe /\ NoBlockLost /\ Newest
  BY DEF Init, FlushedIsSafe, NoBlockLost, Newest, OneVersion, BatchIsOldest,
         RowsAreOlder, Heights
<1> QED
  BY <1>1, <1>2, <1>3 DEF Init, IInv

\* The router's batch is finite, has one version of each of its heights, and
\* these are the next ones.
LEMMA PutBlocksStep == ASSUME IInv, PutBlocks PROVE IInv'
<1>1. PICK k \in 1 .. BatchSize :
        /\ \E d \in [next .. next + k - 1 -> Data] :
              cache' = cache \cup { [h |-> h, d |-> d[h]] : h \in next .. next + k - 1 }
        /\ written' = written \cup (next .. next + k - 1)
        /\ next' = next + k
        /\ UNCHANGED <<db, rewinds, flusher, batch>>
  BY DEF PutBlocks, flush
<1> DEFINE hs == next .. next + k - 1
<1>2. PICK d \in [hs -> Data] : cache' = cache \cup { [h |-> h, d |-> d[h]] : h \in hs }
  BY <1>1
<1> DEFINE N == { [h |-> h, d |-> d[h]] : h \in hs }
<1>3. k \in Nat /\ k > 0 /\ next \in Nat
  BY ConstantsAssumption DEF IInv, Typed
<1>4. N \subseteq Block /\ Heights(N) = hs
  <2>1. \A h \in hs : h \in Nat /\ d[h] \in Data
    BY <1>3
  <2>2. N \subseteq Block
    BY <2>1 DEF Block
  <2>3. ASSUME NEW h \in hs PROVE h \in Heights(N)
    <3>1. [h |-> h, d |-> d[h]] \in N
      OBVIOUS
    <3> QED
      BY <3>1 DEF Heights
  <2>4. ASSUME NEW h \in Heights(N) PROVE h \in hs
    BY <2>4 DEF Heights
  <2> QED
    BY <2>2, <2>3, <2>4
<1>5. IsFiniteSet(N)
  <2> DEFINE f == [h \in hs |-> [h |-> h, d |-> d[h]]]
  <2>1. f \in Surjection(hs, N)
    BY DEF Surjection
  <2>2. IsFiniteSet(hs)
    BY <1>3, FS_Interval
  <2> QED
    BY <2>1, <2>2, FS_Surjection
<1>6. /\ \A a \in N : a.h \in hs
      /\ \A a, b \in N : a.h = b.h => a = b
  OBVIOUS
<1>7. \A h \in hs : next <= h /\ h < next + k /\ h \in Nat
  BY <1>3
<1> HIDE DEF N, hs
<1>8. cache' = cache \cup N /\ written' = written \cup hs
  BY <1>1, <1>2 DEF N, hs
<1>9. Typed' /\ IsFiniteSet(cache)'
  <2>1. IsFiniteSet(cache')
    BY <1>5, <1>8, FS_Union DEF IInv
  <2>2. cache' \subseteq Block /\ next' \in Nat
    BY <1>1, <1>3, <1>4, <1>8 DEF IInv, Typed
  <2> QED
    BY <1>1, <2>1, <2>2 DEF IInv, Typed
<1>10. FlushedIsSafe' /\ NoBlockLost'
  BY <1>1, <1>4, <1>8 DEF IInv, FlushedIsSafe, NoBlockLost, Heights
<1>11. Newest'
  <2> SUFFICES ASSUME NoRewind PROVE OneVersion' /\ BatchIsOldest' /\ RowsAreOlder'
    BY <1>1 DEF Newest, NoRewind
  <2>1. OneVersion /\ BatchIsOldest /\ RowsAreOlder
    BY DEF IInv, Newest
  <2>2. \A b \in cache \cup db : b.h \in Nat /\ b.h < next
    BY <2>1 DEF IInv, Typed, Block, OneVersion
  <2>3. \A a \in N : \A b \in cache \cup db : b.h < a.h /\ a.h \in Nat
    BY <1>3, <1>6, <1>7, <2>2
  <2>4. OneVersion'
    <3>1. \A b \in cache \cup db : b.h < next + k
      BY <1>3, <2>2
    <3>2. \A a \in N : a.h < next + k
      BY <1>6, <1>7
    <3>3. ASSUME NEW a \in cache' \cup db', NEW b \in cache' \cup db', a.h = b.h
          PROVE  a = b
      <4>1. a \in N \/ a \in cache \cup db
        BY <1>1, <1>8
      <4>2. b \in N \/ b \in cache \cup db
        BY <1>1, <1>8
      <4> QED
        BY <1>6, <2>1, <2>2, <2>3, <3>3, <4>1, <4>2 DEF OneVersion
    <3> QED
      BY <1>1, <1>8, <3>1, <3>2, <3>3 DEF OneVersion
  <2>5. BatchIsOldest'
    BY <1>1, <1>8, <2>1, <2>3 DEF BatchIsOldest
  <2>6. RowsAreOlder'
    BY <1>1, <1>8, <2>1, <2>3 DEF RowsAreOlder
  <2> QED
    BY <2>4, <2>5, <2>6
<1> QED
  BY <1>9, <1>10, <1>11 DEF IInv

\* A repeated height only lifts the claims made under NoRewind.
LEMMA RewindStep == ASSUME IInv, Rewind PROVE IInv'
<1> USE DEF Rewind, flush
<1>1. Typed'
  BY ConstantsAssumption DEF IInv, Typed
<1>2. rewinds' # 0
  BY DEF IInv, Typed
<1>3. FlushedIsSafe' /\ NoBlockLost' /\ Newest'
  BY <1>2 DEF IInv, FlushedIsSafe, NoBlockLost, Newest, NoRewind
<1> QED
  BY <1>1, <1>3 DEF IInv

\* The flusher's batch is the oldest part of the cache.
LEMMA FlushReadStep == ASSUME IInv, FlushRead PROVE IInv'
<1> USE DEF FlushRead, writer
<1>1. Earliest(cache, Threshold) \subseteq cache
  BY DEF Earliest
<1>2. Typed'
  BY <1>1 DEF IInv, Typed
<1>3. FlushedIsSafe' /\ NoBlockLost'
  BY DEF IInv, FlushedIsSafe, NoBlockLost
<1>4. Newest'
  <2> SUFFICES ASSUME NoRewind PROVE OneVersion' /\ BatchIsOldest' /\ RowsAreOlder'
    BY DEF Newest, NoRewind
  <2>1. OneVersion' /\ RowsAreOlder'
    BY DEF IInv, Newest, OneVersion, RowsAreOlder
  <2>2. ASSUME NEW b \in batch', NEW c \in cache \ batch' PROVE b.h < c.h
    <3>1. b.h <= c.h
      BY <2>2, ConstantsAssumption, EarliestAreOldest DEF IInv, Typed
    <3>2. b \in cache /\ b # c /\ b.h \in Nat /\ c.h \in Nat
      BY <1>1, <2>2 DEF IInv, Typed, Block
    <3>3. b.h # c.h
      BY <2>2, <3>2 DEF IInv, Newest, OneVersion
    <3> QED
      BY <3>1, <3>2, <3>3
  <2> QED
    BY <1>1, <2>1, <2>2 DEF BatchIsOldest
<1> QED
  BY <1>2, <1>3, <1>4 DEF IInv

\* The batch gets into the database before it leaves the cache.
LEMMA FlushPutStep == ASSUME IInv, FlushPut PROVE IInv'
<1> USE DEF FlushPut, writer
<1>1. /\ db' = db \cup Inserted(batch) /\ Inserted(batch) \subseteq batch
      /\ Heights(batch) \subseteq Heights(db')
  BY InsertedCovers DEF IInv
<1>2. UNCHANGED <<cache, batch, next, rewinds, written>> /\ flusher' = "delete"
  OBVIOUS
<1>3. Typed'
  BY <1>1, <1>2 DEF IInv, Typed
<1>4. FlushedIsSafe' /\ NoBlockLost'
  BY <1>1, <1>2 DEF IInv, FlushedIsSafe, NoBlockLost, Heights
<1>5. Newest'
  <2> SUFFICES ASSUME NoRewind PROVE OneVersion' /\ BatchIsOldest' /\ RowsAreOlder'
    BY <1>2 DEF Newest, NoRewind
  <2>1. OneVersion /\ BatchIsOldest /\ RowsAreOlder
    BY DEF IInv, Newest
  <2>2. cache' \cup db' = cache \cup db
    BY <1>1, <1>2, <2>1 DEF BatchIsOldest
  <2>3. \A b \in db' : b \notin cache => b \in db
    BY <1>1, <2>1 DEF BatchIsOldest
  <2> QED
    BY <1>2, <2>1, <2>2, <2>3 DEF OneVersion, BatchIsOldest, RowsAreOlder
<1> QED
  BY <1>2, <1>3, <1>4, <1>5 DEF IInv

\* What leaves the cache is in the database, and older than what stays.
LEMMA FlushDeleteStep == ASSUME IInv, FlushDelete PROVE IInv'
<1> USE DEF FlushDelete, writer
<1>1. Typed' /\ IsFiniteSet(cache')
  BY FS_Difference DEF IInv, Typed
<1>2. FlushedIsSafe' /\ NoBlockLost'
  <2>1. Heights(cache \cup db) \subseteq Heights((cache \ batch) \cup db)
    BY DEF IInv, FlushedIsSafe, Heights
  <2> QED
    BY <2>1 DEF IInv, FlushedIsSafe, NoBlockLost
<1>3. Newest'
  <2> SUFFICES ASSUME NoRewind PROVE OneVersion' /\ BatchIsOldest' /\ RowsAreOlder'
    BY DEF Newest, NoRewind
  <2>1. OneVersion /\ BatchIsOldest /\ RowsAreOlder
    BY DEF IInv, Newest
  <2>2. ASSUME NEW b \in db, b \notin cache \ batch, NEW c \in cache \ batch
        PROVE  b.h < c.h
    BY <2>1, <2>2 DEF BatchIsOldest, RowsAreOlder
  <2> QED
    BY <2>1, <2>2 DEF OneVersion, BatchIsOldest, RowsAreOlder
<1> QED
  BY <1>1, <1>2, <1>3 DEF IInv

\* A crash forgets the batch and nothing else.
LEMMA FlushCrashStep == ASSUME IInv, FlushCrash PROVE IInv'
<1> USE DEF FlushCrash, writer
<1>1. Typed'
  BY DEF IInv, Typed
<1>2. FlushedIsSafe' /\ NoBlockLost' /\ Newest'
  BY DEF IInv, FlushedIsSafe, NoBlockLost, Newest, NoRewind, OneVersion,
         BatchIsOldest, RowsAreOlder
<1> QED
  BY <1>1, <1>2 DEF IInv

\* Readers change nothing.
LEMMA ReaderStep ==
    ASSUME IInv, UNCHANGED <<cache, db, writer, flush>> PROVE IInv'
BY DEF IInv, Typed, FlushedIsSafe, NoBlockLost, Newest, NoRewind, OneVersion,
       BatchIsOldest, RowsAreOlder, writer, flush

\* Every step, by the action it is.
LEMMA NextStep == ASSUME IInv, [Next]_vars PROVE IInv'
<1>1. CASE Flusher
  BY <1>1, FlushReadStep, FlushPutStep, FlushDeleteStep DEF Flusher
<1>2. CASE Reader
  <2>1. UNCHANGED <<cache, db, writer, flush>>
    BY <1>2 DEF Reader, CallGetBlocks, CallGetLatestBlocks, CallGetLatestBlock, Call,
                ReadCache, ReadDb, ReadRest, Return
  <2> QED
    BY <2>1, ReaderStep
<1>3. CASE UNCHANGED vars
  BY <1>3, ReaderStep DEF vars
<1> QED
  BY <1>1, <1>2, <1>3, PutBlocksStep, RewindStep, FlushCrashStep DEF Next

\* The invariant holds of every behaviour.
LEMMA Inductive == Spec => []IInv
<1>1. IInv /\ [Next]_vars => IInv'
  BY NextStep
<1> QED
  BY InitIInv, <1>1, PTL DEF Spec

-----------------------------------------------------------------------------
(* Nothing is lost, and the cache is the newest part. *)

\* A block that was written is in one of the two tiers at every step of a
\* flush, for any batches, repeated heights and versions, and whenever the
\* flusher dies.
THEOREM BlocksAreKept == Spec => []NoBlockLost
<1>1. IInv => NoBlockLost
  BY DEF IInv
<1> QED
  BY Inductive, <1>1, PTL

\* While no height is repeated, a height that only the database has is below
\* all heights of the cache: the two-tier reads may take the cache first.
THEOREM CacheHasTheNewest == Spec => []CacheIsNewest
<1>1. IInv => CacheIsNewest
  BY DEF IInv, Newest, RowsAreOlder, CacheIsNewest, Heights
<1> QED
  BY Inductive, <1>1, PTL

-----------------------------------------------------------------------------
(* Lists of blocks: ZRANGE and ORDER BY as sequences. *)

\* How many members of the sorted set come before a block.
Rank(S, b) == Cardinality({ a \in S : Less(a, b) })

\* Two members of the sorted set are ordered one way or the other.
LEMMA LessIsTotal ==
    ASSUME NEW a \in Block, NEW b \in Block
    PROVE  /\ a # b => Less(a, b) \/ Less(b, a)
           /\ ~Less(a, a)
           /\ \A c \in Block : Less(a, b) /\ Less(b, c) => Less(a, c)
<1>1. /\ a.h \in Nat /\ b.h \in Nat /\ a.d \in Nat /\ b.d \in Nat
      /\ \A c \in Block : c.h \in Nat /\ c.d \in Nat
  BY ConstantsAssumption DEF Block
<1>2. a.h = b.h /\ a.d = b.d => a = b
  BY DEF Block
<1> QED
  BY <1>1, <1>2 DEF Less

\* Every place of the sorted set up to its size is some block's rank.
LEMMA RanksAreTaken ==
    ASSUME NEW S \in SUBSET Block, IsFiniteSet(S), NEW i \in 1 .. Cardinality(S)
    PROVE  \E b \in S : Rank(S, b) = i - 1
<1> DEFINE n == Cardinality(S)
           T == 0 .. n - 1
           f == [b \in S |-> Rank(S, b)]
<1>1. n \in Nat
  BY FS_CardinalityType
<1>2. IsFiniteSet(T) /\ Cardinality(T) = n
  <2>1. n - 1 \in Int /\ 0 \in Int /\ n - 1 - 0 + 1 = n /\ (0 > n - 1 => n = 0)
    BY <1>1
  <2> HIDE DEF n
  <2> QED
    BY <2>1, FS_Interval
<1>3. ASSUME NEW b \in S PROVE f[b] \in T
  <2> DEFINE B == { a \in S : Less(a, b) }
  <2>1. B \subseteq S \ {b}
    BY LessIsTotal
  <2>2. IsFiniteSet(S \ {b}) /\ Cardinality(S \ {b}) = n - 1
    BY FS_RemoveElement
  <2>3. Cardinality(B) \in Nat /\ Cardinality(B) <= n - 1
    BY <2>1, <2>2, FS_Subset, FS_CardinalityType
  <2> QED
    BY <1>1, <2>3 DEF Rank
<1>4. ASSUME NEW a \in S, NEW b \in S, Less(a, b) PROVE f[a] # f[b]
  <2> DEFINE A == { c \in S : Less(c, a) }
             B == { c \in S : Less(c, b) }
  <2>1. A \subseteq B
    BY <1>4, LessIsTotal
  <2>2. a \in B /\ a \notin A
    BY <1>4, LessIsTotal
  <2>3. IsFiniteSet(B) /\ (Cardinality(A) = Cardinality(B) => A = B)
    BY <2>1, FS_Subset
  <2> QED
    BY <2>2, <2>3 DEF Rank
<1>5. f \in Injection(S, T)
  BY <1>3, <1>4, LessIsTotal DEF Injection, IsInjective
<1>6. f \in Surjection(S, T)
  BY <1>2, <1>5, FS_Injection
<1>7. i - 1 \in T
  BY <1>1
<1> QED
  BY <1>6, <1>7 DEF Surjection

\* ZRANGE lists the members, each at the place of its rank.
LEMMA AscendingType ==
    ASSUME NEW S \in SUBSET Block, IsFiniteSet(S)
    PROVE  /\ Ascending(S) \in Seq(S)
           /\ Len(Ascending(S)) = Cardinality(S)
           /\ Cardinality(S) \in Nat
           /\ \A i \in 1 .. Cardinality(S) :
                 Ascending(S)[i] \in S /\ Rank(S, Ascending(S)[i]) = i - 1
<1>1. Cardinality(S) \in Nat
  BY FS_CardinalityType
<1>2. ASSUME NEW i \in 1 .. Cardinality(S)
      PROVE  Ascending(S)[i] \in S /\ Rank(S, Ascending(S)[i]) = i - 1
  <2>1. PICK b \in S : Rank(S, b) = i - 1
    BY RanksAreTaken
  <2>2. Ascending(S)[i] = CHOOSE c \in S : Rank(S, c) = i - 1
    BY DEF Ascending, Rank
  <2> QED
    BY <2>1, <2>2
<1>3. Ascending(S) \in [1 .. Cardinality(S) -> S]
  BY <1>2 DEF Ascending
<1> QED
  BY <1>1, <1>2, <1>3

\* A set of blocks whose heights are the interval lo .. hi, one block each.
Run(S, lo, hi) ==
    /\ S \subseteq Block /\ IsFiniteSet(S) /\ Heights(S) = lo .. hi
    /\ \A a, b \in S : a.h = b.h => a = b

\* In such a set, the heights below (above) a block's are all there.
LEMMA RunRanks ==
    ASSUME NEW S, NEW lo \in Int, NEW hi \in Int, Run(S, lo, hi), NEW b \in S
    PROVE  /\ Rank(S, b) = b.h - lo
           /\ Cardinality({ a \in S : Less(b, a) }) = hi - b.h
<1>1. S \subseteq Block /\ IsFiniteSet(S) /\ b.h \in Int
  BY DEF Run, Block
<1>2. \A a \in S : a.h \in lo .. hi
  BY DEF Run, Heights
<1>3. \A h \in lo .. hi : \E a \in S : a.h = h
  BY DEF Run, Heights
<1>4. \A a \in S : a.h \in Int /\ (Less(a, b) <=> a.h < b.h) /\ (Less(b, a) <=> b.h < a.h)
  <2> SUFFICES ASSUME NEW a \in S
               PROVE a.h \in Int /\ (Less(a, b) <=> a.h < b.h) /\ (Less(b, a) <=> b.h < a.h)
    OBVIOUS
  <2>1. a.h \in Nat /\ b.h \in Nat /\ a.d \in Nat /\ b.d \in Nat
    BY <1>1, ConstantsAssumption DEF Block
  <2>2. a.h = b.h => a = b
    BY DEF Run
  <2> QED
    BY <2>1, <2>2 DEF Less
<1>5. Rank(S, b) = b.h - lo
  <2> DEFINE A == { a \in S : Less(a, b) }
             T == lo .. b.h - 1
             f == [a \in A |-> a.h]
  <2>1. f \in Injection(A, T)
    BY <1>2, <1>4 DEF Run, Injection, IsInjective
  <2>2. f \in Surjection(A, T)
    <3>1. ASSUME NEW h \in T PROVE \E a \in A : f[a] = h
      BY <1>1, <1>2, <1>3, <1>4
    <3> QED
      BY <2>1, <3>1 DEF Surjection, Injection
  <2>3. IsFiniteSet(T) /\ Cardinality(T) = b.h - lo
    BY <1>1, <1>2, FS_Interval
  <2> QED
    BY <2>1, <2>2, <2>3, FS_Injection DEF Rank
<1>6. Cardinality({ a \in S : Less(b, a) }) = hi - b.h
  <2> DEFINE A == { a \in S : Less(b, a) }
             T == b.h + 1 .. hi
             f == [a \in A |-> a.h]
  <2>1. f \in Injection(A, T)
    BY <1>2, <1>4 DEF Run, Injection, IsInjective
  <2>2. f \in Surjection(A, T)
    <3>1. ASSUME NEW h \in T PROVE \E a \in A : f[a] = h
      BY <1>1, <1>2, <1>3, <1>4
    <3> QED
      BY <2>1, <3>1 DEF Surjection, Injection
  <2>3. IsFiniteSet(T) /\ Cardinality(T) = hi - b.h
    <3>1. b.h <= hi /\ b.h + 1 \in Int /\ hi - (b.h + 1) + 1 = hi - b.h
      BY <1>1, <1>2
    <3>2. b.h + 1 > hi => hi - b.h = 0
      BY <1>1, <3>1
    <3> QED
      BY <3>1, <3>2, FS_Interval
  <2> QED
    BY <2>1, <2>2, <2>3, FS_Injection
<1> QED
  BY <1>5, <1>6

\* The size of such a set.
LEMMA RunSize ==
    ASSUME NEW S, NEW lo \in Int, NEW hi \in Int, Run(S, lo, hi), lo <= hi + 1
    PROVE  Cardinality(S) = hi - lo + 1
<1> DEFINE T == lo .. hi
           f == [a \in S |-> a.h]
<1>1. f \in Injection(S, T) /\ f \in Surjection(S, T)
  BY DEF Run, Heights, Injection, IsInjective, Surjection
<1>2. IsFiniteSet(T) /\ Cardinality(T) = hi - lo + 1
  BY FS_Interval
<1> QED
  BY <1>1, <1>2, FS_Injection

\* Heights of a list: ..., h + 1, h + 2, ... from its first block on.
Rising(s, h) == \A i \in 1 .. Len(s) : s[i].h = h + i

\* Heights of a list: h - 1, h - 2, ...
Falling(s, h) == \A i \in 1 .. Len(s) : s[i].h = h - i

\* The lists of such a set in both orders.
LEMMA RunLists ==
    ASSUME NEW S, NEW lo \in Int, NEW hi \in Int, Run(S, lo, hi), lo <= hi + 1
    PROVE  /\ Ascending(S) \in Seq(Block) /\ Len(Ascending(S)) = hi - lo + 1
           /\ Rising(Ascending(S), lo - 1)
           /\ Descending(S) \in Seq(Block) /\ Len(Descending(S)) = hi - lo + 1
           /\ Falling(Descending(S), hi + 1)
<1> DEFINE A == Ascending(S)
           n == hi - lo + 1
<1>1. S \subseteq Block /\ IsFiniteSet(S)
  BY DEF Run
<1>2. n \in Nat /\ Cardinality(S) = n
  BY RunSize
<1>3. /\ A \in Seq(S) /\ Len(A) = n
      /\ \A i \in 1 .. n : A[i] \in S /\ Rank(S, A[i]) = i - 1
  BY <1>1, <1>2, AscendingType
<1>4. A \in Seq(Block)
  BY <1>1, <1>3, SeqMonotonic
<1>5. \A i \in 1 .. n : A[i].h = lo - 1 + i
  <2> SUFFICES ASSUME NEW i \in 1 .. n PROVE A[i].h = lo - 1 + i
    OBVIOUS
  <2>1. A[i] \in S /\ Rank(S, A[i]) = i - 1
    BY <1>3
  <2>2. i - 1 = A[i].h - lo
    BY <2>1, RunRanks
  <2>3. A[i].h \in Int
    BY <1>1, <2>1 DEF Block
  <2> QED
    BY <2>2, <2>3
<1> DEFINE D == Descending(S)
<1>6. /\ D = [i \in 1 .. n |-> A[n - i + 1]]
  BY <1>3 DEF Descending, Reverse
<1>7. \A i \in 1 .. n : n - i + 1 \in 1 .. n
  BY <1>2
<1>8. D \in [1 .. n -> Block]
  <2>1. \A i \in 1 .. n : A[i] \in Block
    BY <1>1, <1>3
  <2> QED
    BY <1>6, <1>7, <2>1
<1>9. D \in Seq(Block) /\ Len(D) = n
  BY <1>2, <1>8
<1>10. \A i \in 1 .. n : D[i].h = hi + 1 - i
  BY <1>2, <1>5, <1>6, <1>7
<1> QED
  BY <1>3, <1>4, <1>5, <1>9, <1>10 DEF Rising, Falling

-----------------------------------------------------------------------------
(* The invariant of the reads. *)

\* The flusher's blocks are the cache's, both tiers are finite, and heights
\* are bounded.
Stored ==
    /\ IsFiniteSet(db) /\ batch \subseteq cache
    /\ \A b \in cache \cup db : b.h <= MaxHeight

\* As long as heights are not repeated: everything from the first height to
\* the latest one is in the store, and the database has the blocks of the
\* cache from the oldest one on.
Filled ==
    /\ FirstHeight <= next /\ written = FirstHeight .. next - 1
    /\ \A b \in cache \cup db : FirstHeight <= b.h
    /\ \A b \in db : \A c \in cache : c.h < b.h => c \in db

ReaderTyped ==
    /\ call \in [op : {"none", "GetBlocks", "GetLatestBlocks", "GetLatestBlock"},
                 n : Nat, lo : Nat, hi : Int,
                 at : {"idle", "cache", "db", "rest", "done"}]
    /\ dirty \in Seq(Block) /\ result \in Seq(Block) /\ before \subseteq Nat
    /\ call.at # "idle" => call.op # "none" /\ call.n > 0
    /\ call.op = "GetLatestBlocks" => call.n \in Limits
    /\ call.op = "GetLatestBlock" => call.n = 1

\* No limit exceeds the height the feed starts at: the lower end of the range
\* GetLatestBlocks asks the database for does not wrap around below 0.
LimitsFit == \A n \in Limits : n <= FirstHeight

\* The range asked for, and what of it was in the store at the call.
Wanted == { h \in before : call.lo <= h /\ h <= call.lo + call.n - 1 }

Highest(h) == \A g \in before : g <= h

\* GetBlocks before each of its steps.
BlocksRead ==
    /\ FirstHeight <= call.lo
    /\ call.at = "cache" => call.hi = call.lo + call.n - 1
    /\ call.at = "db" => call.hi = call.lo + call.n - 1 /\ Wanted \subseteq Heights(db)
    /\ call.at = "rest" =>
          /\ Rising(dirty, call.hi) /\ call.lo <= call.hi + 1
          /\ call.lo .. call.hi \subseteq Heights(db)
          /\ \A h \in Wanted : h <= call.hi + Len(dirty)
    /\ call.at = "done" =>
          \E h \in Int : Rising(result, h) /\ Wanted \subseteq h + 1 .. h + Len(result)

\* The two latest-block calls before each of their steps.
LatestRead ==
    /\ call.at = "db" => before \subseteq Heights(db)
    /\ call.at = "rest" =>
          LET top == call.hi + Len(dirty)
          IN  /\ Falling(dirty, top + 1) /\ dirty # <<>> /\ Highest(top)
              /\ Len(dirty) < call.n
              /\ FirstHeight - 1 <= call.hi /\ top < next
              /\ FirstHeight .. call.hi \subseteq Heights(db)
              /\ LimitsFit => call.lo = top - call.n + 1
    /\ call.at = "done" /\ before # {} =>
          LET top == result[1].h
          IN  /\ Falling(result, top + 1) /\ result # <<>> /\ Highest(top) /\ top < next
              /\ Len(result) <= top - FirstHeight + 1
              /\ call.op = "GetLatestBlocks" /\ LimitsFit =>
                    /\ Len(result) <= call.n
                    /\ Len(result) < call.n => Len(result) = top - FirstHeight + 1

Reads ==
    /\ before \subseteq Heights(cache \cup db)
    /\ call.op = "GetBlocks" => BlocksRead
    /\ call.op \in {"GetLatestBlocks", "GetLatestBlock"} => LatestRead

RInv == Stored /\ ReaderTyped /\ (NoRewind => Filled /\ Reads)

-----------------------------------------------------------------------------
(* The two tiers while no height is repeated. *)

\* A set of heights has a lowest one, and a highest one when it is bounded.
LEMMA LowestHeight ==
    ASSUME NEW H \in SUBSET Nat, H # {}
    PROVE  \E m \in H : \A h \in H : m <= h
<1>1. PICK m \in H : \A h \in H : ~ (<<h, m>> \in OpToRel(<, Nat))
  BY NatLessThanWellFounded, WFMin
<1>2. ASSUME NEW h \in H PROVE m <= h
  <2>1. <<h, m>> \notin { ss \in Nat \X Nat : ss[1] < ss[2] }
    BY <1>1 DEF OpToRel
  <2>2. ~(h < m)
    BY <2>1
  <2> QED
    BY <2>2
<1> QED
  BY <1>2

\* The same upwards.
LEMMA HighestHeight ==
    ASSUME NEW H \in SUBSET Nat, H # {}, NEW n \in Nat, \A h \in H : h <= n
    PROVE  \E m \in H : \A h \in H : h <= m
<1> DEFINE G == { n - h : h \in H }
<1>1. \A h \in H : n - h \in Nat
  OBVIOUS
<1>2. G \in SUBSET Nat /\ G # {}
  BY <1>1
<1>3. PICK g \in G : \A k \in G : g <= k
  BY <1>2, LowestHeight
<1>4. PICK m \in H : g = n - m
  BY <1>3
<1>5. ASSUME NEW h \in H PROVE h <= m
  <2>1. n - m <= n - h
    BY <1>3, <1>4
  <2> QED
    BY <2>1
<1> QED
  BY <1>5

\* Types of what the tiers hold.
LEMMA TierTypes ==
    ASSUME IInv, Stored
    PROVE  /\ cache \subseteq Block /\ db \subseteq Block
           /\ IsFiniteSet(cache) /\ IsFiniteSet(db)
           /\ \A b \in cache \cup db : b.h \in Nat /\ b.h <= MaxHeight
           /\ next \in Nat /\ FirstHeight \in Nat /\ FirstHeight > 0 /\ MaxHeight \in Nat
BY ConstantsAssumption DEF IInv, Typed, Stored, Block

\* The store has exactly the heights from the first to the latest; the cache
\* has them from one on, the database up to one.
LEMMA Tiers ==
    ASSUME IInv, Stored, NoRewind, Filled
    PROVE  /\ Heights(cache \cup db) = FirstHeight .. next - 1
           /\ \A h \in FirstHeight .. next - 1 : h \in Heights(cache) \/ h \in Heights(db)
           /\ \A c \in cache : c.h .. next - 1 \subseteq Heights(cache)
           /\ \A b \in db : FirstHeight .. b.h \subseteq Heights(db)
           /\ \A a, b \in cache \cup db : a.h = b.h => a = b
           /\ \A b \in cache \cup db : FirstHeight <= b.h /\ b.h < next
<1>1. /\ OneVersion /\ RowsAreOlder /\ NoBlockLost
  BY DEF IInv, Newest
<1>2. \A b \in cache \cup db : FirstHeight <= b.h /\ b.h < next /\ b.h \in Nat
  BY <1>1, TierTypes DEF Filled, OneVersion
<1>3. Heights(cache \cup db) = FirstHeight .. next - 1
  <2>1. FirstHeight .. next - 1 \subseteq Heights(cache \cup db)
    BY <1>1 DEF NoBlockLost, Filled
  <2>2. ASSUME NEW h \in Heights(cache \cup db) PROVE h \in FirstHeight .. next - 1
    <3>1. PICK b \in cache \cup db : b.h = h
      BY <2>2 DEF Heights
    <3> QED
      BY <1>2, <3>1, TierTypes
  <2> QED
    BY <2>1, <2>2
<1>4. \A h \in FirstHeight .. next - 1 : h \in Heights(cache) \/ h \in Heights(db)
  BY <1>3 DEF Heights
<1>5. ASSUME NEW c \in cache, NEW h \in c.h .. next - 1 PROVE h \in Heights(cache)
  <2>1. h \in FirstHeight .. next - 1 /\ c.h <= h
    BY <1>2, TierTypes
  <2>2. CASE h \in Heights(db)
    <3>1. PICK b \in db : b.h = h
      BY <2>2 DEF Heights
    <3>2. b \in cache
      BY <1>1, <1>2, <2>1, <3>1 DEF RowsAreOlder
    <3> QED
      BY <3>1, <3>2 DEF Heights
  <2> QED
    BY <1>4, <2>1, <2>2
<1>6. ASSUME NEW b \in db, NEW h \in FirstHeight .. b.h PROVE h \in Heights(db)
  <2>1. h \in FirstHeight .. next - 1 /\ h <= b.h
    BY <1>2, TierTypes
  <2>2. CASE h \in Heights(cache)
    <3>1. PICK c \in cache : c.h = h
      BY <2>2 DEF Heights
    <3>2. CASE c.h = b.h
      BY <3>1, <3>2 DEF Heights
    <3>3. CASE c.h < b.h
      BY <3>1, <3>3 DEF Filled, Heights
    <3> QED
      BY <1>2, <2>1, <3>1, <3>2, <3>3
  <2> QED
    BY <1>4, <2>1, <2>2
<1> QED
  BY <1>1, <1>2, <1>3, <1>4, <1>5, <1>6 DEF OneVersion

\* A part of a tier that has every height of an interval, and no other.
LEMMA TierRun ==
    ASSUME IInv, Stored, NoRewind, Filled,
           NEW S, S \subseteq cache \/ S \subseteq db, NEW lo \in Int, NEW hi \in Int,
           \A b \in S : b.h \in lo .. hi, lo .. hi \subseteq Heights(S)
    PROVE  Run(S, lo, hi)
<1>1. S \subseteq Block /\ IsFiniteSet(S)
  BY TierTypes, FS_Subset
<1>2. \A a, b \in S : a.h = b.h => a = b
  BY Tiers
<1>3. Heights(S) = lo .. hi
  BY DEF Heights
<1> QED
  BY <1>1, <1>2, <1>3 DEF Run

-----------------------------------------------------------------------------
(* Steps of the router and the flusher. *)

\* A repeated height is never forgotten.
LEMMA RewindsStay == ASSUME IInv, [Next]_vars, NoRewind' PROVE NoRewind
BY DEF Next, NoRewind, IInv, Typed, vars, writer, PutBlocks, Rewind, Flusher, FlushRead,
       FlushPut, FlushDelete, FlushCrash, Reader, CallGetBlocks, CallGetLatestBlocks,
       CallGetLatestBlock, Call, ReadCache, ReadDb, ReadRest, Return

\* Router and flusher do not touch the reader, nor the reader the store.
LEMMA StepKinds ==
    ASSUME [Next]_vars
    PROVE  \/ (PutBlocks \/ Rewind \/ Flusher \/ FlushCrash) /\ UNCHANGED reader
           \/ Reader /\ UNCHANGED <<cache, db, writer, flush>>
           \/ UNCHANGED vars
<1>1. CASE PutBlocks \/ Rewind
  BY <1>1 DEF PutBlocks, Rewind
<1>2. CASE Flusher \/ FlushCrash
  BY <1>2 DEF Flusher, FlushRead, FlushPut, FlushDelete, FlushCrash
<1>3. CASE Reader
  BY <1>3 DEF Reader, CallGetBlocks, CallGetLatestBlocks, CallGetLatestBlock, Call,
              ReadCache, ReadDb, ReadRest, Return
<1> QED
  BY <1>1, <1>2, <1>3 DEF Next

\* What a batch of the router adds.
LEMMA PutBlocksAdds ==
    ASSUME IInv, PutBlocks
    PROVE  \E k \in Nat \ {0} :
              /\ next' = next + k /\ next + k - 1 <= MaxHeight
              /\ written' = written \cup (next .. next + k - 1)
              /\ cache \subseteq cache'
              /\ \A b \in cache' : b \in cache \/ (next <= b.h /\ b.h < next + k)
              /\ UNCHANGED <<db, batch>>
<1>1. PICK k \in 1 .. BatchSize :
        /\ next + k - 1 <= MaxHeight
        /\ \E d \in [next .. next + k - 1 -> Data] :
              cache' = cache \cup { [h |-> h, d |-> d[h]] : h \in next .. next + k - 1 }
        /\ written' = written \cup (next .. next + k - 1)
        /\ next' = next + k
        /\ UNCHANGED <<db, batch>>
  BY DEF PutBlocks, flush
<1>2. PICK d \in [next .. next + k - 1 -> Data] :
        cache' = cache \cup { [h |-> h, d |-> d[h]] : h \in next .. next + k - 1 }
  BY <1>1
<1>3. k \in Nat \ {0} /\ next \in Nat
  BY ConstantsAssumption DEF IInv, Typed
<1>4. \A h \in next .. next + k - 1 : next <= h /\ h < next + k
  BY <1>3
<1>5. \A b \in cache' : b \in cache \/ (next <= b.h /\ b.h < next + k)
  BY <1>2, <1>4
<1> QED
  BY <1>1, <1>2, <1>3, <1>5

\* Sizes and bounds of the tiers.
LEMMA StoredStep == ASSUME IInv, IInv', Stored, [Next]_vars PROVE Stored'
<1>1. CASE PutBlocks
  <2>1. PICK k \in Nat \ {0} :
          /\ next + k - 1 <= MaxHeight /\ cache \subseteq cache'
          /\ \A b \in cache' : b \in cache \/ (next <= b.h /\ b.h < next + k)
          /\ UNCHANGED <<db, batch>>
    BY <1>1, PutBlocksAdds
  <2>2. \A b \in cache' : b.h \in Nat
    BY DEF IInv, Typed, Block
  <2>3. \A b \in cache' : b.h <= MaxHeight
    BY <2>1, <2>2, ConstantsAssumption DEF Stored, IInv, Typed
  <2> QED
    BY <2>1, <2>3 DEF Stored
<1>2. CASE Rewind
  BY <1>2 DEF Rewind, Stored, flush
<1>3. CASE FlushRead
  BY <1>3 DEF FlushRead, Stored, Earliest
<1>4. CASE FlushPut
  <2>1. Inserted(batch) \subseteq batch
    BY DEF Inserted
  <2>2. IsFiniteSet(db \cup Inserted(batch))
    BY <2>1, FS_Union, FS_Subset DEF IInv, Stored
  <2> QED
    BY <1>4, <2>1, <2>2 DEF FlushPut, Stored
<1>5. CASE FlushDelete
  BY <1>5 DEF FlushDelete, Stored
<1>6. CASE FlushCrash
  BY <1>6 DEF FlushCrash, Stored
<1>7. CASE UNCHANGED <<cache, db, writer, flush>>
  BY <1>7 DEF Stored, flush
<1> QED
  BY <1>1, <1>2, <1>3, <1>4, <1>5, <1>6, <1>7, StepKinds DEF Flusher, vars

\* The store stays without holes while no height is repeated.
LEMMA FilledStep ==
    ASSUME IInv, IInv', Stored, NoRewind, Filled, NoRewind', [Next]_vars
    PROVE  Filled'
<1> USE DEF Filled
<1>1. CASE PutBlocks
  <2>1. PICK k \in Nat \ {0} :
          /\ next' = next + k
          /\ written' = written \cup (next .. next + k - 1)
          /\ \A b \in cache' : b \in cache \/ (next <= b.h /\ b.h < next + k)
          /\ UNCHANGED <<db, batch>>
    BY <1>1, PutBlocksAdds
  <2>2. written' = FirstHeight .. next' - 1 /\ FirstHeight <= next'
    <3>1. FirstHeight \in Nat /\ next \in Nat /\ k \in Nat /\ k > 0 /\ FirstHeight <= next
      BY TierTypes
    <3>2. written' = (FirstHeight .. next - 1) \cup (next .. next + k - 1)
      BY <2>1
    <3>3. (FirstHeight .. next - 1) \cup (next .. next + k - 1) = FirstHeight .. next + k - 1
      BY <3>1
    <3> QED
      BY <2>1, <3>1, <3>2, <3>3
  <2>3. \A b \in cache' \cup db' : b.h \in Nat /\ FirstHeight <= b.h
    <3>1. \A b \in cache' \cup db' : b.h \in Nat
      BY DEF IInv, Typed, Block
    <3> QED
      BY <2>1, <3>1, TierTypes
  <2>4. ASSUME NEW b \in db', NEW c \in cache', c.h < b.h PROVE c \in db'
    <3>1. b \in db /\ b.h < next /\ b.h \in Nat /\ c.h \in Nat /\ next \in Nat
      BY <2>1, <2>3, <2>4, Tiers, TierTypes
    <3>2. c \in cache
      BY <2>1, <2>4, <3>1
    <3> QED
      BY <2>1, <2>4, <3>1, <3>2
  <2> QED
    BY <2>2, <2>3, <2>4
<1>2. CASE Rewind
  BY <1>2 DEF Rewind, NoRewind, IInv, Typed
<1>3. CASE FlushRead \/ FlushCrash
  BY <1>3 DEF FlushRead, FlushCrash, writer
<1>4. CASE FlushPut
  <2>1. /\ Inserted(batch) \subseteq batch /\ batch \subseteq cache
        /\ Heights(batch) \subseteq Heights(db')
        /\ db' = db \cup Inserted(batch) /\ UNCHANGED <<cache, next, written>>
    BY <1>4, InsertedCovers DEF IInv, Stored, FlushPut, writer
  <2>2. ASSUME NEW b \in db', NEW c \in cache', c.h < b.h PROVE c \in db'
    <3>1. CASE b \in db
      BY <2>1, <2>2, <3>1
    <3>2. CASE b \in batch
      <4>1. c \in batch
        BY <2>1, <2>2, <3>2, TierTypes DEF IInv, Newest, BatchIsOldest
      <4>2. PICK a \in db' : a.h = c.h
        BY <2>1, <4>1 DEF Heights
      <4>3. a = c
        BY <2>1, <2>2, <4>2, Tiers
      <4> QED
        BY <4>2, <4>3
    <3> QED
      BY <2>1, <2>2, <3>1, <3>2
  <2> QED
    BY <2>1, <2>2
<1>5. CASE FlushDelete
  BY <1>5 DEF FlushDelete, writer
<1>6. CASE UNCHANGED <<cache, db, writer, flush>>
  BY <1>6 DEF writer
<1> QED
  BY <1>1, <1>2, <1>3, <1>4, <1>5, <1>6, StepKinds DEF Flusher, vars

\* What the reads rely on grows: the rows, the heights in the store.
LEMMA StoreGrows ==
    ASSUME IInv, IInv', Stored, Stored', NoRewind, NoRewind', Filled, Filled', [Next]_vars
    PROVE  /\ Heights(db) \subseteq Heights(db') /\ next <= next'
           /\ Heights(cache \cup db) \subseteq Heights(cache \cup db)'
<1>1. Heights(db) \subseteq Heights(db') /\ next <= next' /\ written \subseteq written'
  <2>1. CASE PutBlocks
    BY <2>1, PutBlocksAdds, TierTypes
  <2>2. CASE Rewind
    BY <2>2 DEF Rewind, NoRewind, IInv, Typed
  <2>3. CASE Flusher \/ FlushCrash
    BY <2>3, TierTypes DEF Flusher, FlushRead, FlushPut, FlushDelete, FlushCrash, writer, Heights
  <2>4. CASE UNCHANGED <<cache, db, writer, flush>>
    <3>1. db' = db /\ next' = next /\ written' = written
      BY <2>4 DEF writer
    <3>2. next \in Nat
      BY TierTypes
    <3> QED
      BY <3>1, <3>2 DEF Heights
  <2> QED
    BY <2>1, <2>2, <2>3, <2>4, StepKinds DEF vars
<1>2. Heights(cache \cup db) = written
  BY Tiers DEF Filled
<1>3. written' \subseteq Heights(cache \cup db)'
  BY DEF IInv, NoBlockLost
<1> QED
  BY <1>1, <1>2, <1>3

\* What a read has found so far stays true while the router and the flusher
\* work.
LEMMA QuietReads ==
    ASSUME IInv, IInv', Stored, Stored', NoRewind, NoRewind', Filled, Filled', Reads,
           ReaderTyped, [Next]_vars, UNCHANGED reader
    PROVE  Reads'
<1>1. UNCHANGED <<call, dirty, result, before>>
  BY DEF reader
<1>2. /\ Heights(db) \subseteq Heights(db') /\ next <= next'
      /\ Heights(cache \cup db) \subseteq Heights(cache \cup db)'
  BY StoreGrows
<1>3. before' \subseteq Heights(cache \cup db)'
  BY <1>1, <1>2 DEF Reads
<1>4. ASSUME BlocksRead PROVE BlocksRead'
  BY <1>1, <1>2, <1>4 DEF BlocksRead, Wanted
<1>5. ASSUME LatestRead PROVE LatestRead'
  <2>1. next \in Nat /\ next' \in Nat
    BY DEF IInv, Typed
  <2>2. \A h \in Int : h < next => h < next'
    BY <1>2, <2>1
  <2>3. call.at' = "db" => before' \subseteq Heights(db')
    BY <1>1, <1>2, <1>5 DEF LatestRead
  <2>4. ASSUME call.at = "rest"
        PROVE  call.hi + Len(dirty) < next' /\ FirstHeight .. call.hi \subseteq Heights(db')
    <3>1. call.hi + Len(dirty) \in Int
      BY DEF ReaderTyped
    <3>2. call.hi + Len(dirty) < next /\ FirstHeight .. call.hi \subseteq Heights(db)
      BY <1>5, <2>4 DEF LatestRead
    <3> QED
      BY <1>2, <2>2, <3>1, <3>2
  <2>5. ASSUME call.at = "done", before # {}
        PROVE  result[1].h < next'
    <3>1. result # <<>> /\ result[1].h < next
      BY <1>5, <2>5 DEF LatestRead
    <3>2. result[1] \in Block
      BY <3>1, EmptySeq, ElementOfSeq DEF ReaderTyped
    <3> QED
      BY <2>2, <3>1, <3>2 DEF Block
  <2> QED
    BY <1>1, <1>2, <1>5, <2>3, <2>4, <2>5, Zenon DEF LatestRead, Highest
<1> QED
  BY <1>1, <1>3, <1>4, <1>5 DEF Reads

-----------------------------------------------------------------------------
(* The reader's steps. *)

\* The larger of 0 and a natural number.
LEMMA MaxOfZero == ASSUME NEW n \in Nat PROVE Max({0, n}) = n
<1>1. \E x \in {0, n} : \A y \in {0, n} : x >= y
  OBVIOUS
<1>2. Max({0, n}) \in {0, n} /\ \A y \in {0, n} : Max({0, n}) >= y
  BY <1>1 DEF Max
<1> QED
  BY <1>2

\* An unsigned number.
LEMMA WrapType ==
    ASSUME NEW n \in Int
    PROVE  Wrap(n) \in Nat /\ (0 <= n /\ n <= MaxHeight => Wrap(n) = n)
BY ConstantsAssumption DEF Wrap

\* Lists of a finite set of blocks.
LEMMA ListTypes ==
    ASSUME NEW S, S \subseteq Block, IsFiniteSet(S)
    PROVE  /\ Ascending(S) \in Seq(Block) /\ Descending(S) \in Seq(Block)
           /\ Len(Ascending(S)) = Cardinality(S) /\ Len(Descending(S)) = Cardinality(S)
           /\ Reverse(Ascending(S)) = Descending(S)
           /\ Ascending(S) = <<>> <=> S = {}
           /\ Descending(S) = <<>> <=> S = {}
<1> DEFINE A == Ascending(S)
           D == Descending(S)
           n == Cardinality(S)
<1>1. /\ A \in Seq(S) /\ Len(A) = n /\ n \in Nat
      /\ \A i \in 1 .. n : A[i] \in S
  BY AscendingType
<1>2. A \in Seq(Block)
  BY <1>1, SeqMonotonic
<1>3. D = [i \in 1 .. n |-> A[n - i + 1]]
  BY <1>1 DEF Descending, Reverse
<1>4. \A i \in 1 .. n : n - i + 1 \in 1 .. n
  BY <1>1
<1>5. D \in [1 .. n -> Block]
  BY <1>1, <1>3, <1>4
<1>6. D \in Seq(Block) /\ Len(D) = n
  BY <1>1, <1>5
<1>7. n = 0 <=> S = {}
  BY FS_EmptySet
<1>8. \A s \in Seq(Block) : s = <<>> <=> Len(s) = 0
  BY EmptySeq
<1> QED
  BY <1>1, <1>2, <1>6, <1>7, <1>8 DEF Descending

\* What both tiers answer is a list of blocks.
LEMMA AnswerTypes ==
    ASSUME IInv, Stored, NEW lo, NEW hi, NEW n
    PROVE  /\ InRange(cache, lo, hi) \subseteq Block /\ IsFiniteSet(InRange(cache, lo, hi))
           /\ InRange(db, lo, hi) \subseteq Block /\ IsFiniteSet(InRange(db, lo, hi))
           /\ Latest(cache, n) \subseteq Block /\ IsFiniteSet(Latest(cache, n))
           /\ Latest(db, n) \subseteq Block /\ IsFiniteSet(Latest(db, n))
           /\ FromCache \in Seq(Block)
<1>1. \A S, l, h : InRange(S, l, h) \subseteq S
  BY DEF InRange
<1>2. \A S, m : Latest(S, m) \subseteq S
  BY DEF Latest
<1>3. \A l, h : InRange(cache, l, h) \subseteq Block /\ IsFiniteSet(InRange(cache, l, h))
  BY <1>1, TierTypes, FS_Subset
<1>4. InRange(db, lo, hi) \subseteq Block /\ IsFiniteSet(InRange(db, lo, hi))
  BY <1>1, TierTypes, FS_Subset
<1>5. \A m : Latest(cache, m) \subseteq Block /\ IsFiniteSet(Latest(cache, m))
  BY <1>2, TierTypes, FS_Subset
<1>6. Latest(db, n) \subseteq Block /\ IsFiniteSet(Latest(db, n))
  BY <1>2, TierTypes, FS_Subset
<1>7. FromCache \in Seq(Block)
  BY <1>3, <1>5, ListTypes DEF FromCache
<1> QED
  BY <1>3, <1>4, <1>5, <1>6, <1>7

\* The range of the database is a range of heights.
LEMMA DbRangeType ==
    ASSUME ReaderTyped, NEW s \in Seq(Block), s # <<>>
    PROVE  DbRange(s)[1] \in Nat /\ DbRange(s)[2] \in Int
<1>1. Len(s) \in Nat \ {0} /\ s[1] \in Block /\ s[Len(s)] \in Block
  BY EmptySeq, ElementOfSeq
<1>2. s[1].h - 1 \in Int /\ s[Len(s)].h - 1 \in Int
  BY <1>1 DEF Block
<1>3. call.lo \in Nat /\ call.n \in Nat
  BY DEF ReaderTyped
<1> DEFINE e == s[Len(s)].h - 1
           w == Wrap(e - (call.n - Len(s)) + 1)
<1>4. e - (call.n - Len(s)) + 1 \in Int
  BY <1>1, <1>2, <1>3
<1>5. w \in Nat /\ Max({0, w}) = w
  BY <1>4, WrapType, MaxOfZero
<1>6. DbRange(s) = IF call.op = "GetBlocks" THEN <<call.lo, s[1].h - 1>> ELSE <<Max({0, w}), e>>
  BY DEF DbRange
<1> HIDE DEF w, e
<1> QED
  BY <1>2, <1>3, <1>5, <1>6 DEF e

\* The reader's variables keep their types.
LEMMA ReaderTypedStep ==
    ASSUME IInv, Stored, ReaderTyped, [Next]_vars PROVE ReaderTyped'
<1> DEFINE Calls == [op : {"none", "GetBlocks", "GetLatestBlocks", "GetLatestBlock"},
                     n : Nat, lo : Nat, hi : Int,
                     at : {"idle", "cache", "db", "rest", "done"}]
<1>1. CASE UNCHANGED reader
  BY <1>1 DEF ReaderTyped, reader
<1>2. CASE CallGetBlocks \/ CallGetLatestBlocks \/ CallGetLatestBlock
  <2>1. Heights(cache \cup db) \subseteq Nat
    BY TierTypes DEF Heights
  <2>2. PICK o \in {"GetBlocks", "GetLatestBlocks", "GetLatestBlock"}, n \in Nat \ {0},
             lo \in Nat, hi \in Int :
          /\ Call(o, n, lo, hi)
          /\ o = "GetLatestBlocks" => n \in Limits
          /\ o = "GetLatestBlock" => n = 1
    <3>1. CASE CallGetBlocks
      <4>1. PICK lo \in FirstHeight .. MaxHeight, n \in Limits :
              Call("GetBlocks", n, lo, lo + n - 1)
        BY <3>1 DEF CallGetBlocks
      <4>2. lo \in Nat /\ n \in Nat \ {0} /\ lo + n - 1 \in Int
        BY ConstantsAssumption
      <4> QED
        BY <4>1, <4>2
    <3>2. CASE CallGetLatestBlocks
      BY <3>2, ConstantsAssumption DEF CallGetLatestBlocks
    <3>3. CASE CallGetLatestBlock
      BY <3>3 DEF CallGetLatestBlock
    <3> QED
      BY <1>2, <3>1, <3>2, <3>3
  <2>3. /\ call' = [op |-> o, n |-> n, lo |-> lo, hi |-> hi, at |-> "cache"]
        /\ dirty' = <<>> /\ result' = <<>> /\ before' \subseteq Nat
    BY <2>1, <2>2 DEF Call
  <2> QED
    BY <2>2, <2>3 DEF ReaderTyped
<1>3. CASE ReadCache
  <2>1. /\ dirty' = FromCache /\ FromCache \in Seq(Block) /\ before' = before
        /\ result' = result \/ result' = FromCache
    BY <1>3, AnswerTypes DEF ReadCache
  <2>2. \/ call' = [call EXCEPT !.at = "done"]
        \/ call' = [call EXCEPT !.at = "db"]
        \/ /\ FromCache # <<>>
           /\ call' = [call EXCEPT !.lo = DbRange(FromCache)[1],
                                   !.hi = DbRange(FromCache)[2], !.at = "rest"]
    BY <1>3 DEF ReadCache
  <2>3. /\ call' \in Calls /\ call'.op = call.op /\ call'.n = call.n
    BY <2>1, <2>2, DbRangeType DEF ReaderTyped
  <2>4. call.at = "cache"
    BY <1>3 DEF ReadCache
  <2> QED
    BY <2>1, <2>3, <2>4 DEF ReaderTyped
<1>4. CASE ReadDb
  <2>1. \A S : S \subseteq Block /\ IsFiniteSet(S) =>
          Ascending(S) \in Seq(Block) /\ Descending(S) \in Seq(Block)
    BY ListTypes
  <2>2. result' \in Seq(Block)
    BY <1>4, <2>1, AnswerTypes DEF ReadDb
  <2>3. call' = [call EXCEPT !.at = "done"] /\ call.at = "db" /\ UNCHANGED <<dirty, before>>
    BY <1>4 DEF ReadDb
  <2> QED
    BY <2>2, <2>3 DEF ReaderTyped
<1>5. CASE ReadRest
  <2> DEFINE A == Ascending(InRange(db, call.lo, call.hi))
  <2>1. A \in Seq(Block) /\ Reverse(A) \in Seq(Block)
    BY AnswerTypes, ListTypes
  <2>2. result' = A \o dirty \/ result' = dirty \o Reverse(A)
    BY <1>5 DEF ReadRest
  <2> HIDE DEF A
  <2>3. result' \in Seq(Block)
    <3>1. \A s, t \in Seq(Block) : s \o t \in Seq(Block)
      OBVIOUS
    <3> QED
      BY <2>1, <2>2, <3>1 DEF ReaderTyped
  <2>4. call' = [call EXCEPT !.at = "done"] /\ call.at = "rest" /\ UNCHANGED <<dirty, before>>
    BY <1>5 DEF ReadRest
  <2> QED
    BY <2>3, <2>4 DEF ReaderTyped
<1>6. CASE Return
  <2>1. call' \in Calls /\ call'.at = "idle" /\ call'.op = "none"
    BY <1>6 DEF Return, Idle
  <2>2. dirty' = <<>> /\ result' = <<>> /\ before' = {}
    BY <1>6 DEF Return
  <2> QED
    BY <2>1, <2>2 DEF ReaderTyped
<1> QED
  BY <1>1, <1>2, <1>3, <1>4, <1>5, <1>6, StepKinds DEF Reader, vars

-----------------------------------------------------------------------------
(* What the tiers answer while no height is repeated. *)

\* ZRANGE -n -1 of a set without holes has none either.
LEMMA RunLatest ==
    ASSUME NEW S, NEW l \in Int, NEW m \in Int, Run(S, l, m), l <= m, NEW n \in Nat \ {0}
    PROVE  \E k \in l .. m : /\ Run(Latest(S, n), k, m)
                             /\ m - k + 1 <= n /\ (m - k + 1 < n => k = l)
<1> DEFINE k == IF m - n + 1 > l THEN m - n + 1 ELSE l
           L == Latest(S, n)
<1>1. k \in l .. m /\ m - k + 1 <= n /\ (m - k + 1 < n => k = l)
  OBVIOUS
<1>2. \A b \in S : b.h \in l .. m
  BY DEF Run, Heights
<1>3. L = { b \in S : m - b.h < n }
  BY RunRanks DEF Latest
<1>4. \A b \in S : b \in L <=> b.h >= k
  <2>1. \A h \in l .. m : m - h < n <=> h >= k
    OBVIOUS
  <2> QED
    BY <1>2, <1>3, <2>1
<1> HIDE DEF k, L
<1>5. L \subseteq S /\ IsFiniteSet(L) /\ L \subseteq Block
  <2>1. L \subseteq S
    BY <1>3
  <2> QED
    BY <2>1, FS_Subset DEF Run
<1>6. Heights(L) = k .. m
  <2>1. ASSUME NEW h \in Heights(L) PROVE h \in k .. m
    <3>1. PICK b \in L : b.h = h
      BY DEF Heights
    <3>2. h \in l .. m /\ h >= k
      BY <1>2, <1>4, <1>5, <3>1
    <3> QED
      BY <1>1, <3>2
  <2>2. ASSUME NEW h \in k .. m PROVE h \in Heights(L)
    <3>1. h \in l .. m /\ h >= k
      BY <1>1
    <3>2. PICK b \in S : b.h = h
      BY <3>1 DEF Run, Heights
    <3> QED
      BY <1>4, <3>1, <3>2 DEF Heights
  <2> QED
    BY <2>1, <2>2
<1>7. Run(L, k, m)
  BY <1>5, <1>6 DEF Run
<1> QED
  BY <1>1, <1>7 DEF L

\* What the cache has of a range of heights: an interval that reaches up to
\* the end of the range or to the latest block; what is missing below it is
\* in the database.
LEMMA CacheRange ==
    ASSUME IInv, Stored, NoRewind, Filled, NEW lo \in Int, NEW hi \in Int,
           InRange(cache, lo, hi) # {}
    PROVE  \E l \in FirstHeight .. next - 1, m \in FirstHeight .. next - 1 :
              /\ Run(InRange(cache, lo, hi), l, m)
              /\ lo <= l /\ l <= m /\ m <= hi /\ (m = hi \/ m = next - 1)
              /\ \A h \in FirstHeight .. l - 1 : lo <= h => h \in Heights(db)
<1> DEFINE S == InRange(cache, lo, hi)
           m == IF hi < next - 1 THEN hi ELSE next - 1
<1>1. /\ S \subseteq cache /\ \A b \in S : lo <= b.h /\ b.h <= hi
      /\ \A b \in cache : lo <= b.h /\ b.h <= hi => b \in S
  BY DEF InRange
<1>2. \A b \in cache : b.h \in Nat /\ FirstHeight <= b.h /\ b.h < next
  BY TierTypes, Tiers
<1>3. Heights(S) \subseteq Nat /\ Heights(S) # {}
  BY <1>1, <1>2 DEF Heights
<1>4. PICK l \in Heights(S) : \A h \in Heights(S) : l <= h
  BY <1>3, LowestHeight
<1>5. PICK c \in S : c.h = l
  BY <1>4 DEF Heights
<1>6. FirstHeight \in Nat /\ next \in Nat
  BY TierTypes
<1>7. /\ lo <= l /\ l <= hi /\ FirstHeight <= l /\ l <= next - 1 /\ l \in Nat
  BY <1>1, <1>2, <1>5, <1>6
<1>8. m \in Int /\ l <= m /\ m <= hi /\ m <= next - 1 /\ (m = hi \/ m = next - 1)
  BY <1>6, <1>7
<1>9. \A b \in S : b.h \in l .. m
  <2> SUFFICES ASSUME NEW b \in S PROVE b.h \in l .. m
    OBVIOUS
  <2>1. b.h \in Heights(S)
    BY DEF Heights
  <2>2. l <= b.h
    BY <1>4, <2>1
  <2>3. b.h \in Nat /\ b.h < next /\ b.h <= hi
    BY <1>1, <1>2
  <2> QED
    BY <1>6, <1>7, <2>2, <2>3
<1> HIDE DEF m
<1>10. ASSUME NEW h \in l .. m PROVE h \in Heights(S)
  <2>1. h \in c.h .. next - 1 /\ lo <= h /\ h <= hi
    BY <1>5, <1>6, <1>7, <1>8
  <2>2. h \in Heights(cache)
    BY <1>1, <2>1, Tiers
  <2>3. PICK b \in cache : b.h = h
    BY <2>2 DEF Heights
  <2> QED
    BY <1>1, <2>1, <2>3 DEF Heights
<1> HIDE DEF S
<1>11. Run(S, l, m)
  BY <1>1, <1>7, <1>8, <1>9, <1>10, TierRun
<1>12. ASSUME NEW h \in FirstHeight .. l - 1, lo <= h PROVE h \in Heights(db)
  <2>1. h \in FirstHeight .. next - 1 /\ h < l /\ h <= hi
    BY <1>6, <1>7
  <2>2. h \notin Heights(cache)
    <3> SUFFICES ASSUME NEW b \in cache, b.h = h PROVE FALSE
      BY DEF Heights
    <3>1. lo <= b.h /\ b.h <= hi
      BY <1>12, <2>1
    <3>2. b \in S
      BY <1>1, <3>1
    <3>3. b.h >= l
      BY <1>8, <1>9, <3>2
    <3> QED
      BY <1>7, <2>1, <3>3
  <2> QED
    BY <2>1, <2>2, Tiers
<1>13. l \in FirstHeight .. next - 1 /\ m \in FirstHeight .. next - 1
  BY <1>6, <1>7, <1>8
<1> QED
  BY <1>7, <1>8, <1>11, <1>12, <1>13 DEF S

\* The whole cache is an interval up to the latest block.
LEMMA CacheRun ==
    ASSUME IInv, Stored, NoRewind, Filled, cache # {}
    PROVE  \E l \in FirstHeight .. next - 1 :
              /\ Run(cache, l, next - 1)
              /\ FirstHeight .. l - 1 \subseteq Heights(db)
<1>1. FirstHeight \in Nat /\ next \in Nat
  BY TierTypes
<1>2. \A b \in cache : b.h \in Nat /\ FirstHeight <= b.h /\ b.h < next
  BY TierTypes, Tiers
<1>3. InRange(cache, FirstHeight, next - 1) = cache
  BY <1>1, <1>2 DEF InRange
<1>4. PICK l \in FirstHeight .. next - 1, m \in FirstHeight .. next - 1 :
        /\ Run(cache, l, m) /\ (m = next - 1 \/ m = next - 1)
        /\ \A h \in FirstHeight .. l - 1 : FirstHeight <= h => h \in Heights(db)
  <2> DEFINE S == InRange(cache, FirstHeight, next - 1)
             t == next - 1
  <2>1. S # {} /\ t \in Int /\ FirstHeight \in Int
    BY <1>1, <1>3
  <2>2. \E l \in FirstHeight .. t, m \in FirstHeight .. t :
          /\ Run(S, l, m) /\ (m = t \/ m = t)
          /\ \A h \in FirstHeight .. l - 1 : FirstHeight <= h => h \in Heights(db)
    BY <2>1, CacheRange
  <2> QED
    BY <1>3, <2>2
<1>5. FirstHeight .. l - 1 \subseteq Heights(db)
  BY <1>1, <1>4
<1> QED
  BY <1>4, <1>5

\* The whole database is an interval from the first block on.
LEMMA DbRun ==
    ASSUME IInv, Stored, NoRewind, Filled, db # {}
    PROVE  \E m \in FirstHeight .. next - 1 : Run(db, FirstHeight, m)
<1>1. FirstHeight \in Nat /\ next \in Nat /\ MaxHeight \in Nat
  BY TierTypes
<1>2. \A b \in db : b.h \in Nat /\ FirstHeight <= b.h /\ b.h < next /\ b.h <= MaxHeight
  BY TierTypes, Tiers
<1>3. Heights(db) \subseteq Nat /\ Heights(db) # {} /\ \A h \in Heights(db) : h <= MaxHeight
  BY <1>2 DEF Heights
<1>4. PICK m \in Heights(db) : \A h \in Heights(db) : h <= m
  BY <1>1, <1>3, HighestHeight
<1>5. PICK b \in db : b.h = m
  BY <1>4 DEF Heights
<1>6. m \in FirstHeight .. next - 1
  BY <1>1, <1>2, <1>5
<1>7. \A a \in db : a.h \in FirstHeight .. m
  <2> SUFFICES ASSUME NEW a \in db PROVE a.h \in FirstHeight .. m
    OBVIOUS
  <2>1. a.h \in Heights(db)
    BY DEF Heights
  <2>2. a.h <= m
    BY <1>4, <2>1
  <2> QED
    BY <1>1, <1>2, <1>6, <2>2
<1>8. FirstHeight .. m \subseteq Heights(db)
  BY <1>5, Tiers
<1>9. Run(db, FirstHeight, m)
  BY <1>1, <1>6, <1>7, <1>8, TierRun
<1> QED
  BY <1>6, <1>9

\* The rows of a range whose heights the table has, and of a range that
\* begins inside the table.
LEMMA DbRange2 ==
    ASSUME IInv, Stored, NoRewind, Filled, NEW lo \in Int, NEW hi \in Int
    PROVE  /\ lo .. hi \subseteq Heights(db) => Run(InRange(db, lo, hi), lo, hi)
           /\ FirstHeight <= lo /\ InRange(db, lo, hi) # {} =>
                 \E m \in lo .. hi : /\ Run(InRange(db, lo, hi), lo, m)
                                     /\ \A h \in Heights(db) : h <= hi => h <= m
<1> DEFINE S == InRange(db, lo, hi)
<1>1. /\ S \subseteq db /\ \A b \in S : lo <= b.h /\ b.h <= hi
      /\ \A b \in db : lo <= b.h /\ b.h <= hi => b \in S
  BY DEF InRange
<1>2. \A b \in db : b.h \in Nat
  BY TierTypes
<1>3. ASSUME NEW m \in Int, m <= hi, lo .. m \subseteq Heights(db), \A b \in S : b.h <= m
      PROVE  Run(S, lo, m)
  <2>1. \A b \in S : b.h \in lo .. m
    BY <1>1, <1>2, <1>3
  <2>2. ASSUME NEW h \in lo .. m PROVE h \in Heights(S)
    <3>1. PICK b \in db : b.h = h
      BY <1>3 DEF Heights
    <3>2. lo <= b.h /\ b.h <= hi
      BY <1>3, <3>1
    <3> QED
      BY <1>1, <3>1, <3>2 DEF Heights
  <2> HIDE DEF S
  <2> QED
    BY <1>1, <2>1, <2>2, TierRun
<1>4. lo .. hi \subseteq Heights(db) => Run(S, lo, hi)
  BY <1>1, <1>3
<1>5. ASSUME FirstHeight <= lo, S # {}
      PROVE  \E m \in lo .. hi : Run(S, lo, m) /\ \A h \in Heights(db) : h <= hi => h <= m
  <2>1. Heights(S) \subseteq Nat /\ Heights(S) # {}
    BY <1>1, <1>2, <1>5 DEF Heights
  <2>2. PICK a \in S : TRUE
    BY <1>5
  <2>3. hi \in Nat
    BY <1>1, <1>2, <2>2
  <2>4. \A h \in Heights(S) : h <= hi
    BY <1>1 DEF Heights
  <2>5. PICK m \in Heights(S) : \A h \in Heights(S) : h <= m
    BY <2>1, <2>3, <2>4, HighestHeight
  <2>6. PICK b \in S : b.h = m
    BY <2>5 DEF Heights
  <2>7. m \in lo .. hi /\ b \in db
    BY <1>1, <1>2, <2>6
  <2>8. lo .. m \subseteq Heights(db)
    <3>1. FirstHeight .. m \subseteq Heights(db)
      BY <2>6, <2>7, Tiers
    <3>2. FirstHeight \in Nat
      BY TierTypes
    <3>3. lo .. m \subseteq FirstHeight .. m
      BY <1>5, <2>7, <3>2
    <3> QED
      BY <3>1, <3>3
  <2>9. \A c \in S : c.h <= m
    BY <2>5 DEF Heights
  <2>10. Run(S, lo, m)
    BY <1>3, <2>7, <2>8, <2>9
  <2>11. ASSUME NEW h \in Heights(db), h <= hi PROVE h <= m
    <3>1. PICK c \in db : c.h = h
      BY <2>11 DEF Heights
    <3>2. CASE lo <= h
      BY <1>1, <2>9, <2>11, <3>1, <3>2
    <3>3. CASE ~(lo <= h)
      <4>1. h \in Nat
        BY <1>2, <3>1
      <4> QED
        BY <2>7, <3>3, <4>1
    <3> QED
      BY <3>2, <3>3
  <2> QED
    BY <2>7, <2>10, <2>11
<1> QED
  BY <1>4, <1>5

-----------------------------------------------------------------------------
(* Every step of the reader keeps what it relies on. *)

\* A call begins with the store as it is.
LEMMA CallReads ==
    ASSUME IInv, Stored, NoRewind, Filled, ReaderTyped,
           CallGetBlocks \/ CallGetLatestBlocks \/ CallGetLatestBlock
    PROVE  Reads'
<1>1. before' = Heights(cache \cup db) /\ UNCHANGED <<cache, db>>
  BY DEF CallGetBlocks, CallGetLatestBlocks, CallGetLatestBlock, Call
<1>2. CASE CallGetBlocks
  <2>1. PICK lo \in FirstHeight .. MaxHeight, n \in Limits :
          call' = [op |-> "GetBlocks", n |-> n, lo |-> lo, hi |-> lo + n - 1, at |-> "cache"]
    BY <1>2 DEF CallGetBlocks, Call
  <2>2. FirstHeight <= lo
    BY ConstantsAssumption
  <2> QED
    BY <1>1, <2>1, <2>2 DEF Reads, BlocksRead
<1>3. CASE CallGetLatestBlocks \/ CallGetLatestBlock
  <2>1. call'.op \in {"GetLatestBlocks", "GetLatestBlock"} /\ call'.at = "cache"
    BY <1>3 DEF CallGetLatestBlocks, CallGetLatestBlock, Call
  <2> QED
    BY <1>1, <2>1 DEF Reads, LatestRead
<1> QED
  BY <1>2, <1>3

\* The call to the cache in GetBlocks.
LEMMA ReadCacheBlocks ==
    ASSUME IInv, Stored, NoRewind, Filled, ReaderTyped, ReadCache,
           call.op = "GetBlocks", BlocksRead, before \subseteq Heights(cache \cup db)
    PROVE  BlocksRead'
<1> DEFINE lo == call.lo
           n  == call.n
           S  == InRange(cache, lo, lo + n - 1)
           A  == Ascending(S)
<1>1. /\ call.at = "cache" /\ call.hi = lo + n - 1 /\ FirstHeight <= lo
      /\ FromCache = A
  BY DEF ReadCache, BlocksRead, FromCache
<1>2. lo \in Nat /\ n \in Nat \ {0} /\ FirstHeight \in Nat /\ next \in Nat
  BY <1>1, TierTypes DEF ReaderTyped
<1>3. /\ UNCHANGED <<cache, db, next, before>> /\ dirty' = A
      /\ \/ Len(A) = n /\ result' = A /\ call' = [call EXCEPT !.at = "done"]
         \/ Len(A) # n /\ A = <<>> /\ call' = [call EXCEPT !.at = "db"]
         \/ /\ Len(A) # n /\ A # <<>>
            /\ call' = [call EXCEPT !.lo = DbRange(A)[1], !.hi = DbRange(A)[2], !.at = "rest"]
  BY <1>1 DEF ReadCache, writer
<1>4. \A h \in before : h \in FirstHeight .. next - 1
  BY Tiers
<1>5. S \subseteq Block /\ IsFiniteSet(S) /\ A \in Seq(Block) /\ (A = <<>> <=> S = {})
  BY AnswerTypes, ListTypes
<1>6. CASE S = {}
  <2>1. A = <<>> /\ Len(A) # n
    BY <1>2, <1>5, <1>6, EmptySeq
  <2>2. call' = [call EXCEPT !.at = "db"]
    BY <1>3, <2>1
  <2>3. call'.op = "GetBlocks" /\ call'.lo = lo /\ call'.n = n /\ call'.hi = lo + n - 1
        /\ call'.at = "db"
    BY <1>1, <2>2 DEF ReaderTyped
  <2>4. ASSUME NEW h \in Wanted PROVE h \in Heights(db)
    <3>1. h \in before /\ lo <= h /\ h <= lo + n - 1
      BY DEF Wanted
    <3>2. h \notin Heights(cache)
      BY <1>6, <3>1 DEF InRange, Heights
    <3> QED
      BY <1>4, <3>1, <3>2, Tiers
  <2>5. Wanted' = Wanted /\ Heights(db)' = Heights(db)
    BY <1>3, <2>3 DEF Wanted
  <2> QED
    BY <1>1, <2>3, <2>4, <2>5 DEF BlocksRead
<1>7. CASE S # {}
  <2>1. PICK l \in FirstHeight .. next - 1, m \in FirstHeight .. next - 1 :
          /\ Run(S, l, m)
          /\ lo <= l /\ l <= m /\ m <= lo + n - 1 /\ (m = lo + n - 1 \/ m = next - 1)
          /\ \A h \in FirstHeight .. l - 1 : lo <= h => h \in Heights(db)
    <3> DEFINE hi == lo + n - 1
    <3>1. lo \in Int /\ hi \in Int /\ InRange(cache, lo, hi) # {}
      BY <1>2, <1>7
    <3> HIDE DEF hi
    <3>2. \E l \in FirstHeight .. next - 1, m \in FirstHeight .. next - 1 :
            /\ Run(InRange(cache, lo, hi), l, m)
            /\ lo <= l /\ l <= m /\ m <= hi /\ (m = hi \/ m = next - 1)
            /\ \A h \in FirstHeight .. l - 1 : lo <= h => h \in Heights(db)
      BY <3>1, CacheRange
    <3> QED
      BY <3>2 DEF hi
  <2>2. l \in Nat /\ m \in Nat
    BY <1>2
  <2>3. Len(A) = m - l + 1 /\ Rising(A, l - 1)
    BY <2>1, <2>2, RunLists
  <2>4. ASSUME NEW h \in Wanted PROVE h \in Nat /\ lo <= h /\ h <= m
    <3>1. h \in before /\ lo <= h /\ h <= lo + n - 1
      BY DEF Wanted
    <3> QED
      BY <1>2, <1>4, <2>1, <2>2, <3>1
  <2>5. CASE Len(A) = n
    <3>1. call' = [call EXCEPT !.at = "done"] /\ result' = A
      BY <1>2, <1>3, <1>5, <2>5, EmptySeq
    <3>2. call'.lo = lo /\ call'.n = n /\ call'.at = "done"
      BY <3>1 DEF ReaderTyped
    <3>3. Wanted' = Wanted
      BY <1>3, <3>2 DEF Wanted
    <3>4. l = lo
      BY <1>2, <2>1, <2>2, <2>3, <2>5
    <3>5. Wanted \subseteq (l - 1) + 1 .. (l - 1) + Len(A)
      BY <2>2, <2>3, <2>4, <3>4
    <3>6. Rising(result', l - 1) /\ l - 1 \in Int /\ Wanted' \subseteq (l - 1) + 1 .. (l - 1) + Len(result')
      BY <2>2, <2>3, <3>1, <3>3, <3>5
    <3> HIDE DEF A, S
    <3>7. (\E h \in Int : Rising(result, h) /\ Wanted \subseteq h + 1 .. h + Len(result))'
      BY <3>6 DEF Rising
    <3> QED
      BY <1>1, <3>2, <3>7 DEF BlocksRead
  <2>6. CASE Len(A) # n
    <3>1. A # <<>> /\ 1 \in 1 .. Len(A)
      BY <1>5, <1>7, <2>1, <2>2, <2>3
    <3>2. A[1].h = l
      BY <2>2, <2>3, <3>1 DEF Rising
    <3>3. DbRange(A) = <<lo, l - 1>>
      BY <1>1, <3>2 DEF DbRange
    <3>4. call'.lo = lo /\ call'.n = n /\ call'.hi = l - 1 /\ call'.at = "rest"
      <4>1. call' = [call EXCEPT !.lo = lo, !.hi = l - 1, !.at = "rest"]
        <5> HIDE DEF A, S
        <5> QED
          BY <1>3, <2>6, <3>1, <3>3
      <4>2. l - 1 \in Int
        BY <2>2
      <4> HIDE DEF A, S
      <4> QED
        BY <4>1, <4>2 DEF ReaderTyped
    <3>5. Wanted' = Wanted /\ dirty' = A /\ db' = db
      BY <1>3, <3>4 DEF Wanted
    <3>6. ASSUME NEW h \in lo .. l - 1 PROVE h \in Heights(db)
      <4>1. h \in FirstHeight .. l - 1 /\ lo <= h
        BY <1>1, <1>2, <2>2
      <4> QED
        BY <2>1, <4>1
    <3>7. \A h \in Wanted : h <= l - 1 + Len(A)
      BY <2>2, <2>3, <2>4
    <3>8. lo <= (l - 1) + 1
      BY <2>1, <2>2
    <3> HIDE DEF A, S
    <3>9. Rising(dirty, call.hi)' /\ (\A h \in Wanted : h <= call.hi + Len(dirty))'
      BY <2>3, <3>4, <3>5, <3>7 DEF Rising
    <3>10. (call.lo .. call.hi \subseteq Heights(db))' /\ (call.lo <= call.hi + 1)'
      BY <3>4, <3>5, <3>6, <3>8 DEF Heights
    <3> QED
      BY <1>1, <3>4, <3>9, <3>10 DEF BlocksRead
  <2> QED
    BY <2>5, <2>6
<1> QED
  BY <1>6, <1>7

\* The call to the cache in GetLatestBlocks and GetLatestBlock.
LEMMA ReadCacheLatest ==
    ASSUME IInv, Stored, NoRewind, Filled, ReaderTyped, ReadCache,
           call.op \in {"GetLatestBlocks", "GetLatestBlock"}, LatestRead,
           before \subseteq Heights(cache \cup db)
    PROVE  LatestRead'
<1> DEFINE n == call.n
           L == Latest(cache, n)
           D == Descending(L)
<1>1. call.at = "cache" /\ FromCache = D
  BY DEF ReadCache, FromCache
<1>2. n \in Nat \ {0} /\ FirstHeight \in Nat /\ FirstHeight > 0 /\ next \in Nat /\ MaxHeight \in Nat
  BY <1>1, TierTypes DEF ReaderTyped
<1>3. /\ UNCHANGED <<cache, db, next, before>> /\ dirty' = D
      /\ \/ Len(D) = n /\ result' = D /\ call' = [call EXCEPT !.at = "done"]
         \/ Len(D) # n /\ D = <<>> /\ call' = [call EXCEPT !.at = "db"]
         \/ /\ Len(D) # n /\ D # <<>>
            /\ call' = [call EXCEPT !.lo = DbRange(D)[1], !.hi = DbRange(D)[2], !.at = "rest"]
  BY <1>1 DEF ReadCache, writer
<1>4. \A h \in before : h \in FirstHeight .. next - 1
  BY Tiers
<1>5. L \subseteq Block /\ IsFiniteSet(L) /\ D \in Seq(Block) /\ (D = <<>> <=> L = {})
  BY AnswerTypes, ListTypes
<1>6. call'.op = call.op /\ call'.n = n
  BY <1>3 DEF ReaderTyped
<1>7. CASE cache = {}
  <2>1. L = {}
    BY <1>7 DEF Latest
  <2>2. D = <<>> /\ Len(D) # n
    BY <1>2, <1>5, <2>1, EmptySeq
  <2>3. call' = [call EXCEPT !.at = "db"]
    BY <1>3, <2>2
  <2>4. call'.at = "db" /\ before' \subseteq Heights(db')
    BY <1>3, <1>7, <2>3 DEF ReaderTyped, Heights
  <2> QED
    BY <2>4 DEF LatestRead
<1>8. CASE cache # {}
  <2>0. PICK t \in Int : t = next - 1
    BY <1>2
  <2>1. PICK l \in FirstHeight .. t :
          Run(cache, l, t) /\ FirstHeight .. l - 1 \subseteq Heights(db)
    BY <1>8, <2>0, CacheRun
  <2>2. l \in Nat /\ t \in Int /\ l <= t /\ FirstHeight <= l /\ l \in Int /\ t < next
    BY <1>2, <2>0
  <2>3. PICK k \in l .. t : Run(L, k, t) /\ t - k + 1 <= n /\ (t - k + 1 < n => k = l)
    <3>1. PICK x \in Nat \ {0} : x = n
      BY <1>2
    <3> HIDE DEF n, L, D
    <3>0. Run(cache, l, t) /\ l <= t /\ l \in Int
      BY <2>1, <2>2
    <3>2. \E k \in l .. t : /\ Run(Latest(cache, x), k, t)
                            /\ t - k + 1 <= x /\ (t - k + 1 < x => k = l)
      BY <3>0, RunLatest
    <3> QED
      BY <3>1, <3>2 DEF L
  <2>4. k \in Nat /\ k <= t + 1
    BY <2>2
  <2>5. Len(D) = t - k + 1 /\ Falling(D, t + 1)
    BY <2>2, <2>3, <2>4, RunLists
  <2>6. D # <<>> /\ 1 \in 1 .. Len(D) /\ Len(D) \in 1 .. Len(D) /\ Len(D) <= n
    <3>1. Len(D) >= 1 /\ Len(D) <= n
      BY <2>2, <2>3, <2>5
    <3>2. D # <<>>
      BY <3>1, EmptySeq
    <3> QED
      BY <1>5, <3>1, <3>2
  <2>7. D[1].h = t /\ D[Len(D)].h = k
    BY <2>2, <2>4, <2>5, <2>6 DEF Falling
  <2>8. \A h \in before : h <= t
    BY <1>2, <1>4, <2>0
  <2>9. CASE Len(D) = n
    <3>1. call'.at = "done" /\ result' = D
      BY <1>3, <2>6, <2>9 DEF ReaderTyped
    <3>2. Len(D) <= t - FirstHeight + 1
      BY <1>2, <2>2, <2>4, <2>5
    <3>4. ~(Len(D) < n) /\ Len(D) <= n
      BY <1>2, <2>9
    <3> HIDE DEF D, L
    <3>5. /\ result'[1].h = t /\ Falling(result', t + 1) /\ result' # <<>>
          /\ (\A h \in before' : h <= t) /\ t < next'
      BY <1>3, <2>2, <2>5, <2>6, <2>7, <2>8, <3>1 DEF Falling
    <3>6. Len(result') <= t - FirstHeight + 1 /\ Len(result') <= n /\ ~(Len(result') < n)
      BY <3>1, <3>2, <3>4
    <3> QED
      BY <1>6, <3>1, <3>5, <3>6 DEF LatestRead, Falling, Highest
  <2>10. CASE Len(D) # n
    <3>1. Len(D) < n /\ k = l
      BY <1>2, <2>2, <2>3, <2>4, <2>5, <2>6, <2>10
    <3> DEFINE e == l - 1
               w == Wrap(e - (n - Len(D)) + 1)
    <3>2. DbRange(D) = <<Max({0, w}), e>>
      <4>1. D[Len(D)].h = l /\ call.op # "GetBlocks"
        BY <2>7, <3>1
      <4> QED
        BY <4>1 DEF DbRange
    <3>3. LimitsFit => Max({0, w}) = t - n + 1
      <4> SUFFICES ASSUME LimitsFit PROVE Max({0, w}) = t - n + 1
        OBVIOUS
      <4>1. n <= FirstHeight
        BY <1>1, <1>2 DEF LimitsFit, ReaderTyped
      <4>2. e - (n - Len(D)) + 1 = t - n + 1
        BY <1>2, <2>2, <2>5, <3>1
      <4>3. t <= MaxHeight
        <5>1. t \in Heights(cache)
          BY <2>1, <2>2 DEF Run
        <5> QED
          BY <5>1, TierTypes DEF Heights
      <4>4. t - n + 1 \in Nat /\ t - n + 1 <= MaxHeight
        BY <1>2, <2>2, <4>1, <4>3
      <4>5. w = t - n + 1
        <5>1. PICK x \in Nat : x = t - n + 1 /\ x <= MaxHeight
          BY <4>4
        <5>2. e - (n - Len(D)) + 1 = x
          BY <4>2, <5>1
        <5>3. Wrap(x) = x
          BY <1>2, <5>1, WrapType
        <5> QED
          BY <5>1, <5>2, <5>3
      <4> QED
        BY <4>4, <4>5, MaxOfZero
    <3>4. /\ call'.at = "rest" /\ call'.lo = Max({0, w}) /\ call'.hi = e
      <4>1. call' = [call EXCEPT !.lo = Max({0, w}), !.hi = e, !.at = "rest"]
        BY <1>3, <2>6, <2>10, <3>2
      <4> HIDE DEF w, e
      <4> QED
        BY <4>1 DEF ReaderTyped
    <3>5. e + Len(D) = t
      BY <2>2, <2>5, <3>1
    <3>6. FirstHeight - 1 <= e
      BY <1>2, <2>2
    <3> HIDE DEF D, L, w, e
    <3>7. call'.hi + Len(dirty') = t /\ dirty' = D
      BY <1>3, <3>4, <3>5
    <3>8. /\ Falling(dirty', t + 1) /\ dirty' # <<>> /\ (\A h \in before' : h <= t)
          /\ t < next' /\ Len(dirty') < n
      BY <1>3, <2>2, <2>5, <2>6, <2>8, <3>1 DEF Falling
    <3>9. FirstHeight - 1 <= call'.hi /\ FirstHeight .. call'.hi \subseteq Heights(db')
      BY <1>3, <2>1, <3>4, <3>6 DEF e
    <3>10. LimitsFit => call'.lo = t - n + 1
      BY <3>3, <3>4
    <3> QED
      BY <1>6, <3>4, <3>7, <3>8, <3>9, <3>10 DEF LatestRead, Falling, Highest
  <2> QED
    BY <2>9, <2>10
<1> QED
  BY <1>7, <1>8

\* GetBlocks when the cache had nothing of the range.
LEMMA ReadDbBlocks ==
    ASSUME IInv, Stored, NoRewind, Filled, ReaderTyped, ReadDb,
           call.op = "GetBlocks", BlocksRead, before \subseteq Heights(cache \cup db)
    PROVE  BlocksRead'
<1> DEFINE S == InRange(db, call.lo, call.hi)
           A == Ascending(S)
<1>1. /\ call.at = "db" /\ FirstHeight <= call.lo /\ Wanted \subseteq Heights(db)
      /\ call.hi = call.lo + call.n - 1
  BY DEF ReadDb, BlocksRead
<1>2. PICK lo \in Nat, n \in Nat, hi \in Int :
        lo = call.lo /\ n = call.n /\ hi = call.hi /\ hi = lo + n - 1
  BY <1>1 DEF ReaderTyped
<1>3. /\ result' = A /\ call' = [call EXCEPT !.at = "done"] /\ before' = before
  BY DEF ReadDb
<1> HIDE DEF A
<1>4. call'.lo = lo /\ call'.n = n /\ call'.at = "done"
  BY <1>2, <1>3 DEF ReaderTyped
<1>5. Wanted' = Wanted
  BY <1>2, <1>3, <1>4 DEF Wanted
<1>6. \A h \in Wanted : h \in Nat /\ lo <= h /\ h <= hi /\ h \in Heights(db)
  BY <1>1, <1>2 DEF Wanted, ReaderTyped
<1>7. \E g \in Int : Rising(A, g) /\ Wanted \subseteq g + 1 .. g + Len(A)
  <2>1. CASE S = {}
    <3>1. Len(A) = 0
      BY <2>1, AnswerTypes, ListTypes, EmptySeq DEF A
    <3>2. Wanted = {}
      <4> SUFFICES ASSUME NEW h \in Wanted PROVE FALSE
        OBVIOUS
      <4>1. PICK b \in db : b.h = h
        BY <1>6 DEF Heights
      <4>2. b \in S
        BY <1>2, <1>6, <4>1 DEF InRange
      <4> QED
        BY <2>1, <4>2
    <3>3. Rising(A, 0)
      BY <3>1 DEF Rising
    <3> QED
      BY <3>2, <3>3
  <2>2. CASE S # {}
    <3>1. S = InRange(db, lo, hi)
      BY <1>2
    <3>2. PICK m \in lo .. hi : /\ Run(InRange(db, lo, hi), lo, m)
                                /\ \A h \in Heights(db) : h <= hi => h <= m
      <4>1. FirstHeight <= lo /\ InRange(db, lo, hi) # {} /\ lo \in Int
        BY <1>1, <1>2, <2>2, <3>1
      <4> HIDE DEF S
      <4> QED
        BY <4>1, DbRange2
    <3>3. m \in Int /\ lo <= m + 1
      BY <1>2
    <3>4. Rising(A, lo - 1) /\ Len(A) = m - lo + 1
      BY <3>1, <3>2, <3>3, RunLists DEF A
    <3>5. \A h \in Wanted : h \in Nat /\ lo <= h /\ h <= m
      BY <1>6, <3>2
    <3>6. Wanted \subseteq (lo - 1) + 1 .. (lo - 1) + Len(A)
      BY <3>3, <3>4, <3>5
    <3> QED
      BY <3>4, <3>6
  <2> QED
    BY <2>1, <2>2
<1> QED
  BY <1>1, <1>2, <1>3, <1>4, <1>5, <1>7 DEF BlocksRead, Rising

\* The latest-block calls when the cache was empty.
LEMMA ReadDbLatest ==
    ASSUME IInv, Stored, NoRewind, Filled, ReaderTyped, ReadDb,
           call.op \in {"GetLatestBlocks", "GetLatestBlock"}, LatestRead,
           before \subseteq Heights(cache \cup db)
    PROVE  LatestRead'
<1> DEFINE D == Descending(Latest(db, call.n))
<1>1. call.at = "db" /\ before \subseteq Heights(db)
  BY DEF ReadDb, LatestRead
<1>2. PICK n \in Nat \ {0} : n = call.n
  BY <1>1 DEF ReaderTyped
<1>3. /\ result' = D /\ call' = [call EXCEPT !.at = "done"] /\ before' = before /\ next' = next
  BY DEF ReadDb, writer
<1> HIDE DEF D
<1>4. call'.n = n /\ call'.at = "done" /\ call'.op = call.op
  BY <1>2, <1>3 DEF ReaderTyped
<1>5. CASE before = {}
  BY <1>3, <1>4, <1>5 DEF LatestRead
<1>6. CASE before # {}
  <2>1. db # {}
    BY <1>1, <1>6 DEF Heights
  <2>2. FirstHeight \in Nat /\ next \in Nat
    BY TierTypes
  <2>3. PICK t \in FirstHeight .. next - 1 : Run(db, FirstHeight, t)
    BY <2>1, DbRun
  <2>4. t \in Int /\ FirstHeight \in Int /\ FirstHeight <= t /\ t < next
    BY <2>2
  <2>5. PICK k \in FirstHeight .. t : /\ Run(Latest(db, n), k, t)
                                      /\ t - k + 1 <= n /\ (t - k + 1 < n => k = FirstHeight)
    BY <2>3, <2>4, RunLatest
  <2>6. k \in Int /\ FirstHeight <= k /\ k <= t
    BY <2>2, <2>4
  <2>7. D \in Seq(Block) /\ Len(D) = t - k + 1 /\ Falling(D, t + 1)
    BY <1>2, <2>4, <2>5, <2>6, RunLists DEF D
  <2>8. Len(D) >= 1
    BY <2>4, <2>6, <2>7
  <2>9. D # <<>> /\ D[1].h = t
    <3>1. D # <<>>
      BY <2>7, <2>8, EmptySeq
    <3>2. 1 \in 1 .. Len(D)
      BY <2>7, <2>8
    <3> QED
      BY <2>4, <2>7, <3>1, <3>2 DEF Falling
  <2>10. \A h \in before : h <= t
    <3> SUFFICES ASSUME NEW h \in before PROVE h <= t
      OBVIOUS
    <3>1. h \in FirstHeight .. t
      BY <1>1, <2>3 DEF Run
    <3> QED
      BY <2>4, <3>1
  <2>11. /\ Len(D) <= t - FirstHeight + 1 /\ Len(D) <= n
         /\ Len(D) < n => Len(D) = t - FirstHeight + 1
    BY <2>2, <2>4, <2>5, <2>6, <2>7
  <2>12. /\ Falling(result', t + 1) /\ result' # <<>> /\ result'[1].h = t
         /\ \A h \in before' : h <= t
         /\ t < next'
    BY <1>3, <2>4, <2>7, <2>9, <2>10 DEF Falling
  <2>13. /\ Len(result') <= t - FirstHeight + 1 /\ Len(result') <= n
         /\ Len(result') < n => Len(result') = t - FirstHeight + 1
    BY <1>3, <2>11
  <2> QED
    BY <1>4, <2>12, <2>13 DEF LatestRead, Falling, Highest
<1> QED
  BY <1>5, <1>6

\* GetBlocks puts the older part of the range in front of what the cache had.
LEMMA ReadRestBlocks ==
    ASSUME IInv, Stored, NoRewind, Filled, ReaderTyped, ReadRest,
           call.op = "GetBlocks", BlocksRead
    PROVE  BlocksRead'
<1> DEFINE A == Ascending(InRange(db, call.lo, call.hi))
<1>1. /\ call.at = "rest" /\ FirstHeight <= call.lo /\ Rising(dirty, call.hi)
      /\ call.lo <= call.hi + 1 /\ call.lo .. call.hi \subseteq Heights(db)
      /\ \A h \in Wanted : h <= call.hi + Len(dirty)
  BY DEF ReadRest, BlocksRead
<1>2. PICK lo \in Nat, n \in Nat, hi \in Int : lo = call.lo /\ n = call.n /\ hi = call.hi
  BY DEF ReaderTyped
<1>3. /\ result' = A \o dirty /\ call' = [call EXCEPT !.at = "done"] /\ before' = before
  BY DEF ReadRest
<1>4. Run(InRange(db, lo, hi), lo, hi)
  <2>1. lo .. hi \subseteq Heights(db) /\ lo \in Int
    BY <1>1, <1>2
  <2> HIDE DEF A
  <2> QED
    BY <2>1, DbRange2
<1>5. A \in Seq(Block) /\ Len(A) = hi - lo + 1 /\ Rising(A, lo - 1)
  BY <1>1, <1>2, <1>4, RunLists
<1> HIDE DEF A
<1>6. call'.lo = lo /\ call'.n = n /\ call'.at = "done"
  BY <1>2, <1>3 DEF ReaderTyped
<1>7. Wanted' = Wanted
  BY <1>2, <1>3, <1>6 DEF Wanted
<1>8. dirty \in Seq(Block) /\ Len(dirty) \in Nat
  BY DEF ReaderTyped
<1>9. /\ Len(A \o dirty) = hi - lo + 1 + Len(dirty)
      /\ \A i \in 1 .. Len(A) + Len(dirty) :
            (A \o dirty)[i] = IF i <= Len(A) THEN A[i] ELSE dirty[i - Len(A)]
  BY <1>5, <1>8, ConcatProperties
<1>10. Rising(A \o dirty, lo - 1)
  <2> SUFFICES ASSUME NEW i \in 1 .. Len(A) + Len(dirty)
               PROVE  (A \o dirty)[i].h = lo - 1 + i
    BY <1>5, <1>9 DEF Rising
  <2>1. CASE i <= Len(A)
    BY <1>5, <1>9, <2>1 DEF Rising
  <2>2. CASE ~(i <= Len(A))
    <3>1. i - Len(A) \in 1 .. Len(dirty)
      BY <1>5, <1>8, <2>2
    <3>2. dirty[i - Len(A)].h = hi + (i - Len(A))
      BY <1>1, <1>2, <3>1 DEF Rising
    <3>3. (A \o dirty)[i] = dirty[i - Len(A)]
      BY <1>9, <2>2
    <3>4. hi + (i - Len(A)) = lo - 1 + i
      BY <1>5, <1>8
    <3> QED
      BY <3>2, <3>3, <3>4
  <2> QED
    BY <2>1, <2>2
<1>11. Wanted \subseteq (lo - 1) + 1 .. (lo - 1) + Len(A \o dirty)
  <2> SUFFICES ASSUME NEW h \in Wanted
               PROVE  h \in (lo - 1) + 1 .. (lo - 1) + Len(A \o dirty)
    OBVIOUS
  <2>1. h \in Nat /\ lo <= h /\ h <= hi + Len(dirty)
    BY <1>1, <1>2 DEF Wanted, ReaderTyped
  <2> QED
    BY <1>8, <1>9, <2>1
<1>12. \E g \in Int : Rising(result', g) /\ Wanted' \subseteq g + 1 .. g + Len(result')
  BY <1>3, <1>7, <1>10, <1>11
<1> QED
  BY <1>1, <1>2, <1>6, <1>12 DEF BlocksRead, Rising

\* GetLatestBlocks puts the older blocks behind what the cache had.
LEMMA ReadRestLatest ==
    ASSUME IInv, Stored, NoRewind, Filled, ReaderTyped, ReadRest,
           call.op \in {"GetLatestBlocks", "GetLatestBlock"}, LatestRead
    PROVE  LatestRead'
<1> DEFINE S == InRange(db, call.lo, call.hi)
           D == Descending(S)
<1>1. call.at = "rest"
  BY DEF ReadRest
<1>2. PICK lo \in Nat, n \in Nat \ {0}, hi \in Int, t \in Int :
        lo = call.lo /\ n = call.n /\ hi = call.hi /\ t = hi + Len(dirty)
  BY <1>1 DEF ReaderTyped
<1>3. /\ Falling(dirty, t + 1) /\ dirty # <<>> /\ (\A h \in before : h <= t)
      /\ Len(dirty) < n /\ FirstHeight - 1 <= hi /\ t < next
      /\ FirstHeight .. hi \subseteq Heights(db)
      /\ LimitsFit => lo = t - n + 1
  BY <1>1, <1>2 DEF LatestRead, Falling, Highest
<1>4. dirty \in Seq(Block) /\ Len(dirty) \in Nat /\ Len(dirty) > 0
  BY <1>3, EmptySeq DEF ReaderTyped
<1>5. FirstHeight \in Nat
  BY TierTypes
<1>6. result' = dirty \o D /\ call' = [call EXCEPT !.at = "done"] /\ before' = before /\ next' = next
  <2>1. Reverse(Ascending(S)) = D
    BY AnswerTypes, ListTypes
  <2> QED
    BY <2>1 DEF ReadRest, writer
<1>7. call'.n = n /\ call'.at = "done" /\ call'.op = call.op
  BY <1>2, <1>6 DEF ReaderTyped
<1> DEFINE k == IF lo < FirstHeight THEN FirstHeight ELSE IF lo > hi + 1 THEN hi + 1 ELSE lo
<1>8. k \in Int /\ FirstHeight <= k /\ k <= hi + 1
  BY <1>3, <1>5
<1>9. Run(S, k, hi)
  <2>1. S \subseteq db
    BY DEF InRange
  <2>2. \A b \in S : b.h \in k .. hi
    <3> SUFFICES ASSUME NEW b \in S PROVE b.h \in k .. hi
      OBVIOUS
    <3>1. b \in db /\ lo <= b.h /\ b.h <= hi
      BY <1>2 DEF InRange
    <3>2. b.h \in Nat /\ FirstHeight <= b.h
      BY <3>1, TierTypes, Tiers
    <3> QED
      BY <1>5, <3>1, <3>2
  <2>3. ASSUME NEW h \in k .. hi PROVE h \in Heights(S)
    <3>1. h \in FirstHeight .. hi /\ lo <= h /\ h <= hi
      BY <1>3, <1>5, <1>8
    <3>2. PICK b \in db : b.h = h
      BY <1>3, <3>1 DEF Heights
    <3>3. b \in S
      BY <1>2, <3>1, <3>2 DEF InRange
    <3> QED
      BY <3>2, <3>3 DEF Heights
  <2> HIDE DEF k, S
  <2> QED
    BY <1>2, <1>8, <2>1, <2>2, <2>3, TierRun
<1> HIDE DEF S
<1>10. D \in Seq(Block) /\ Len(D) = hi - k + 1 /\ Falling(D, hi + 1)
  <2> HIDE DEF k
  <2> QED
    BY <1>8, <1>9, RunLists
<1>11. LimitsFit => /\ t - k + 1 <= n
                    /\ t - k + 1 < n => k = FirstHeight
  <2>1. PICK d \in Nat : d = Len(dirty) /\ d > 0
    BY <1>4
  <2>2. t = hi + d /\ d < n
    BY <1>2, <1>3, <2>1
  <2> SUFFICES ASSUME LimitsFit
               PROVE  t - k + 1 <= n /\ (t - k + 1 < n => k = FirstHeight)
    OBVIOUS
  <2>3. lo = t - n + 1
    BY <1>3
  <2>4. lo <= hi
    BY <2>2, <2>3
  <2> HIDE DEF D
  <2> QED
    BY <1>3, <1>5, <2>2, <2>3, <2>4
<1> HIDE DEF D, k
<1>12. /\ Len(dirty \o D) = t - k + 1
       /\ \A i \in 1 .. Len(dirty) + Len(D) :
             (dirty \o D)[i] = IF i <= Len(dirty) THEN dirty[i] ELSE D[i - Len(dirty)]
       /\ Len(dirty) + Len(D) = t - k + 1
  <2>1. /\ Len(dirty \o D) = Len(dirty) + Len(D)
        /\ \A i \in 1 .. Len(dirty) + Len(D) :
              (dirty \o D)[i] = IF i <= Len(dirty) THEN dirty[i] ELSE D[i - Len(dirty)]
    BY <1>4, <1>10, ConcatProperties
  <2>2. Len(dirty) + Len(D) = t - k + 1
    <3>1. t = hi + Len(dirty) /\ Len(dirty) \in Int
      BY <1>2, <1>4
    <3>2. Len(D) = hi - k + 1 /\ k \in Int
      BY <1>8, <1>10
    <3> QED
      BY <3>1, <3>2
  <2> QED
    BY <2>1, <2>2
<1>13. Falling(dirty \o D, t + 1)
  <2> SUFFICES ASSUME NEW i \in 1 .. Len(dirty) + Len(D)
               PROVE  (dirty \o D)[i].h = t + 1 - i
    BY <1>12 DEF Falling
  <2>1. CASE i <= Len(dirty)
    BY <1>3, <1>4, <1>12, <2>1 DEF Falling
  <2>2. CASE ~(i <= Len(dirty))
    <3>1. i - Len(dirty) \in 1 .. Len(D)
      BY <1>4, <1>8, <1>10, <2>2
    <3>2. D[i - Len(dirty)].h = hi + 1 - (i - Len(dirty))
      BY <1>10, <3>1 DEF Falling
    <3> QED
      BY <1>2, <1>4, <1>12, <2>2, <3>2
  <2> QED
    BY <2>1, <2>2
<1>14. 1 <= t - k + 1
  BY <1>2, <1>4, <1>8
<1>15. dirty \o D # <<>> /\ (dirty \o D)[1].h = t
  <2>1. dirty \o D \in Seq(Block)
    BY <1>4, <1>10, ConcatProperties
  <2>2. dirty \o D # <<>>
    BY <1>12, <1>14, <2>1, EmptySeq
  <2>3. 1 \in 1 .. Len(dirty \o D)
    BY <1>12, <1>14, <2>1
  <2>4. (dirty \o D)[1].h = t + 1 - 1
    BY <1>13, <2>3 DEF Falling
  <2> QED
    BY <2>2, <2>4
<1>16. /\ Len(result') <= t - FirstHeight + 1
       /\ LimitsFit => /\ Len(result') <= n
                       /\ Len(result') < n => Len(result') = t - FirstHeight + 1
  BY <1>5, <1>6, <1>8, <1>11, <1>12
<1>17. /\ Falling(result', t + 1) /\ result' # <<>> /\ result'[1].h = t
       /\ \A h \in before' : h <= t
       /\ t < next'
  BY <1>3, <1>6, <1>13, <1>15 DEF Falling
<1> QED
  BY <1>7, <1>16, <1>17 DEF LatestRead, Falling, Highest

\* The reader's steps together.
LEMMA ReaderReads ==
    ASSUME IInv, Stored, NoRewind, Filled, ReaderTyped, Reads, Reader
    PROVE  Reads'
<1>1. CASE CallGetBlocks \/ CallGetLatestBlocks \/ CallGetLatestBlock
  BY <1>1, CallReads
<1>2. CASE ReadCache \/ ReadDb \/ ReadRest
  <2>1. before' = before /\ UNCHANGED <<cache, db>> /\ call.at \in {"cache", "db", "rest"}
    BY <1>2 DEF ReadCache, ReadDb, ReadRest
  <2>2. call'.op = call.op
    BY <1>2 DEF ReadCache, ReadDb, ReadRest, ReaderTyped
  <2>3. call.op = "GetBlocks" => BlocksRead'
    BY <1>2, ReadCacheBlocks, ReadDbBlocks, ReadRestBlocks DEF Reads
  <2>4. call.op \in {"GetLatestBlocks", "GetLatestBlock"} => LatestRead'
    BY <1>2, ReadCacheLatest, ReadDbLatest, ReadRestLatest DEF Reads
  <2> QED
    BY <2>1, <2>2, <2>3, <2>4 DEF Reads
<1>3. CASE Return
  BY <1>3 DEF Return, Idle, Reads
<1> QED
  BY <1>1, <1>2, <1>3 DEF Reader

\* The invariant of the reads holds at first and is preserved.
LEMMA ReadsInductive == Spec => [](IInv /\ RInv)
<1>1. Init => RInv
  <2> SUFFICES ASSUME Init PROVE RInv
    OBVIOUS
  <2>1. Stored
    BY FS_EmptySet DEF Init, Stored
  <2>2. ReaderTyped
    BY DEF Init, Idle, ReaderTyped
  <2>3. Filled
    <3>1. FirstHeight .. FirstHeight - 1 = {} /\ FirstHeight <= FirstHeight
      BY ConstantsAssumption
    <3> QED
      BY <3>1 DEF Init, Filled
  <2>4. Reads
    BY DEF Init, Idle, Reads
  <2> QED
    BY <2>1, <2>2, <2>3, <2>4 DEF RInv
<1>2. IInv /\ IInv' /\ RInv /\ [Next]_vars => RInv'
  <2> SUFFICES ASSUME IInv, IInv', RInv, [Next]_vars PROVE RInv'
    OBVIOUS
  <2>1. Stored' /\ ReaderTyped'
    BY StoredStep, ReaderTypedStep DEF RInv
  <2>2. ASSUME NoRewind' PROVE Filled' /\ Reads'
    <3>1. NoRewind /\ Filled /\ Reads
      BY <2>2, RewindsStay DEF RInv
    <3>2. Filled'
      BY <2>2, <3>1, FilledStep DEF RInv
    <3>3. CASE UNCHANGED reader
      BY <2>1, <2>2, <3>1, <3>2, <3>3, QuietReads DEF RInv
    <3>4. CASE Reader
      BY <3>1, <3>2, <3>4, ReaderReads DEF RInv
    <3> QED
      BY <3>2, <3>3, <3>4, StepKinds DEF vars
  <2> QED
    BY <2>1, <2>2 DEF RInv
<1> QED
  BY Inductive, <1>1, <1>2, PTL DEF Spec

-----------------------------------------------------------------------------
(* The theorems about the reads. *)

\* Every variable has its type, also after rewinds and crashes, and so do the
\* answers put together from both tiers.
THEOREM StoreTypes == Spec => []TypeOK
<1> DEFINE WInv == written \in SUBSET Nat /\ crashes \in Nat
<1>1. Init => WInv
  BY DEF Init
<1>2. IInv /\ WInv /\ [Next]_vars => WInv'
  <2> SUFFICES ASSUME IInv, WInv, [Next]_vars PROVE WInv'
    OBVIOUS
  <2>1. CASE PutBlocks
    <3>1. PICK k \in Nat \ {0} : written' = written \cup (next .. next + k - 1)
      BY <2>1, PutBlocksAdds
    <3>2. next .. next + k - 1 \subseteq Nat
      BY DEF IInv, Typed
    <3>3. crashes' = crashes
      BY <2>1 DEF PutBlocks, flush
    <3> QED
      BY <3>1, <3>2, <3>3
  <2>2. CASE Rewind
    BY <2>2 DEF Rewind, flush
  <2>3. CASE Flusher \/ FlushCrash
    <3>1. written' = written
      BY <2>3 DEF Flusher, FlushRead, FlushPut, FlushDelete, FlushCrash, writer
    <3>2. crashes' = crashes \/ crashes' = crashes + 1
      BY <2>3 DEF Flusher, FlushRead, FlushPut, FlushDelete, FlushCrash
    <3> QED
      BY <3>1, <3>2
  <2>4. CASE UNCHANGED <<cache, db, writer, flush>>
    BY <2>4 DEF writer, flush
  <2> QED
    BY <2>1, <2>2, <2>3, <2>4, StepKinds DEF vars
<1>3. IInv /\ RInv /\ WInv => TypeOK
  BY DEF IInv, Typed, RInv, ReaderTyped, TypeOK
<1> QED
  BY Inductive, ReadsInductive, <1>1, <1>2, <1>3, PTL DEF Spec

\* GetBlocks answers with every block of the range that was in the store at
\* the call, in ascending order: blocks that move from the cache to the
\* database between its two calls are neither missed nor listed twice.
THEOREM BlocksAreComplete == Spec => []GetBlocksComplete
<1>1. IInv /\ RInv => GetBlocksComplete
  <2> SUFFICES ASSUME RInv, Answered("GetBlocks")
               PROVE  /\ Wanted \subseteq ResultHeights
                      /\ \A i, j \in 1 .. Len(result) : i < j => result[i].h < result[j].h
    BY Zenon DEF GetBlocksComplete, Wanted
  <2>1. PICK h \in Int : Rising(result, h) /\ Wanted \subseteq h + 1 .. h + Len(result)
    BY DEF RInv, Answered, Reads, BlocksRead
  <2>2. Len(result) \in Nat
    BY DEF RInv, ReaderTyped
  <2>3. \A i \in 1 .. Len(result) : result[i].h = h + i
    BY <2>1 DEF Rising
  <2>4. ASSUME NEW g \in Wanted PROVE g \in ResultHeights
    <3>1. g - h \in 1 .. Len(result) /\ g = h + (g - h)
      BY <2>1, <2>2
    <3> QED
      BY <2>3, <3>1 DEF ResultHeights
  <2>5. ASSUME NEW i \in 1 .. Len(result), NEW j \in 1 .. Len(result), i < j
        PROVE  result[i].h < result[j].h
    <3>1. result[i].h = h + i /\ result[j].h = h + j /\ i \in Int /\ j \in Int
      BY <2>2, <2>3
    <3> QED
      BY <2>5, <3>1
  <2> QED
    BY <2>4, <2>5
<1> QED
  BY ReadsInductive, <1>1, PTL

\* An answer of GetBlocks has no hole that the relay would skip.
THEOREM BlocksAreContiguous == Spec => []GetBlocksContiguous
<1>1. IInv /\ RInv => GetBlocksContiguous
  <2> SUFFICES ASSUME RInv, Answered("GetBlocks"), NEW i \in 1 .. Len(result) - 1
               PROVE  result[i + 1].h = result[i].h + 1
    BY DEF GetBlocksContiguous
  <2>1. PICK h \in Int : Rising(result, h)
    BY DEF RInv, Answered, Reads, BlocksRead
  <2>2. Len(result) \in Nat
    BY DEF RInv, ReaderTyped
  <2>3. i \in 1 .. Len(result) /\ i + 1 \in 1 .. Len(result) /\ i \in Int
    BY <2>2
  <2>4. result[i].h = h + i /\ result[i + 1].h = h + (i + 1)
    BY <2>1, <2>3 DEF Rising
  <2> QED
    BY <2>3, <2>4
<1> QED
  BY ReadsInductive, <1>1, PTL

\* The highest of the heights that were in the store at the call.
LEMMA MaxBefore ==
    ASSUME before \subseteq Nat, before # {}, NEW t \in Int, Highest(t)
    PROVE  t >= Max(before)
<1>1. PICK g \in before : TRUE
  OBVIOUS
<1>2. t \in Nat
  BY <1>1 DEF Highest
<1>3. PICK m \in before : \A h \in before : h <= m
  BY <1>2, HighestHeight DEF Highest
<1>4. \A h \in before : m >= h
  BY <1>3
<1>5. Max(before) \in before
  BY <1>4 DEF Max
<1> QED
  BY <1>2, <1>5 DEF Highest

\* The forwarder is told to start behind the highest block that was stored
\* when it asked, whatever the flusher does between the two calls.
THEOREM LatestBlockIsLatest == Spec => []GetLatestBlockIsLatest
<1>1. IInv /\ RInv => GetLatestBlockIsLatest
  <2> SUFFICES ASSUME RInv, Answered("GetLatestBlock"), before # {}
               PROVE  result # <<>> /\ result[1].h >= Max(before)
    BY DEF GetLatestBlockIsLatest
  <2>1. result # <<>> /\ Highest(result[1].h)
    BY DEF RInv, Answered, Reads, LatestRead
  <2>2. result[1] \in Block
    BY <2>1, EmptySeq, ElementOfSeq DEF RInv, ReaderTyped
  <2>3. result[1].h \in Int /\ before \subseteq Nat
    BY <2>2 DEF Block, RInv, ReaderTyped
  <2> QED
    BY <2>1, <2>3, MaxBefore
<1> QED
  BY ReadsInductive, <1>1, PTL

\* GetLatestBlocks answers with the highest blocks of the store, newest first
\* and without a hole.  The hypothesis keeps the unsigned lower end of the
\* range from wrapping around: without it, blocks near the beginning of a chain
\* are missed.
THEOREM LatestBlocksAreComplete ==
    ASSUME LimitsFit PROVE Spec => []GetLatestBlocksComplete
<1>1. IInv /\ RInv => GetLatestBlocksComplete
  <2> SUFFICES ASSUME IInv, RInv, Answered("GetLatestBlocks"), before # {}
               PROVE  /\ result # <<>> /\ result[1].h >= Max(before)
                      /\ ResultHeights = { h \in written : /\ h <= result[1].h
                                                           /\ h > result[1].h - call.n }
                      /\ \A i, j \in 1 .. Len(result) : i < j => result[i].h > result[j].h
    BY DEF GetLatestBlocksComplete
  <2>1. /\ result # <<>> /\ Highest(result[1].h) /\ Falling(result, result[1].h + 1)
        /\ result[1].h < next /\ Len(result) <= result[1].h - FirstHeight + 1
        /\ Len(result) <= call.n
        /\ Len(result) < call.n => Len(result) = result[1].h - FirstHeight + 1
    BY DEF RInv, Answered, Reads, LatestRead
  <2>2. result[1] \in Block
    BY <2>1, EmptySeq, ElementOfSeq DEF RInv, ReaderTyped
  <2>3. PICK t \in Nat, n \in Nat, l \in Nat, f \in Nat, e \in Nat :
          t = result[1].h /\ n = call.n /\ l = Len(result) /\ f = FirstHeight /\ e = next
    BY <2>2, ConstantsAssumption DEF Block, RInv, ReaderTyped, IInv, Typed
  <2>4. before \subseteq Nat /\ t \in Int /\ Highest(t)
    BY <2>1, <2>3 DEF RInv, ReaderTyped
  <2>5. t >= Max(before)
    BY <2>4, MaxBefore
  <2>6. \A i \in 1 .. l : result[i].h = t + 1 - i
    BY <2>1, <2>3 DEF Falling
  <2>7. t < e /\ l <= t - f + 1 /\ l <= n /\ (l < n => l = t - f + 1)
    BY <2>1, <2>3
  <2>8. written = f .. e - 1
    BY <2>3 DEF RInv, Answered, Filled
  <2>9. ASSUME NEW i \in 1 .. l
        PROVE  result[i].h \in written /\ result[i].h <= t /\ result[i].h > t - n
    <3>1. result[i].h = t + 1 - i /\ i \in Nat /\ 1 <= i /\ i <= l
      BY <2>6
    <3>2. t + 1 - i \in f .. e - 1 /\ t + 1 - i <= t /\ t + 1 - i > t - n
      BY <2>7, <3>1
    <3> QED
      BY <2>8, <3>1, <3>2
  <2>10. ASSUME NEW h \in written, h <= t, h > t - n PROVE h \in ResultHeights
    <3>1. h \in Nat /\ f <= h
      BY <2>8
    <3>2. t + 1 - h \in 1 .. l
      BY <2>7, <2>10, <3>1
    <3>3. result[t + 1 - h].h = t + 1 - (t + 1 - h)
      BY <2>6, <3>2
    <3>4. t + 1 - (t + 1 - h) = h
      BY <3>1
    <3> QED
      BY <2>3, <3>2, <3>3, <3>4 DEF ResultHeights
  <2>11. ResultHeights = { h \in written : h <= t /\ h > t - n }
    BY <2>3, <2>9, <2>10 DEF ResultHeights
  <2>12. ASSUME NEW i \in 1 .. l, NEW j \in 1 .. l, i < j
         PROVE  result[i].h > result[j].h
    <3>1. result[i].h = t + 1 - i /\ result[j].h = t + 1 - j
      BY <2>6
    <3> QED
      BY <2>12, <3>1
  <2> QED
    BY <2>1, <2>3, <2>5, <2>11, <2>12
<1> QED
  BY ReadsInductive, <1>1, PTL
=============================================================================
