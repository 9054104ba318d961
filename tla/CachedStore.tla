----------------------------- MODULE CachedStore -----------------------------
(***************************************************************************)
(* The block store of one chain: a redis sorted set in front of a          *)
(* timescale table (RedisOptimizedBlockStore).                             *)
(*                                                                         *)
(* The router writes blocks to the cache.  The flusher, a process of its   *)
(* own, copies the earliest blocks of the cache to the database and then   *)
(* deletes them from the cache.  Readers (the relay's workers and the      *)
(* forwarder) ask the cache first and the database second; nothing holds a *)
(* lock across the two calls, so writes and flushes fall between them.     *)
(***************************************************************************)
EXTENDS Integers, Sequences, FiniteSets, FiniteSetsExt, SequencesExt

CONSTANTS
    FirstHeight,    \* first block of the feed
    MaxHeight,      \* bound: highest block of the chain
    Data,           \* versions a block of a given height can have
    BatchSize,      \* the router's batch size
    Threshold,      \* FlushThreshold
    Limits,         \* limits and range lengths the readers ask for
    UintModulus,    \* 2^64 in the code, any modulus above the heights here
    MaxRewinds,     \* bound: restarts of the forwarder at a stored height
    MaxCrashes      \* bound: crashes and errors of the flusher

ASSUME ConstantsAssumption ==
    /\ FirstHeight \in Nat \ {0} /\ MaxHeight \in Nat
    /\ Data # {} /\ Data \subseteq Nat
    /\ BatchSize \in Nat \ {0} /\ Threshold \in Nat \ {0}
    /\ Limits \subseteq Nat \ {0}
    /\ UintModulus \in Nat /\ UintModulus > 2 * MaxHeight
    /\ MaxRewinds \in Nat /\ MaxCrashes \in Nat

\* BlockDocument
Block == [h : Nat, d : Data]

VARIABLES
    cache,      \* members of the sorted set: two versions of a height are two
    db,         \* rows of the table, whose key is the height
    next,       \* height of the next block the router receives
    rewinds,    \* rewinds of the block stream so far
    flusher,    \* the flusher's next call: "read", "put" or "delete"
    batch,      \* blocks the flusher has read
    crashes,    \* crashes of the flusher so far
    call,       \* the reader's call: operation, arguments and next step
    dirty,      \* the reader's blocks from the cache (dirtyBlocks)
    result,     \* what the reader's last call returned
    before,     \* ghost: heights in the store when the call began
    written     \* ghost: heights ever written

flush  == <<flusher, batch, crashes>>
writer == <<next, rewinds, written>>
reader == <<call, dirty, result, before>>
vars   == <<cache, db, writer, flush, reader>>

Heights(S) == { b.h : b \in S }
InRange(S, lo, hi) == { b \in S : lo <= b.h /\ b.h <= hi }

\* Order of the members of the sorted set: by score, then by content.
Less(a, b) == a.h < b.h \/ (a.h = b.h /\ a.d < b.d)
Ascending(S)  == [i \in 1 .. Cardinality(S) |->
                     CHOOSE b \in S : Cardinality({ a \in S : Less(a, b) }) = i - 1]
Descending(S) == Reverse(Ascending(S))

\* ZRANGE 0 n-1 and ZRANGE -n -1.
Earliest(S, n) == { b \in S : Cardinality({ a \in S : Less(a, b) }) < n }
Latest(S, n)   == { b \in S : Cardinality({ a \in S : Less(b, a) }) < n }

Idle == [op |-> "none", n |-> 0, lo |-> 0, hi |-> 0, at |-> "idle"]

Init ==
    /\ cache = {} /\ db = {}
    /\ next = FirstHeight /\ rewinds = 0 /\ written = {}
    /\ flusher = "read" /\ batch = {} /\ crashes = 0
    /\ call = Idle /\ dirty = <<>> /\ result = <<>> /\ before = {}

-----------------------------------------------------------------------------
(* The router's writes. *)

\* PutBlocks: ZADD NX of a batch of consecutive blocks.
PutBlocks ==
    \E k \in 1 .. BatchSize :
        LET hs == next .. next + k - 1
        IN  /\ next + k - 1 <= MaxHeight
            /\ \E d \in [hs -> Data] :
                  cache' = cache \cup { [h |-> h, d |-> d[h]] : h \in hs }
            /\ written' = written \cup hs
            /\ next' = next + k
            /\ UNCHANGED <<db, rewinds, flush, reader>>

\* The forwarder restarted while the router was behind: the block stream now
\* repeats blocks from one that was the latest in the store at that time.  (An
\* Ethereum node that reorganises its chain repeats heights as well.)
Rewind ==
    /\ rewinds < MaxRewinds
    /\ \E h \in FirstHeight .. next - 1 : next' = h
    /\ rewinds' = rewinds + 1
    /\ UNCHANGED <<cache, db, written, flush, reader>>

-----------------------------------------------------------------------------
(* The flusher: flushCache. *)

\* Mutant: the latest blocks are flushed.
FlushReadLatest ==
    /\ flusher = "read"
    /\ Cardinality(cache) >= Threshold
    /\ batch' = Latest(cache, Threshold)
    /\ flusher' = "put"
    /\ UNCHANGED <<cache, db, writer, crashes, reader>>

\* Mutant: the blocks are read without their data.
FlushReadHeights ==
    /\ flusher = "read"
    /\ Cardinality(cache) >= Threshold
    /\ batch' = { [h |-> b.h] : b \in Earliest(cache, Threshold) }
    /\ flusher' = "put"
    /\ UNCHANGED <<cache, db, writer, crashes, reader>>

\* GetEarliestBlocks, once the cache has as many blocks as the threshold.
FlushRead ==
    /\ flusher = "read"
    /\ Cardinality(Earliest(cache, Threshold)) >= Threshold
    /\ batch' = Earliest(cache, Threshold)
    /\ flusher' = "put"
    /\ UNCHANGED <<cache, db, writer, crashes, reader>>

\* INSERT ... ON CONFLICT DO NOTHING: a height keeps its first version.
Inserted(rows) ==
    { b \in rows : /\ b.h \notin Heights(db)
                   /\ \A a \in rows : a.h = b.h => ~Less(a, b) }

FlushPut ==
    /\ flusher = "put"
    /\ db' = db \cup Inserted(batch)
    /\ flusher' = "delete"
    /\ UNCHANGED <<cache, writer, batch, crashes, reader>>

\* Mutant: the cache is emptied, with the blocks that came in meanwhile.
FlushClear ==
    /\ flusher = "delete"
    /\ cache' = {}
    /\ flusher' = "read" /\ batch' = {}
    /\ UNCHANGED <<db, writer, crashes, reader>>

\* Mutant: the blocks stay in the cache.
FlushKeep ==
    /\ flusher = "delete"
    /\ flusher' = "read" /\ batch' = {}
    /\ UNCHANGED <<cache, db, writer, crashes, reader>>

FlushDelete ==
    /\ flusher = "delete"
    /\ cache' = cache \ batch
    /\ flusher' = "read" /\ batch' = {}
    /\ UNCHANGED <<db, writer, crashes, reader>>

\* An error ends the process, as a crash does; it starts over.
FlushCrash ==
    /\ crashes < MaxCrashes /\ crashes' = crashes + 1
    /\ flusher # "read"
    /\ flusher' = "read" /\ batch' = {}
    /\ UNCHANGED <<cache, db, writer, reader>>

-----------------------------------------------------------------------------
(* The readers. *)

Call(op, n, lo, hi) ==
    /\ call.at = "idle"
    /\ call' = [op |-> op, n |-> n, lo |-> lo, hi |-> hi, at |-> "cache"]
    /\ dirty' = <<>> /\ result' = <<>>
    /\ before' = Heights(cache \cup db)
    /\ UNCHANGED <<cache, db, writer, flush>>

CallGetBlocks ==
    \E lo \in FirstHeight .. MaxHeight, n \in Limits : Call("GetBlocks", n, lo, lo + n - 1)

CallGetLatestBlocks == \E n \in Limits : Call("GetLatestBlocks", n, 0, 0)

CallGetLatestBlock == Call("GetLatestBlock", 1, 0, 0)

\* Mutant: the latest blocks are read from the wrong end of the set.
FromCacheEarliest ==
    IF call.op = "GetBlocks" THEN Ascending(InRange(cache, call.lo, call.hi))
    ELSE Descending(Earliest(cache, call.n))

\* What the cache answers.
FromCache ==
    IF call.op = "GetBlocks" THEN Ascending(InRange(cache, call.lo, call.hi))
    ELSE Descending(Latest(cache, call.n))

Wrap(n) == n % UintModulus

\* Mutant: the range ends one height too early.
DbRangeShort(found) ==
    IF call.op = "GetBlocks" THEN <<call.lo, found[1].h - 2>>
    ELSE LET end == found[Len(found)].h - 1
         IN  <<Max({0, Wrap(end - (call.n - Len(found)) + 1)}), end>>

\* The range the database is asked for when the cache had some of the blocks.
\* In GetLatestBlocks the lower end is computed on unsigned integers, so that
\* max(0, ...) never sees a negative number.
DbRange(found) ==
    IF call.op = "GetBlocks" THEN <<call.lo, found[1].h - 1>>
    ELSE LET end == found[Len(found)].h - 1
         IN  <<Max({0, Wrap(end - (call.n - Len(found)) + 1)}), end>>

\* Mutant: the database is asked only when the cache has nothing.
ReadCacheOnly ==
    /\ call.at = "cache"
    /\ dirty' = FromCache /\ result' = FromCache
    /\ call' = [call EXCEPT !.at = IF FromCache = <<>> THEN "db" ELSE "done"]
    /\ UNCHANGED <<cache, db, writer, flush, before>>

\* The call to the cache: it answers alone when it has all of the blocks.
ReadCache ==
    /\ call.at = "cache"
    /\ dirty' = FromCache
    /\ IF Len(FromCache) = call.n
       THEN result' = FromCache /\ call' = [call EXCEPT !.at = "done"]
       ELSE /\ UNCHANGED result
            /\ call' = IF FromCache = <<>> THEN [call EXCEPT !.at = "db"]
                       ELSE [call EXCEPT !.lo = DbRange(FromCache)[1],
                                         !.hi = DbRange(FromCache)[2],
                                         !.at = "rest"]
    /\ UNCHANGED <<cache, db, writer, flush, before>>

\* The cache had none of the blocks: the database answers alone.
ReadDb ==
    /\ call.at = "db"
    /\ result' = IF call.op = "GetBlocks" THEN Ascending(InRange(db, call.lo, call.hi))
                 ELSE Descending(Latest(db, call.n))
    /\ call' = [call EXCEPT !.at = "done"]
    /\ UNCHANGED <<cache, db, writer, flush, dirty, before>>

\* Mutant: the database's blocks are not reversed.
ReadRestAscending ==
    /\ call.at = "rest"
    /\ LET rest == Ascending(InRange(db, call.lo, call.hi))
       IN  result' = IF call.op = "GetBlocks" THEN rest \o dirty ELSE dirty \o rest
    /\ call' = [call EXCEPT !.at = "done"]
    /\ UNCHANGED <<cache, db, writer, flush, dirty, before>>

\* The cache had some of them: the answers are put together.
ReadRest ==
    /\ call.at = "rest"
    /\ LET rest == Ascending(InRange(db, call.lo, call.hi))
       IN  result' = IF call.op = "GetBlocks" THEN rest \o dirty
                     ELSE dirty \o Reverse(rest)
    /\ call' = [call EXCEPT !.at = "done"]
    /\ UNCHANGED <<cache, db, writer, flush, dirty, before>>

Return ==
    /\ call.at = "done"
    /\ call' = Idle /\ dirty' = <<>> /\ result' = <<>> /\ before' = {}
    /\ UNCHANGED <<cache, db, writer, flush>>

-----------------------------------------------------------------------------

Flusher == FlushRead \/ FlushPut \/ FlushDelete
Reader  == \/ CallGetBlocks \/ CallGetLatestBlocks \/ CallGetLatestBlock
           \/ ReadCache \/ ReadDb \/ ReadRest \/ Return

Next == PutBlocks \/ Rewind \/ Flusher \/ FlushCrash \/ Reader

Spec == Init /\ [][Next]_vars

\* The flusher's timer fires again and again, in a process that is restarted
\* when it ends.
FairSpec == Spec /\ WF_vars(Flusher)

-----------------------------------------------------------------------------
(* Properties *)

\* Every variable has its type.
TypeOK ==
    /\ cache \subseteq Block /\ db \subseteq Block /\ batch \subseteq Block
    /\ next \in Nat /\ rewinds \in Nat /\ crashes \in Nat
    /\ written \subseteq Nat /\ before \subseteq Nat
    /\ flusher \in {"read", "put", "delete"}
    /\ call.at \in {"idle", "cache", "db", "rest", "done"}
    /\ dirty \in Seq(Block) /\ result \in Seq(Block)

\* A block that was written stays in the cache or the database at every step
\* of a flush, also when the flusher dies between the two calls.
NoBlockLost == written \subseteq Heights(cache \cup db)

\* The block stream never repeated a height.  After a rewind the two-tier
\* reads really miss blocks (see the README).
NoRewind == rewinds = 0

\* What the comments in GetBlocks and GetLatestBlocks rely on: a block that
\* is only in the database is older than every block of the cache.
CacheIsNewest ==
    NoRewind => \A b \in db : b.h \notin Heights(cache) => \A c \in cache : b.h < c.h

ResultHeights == { result[i].h : i \in 1 .. Len(result) }
Answered(op) == NoRewind /\ call.at = "done" /\ call.op = op

\* GetBlocks returns every block of the range that was in the store when it
\* was called, in ascending order and each height once, although blocks move
\* between the two tiers while it runs.
GetBlocksComplete ==
    Answered("GetBlocks") =>
        /\ { h \in before : call.lo <= h /\ h <= call.lo + call.n - 1 } \subseteq ResultHeights
        /\ \A i, j \in 1 .. Len(result) : i < j => result[i].h < result[j].h

\* An answer of GetBlocks has no hole: the relay continues behind its last
\* block, so a block missing in the middle would never be sent.
GetBlocksContiguous ==
    Answered("GetBlocks") =>
        \A i \in 1 .. Len(result) - 1 : result[i + 1].h = result[i].h + 1

\* GetLatestBlocks returns, newest first, the n highest blocks of the store as
\* it was at some moment of the call.
GetLatestBlocksComplete ==
    Answered("GetLatestBlocks") /\ before # {} =>
        /\ result # <<>> /\ result[1].h >= Max(before)
        /\ ResultHeights = { h \in written : /\ h <= result[1].h
                                             /\ h > result[1].h - call.n }
        /\ \A i, j \in 1 .. Len(result) : i < j => result[i].h > result[j].h

\* The forwarder is never told to start below a block that was the latest of
\* the store when it asked.
GetLatestBlockIsLatest ==
    Answered("GetLatestBlock") /\ before # {} =>
        result # <<>> /\ result[1].h >= Max(before)

\* While the flusher fails only finitely often, the cache does not stay at or
\* above the flush threshold.
CacheDrains == []<>(Cardinality(cache) < Threshold)
=============================================================================
