---------------------------- MODULE WebhookRelay ----------------------------
(***************************************************************************)
(* The life of a webhook job on one shard of a chain's redis cluster.      *)
(*                                                                         *)
(* A shard holds the latest block height, the pending set, the webhook     *)
(* stream with its consumer group, and the webhook set.  Four kinds of     *)
(* actors change it, each by a lua script that redis runs atomically:      *)
(*   - the dashboard's API activates webhooks            (activate.ts)     *)
(*   - the block router flushes the pending set          (Flush)           *)
(*   - relay workers read jobs through the consumer group and replace each *)
(*     handled job by its successor, or drop it          (XAckDel)         *)
(* Everything a worker does between two redis calls can be interleaved     *)
(* with the other actors, fail, or be cut off by the death of the process. *)
(*                                                                         *)
(* The block store is the set of stored heights.  A read of it is answered *)
(* as its two tiers answer it, for every part of the heights the cache may *)
(* hold; module CachedStore models how they come to be there.              *)
(***************************************************************************)
EXTENDS Integers, Sequences, FiniteSets, FiniteSetsExt, SequencesExt

CONSTANTS
    Webhook,        \* webhook ids, all on this shard
    Process,        \* replicas of the webhook processor
    Concurrency,    \* workers of each replica
    MaxBlocks,      \* max_blocks column of each webhook
    MaxRetries,     \* max_retries column of each webhook
    BatchSize,      \* the router's batch size
    MaxHeight,      \* bound: highest block the chain produces
    MaxGap,         \* heights a batch may leave out when the forwarder restarts
    MaxFaults,      \* bound: crashes, database and redis errors, repeated batches
    ClientResends   \* may the redis client send a command again?

ASSUME ConstantsAssumption ==
    /\ Concurrency \in Nat \ {0} /\ BatchSize \in Nat \ {0}
    /\ MaxHeight \in Nat /\ MaxGap \in Nat /\ MaxFaults \in Nat
    /\ MaxBlocks \in [Webhook -> Nat \ {0}]
    /\ MaxRetries \in [Webhook -> Nat]
    /\ ClientResends \in BOOLEAN

\* The consumer names "<process>-<i>" that Subscribe registers.
Consumer == Process \X (0 .. Concurrency - 1)

\* WebhookStreamMsgData.  In the pending set the score of a job is its h.
Job == [w : Webhook, h : Nat, new : BOOLEAN]

\* An entry of the group's pending entries list: the job, the delivery count
\* redis keeps, and (ghost) how often the webhook's URL was called for it.
Entry == [job : Job, n : Nat, tries : Nat]

VARIABLES
    latest,     \* latest block height of the shard, 0 while the key is absent
    pending,    \* pending set: jobs waiting for blocks
    stream,     \* jobs of the webhook stream not yet delivered to a consumer
    pel,        \* per consumer, its delivered and unacknowledged entries
    webhookSet, \* webhook set: the activated webhooks
    rows,       \* webhooks that have a row in MySQL
    requested,  \* webhooks an activation request has selected from MySQL
    stored,     \* heights in the block store
    flushing,   \* height the router is flushing, 0 between batches
    repeated,   \* has the block stream repeated a batch?
    pc,         \* per consumer, the next remote call of its worker
    pos,        \* per consumer, entries of pel at or below the backlog cursor
    backlog,    \* per consumer, isBacklogMsg
    blocks,     \* per consumer, heights fetched from the block store
    faults,     \* crashes, errors and repeated batches so far
    sent,       \* ghost: heights whose POST succeeded, from the first batch on
    skipped     \* ghost: heights given up after too many deliveries

redis  == <<latest, pending, stream, pel, webhookSet>>
api    == <<rows, requested>>
router == <<stored, flushing, repeated>>
worker == <<pc, pos, backlog, blocks>>
ghost  == <<sent, skipped>>
vars   == <<redis, api, router, worker, faults, ghost>>

Init ==
    /\ latest = 0 /\ pending = {} /\ stream = <<>> /\ webhookSet = {}
    /\ pel = [c \in Consumer |-> <<>>]
    /\ rows = Webhook /\ requested = {}
    /\ stored = {} /\ flushing = 0 /\ repeated = FALSE
    /\ pc = [c \in Consumer |-> "backlog"]
    /\ pos = [c \in Consumer |-> 0]
    /\ backlog = [c \in Consumer |-> FALSE]
    /\ blocks = [c \in Consumer |-> {}]
    /\ faults = 0
    /\ sent = [w \in Webhook |-> {}] /\ skipped = [w \in Webhook |-> {}]

Fault == faults < MaxFaults /\ faults' = faults + 1

-----------------------------------------------------------------------------
(* The dashboard's API. *)

\* The activate mutation selects the customer's webhooks from MySQL.
ActivateSelect(w) ==
    /\ w \in rows \ requested
    /\ requested' = requested \cup {w}
    /\ UNCHANGED <<redis, rows, router, worker, faults, ghost>>

\* Mutant: the score of a first job is below every height.
ActivateScriptBelowZero(w) ==
    /\ w \in requested /\ requested' = requested \ {w}
    /\ pending' = IF w \in webhookSet THEN pending
                  ELSE pending \cup {[w |-> w, h |-> -1, new |-> TRUE]}
    /\ webhookSet' = webhookSet \cup {w}
    /\ UNCHANGED <<latest, stream, pel, rows, router, worker, faults, ghost>>

\* Mutant: the script does not ask whether the webhook is a member.
ActivateScriptAlways(w) ==
    /\ w \in requested /\ requested' = requested \ {w}
    /\ pending' = pending \cup {[w |-> w, h |-> 0, new |-> TRUE]}
    /\ webhookSet' = webhookSet \cup {w}
    /\ UNCHANGED <<latest, stream, pel, rows, router, worker, faults, ghost>>

\* The activate script.  A webhook that is a member already gets no job.
ActivateScript(w) ==
    /\ w \in requested
    /\ requested' = requested \ {w}
    /\ pending' = IF w \in webhookSet THEN pending
                  ELSE pending \cup {[w |-> w, h |-> 0, new |-> TRUE]}
    /\ webhookSet' = webhookSet \cup {w}
    /\ UNCHANGED <<latest, stream, pel, rows, router, worker, faults, ghost>>

\* The remove mutation deletes the row only; redis learns of it from a worker.
RemoveWebhook(w) ==
    /\ w \in rows
    /\ rows' = rows \ {w}
    /\ UNCHANGED <<redis, requested, router, worker, faults, ghost>>

-----------------------------------------------------------------------------
(* The block router's handler, as this shard sees it. *)

Tip == IF stored = {} THEN 0 ELSE Max(stored)

\* PutBlocks of a batch.  The batch continues the chain, unless the forwarder
\* restarted without a start height and left out up to MaxGap heights.
RouterPut ==
    /\ flushing = 0
    /\ \E k \in 1 .. BatchSize, g \in 0 .. MaxGap :
          /\ Tip + g + k <= MaxHeight
          /\ stored' = stored \cup (Tip + g + 1 .. Tip + g + k)
          /\ flushing' = Tip + g + k
    /\ UNCHANGED <<redis, api, repeated, worker, faults, ghost>>

\* PutBlocks of a batch that ends at a stored height: the forwarder restarted,
\* or the chain was reorganised, and the block stream repeats blocks.
RouterReplay ==
    /\ flushing = 0 /\ Fault
    /\ flushing' \in stored
    /\ repeated' = TRUE
    /\ UNCHANGED <<redis, api, stored, worker, ghost>>

\* The orders in which ZPOPMIN can empty a set of jobs: smallest score first.
PopOrders(S) ==
    { s \in Bijection(1 .. Cardinality(S), S) :
        \A i, j \in 1 .. Cardinality(S) : i < j => s[i].h <= s[j].h }

\* Mutant: the popped jobs are not added to the stream.
FlushWithoutXAdd(height) ==
    /\ latest' = height /\ pending' = { j \in pending : j.h >= height }
    /\ UNCHANGED <<stream, pel, webhookSet>>

\* Mutant: the bound of the scores is one too low.
FlushBelow(height) ==
    LET ready == { j \in pending : j.h < height - 1 }
    IN  /\ latest' = height /\ pending' = pending \ ready
        /\ \E s \in PopOrders(ready) : stream' = stream \o s
        /\ UNCHANGED <<pel, webhookSet>>

\* The Flush script.  Its two loops move the same jobs: those below height.
Flush(height) ==
    LET ready == { j \in pending : j.h < height }
    IN  /\ latest' = height
        /\ pending' = pending \ ready
        /\ \E s \in PopOrders(ready) : stream' = stream \o s
        /\ UNCHANGED <<pel, webhookSet>>

\* The router flushes the shard, again when another shard's flush failed or
\* it crashed before it acknowledged the batch.
RouterFlush ==
    /\ flushing > 0
    /\ Flush(flushing)
    /\ UNCHANGED <<api, router, worker, faults, ghost>>

\* XAckDel on the block stream, once every shard was flushed.
RouterAck ==
    /\ flushing > 0 /\ latest = flushing
    /\ flushing' = 0
    /\ UNCHANGED <<redis, api, stored, repeated, worker, faults, ghost>>

-----------------------------------------------------------------------------
(* A relay worker: the loop of Subscribe. *)

\* Mutant: a delivery from the backlog is not counted.
RedeliverUncounted(c) ==
    /\ pc[c] = "backlog" /\ pos[c] < Len(pel[c])
    /\ UNCHANGED redis

\* XREADGROUP from the cursor: redis delivers the next entry of the worker's
\* own backlog once more.
Redeliver(c) ==
    /\ pc[c] = "backlog" /\ pos[c] < Len(pel[c])
    /\ pel' = [pel EXCEPT ![c][pos[c] + 1].n = @ + 1]
    /\ UNCHANGED <<latest, pending, stream, webhookSet>>

\* XREADGROUP from ">": blocks until the stream has an undelivered job.
Deliver(c) ==
    /\ pc[c] = "new" /\ stream # <<>>
    /\ stream' = Tail(stream)
    /\ pel' = [pel EXCEPT ![c] =
                 Append(@, [job |-> Head(stream), n |-> 1, tries |-> 0])]
    /\ UNCHANGED <<latest, pending, webhookSet>>

\* The worker receives an entry of its backlog.
BacklogRead(c) ==
    /\ Redeliver(c)
    /\ pos' = [pos EXCEPT ![c] = @ + 1]
    /\ backlog' = [backlog EXCEPT ![c] = TRUE]
    /\ pc' = [pc EXCEPT ![c] = "find"]
    /\ UNCHANGED <<api, router, blocks, faults, ghost>>

\* Nothing after the cursor: start over from "0-0", or leave the backlog when
\* the cursor is there already.
BacklogEnd(c) ==
    /\ pc[c] = "backlog" /\ pos[c] >= Len(pel[c])
    /\ pos' = [pos EXCEPT ![c] = 0]
    /\ pc' = [pc EXCEPT ![c] = IF pos[c] = 0 THEN "new" ELSE "backlog"]
    /\ UNCHANGED <<redis, api, router, backlog, blocks, faults, ghost>>

\* The worker receives a new job.
NewRead(c) ==
    /\ Deliver(c)
    /\ pos' = [pos EXCEPT ![c] = Len(pel[c]) + 1]
    /\ backlog' = [backlog EXCEPT ![c] = FALSE]
    /\ pc' = [pc EXCEPT ![c] = "find"]
    /\ UNCHANGED <<api, router, blocks, faults, ghost>>

\* An error of XREADGROUP, before or after redis delivered an entry, ends the
\* worker's goroutine, and only that one.
ReadError(c) ==
    /\ pc[c] \in {"backlog", "new"} /\ Fault
    /\ UNCHANGED redis \/ Redeliver(c) \/ Deliver(c)
    /\ pc' = [pc EXCEPT ![c] = "stopped"]
    /\ UNCHANGED <<api, router, pos, backlog, blocks, ghost>>

\* The reply of XREADGROUP is lost and the redis client sends the command once
\* more: the entry is delivered, and the worker still waits for one.
ReadAgain(c) ==
    /\ ClientResends /\ Fault
    /\ Redeliver(c) \/ Deliver(c)
    /\ UNCHANGED <<api, router, worker, ghost>>

\* Mutant: after a new message the worker asks for the next new one.
HandlerReturnsToNew(c, kept) ==
    /\ pc' = [pc EXCEPT ![c] = IF backlog[c] THEN "backlog" ELSE "new"]
    /\ pos' = [pos EXCEPT ![c] = IF backlog[c] /\ kept THEN @ ELSE 0]
    /\ backlog' = [backlog EXCEPT ![c] = FALSE]
    /\ blocks' = [blocks EXCEPT ![c] = {}]

\* The handler returned: a new message leads back to the start of the backlog,
\* a backlog message moves the cursor past itself (kept says whether it is
\* still an entry).
HandlerReturns(c, kept) ==
    /\ pc' = [pc EXCEPT ![c] = "backlog"]
    /\ pos' = [pos EXCEPT ![c] = IF ~backlog[c] THEN 0
                                 ELSE IF kept THEN @ ELSE @ - 1]
    /\ backlog' = [backlog EXCEPT ![c] = FALSE]
    /\ blocks' = [blocks EXCEPT ![c] = {}]

\* msgs[0], the message the worker's handler was called with.
Msg(c) == pel[c][pos[c]].job

-----------------------------------------------------------------------------
(* handleMessages of the relay, one action per remote call. *)

\* A call to MySQL, redis or the block store fails: the error is logged and
\* the entry stays in the worker's backlog.
CallError(c) ==
    /\ pc[c] \in {"find", "drop", "skip", "fetch", "ack"} /\ Fault
    /\ HandlerReturns(c, TRUE)
    /\ UNCHANGED <<redis, api, router, ghost>>

\* Mutant: the retry limit ends the feed.
FindOneEnds(c) ==
    /\ pc[c] = "find"
    /\ LET w == Msg(c).w
           n == pel[c][pos[c]].n
       IN  pc' = [pc EXCEPT ![c] =
                    IF w \in rows /\ (backlog[c] => n < MaxRetries[w]) THEN "fetch"
                    ELSE "drop"]
    /\ UNCHANGED <<redis, api, router, pos, backlog, blocks, faults, ghost>>

\* WebhooksFindOne, then for a backlog message GetPendingMsg and the check of
\* its delivery count.
FindOne(c) ==
    /\ pc[c] = "find"
    /\ LET w == Msg(c).w
           n == pel[c][pos[c]].n
       IN  pc' = [pc EXCEPT ![c] =
                    CASE w \notin rows -> "drop"
                      [] w \in rows /\ backlog[c] /\ n >= MaxRetries[w] -> "skip"
                      [] OTHER -> "fetch"]
    /\ UNCHANGED <<redis, api, router, pos, backlog, blocks, faults, ghost>>

Above(S, h) == Cardinality({ g \in S : g > h })

\* What the cache can hold of the stored heights: the newest of them
\* (CacheIsNewest of CachedStore) until a batch is repeated.
Caches == IF repeated THEN SUBSET stored
          ELSE { { h \in stored : h > x } : x \in {0} \cup stored }

\* The heights of which the cache can hold a second version: a reorganised
\* block is another member.  (Bound: two versions of a height between two flushes
\* of the cache.)
Versions(C) == IF repeated THEN SUBSET C ELSE {{}}

\* The heights GetBlocks finds of a range: those in the cache, and below them
\* those in the database, unless the cache has as many blocks as were asked for.
GetBlocks(lo, hi, C, two) ==
    LET found == { h \in C : lo <= h /\ h <= hi }
    IN  IF Cardinality(found) + Cardinality(found \cap two) = hi - lo + 1 THEN found
        ELSE found \cup { h \in stored :
                           lo <= h /\ h <= hi /\ \A c \in found : h < c }

\* The heights of GetLatestBlocks: the newest n blocks of the cache, and as many
\* heights below them as it lacks.  (The bound of these is unsigned: there are
\* none when it wraps around.)
GetLatestBlocks(n, C, two) ==
    IF C = {} THEN { h \in stored : Above(stored, h) < n }
    ELSE LET low == Min(C) - (n - Cardinality(C) - Cardinality(two))
         IN  { h \in C : Above(C, h) + Above(two, h) < n }
               \cup { h \in stored : 0 <= low /\ low <= h /\ h < Min(C) }

\* The answers the block store can give for a job.
Answers(j) ==
    LET n == MaxBlocks[j.w]
    IN  UNION { { IF j.new THEN GetLatestBlocks(n, C, two)
                  ELSE GetBlocks(j.h, j.h + n - 1, C, two) : two \in Versions(C) } :
                C \in Caches }

\* GetLatestBlocks for a new webhook, GetBlocks for the job's range otherwise.
FetchBlocks(c) ==
    /\ pc[c] = "fetch"
    /\ \E B \in Answers(Msg(c)) \ {{}} : blocks' = [blocks EXCEPT ![c] = B]
    /\ pc' = [pc EXCEPT ![c] = "post"]
    /\ UNCHANGED <<redis, api, router, pos, backlog, faults, ghost>>

\* The process dies, by itself or because a worker panicked, and is started
\* again: every worker begins with its backlog.
Restart(p) ==
    LET reset(f, v) == [c \in Consumer |-> IF c[1] = p THEN v ELSE f[c]]
    IN  /\ pc' = reset(pc, "backlog")
        /\ pos' = reset(pos, 0)
        /\ backlog' = reset(backlog, FALSE)
        /\ blocks' = reset(blocks, {})

Panic(c) ==
    /\ pc[c] = "fetch" /\ {} \in Answers(Msg(c))
    /\ Restart(c[1])
    /\ UNCHANGED <<redis, api, router, faults, ghost>>

Crash(p) ==
    /\ Fault /\ Restart(p)
    /\ UNCHANGED <<redis, api, router, ghost>>

\* eg.Wait returns once every worker of the process has stopped.
Exit(p) ==
    /\ \A c \in Consumer : c[1] = p => pc[c] = "stopped"
    /\ Restart(p)
    /\ UNCHANGED <<redis, api, router, faults, ghost>>

Tried(c) == pel' = [pel EXCEPT ![c][pos[c]].tries = @ + 1]

\* The POST request returned without an error.  A new webhook's feed begins
\* with this batch.
PostOk(c) ==
    LET w == Msg(c).w
    IN  /\ pc[c] = "post"
        /\ Tried(c)
        /\ sent' = [sent EXCEPT ![w] = IF Msg(c).new THEN blocks[c]
                                       ELSE @ \cup blocks[c]]
        /\ pc' = [pc EXCEPT ![c] = "ack"]
        /\ UNCHANGED <<latest, pending, stream, webhookSet, api, router, pos,
                       backlog, blocks, faults, skipped>>

\* The POST request timed out or could not be sent.
PostError(c) ==
    /\ pc[c] = "post"
    /\ Tried(c)
    /\ HandlerReturns(c, TRUE)
    /\ UNCHANGED <<latest, pending, stream, webhookSet, api, router, faults,
                   ghost>>

-----------------------------------------------------------------------------
(* The XAckDel scripts. *)

Acked(c) == pel' = [pel EXCEPT ![c] = RemoveAt(@, pos[c])]

\* No successor: the job and the webhook's membership go together.
Drop(c) ==
    /\ pc[c] = "drop"
    /\ Acked(c)
    /\ webhookSet' = webhookSet \ {Msg(c).w}
    /\ HandlerReturns(c, FALSE)
    /\ UNCHANGED <<latest, pending, stream, api, router, faults, ghost>>

\* blocks[len(blocks)-1]: GetLatestBlocks returns its blocks in descending
\* order, GetBlocks in ascending order.
LastBlock(c) == IF Msg(c).new THEN Min(blocks[c]) ELSE Max(blocks[c])

\* Mutant: the range begins with the last block that was sent.
SuccessorOverlaps(c) ==
    [w |-> Msg(c).w, new |-> pc[c] = "skip" /\ Msg(c).new,
     h |-> IF pc[c] = "skip" THEN Msg(c).h + 1 ELSE LastBlock(c)]

\* Mutant: the range begins one block too late.
SuccessorSkips(c) ==
    [w |-> Msg(c).w, new |-> pc[c] = "skip" /\ Msg(c).new,
     h |-> IF pc[c] = "skip" THEN Msg(c).h + 1 ELSE LastBlock(c) + 2]

\* The job that takes the place of the one in hand.
Successor(c) ==
    IF pc[c] = "skip" THEN [w |-> Msg(c).w, h |-> Msg(c).h + 1, new |-> Msg(c).new]
    ELSE [w |-> Msg(c).w, h |-> LastBlock(c) + 1, new |-> FALSE]

\* Mutant: the comparison with the latest height is off by one.
RescheduleLate(j) ==
    IF j.h + 1 >= latest
    THEN pending' = pending \cup {j} /\ UNCHANGED stream
    ELSE stream' = Append(stream, j) /\ UNCHANGED pending

\* Mutant: the successor always goes to the stream.
RescheduleAtOnce(j) == stream' = Append(stream, j) /\ UNCHANGED pending

\* The successor goes to the pending set unless newer blocks are there.
Reschedule(j) ==
    IF j.h >= latest
    THEN pending' = pending \cup {j} /\ UNCHANGED stream
    ELSE stream' = Append(stream, j) /\ UNCHANGED pending

\* Ghost: a job of a running feed that is skipped gives up its first height.
GiveUp(c) ==
    skipped' = IF pc[c] = "skip" /\ ~Msg(c).new
               THEN [skipped EXCEPT ![Msg(c).w] = @ \cup {Msg(c).h}]
               ELSE skipped

\* The job in hand and its successor change places.
Replace(c) ==
    /\ pc[c] \in {"skip", "ack"}
    /\ Acked(c)
    /\ Reschedule(Successor(c))
    /\ GiveUp(c)
    /\ HandlerReturns(c, FALSE)
    /\ UNCHANGED <<latest, webhookSet, api, router, faults, sent>>

\* The reply of the script is lost and the redis client sends it once more:
\* XACK and XDEL find nothing, ZADD and XADD run again.
ReplaceTwice(c) ==
    /\ ClientResends
    /\ pc[c] \in {"skip", "ack"} /\ Fault
    /\ Acked(c)
    /\ LET j == Successor(c)
       IN  IF j.h >= latest
           THEN pending' = pending \cup {j} /\ UNCHANGED stream
           ELSE stream' = stream \o <<j, j>> /\ UNCHANGED pending
    /\ GiveUp(c)
    /\ HandlerReturns(c, FALSE)
    /\ UNCHANGED <<latest, webhookSet, api, router, sent>>

-----------------------------------------------------------------------------

Api == \E w \in Webhook : ActivateSelect(w) \/ ActivateScript(w) \/ RemoveWebhook(w)

Router == RouterPut \/ RouterReplay \/ RouterFlush \/ RouterAck

\* What a worker does when nothing goes wrong but the POST request.
Work(c) ==
    \/ BacklogRead(c) \/ BacklogEnd(c) \/ NewRead(c)
    \/ FindOne(c) \/ FetchBlocks(c) \/ Panic(c)
    \/ PostOk(c) \/ PostError(c)
    \/ Drop(c) \/ Replace(c)

Failure ==
    \/ \E c \in Consumer : \/ ReadError(c) \/ ReadAgain(c) \/ CallError(c)
                            \/ ReplaceTwice(c)
    \/ \E p \in Process : Crash(p)

Next ==
    \/ Api \/ Router \/ Failure
    \/ \E c \in Consumer : Work(c)
    \/ \E p \in Process : Exit(p)

Spec == Init /\ [][Next]_vars

\* Workers run until they stop, a process that ends is started again
\* (restart = "always"), and the router repeats a batch until it is flushed.
Fairness ==
    /\ \A c \in Consumer : WF_vars(Work(c))
    /\ \A p \in Process : WF_vars(Exit(p))
    /\ WF_vars(RouterFlush /\ latest # flushing) /\ WF_vars(RouterAck)

FairSpec == Spec /\ Fairness

-----------------------------------------------------------------------------
(* Properties *)

PC == {"backlog", "new", "find", "drop", "skip", "fetch", "post", "ack", "stopped"}

\* Every variable has its type.
TypeOK ==
    /\ latest \in Nat /\ flushing \in Nat /\ faults \in Nat
    /\ pending \subseteq Job /\ IsFiniteSet(pending) /\ stream \in Seq(Job)
    /\ pel \in [Consumer -> Seq(Entry)]
    /\ webhookSet \subseteq Webhook /\ rows \subseteq Webhook
    /\ requested \subseteq Webhook
    /\ stored \subseteq 1 .. MaxHeight /\ repeated \in BOOLEAN
    /\ pc \in [Consumer -> PC] /\ pos \in [Consumer -> Nat]
    /\ backlog \in [Consumer -> BOOLEAN]
    /\ blocks \in [Consumer -> SUBSET (1 .. MaxHeight)]
    /\ sent \in [Webhook -> SUBSET Nat] /\ skipped \in [Webhook -> SUBSET Nat]

PendingIds == { j.w : j \in pending }
PelIds(c)  == { pel[c][i].job.w : i \in 1 .. Len(pel[c]) }
DeliveredIds == UNION { PelIds(c) : c \in Consumer }

Ids(s) == { s[i].w : i \in 1 .. Len(s) }
Distinct(s) == \A i, j \in 1 .. Len(s) : s[i].w = s[j].w => i = j

\* A webhook is registered exactly when it has a job, and never has two:
\* neither a script that two actors race to run, nor a crash between a read,
\* the POST request and the acknowledgement loses or doubles the job.
OneJobPerWebhook ==
    /\ webhookSet = PendingIds \cup Ids(stream) \cup DeliveredIds
    /\ PendingIds \cap Ids(stream) = {}
    /\ \A c \in Consumer : PelIds(c) \cap (PendingIds \cup Ids(stream)) = {}
    /\ \A c, d \in Consumer : c # d => PelIds(c) \cap PelIds(d) = {}
    /\ \A i, j \in pending : i.w = j.w => i = j
    /\ Distinct(stream)
    /\ \A c \in Consumer : \A i, j \in 1 .. Len(pel[c]) :
          pel[c][i].job.w = pel[c][j].job.w => i = j

\* Even when the client repeats commands, no registered webhook is left
\* without a job.
NoJobLost ==
    webhookSet \subseteq PendingIds \cup Ids(stream) \cup DeliveredIds

\* A worker never takes a second job while one is unacknowledged, whatever
\* failed before: at most Concurrency jobs of a process are in flight.  (A
\* client that repeats XREADGROUP can take a second one.)
OneInFlight == \A c \in Consumer : Len(pel[c]) <= 1

\* What a worker knows of its own backlog: in the middle of its handler it
\* holds its only entry, it asks for a new job only with an empty backlog, and
\* between fetching and acknowledging it has blocks.
WorkerOK ==
    \A c \in Consumer :
        /\ pc[c] \in {"find", "drop", "skip", "fetch", "post", "ack"}
              => pos[c] = 1 /\ Len(pel[c]) = 1
        /\ pc[c] = "new" => Len(pel[c]) = 0
        /\ pc[c] \in {"post", "ack"} => blocks[c] # {}

\* A job that newer blocks exist for is not left in the pending set: the
\* worker that reschedules it and the router that flushes cannot miss each
\* other.  (A job that was just activated has score 0 until the next flush.)
NoLostWakeup == \A j \in pending : j.h = 0 \/ j.h >= latest

\* The block store always has a block for the job in hand, so the relay does
\* not panic, as long as the stored heights have no gap.
RelayNeverPanics ==
    \A c \in Consumer : pc[c] = "fetch" => {} \notin Answers(Msg(c))

AllJobs == pending \cup { stream[i] : i \in 1 .. Len(stream) }
             \cup UNION { { pel[c][i].job : i \in 1 .. Len(pel[c]) } : c \in Consumer }

\* Are a webhook's batches all that is stored of their range?  After a repeated
\* batch the cache is no longer the newest part of the store, and what is only
\* in the database can be left out between the cached blocks of a range.
Whole(w) == ~repeated \/ MaxBlocks[w] = 1

\* Once a webhook's feed has begun, every stored block below its job's height
\* was accepted by the webhook's URL or given up by the retry limit: always
\* when its ranges are of one block, and until a batch is repeated otherwise.
NoSilentGap ==
    \A j \in AllJobs : ~j.new /\ Whole(j.w) =>
        { h \in stored : Min(sent[j.w]) <= h /\ h < j.h } \subseteq sent[j.w] \cup skipped[j.w]

\* The URL is called at most once for a message when max_retries is 0, 1 or 2,
\* and at most max_retries - 1 times otherwise, crashes included: the delivery
\* is counted before the request is sent.
TriesBounded ==
    \A c \in Consumer : \A i \in 1 .. Len(pel[c]) :
        LET e == pel[c][i]
        IN  e.tries <= Max({1, MaxRetries[e.job.w] - 1})

\* While nothing has failed, no block is sent to a webhook again.
FreshRange ==
    faults = 0 =>
        \A c \in Consumer : pc[c] = "post" /\ ~Msg(c).new
            => blocks[c] \cap sent[Msg(c).w] = {}

\* The height at which a webhook's feed goes on: that of its job.
NextHeight(w) ==
    LET H == { j.h : j \in { k \in AllJobs : k.w = w /\ ~k.new } }
    IN  IF H = {} THEN 0 ELSE CHOOSE h \in H : TRUE

Feed == INSTANCE WebhookFeed WITH next <- [w \in Webhook |-> NextHeight(w)],
                                  whole <- { w \in Webhook : Whole(w) }

\* A shard with all its jobs, workers and failures is a feed for every webhook:
\* each step of the relay takes a feed on in order, or is not seen by customers.
FeedIsImplemented == Feed!Spec

\* The inductive invariant behind the theorems of WebhookRelayProofs.
IInv == TypeOK /\ OneInFlight /\ WorkerOK /\ OneJobPerWebhook /\ NoLostWakeup

\* Where a worker is in its backlog: in the middle of its handler the message in
\* hand is one of its entries, and after fetching it has blocks.
CursorOK(c) ==
    /\ pos[c] <= Len(pel[c])
    /\ pc[c] \in {"find", "drop", "skip", "fetch", "post", "ack"} => pos[c] > 0
    /\ pc[c] \in {"post", "ack"} => blocks[c] # {}

\* What bounds the tries of a worker's entry: a try follows a delivery, and only
\* a delivery below the limit is tried again.
RetryOK(c, i) ==
    LET e == pel[c][i]
    IN  /\ e.tries <= e.n
        /\ e.tries <= 1 \/ e.tries < MaxRetries[e.job.w]
        /\ i = pos[c] /\ pc[c] \in {"find", "fetch", "post"}
             => e.tries < e.n /\ (~backlog[c] => e.n = 1)
        /\ i = pos[c] /\ pc[c] \in {"fetch", "post"} /\ backlog[c]
             => e.n < MaxRetries[e.job.w]

\* The inductive invariant behind the theorems of RelayRetryProofs, which also
\* hold when the client repeats commands.
RetryInv ==
    /\ TypeOK /\ NoJobLost /\ NoLostWakeup
    /\ \A c \in Consumer : CursorOK(c) /\ \A i \in 1 .. Len(pel[c]) : RetryOK(c, i)

InStream(j) == \/ \E i \in 1 .. Len(stream) : stream[i] = j
               \/ \E c \in Consumer : \E i \in 1 .. Len(pel[c]) : pel[c][i].job = j

\* A job of a stopped worker whose process goes on with its other workers: no
\* other worker reads it, and the process does not end.
Stuck(j) ==
    \E c, d \in Consumer :
        /\ pc[c] = "stopped" /\ \E i \in 1 .. Len(pel[c]) : pel[c][i].job = j
        /\ d[1] = c[1] /\ pc[d] # "stopped"

\* Every job in the stream is eventually replaced or dropped, however often
\* its POST request fails and after any finite number of faults, unless an
\* error ended its worker and not the process: then the job can stay with it.
JobsProgress ==
    \A j \in [w : Webhook, h : 0 .. MaxHeight - 1, new : BOOLEAN] :
        InStream(j) ~> (~InStream(j) \/ []Stuck(j))

\* A job of the webhook is above height h.
Passed(w, h) == \E j \in AllJobs : j.w = w /\ ~j.new /\ j.h > h

\* Once the shard has been flushed for a later block, every stored block that
\* a webhook's job has yet to cover is eventually accepted or given up, unless
\*   - the webhook is removed, or its job stays with a worker that has ended,
\*   - a repeated batch takes the latest height back (the block then waits until
\*     the height is passed again), or
\*   - a batch was repeated and a range passed the block without it.
BlocksReachWebhooks ==
    \A w \in Webhook, h \in 1 .. MaxHeight - 1 :
        (h \in stored /\ h < latest /\ \E j \in AllJobs : j.w = w /\ ~j.new /\ j.h <= h)
            ~> (\/ h \in sent[w] \cup skipped[w]
                \/ w \notin rows \/ h >= latest
                \/ ~Whole(w) /\ Passed(w, h)
                \/ [](\E j \in AllJobs : j.w = w /\ Stuck(j)))
=============================================================================
