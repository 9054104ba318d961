---------------------------- MODULE BlockPipeline ----------------------------
(***************************************************************************)
(* How a block gets from the chain's node to the block store and to the    *)
(* shards of the chain's redis cluster.                                    *)
(*                                                                         *)
(* The Ethereum forwarder subscribes to the node's new headers and appends *)
(* each block to the block stream.  The block router, the only consumer of *)
(* that stream, takes batches: it stores the blocks, flushes every shard   *)
(* in parallel with the batch's largest height, and acknowledges the batch *)
(* when nothing failed.  Both are processes that are started again when    *)
(* they end.  A block is represented by its height.                        *)
(***************************************************************************)
EXTENDS Integers, Sequences, FiniteSets, FiniteSetsExt, SequencesExt

CONSTANTS
    Shard,          \* shards of the redis cluster
    BatchSize,      \* the router's batch size
    FirstHead,      \* the node's block when the system is first started
    MaxHeight,      \* bound: highest block of the chain
    MaxFaults       \* bound: crashes and failed calls

ASSUME ConstantsAssumption ==
    /\ BatchSize \in Nat \ {0}
    /\ FirstHead \in Nat \ {0} /\ MaxHeight \in Nat /\ MaxFaults \in Nat

VARIABLES
    head,       \* the node's latest block
    headers,    \* headers the subscription has delivered and nobody has read
    fwd,        \* the forwarder: "start", "subscribe", "run" or "catchup"
    curr,       \* currHeight of the block source, 0 when it is nil
    isBehind,   \* no header was handled yet and curr was not nil
    stream,     \* blocks of the block stream not yet delivered
    pel,        \* blocks delivered to the router and not acknowledged
    pc,         \* the router: "backlog", "new", "put", "flush" or "ack"
    pos,        \* entries of pel at or below the router's backlog cursor
    held,       \* number of entries after pos that the handler works on
    backlog,    \* isBacklogMsg
    todo,       \* shards whose flush has not returned
    failed,     \* did one of the flushes return an error?
    stored,     \* heights in the block store
    latest,     \* latest block height of each shard, 0 while absent
    faults,     \* crashes and errors so far
    resent,     \* ghost: did the redis client ever send XREADGROUP twice?
    forwarded,  \* ghost: heights ever added to the block stream
    reached,    \* ghost: largest height each shard was ever flushed with
    coldStarts  \* ghost: starts of the forwarder that found no stored block

forwarder == <<headers, fwd, curr, isBehind>>
router    == <<pc, pos, held, backlog, todo, failed>>
queue     == <<stream, pel>>
shards    == <<latest, reached>>
vars == <<head, forwarder, queue, router, stored, shards, faults, resent,
          forwarded, coldStarts>>

Init ==
    /\ head = FirstHead /\ headers = <<>>
    /\ fwd = "start" /\ curr = 0 /\ isBehind = FALSE
    /\ stream = <<>> /\ pel = <<>>
    /\ pc = "backlog" /\ pos = 0 /\ held = 0 /\ backlog = FALSE
    /\ todo = {} /\ failed = FALSE
    /\ stored = {} /\ latest = [s \in Shard |-> 0]
    /\ faults = 0 /\ resent = FALSE
    /\ forwarded = {} /\ reached = [s \in Shard |-> 0] /\ coldStarts = 0

Fault == faults < MaxFaults /\ faults' = faults + 1

-----------------------------------------------------------------------------
(* The node and the forwarder. *)

\* The chain grows; a subscription delivers the header.
NewHead ==
    /\ head < MaxHeight
    /\ head' = head + 1
    /\ headers' = IF fwd \in {"run", "catchup"} THEN Append(headers, head + 1)
                  ELSE headers
    /\ UNCHANGED <<fwd, curr, isBehind, queue, router, stored, shards, faults,
                   forwarded, coldStarts, resent>>

\* The forwarder asks the block store where to start.
StartForwarder ==
    /\ fwd = "start"
    /\ curr' = IF stored = {} THEN 0 ELSE Max(stored)
    /\ coldStarts' = IF stored = {} THEN coldStarts + 1 ELSE coldStarts
    /\ fwd' = "subscribe"
    /\ UNCHANGED <<head, headers, isBehind, queue, router, stored, shards,
                   faults, forwarded, resent>>

SubscribeNewHead ==
    /\ fwd = "subscribe"
    /\ headers' = <<>> /\ isBehind' = (curr # 0)
    /\ fwd' = "run"
    /\ UNCHANGED <<head, curr, queue, router, stored, shards, faults,
                   forwarded, coldStarts, resent>>

XAdd(h) == stream' = Append(stream, h) /\ forwarded' = forwarded \cup {h}

\* A header of a forwarder that is up to date: its block is forwarded.
ForwardHeader ==
    /\ fwd = "run" /\ headers # <<>> /\ ~isBehind
    /\ XAdd(Head(headers))
    /\ headers' = Tail(headers)
    /\ UNCHANGED <<head, fwd, curr, isBehind, pel, router, stored, shards,
                   faults, coldStarts, resent>>

\* The first header of a forwarder that is behind starts the catch-up loop,
\* which runs through the heights up to that header.
BeginCatchUp ==
    /\ fwd = "run" /\ headers # <<>> /\ isBehind
    /\ fwd' = "catchup"
    /\ UNCHANGED <<head, headers, curr, isBehind, queue, router, stored, shards,
                   faults, forwarded, coldStarts, resent>>

\* Mutant: the loop stops before the header that started it.
CatchUpShort ==
    /\ fwd = "catchup"
    /\ IF curr < Head(headers)
       THEN /\ XAdd(curr)
            /\ curr' = curr + 1
            /\ UNCHANGED <<headers, fwd, isBehind>>
       ELSE /\ isBehind' = FALSE /\ headers' = Tail(headers) /\ fwd' = "run"
            /\ UNCHANGED <<stream, curr, forwarded>>
    /\ UNCHANGED <<head, pel, router, stored, shards, faults, coldStarts, resent>>

\* One block of the catch-up loop, or its end.
CatchUp ==
    /\ fwd = "catchup"
    /\ IF curr <= Head(headers)
       THEN /\ XAdd(curr)
            /\ curr' = curr + 1
            /\ UNCHANGED <<headers, fwd, isBehind>>
       ELSE /\ isBehind' = FALSE /\ headers' = Tail(headers) /\ fwd' = "run"
            /\ UNCHANGED <<stream, curr, forwarded>>
    /\ UNCHANGED <<head, pel, router, stored, shards, faults, coldStarts, resent>>

\* An error of the node or of XADD, or a crash, ends the forwarder.
ForwarderExit ==
    /\ fwd # "start" /\ Fault
    /\ fwd' = "start" /\ curr' = 0 /\ isBehind' = FALSE /\ headers' = <<>>
    /\ UNCHANGED <<head, queue, router, stored, shards, forwarded, coldStarts, resent>>

-----------------------------------------------------------------------------
(* The router: the loop of Subscribe with one worker. *)

Elsewhere == <<head, forwarder, stored, shards, forwarded, coldStarts, resent>>

BacklogRead ==
    /\ pc = "backlog" /\ pos < Len(pel)
    /\ held' = Min({BatchSize, Len(pel) - pos})
    /\ backlog' = TRUE /\ pc' = "put"
    /\ UNCHANGED <<Elsewhere, queue, pos, todo, failed, faults>>

BacklogEnd ==
    /\ pc = "backlog" /\ pos >= Len(pel)
    /\ pc' = (IF pos = 0 THEN "new" ELSE "backlog") /\ pos' = 0
    /\ UNCHANGED <<Elsewhere, queue, held, backlog, todo, failed, faults>>

\* XREADGROUP from ">" delivers up to BatchSize blocks.
Deliver(n) ==
    /\ pc = "new" /\ stream # <<>>
    /\ n = Min({BatchSize, Len(stream)})
    /\ pel' = pel \o SubSeq(stream, 1, n)
    /\ stream' = SubSeq(stream, n + 1, Len(stream))

NewRead ==
    /\ \E n \in 1 .. BatchSize : Deliver(n) /\ held' = n
    /\ pos' = Len(pel)
    /\ backlog' = FALSE /\ pc' = "put"
    /\ UNCHANGED <<Elsewhere, todo, failed, faults>>

\* The reply is lost and the redis client sends the command once more.
ReadAgain ==
    /\ Fault /\ resent' = TRUE
    /\ \E n \in 1 .. BatchSize : Deliver(n)
    /\ UNCHANGED <<head, forwarder, router, stored, shards, forwarded, coldStarts>>

\* Mutant: the cursor steps back over an acknowledged batch.
HandlerReturnsBack(kept) ==
    /\ pc' = "backlog"
    /\ pos' = IF ~backlog THEN 0 ELSE IF kept THEN pos + held ELSE pos - held
    /\ held' = 0 /\ backlog' = FALSE /\ todo' = {} /\ failed' = FALSE

\* Mutant: the router asks for new blocks before it returns to its backlog.
HandlerReturnsToNew(kept) ==
    /\ pc' = "new" /\ pos' = 0
    /\ held' = 0 /\ backlog' = FALSE /\ todo' = {} /\ failed' = FALSE

\* The handler returned.  An error leaves the batch in the backlog, and the
\* cursor of a backlog batch behind it.
HandlerReturns(kept) ==
    /\ pc' = "backlog"
    /\ pos' = IF ~backlog THEN 0 ELSE IF kept THEN pos + held ELSE pos
    /\ held' = 0 /\ backlog' = FALSE /\ todo' = {} /\ failed' = FALSE

RouterCrash ==
    /\ Fault
    /\ pc' = "backlog" /\ pos' = 0 /\ held' = 0 /\ backlog' = FALSE
    /\ todo' = {} /\ failed' = FALSE
    /\ UNCHANGED <<Elsewhere, queue>>

Batch == { pel[i] : i \in pos + 1 .. pos + held }
BatchHeight == Max(Batch)

PutBlocks ==
    /\ pc = "put"
    /\ stored' = stored \cup Batch
    /\ pc' = "flush" /\ todo' = Shard
    /\ UNCHANGED <<head, forwarder, queue, pos, held, backlog, failed, shards,
                   faults, forwarded, coldStarts, resent>>

\* Mutant: the batch is flushed although it was not stored.
PutErrorIgnored ==
    /\ pc = "put" /\ Fault
    /\ stored' \in {stored, stored \cup Batch}
    /\ pc' = "flush" /\ todo' = Shard
    /\ UNCHANGED <<head, forwarder, queue, pos, held, backlog, failed, shards,
                   forwarded, coldStarts, resent>>

\* PutBlocks fails, or XAckDel does; the reply may be all that was lost.
PutError ==
    /\ pc = "put" /\ Fault
    /\ stored' \in {stored, stored \cup Batch}
    /\ HandlerReturns(TRUE)
    /\ UNCHANGED <<head, forwarder, queue, shards, forwarded, coldStarts, resent>>

AckError ==
    /\ pc = "ack" /\ Fault
    /\ HandlerReturns(TRUE)
    /\ UNCHANGED <<Elsewhere, queue>>

\* The flush of one shard, run by a goroutine of its own, reaches the shard.
Flushed(s) ==
    /\ latest' = [latest EXCEPT ![s] = BatchHeight]
    /\ reached' = [reached EXCEPT ![s] = Max({@, BatchHeight})]

FlushShard(s) ==
    /\ pc = "flush" /\ s \in todo
    /\ Flushed(s)
    /\ todo' = todo \ {s}
    /\ UNCHANGED <<head, forwarder, queue, pc, pos, held, backlog, failed,
                   stored, faults, forwarded, coldStarts, resent>>

\* The flush returns an error, after or without having reached the shard.
FlushError(s) ==
    /\ pc = "flush" /\ s \in todo /\ Fault
    /\ Flushed(s) \/ UNCHANGED shards
    /\ todo' = todo \ {s} /\ failed' = TRUE
    /\ UNCHANGED <<head, forwarder, queue, pc, pos, held, backlog, stored,
                   forwarded, coldStarts, resent>>

\* Mutant: the result of eg.Wait is dropped.
FlushesReturnOk ==
    /\ pc = "flush" /\ todo = {}
    /\ pc' = "ack" /\ UNCHANGED <<pos, held, backlog, todo, failed>>
    /\ UNCHANGED <<Elsewhere, queue, faults>>

\* eg.Wait: all flushes have returned.
FlushesReturn ==
    /\ pc = "flush" /\ todo = {}
    /\ IF failed THEN HandlerReturns(TRUE)
       ELSE pc' = "ack" /\ UNCHANGED <<pos, held, backlog, todo, failed>>
    /\ UNCHANGED <<Elsewhere, queue, faults>>

XAckDel ==
    /\ pc = "ack"
    /\ pel' = SubSeq(pel, 1, pos) \o SubSeq(pel, pos + held + 1, Len(pel))
    /\ HandlerReturns(FALSE)
    /\ UNCHANGED <<Elsewhere, stream, faults>>

-----------------------------------------------------------------------------

Forwarder == \/ StartForwarder \/ SubscribeNewHead
             \/ ForwardHeader \/ BeginCatchUp \/ CatchUp

Router == \/ BacklogRead \/ BacklogEnd \/ NewRead
          \/ PutBlocks \/ FlushesReturn \/ XAckDel
          \/ \E s \in Shard : FlushShard(s)

Failure == \/ ForwarderExit \/ RouterCrash \/ ReadAgain \/ PutError \/ AckError
           \/ \E s \in Shard : FlushError(s)

Next == NewHead \/ Forwarder \/ Router \/ Failure

Spec == Init /\ [][Next]_vars

\* Both processes run, and are started again when they end.
FairSpec == Spec /\ WF_vars(Forwarder) /\ WF_vars(Router)

-----------------------------------------------------------------------------
(* Properties *)

\* Every variable has its type.
TypeOK ==
    /\ head \in Nat /\ headers \in Seq(Nat) /\ curr \in Nat
    /\ fwd \in {"start", "subscribe", "run", "catchup"}
    /\ isBehind \in BOOLEAN /\ backlog \in BOOLEAN /\ failed \in BOOLEAN
    /\ stream \in Seq(Nat) /\ pel \in Seq(Nat)
    /\ pc \in {"backlog", "new", "put", "flush", "ack"}
    /\ pos \in Nat /\ held \in Nat /\ todo \subseteq Shard
    /\ stored \subseteq Nat /\ forwarded \subseteq Nat
    /\ latest \in [Shard -> Nat] /\ reached \in [Shard -> Nat]
    /\ faults \in Nat /\ coldStarts \in Nat /\ resent \in BOOLEAN

InQueue(h) == \/ \E i \in 1 .. Len(stream) : stream[i] = h
              \/ \E i \in 1 .. Len(pel) : pel[i] = h

\* A block leaves the block stream only when it is stored and every shard was
\* flushed with its height or a larger one, whatever part of the batch failed
\* before and however often it was repeated.
AckedIsRouted ==
    \A h \in forwarded : InQueue(h) \/ (h \in stored /\ \A s \in Shard : reached[s] >= h)

\* A shard is never told of a height that is above everything stored: the
\* relay finds blocks for every job below its shard's latest height.
LatestIsStored == \A s \in Shard : latest[s] = 0 \/ latest[s] \in stored

\* If the forwarder found the store empty only at its first start and no
\* repeated command took batches out of their order, the stored heights have
\* no gap, through restarts of both processes.
NoGap ==
    coldStarts <= 1 /\ ~resent =>
        \A h \in stored, g \in stored : \A m \in h .. g : m \in stored

\* Every forwarded block is eventually stored and announced to every shard,
\* although batches fail half way and processes die.  (A batch that a repeated
\* XREADGROUP delivered waits in the backlog for the next block or restart.)
BlocksAreRouted ==
    \A h \in 1 .. MaxHeight :
        h \in forwarded ~>
            resent \/ (h \in stored /\ \A s \in Shard : reached[s] >= h)
=============================================================================
