---------------------------- MODULE WebhookFeed ----------------------------
(***************************************************************************)
(* What the relay promises to the customers of a shard.                    *)
(*                                                                         *)
(* A webhook has a feed: it begins with a batch of blocks and goes on from *)
(* one place in the chain to a later one.  Up to that place every stored   *)
(* block was accepted by the webhook's URL or given up; a batch is all that*)
(* is stored of a range that begins there.  Blocks may be sent again, and  *)
(* a first batch may be replaced by another one as long as the feed has    *)
(* not gone on.  The feed ends only for a webhook that was removed.        *)
(*                                                                         *)
(* Once the chain repeats blocks a feed need not be whole any more: it goes*)
(* on from one place to a later one, but a batch may leave blocks out.     *)
(*                                                                         *)
(* Workers, jobs, redis, crashes and failed calls are left out:            *)
(* WebhookRelay implements this.                                           *)
(***************************************************************************)
EXTENDS Integers

CONSTANT Webhook

VARIABLES
    stored,     \* heights in the block store
    rows,       \* webhooks that have a row in MySQL
    whole,      \* webhooks whose batches leave nothing out
    next,       \* by webhook, the height its feed goes on at, 0 if it does not
    sent,       \* by webhook, heights its URL accepted, from the first batch on
    skipped     \* by webhook, heights given up

feed == <<next, sent, skipped>>

Init ==
    /\ stored = {} /\ rows = Webhook /\ whole = Webhook
    /\ next = [w \in Webhook |-> 0]
    /\ sent = [w \in Webhook |-> {}] /\ skipped = [w \in Webhook |-> {}]

\* What is stored of a range.
Between(from, to) == { h \in stored : from <= h /\ h <= to }

\* Blocks are only added, above all others.
Store ==
    /\ stored \subseteq stored'
    /\ \A h \in stored' \ stored, g \in stored : g < h
    /\ UNCHANGED <<rows, whole, feed>>

\* The chain repeats blocks.
Repeat == whole' \subseteq whole /\ UNCHANGED <<stored, rows, feed>>

Remove(w) == rows' = rows \ {w} /\ UNCHANGED <<stored, whole, feed>>

\* The batches of a range.
Batches(w, from, to) ==
    { B \in SUBSET Between(from, to) : B # {} /\ (w \in whole => B = Between(from, to)) }

\* The URL accepted a first batch.
Begin(w) ==
    /\ next[w] = 0
    /\ \E from, to \in stored : \E B \in Batches(w, from, to) :
          sent' = [sent EXCEPT ![w] = B]
    /\ UNCHANGED <<stored, rows, whole, next, skipped>>

\* The URL accepted the next batch.
Deliver(w) ==
    /\ next[w] # 0
    /\ \E to \in stored : \E B \in Batches(w, next[w], to) :
          sent' = [sent EXCEPT ![w] = @ \cup B]
    /\ UNCHANGED <<stored, rows, whole, next, skipped>>

\* The blocks a feed must have before it goes on behind height h: those from
\* the place where it is, or from its first block.
Due(w, h) ==
    { g \in stored : /\ g <= h
                     /\ IF next[w] = 0 THEN \E f \in sent[w] : f <= g ELSE next[w] <= g }

\* The feed goes on behind a block that was sent, with all before it if it is
\* whole.
Advance(w) ==
    /\ \E h \in sent[w] : /\ next[w] <= h /\ (w \in whole => Due(w, h) \subseteq sent[w])
                          /\ next' = [next EXCEPT ![w] = h + 1]
    /\ UNCHANGED <<stored, rows, whole, sent, skipped>>

\* One height is given up, and no other with it.
GiveUp(w) ==
    /\ next[w] # 0 /\ \E g \in stored : next[w] <= g
    /\ skipped' = [skipped EXCEPT ![w] = @ \cup {next[w]}]
    /\ next' = [next EXCEPT ![w] = @ + 1]
    /\ UNCHANGED <<stored, rows, whole, sent>>

End(w) ==
    /\ w \notin rows
    /\ next' = [next EXCEPT ![w] = 0]
    /\ UNCHANGED <<stored, rows, whole, sent, skipped>>

Next == \/ Store \/ Repeat
        \/ \E w \in Webhook : \/ Remove(w) \/ Begin(w) \/ Deliver(w)
                              \/ Advance(w) \/ GiveUp(w) \/ End(w)

Spec == Init /\ [][Next]_<<stored, rows, whole, feed>>
=============================================================================
