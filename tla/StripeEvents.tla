---------------------------- MODULE StripeEvents ----------------------------
(***************************************************************************)
(* The way of Stripe's webhook events to the dashboard's cache.            *)
(*                                                                         *)
(* Stripe POSTs an event until it is answered with 200.  The dashboard     *)
(* appends it to a redis stream; a consumer of its own process reads one   *)
(* event at a time, handles it, and then acknowledges and deletes it,      *)
(* whether or not the handler failed.  What the handlers change is left to *)
(* the module that uses this one (Checkout).                               *)
(***************************************************************************)
EXTENDS Integers, Sequences

CONSTANTS
    MaxEvents,      \* bound: events under way; Stripe gives up on the others
    MaxFaults       \* bound: crashes, failed calls and repeated deliveries

ASSUME EventsAssumption == MaxEvents \in Nat /\ MaxFaults \in Nat

VARIABLES
    due,        \* events Stripe has not got an answer for, by kind
    group,      \* does the consumer group exist?
    stream,     \* events of the stream behind the group's last one
    pel,        \* events delivered to the consumer and not acknowledged
    cursor,     \* cursorId: "backlog" for 0-0, "new" for >
    at,         \* the consumer: "build", "read", "handle" or "finish"
    todo,       \* calls of the handler that have not returned
    faults,     \* faults so far
    resent      \* ghost: did the redis client ever send XREADGROUP twice?

delivery == <<due, stream>>
consumer == <<group, pel, cursor, at, todo, resent>>
events   == <<delivery, consumer, faults>>

\* The events whose handler invalidates the cached session of their user, and
\* customer.deleted, which also deletes the user's row.
Kind == {"session", "customer"}

EventsInit ==
    /\ due = [k \in Kind |-> 0] /\ stream = <<>>
    /\ group = FALSE /\ pel = <<>>
    /\ cursor = "backlog" /\ at = "build" /\ todo = {}
    /\ faults = 0 /\ resent = FALSE

Fault == faults < MaxFaults /\ faults' = faults + 1

\* What MaxEvents bounds: a backlog that nobody reads does not count.
UnderWay == due["session"] + due["customer"] + Len(stream)
            + (IF resent THEN 0 ELSE Len(pel))

\* Something happens at Stripe that it reports in an event.
Emit(k) == IF UnderWay < MaxEvents THEN due' = [due EXCEPT ![k] = @ + 1]
           ELSE UNCHANGED due

-----------------------------------------------------------------------------
(* The endpoint: a verified event is appended to the stream. *)

Produce(k) ==
    /\ due[k] > 0
    /\ due' = [due EXCEPT ![k] = @ - 1]
    /\ stream' = Append(stream, k)
    /\ UNCHANGED <<consumer, faults>>

\* The answer is lost: Stripe will send the event again.
ProduceUnanswered(k) ==
    /\ due[k] > 0 /\ Fault
    /\ stream' = Append(stream, k)
    /\ UNCHANGED <<due, consumer>>

-----------------------------------------------------------------------------
(* The consumer. *)

\* Mutant: the consumer starts with new events.
BuildAtNew ==
    /\ at = "build"
    /\ group' = TRUE
    /\ stream' = IF group THEN stream ELSE <<>>
    /\ cursor' = "new" /\ at' = "read"
    /\ UNCHANGED <<due, pel, todo, faults, resent>>

\* The group is created behind the last event of the stream, unless it exists.
Build ==
    /\ at = "build"
    /\ group' = TRUE
    /\ stream' = IF group THEN stream ELSE <<>>
    /\ cursor' = "backlog" /\ at' = "read"
    /\ UNCHANGED <<due, pel, todo, faults, resent>>

\* The backlog has an event, or the consumer turns to new ones.
ReadBacklog ==
    /\ at = "read" /\ cursor = "backlog"
    /\ IF pel = <<>> THEN cursor' = "new" /\ UNCHANGED at
       ELSE at' = "handle" /\ UNCHANGED cursor
    /\ UNCHANGED <<delivery, group, pel, todo, faults, resent>>

\* COUNT 1: redis delivers a new event.
Deliver ==
    /\ at = "read" /\ cursor = "new" /\ stream # <<>>
    /\ pel' = Append(pel, Head(stream)) /\ stream' = Tail(stream)

\* Without a new event the call returns nothing, and the cursor stays.
ReadNew ==
    /\ Deliver
    /\ at' = "handle"
    /\ UNCHANGED <<due, group, cursor, todo, faults, resent>>

\* The reply is lost and the redis client sends the command once more, which
\* waits for the next event.
ReadAgain ==
    /\ Deliver /\ Fault
    /\ resent' = TRUE
    /\ UNCHANGED <<due, group, cursor, at, todo>>

\* The event the consumer has: the first of its backlog, or the new one.
Position == IF cursor = "backlog" THEN 1 ELSE Len(pel)

\* The calls a handler makes.  Stripe is asked first: whose event it is, or
\* for a subscription of the deleted customer, which it may not find.
Handle ==
    /\ at = "handle"
    /\ \/ pel[Position] = "session" /\ todo' = {"cache"}
       \/ pel[Position] = "customer" /\ todo' \in {{}, {"cache", "row"}}
    /\ at' = "finish"
    /\ UNCHANGED <<delivery, group, pel, cursor, faults, resent>>

\* The question to Stripe fails: the event is taken as handled.
HandleError ==
    /\ at = "handle" /\ Fault
    /\ at' = "finish" /\ todo' = {}
    /\ UNCHANGED <<delivery, group, pel, cursor, resent>>

\* One of the handler's calls returns; what it did is up to the user of this
\* module.
Finish(call) ==
    /\ at = "finish" /\ call \in todo
    /\ todo' = todo \ {call}
    /\ UNCHANGED <<delivery, group, pel, cursor, at, resent>>

\* XACK and XDEL of the event, handled or not.
AckDel ==
    /\ at = "finish" /\ todo = {}
    /\ pel' = SubSeq(pel, 1, Position - 1) \o SubSeq(pel, Position + 1, Len(pel))
    /\ at' = "read"
    /\ UNCHANGED <<delivery, group, cursor, todo, faults, resent>>

\* An error of redis ends the process, as a crash does; it is started again.
ConsumerCrash ==
    /\ at # "build" /\ Fault
    /\ at' = "build" /\ cursor' = "backlog" /\ todo' = {}
    /\ UNCHANGED <<delivery, group, pel, resent>>

Endpoint == \E k \in Kind : Produce(k) \/ ProduceUnanswered(k)
Consume  == Build \/ ReadBacklog \/ ReadNew \/ Handle \/ AckDel

-----------------------------------------------------------------------------
(* Properties *)

EventsTypeOK ==
    /\ due \in [Kind -> Nat] /\ stream \in Seq(Kind) /\ pel \in Seq(Kind)
    /\ group \in BOOLEAN /\ cursor \in {"backlog", "new"}
    /\ at \in {"build", "read", "handle", "finish"}
    /\ todo \subseteq {"cache", "row"} /\ faults \in 0 .. MaxFaults
    /\ resent \in BOOLEAN

\* Events that reached the stream do not wait for ever, through crashes of the
\* consumer in the middle of an event.  (An event whose delivery was repeated
\* stays in the backlog until the consumer is started again.)
EventsDrain == []<>(stream = <<>> /\ (pel = <<>> \/ resent))
=============================================================================
