----------------------------- MODULE WebhookApi -----------------------------
(***************************************************************************)
(* The webhook mutations of the dashboard's GraphQL API, for one customer. *)
(*                                                                         *)
(* A webhook is a row of MySQL.  Activating it adds it to its shard's      *)
(* webhook set in redis and gives it a job (one lua script per shard), and *)
(* then marks the row as active.  Removing it deletes the row only: the    *)
(* relay drops the job, and the membership with it, when it finds no row.  *)
(* Requests run side by side and fail between any two of their calls.      *)
(***************************************************************************)
EXTENDS Integers, FiniteSets

CONSTANTS
    Hook,       \* webhooks that may ever exist
    Shard,      \* shards, each with its redis cluster
    Client,     \* callers, with one mutation under way each
    Ops,        \* the mutations they ask for
    MaxFaults   \* bound: calls that fail and requests that break off

ASSUME ApiAssumption ==
    MaxFaults \in Nat /\ Ops \subseteq {"create", "update", "remove", "activate"}

VARIABLES
    row,        \* "absent", "inactive", "active" or "removed", by webhook
    url,        \* does a search for "b" find the webhook's URL?
    shard,      \* shardId of the webhook
    webhookSet, \* members of the webhook sets
    jobs,       \* webhooks with a job in a pending set or a webhook stream
    call,       \* the mutation of each client
    faults      \* faults so far

mysql == <<row, url, shard>>
redis == <<webhookSet, jobs>>
api   == <<mysql, redis, call, faults>>

Idle == [op |-> "none", at |-> "idle", ids |-> {}, got |-> {}, script |-> {},
         update |-> {}, failed |-> FALSE, hit |-> FALSE]

\* What earlier requests have left: webhooks that are active, inactive, or
\* inactive with a job because only their script was run.
ApiInit ==
    /\ row \in [Hook -> {"absent", "inactive", "active"}]
    /\ url = [h \in Hook |-> "a"] /\ shard \in [Hook -> Shard]
    /\ webhookSet \in SUBSET { h \in Hook : row[h] # "absent" }
    /\ { h \in Hook : row[h] = "active" } \subseteq webhookSet
    /\ jobs = webhookSet
    /\ call = [c \in Client |-> Idle]
    /\ faults = 0

Fault == faults < MaxFaults /\ faults' = faults + 1

Present(h) == row[h] \in {"inactive", "active"}
Answers    == {"ok", "none", "denied", "error"}

\* The answer to the mutation of c, which ends it.
Answered(c, answer) == call' = [call EXCEPT ![c].at = answer]

\* A client sends a mutation on webhooks it knows, and gets the answer.
Ask(c, op, ids) ==
    /\ call[c].at = "idle"
    /\ ids \subseteq { h \in Hook : row[h] # "absent" }
    /\ op = "create" => ids = {} /\ \E h \in Hook : row[h] = "absent"
    /\ op = "update" => \E h \in Hook : ids = {h}
    /\ call' = [call EXCEPT ![c] = [Idle EXCEPT !.op = op, !.at = "sent", !.ids = ids]]
    /\ UNCHANGED <<mysql, redis, faults>>

Receive(c) ==
    /\ call[c].at \in Answers
    /\ call' = [call EXCEPT ![c] = Idle]
    /\ UNCHANGED <<mysql, redis, faults>>

Sent(c, op) == call[c].at = "sent" /\ call[c].op = op

\* The user is unknown or not subscribed: nothing is done.
Deny(c) ==
    /\ call[c].at = "sent"
    /\ Answered(c, "denied")
    /\ UNCHANGED <<mysql, redis, faults>>

-----------------------------------------------------------------------------
(* create, update and remove: one statement each. *)

\* Webhooks are numbered by created_at and id.  created_at is in seconds, so
\* that of two webhooks of one second the later may come first.
CreatedAt(h) == (h + 1) \div 2

Create(c) ==
    /\ Sent(c, "create")
    /\ \E h \in Hook :
          /\ row[h] = "absent"
          /\ \A g \in Hook : row[g] # "absent" => CreatedAt(g) <= CreatedAt(h)
          /\ row' = [row EXCEPT ![h] = "inactive"]
    /\ Answered(c, "ok")
    /\ UNCHANGED <<url, shard, redis, faults>>

\* The only edit that is told apart: a URL that a search does not find is
\* changed to one that it finds.
Update(c) ==
    /\ Sent(c, "update")
    /\ url' = [h \in Hook |-> IF h \in call[c].ids /\ Present(h) THEN "b" ELSE url[h]]
    /\ Answered(c, "ok")
    /\ UNCHANGED <<row, shard, redis, faults>>

RemoveRows(c) ==
    /\ Sent(c, "remove")
    /\ row' = [h \in Hook |-> IF h \in call[c].ids /\ Present(h) THEN "removed" ELSE row[h]]
    /\ Answered(c, "ok")
    /\ UNCHANGED <<url, shard, redis, faults>>

-----------------------------------------------------------------------------
(* activate. *)

\* The inactive ones of the webhooks are grouped by shard.
Select(c) ==
    /\ Sent(c, "activate")
    /\ LET got == { h \in call[c].ids : row[h] = "inactive" }
       IN  IF got = {} THEN Answered(c, "none")
           ELSE call' = [call EXCEPT ![c].at = "work", ![c].got = got,
                                     ![c].script = { shard[h] : h \in got }]
    /\ UNCHANGED <<mysql, redis, faults>>

\* The webhooks that c activates on shard s.
Group(c, s) == { h \in call[c].got : shard[h] = s }

\* The lua script: new members get a job, and all are members.
Script(H) ==
    /\ webhookSet' = webhookSet \cup H
    /\ jobs' = jobs \cup (H \ webhookSet)

\* Without a new member ZADD has no arguments and fails, after SADD.
RunScript(c, s) ==
    /\ s \in call[c].script
    /\ Script(Group(c, s))
    /\ IF Group(c, s) \subseteq webhookSet
       THEN call' = [call EXCEPT ![c].script = @ \ {s}, ![c].failed = TRUE]
       ELSE call' = [call EXCEPT ![c].script = @ \ {s}, ![c].update = @ \cup {s}]
    /\ UNCHANGED <<mysql, faults>>

SetActive(H) ==
    row' = [h \in Hook |-> IF h \in H /\ Present(h) THEN "active" ELSE row[h]]

\* Mutant: the statement does not wait for the script.
RunUpdateEarly(c, s) ==
    /\ s \in call[c].update \cup call[c].script
    /\ SetActive(Group(c, s))
    /\ call' = [call EXCEPT ![c].update = @ \ {s}, ![c].script = @ \ {s}]
    /\ UNCHANGED <<url, shard, redis, faults>>

RunUpdate(c, s) ==
    /\ s \in call[c].update
    /\ SetActive(Group(c, s))
    /\ call' = [call EXCEPT ![c].update = @ \ {s}]
    /\ UNCHANGED <<url, shard, redis, faults>>

\* Mutant: what the shards answered is not looked at.
SettleAnyway(c) ==
    /\ call[c].at = "work" /\ call[c].script = {} /\ call[c].update = {}
    /\ Answered(c, "ok")
    /\ UNCHANGED <<mysql, redis, faults>>

\* Promise.allSettled: one shard that failed fails the request, after all of
\* them are done.
Settle(c) ==
    /\ call[c].at = "work" /\ call[c].script = {} /\ call[c].update = {}
    /\ Answered(c, IF call[c].failed THEN "error" ELSE "ok")
    /\ UNCHANGED <<mysql, redis, faults>>

-----------------------------------------------------------------------------
(* Failures, and the relay. *)

\* The script fails, or only its reply is lost.
ScriptFails(c, s) ==
    /\ s \in call[c].script /\ Fault
    /\ Script(Group(c, s)) \/ UNCHANGED redis
    /\ call' = [call EXCEPT ![c].script = @ \ {s}, ![c].failed = TRUE, ![c].hit = TRUE]
    /\ UNCHANGED mysql

UpdateFails(c, s) ==
    /\ s \in call[c].update /\ Fault
    /\ SetActive(Group(c, s)) \/ UNCHANGED row
    /\ call' = [call EXCEPT ![c].update = @ \ {s}, ![c].failed = TRUE, ![c].hit = TRUE]
    /\ UNCHANGED <<url, shard, redis>>

\* The request breaks off, before its first call, between two calls or before
\* its answer; what was not done stays undone.
BreakOff(c) ==
    /\ call[c].at \in {"sent", "work", "ok", "none"} /\ Fault
    /\ call' = [call EXCEPT ![c].at = "error", ![c].script = {}, ![c].update = {},
                            ![c].hit = TRUE]
    /\ UNCHANGED <<mysql, redis>>

\* Mutant: the relay also drops webhooks that are not marked as active.
DropInactive(h) ==
    /\ h \in jobs /\ row[h] # "active"
    /\ jobs' = jobs \ {h} /\ webhookSet' = webhookSet \ {h}
    /\ UNCHANGED <<mysql, call, faults>>

\* The relay finds no row for the job's webhook and acknowledges the job.
Drop(h) ==
    /\ h \in jobs /\ row[h] = "removed"
    /\ jobs' = jobs \ {h} /\ webhookSet' = webhookSet \ {h}
    /\ UNCHANGED <<mysql, call, faults>>

-----------------------------------------------------------------------------

\* What the server does for c, of its own accord.
Serve(c) ==
    \/ Deny(c) \/ Create(c) \/ Update(c) \/ RemoveRows(c)
    \/ Select(c) \/ Settle(c) \/ BreakOff(c)
    \/ \E s \in Shard : \/ RunScript(c, s) \/ RunUpdate(c, s)
                        \/ ScriptFails(c, s) \/ UpdateFails(c, s)

ApiStep == \/ \E c \in Client : Serve(c)
           \/ \E h \in Hook : Drop(h)

\* Any client may ask for anything.
ApiNext ==
    \/ ApiStep
    \/ \E c \in Client : \/ Receive(c)
                         \/ \E op \in Ops, ids \in SUBSET Hook : Ask(c, op, ids)

ApiSpec     == ApiInit /\ [][ApiNext]_api
ApiFairSpec == ApiSpec /\ \A h \in Hook : WF_api(Drop(h))

-----------------------------------------------------------------------------
(* Properties *)

Call == [op : {"none", "create", "update", "remove", "activate"},
         at : {"idle", "sent", "work"} \cup Answers,
         ids : SUBSET Hook, got : SUBSET Hook, script : SUBSET Shard,
         update : SUBSET Shard, failed : BOOLEAN, hit : BOOLEAN]

ApiTypeOK ==
    /\ row \in [Hook -> {"absent", "inactive", "active", "removed"}]
    /\ url \in [Hook -> {"a", "b"}] /\ shard \in [Hook -> Shard]
    /\ webhookSet \subseteq Hook /\ jobs \subseteq Hook
    /\ call \in [Client -> Call]
    /\ faults \in 0 .. MaxFaults

\* A webhook that the dashboard shows as active has a job: whatever fails
\* between the script and the statement, and whoever else activates or removes
\* it meanwhile, a status that is wrong is wrong in the other direction only.
ActiveIsRegistered == \A h \in Hook : row[h] = "active" => h \in webhookSet /\ h \in jobs

\* An activation that reports success leaves none of its webhooks inactive, on
\* any of its shards.
SuccessMeansActive ==
    \A c \in Client :
        call[c].op = "activate" /\ call[c].at \in {"ok", "none"} =>
            \A h \in call[c].ids : row[h] # "inactive"

\* Activating is idempotent, as its comment says: a request that met no fault
\* of its own does not fail because an earlier one did a part of its work.
OnlyFaultsFail ==
    \A c \in Client : call[c].at = "error" => call[c].hit

Life == INSTANCE WebhookLife WITH delivered <- jobs

\* The mutations, with their failures, do what WebhookLife promises; removed
\* webhooks lose their jobs.
LifeIsImplemented == Life!FairSpec
=============================================================================
