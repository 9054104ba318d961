-------------------------- MODULE WebhookApiProofs --------------------------
(***************************************************************************)
(* Proofs about WebhookApi, for any webhooks, shards, clients and faults.  *)
(***************************************************************************)
EXTENDS WebhookApi, TLAPS

Known == { h \in Hook : row[h] # "absent" }

\* What holds of the mutation of c at every point of it.  Once a script has
\* run, its webhooks have jobs, unless they are removed meanwhile; and as long
\* as no shard has failed, an inactive webhook still has a shard to go.
CallInv(c) ==
    /\ call[c].ids \subseteq Known /\ call[c].got \subseteq Known
    /\ call[c].at # "work" => call[c].script = {} /\ call[c].update = {}
    /\ \A h \in call[c].got :
          shard[h] \in call[c].update /\ row[h] # "removed" => h \in jobs
    /\ call[c].op = "activate" /\ call[c].at = "work" /\ ~call[c].failed =>
          \A h \in call[c].ids : row[h] = "inactive" =>
              h \in call[c].got /\ shard[h] \in call[c].script \cup call[c].update
    /\ call[c].op = "activate" /\ call[c].at \in {"ok", "none"} =>
          \A h \in call[c].ids : row[h] # "inactive"
    /\ call[c].at = "work" => call[c].op = "activate"

\* The inductive invariant.
IInv ==
    /\ ApiTypeOK
    /\ ActiveIsRegistered
    /\ jobs = webhookSet /\ jobs \subseteq Known
    /\ \A c \in Client : CallInv(c)

\* How rows and jobs change, whatever the step is: a status only goes forward,
\* and only the job of a removed webhook goes.
Forward ==
    /\ shard' = shard
    /\ \A h \in Hook :
          \/ row'[h] = row[h]
          \/ row[h] = "absent" /\ row'[h] = "inactive"
          \/ row[h] = "inactive" /\ row'[h] = "active"
          \/ Present(h) /\ row'[h] = "removed"
    /\ \A h \in jobs : h \in jobs' \/ row[h] = "removed"

\* A step of somebody else does not disturb a mutation.
LEMMA OthersKeep ==
    ASSUME IInv, Forward, NEW d \in Client, call'[d] = call[d]
    PROVE  CallInv(d)'
<1>1. CallInv(d) /\ call[d] \in Call
  BY DEF IInv, ApiTypeOK
<1>2. Known \subseteq Known'
  BY DEF Known, Forward, Present
<1> QED
  BY <1>1, <1>2 DEF CallInv, Forward, Known, Call, Present

\* So the invariant holds after a step of c that keeps the parts which are not
\* about mutations, and that of c itself.
LEMMA StepOfClient ==
    ASSUME IInv, Forward, NEW c \in Client, NEW k \in Call,
           call' = [call EXCEPT ![c] = k],
           ApiTypeOK', ActiveIsRegistered',
           jobs' = webhookSet', jobs' \subseteq Known',
           CallInv(c)'
    PROVE  IInv'
<1>1. ASSUME NEW d \in Client PROVE CallInv(d)'
  <2>1. CASE d = c
    BY <2>1
  <2>2. CASE d # c
    <3>1. call'[d] = call[d]
      BY <2>2 DEF IInv, ApiTypeOK
    <3> QED
      BY <3>1, OthersKeep
  <2> QED
    BY <2>1, <2>2
<1> QED
  BY <1>1 DEF IInv

\* A step that leaves rows and jobs alone.
LEMMA StepOfCall ==
    ASSUME IInv, NEW c \in Client, NEW k \in Call,
           call' = [call EXCEPT ![c] = k],
           UNCHANGED <<mysql, redis>>, faults' \in 0 .. MaxFaults,
           CallInv(c)'
    PROVE  IInv'
<1>1. Forward /\ ApiTypeOK' /\ ActiveIsRegistered'
      /\ jobs' = webhookSet' /\ jobs' \subseteq Known'
  BY DEF IInv, Forward, ApiTypeOK, ActiveIsRegistered, Known, mysql, redis
<1> QED
  BY <1>1, StepOfClient

LEMMA FaultsBounded ==
    ASSUME IInv
    PROVE  (faults' = faults => faults' \in 0 .. MaxFaults)
           /\ (Fault => faults' \in 0 .. MaxFaults)
BY ApiAssumption DEF IInv, ApiTypeOK, Fault

-----------------------------------------------------------------------------
(* Steps of a mutation that change neither rows nor jobs. *)

LEMMA AskKeeps ==
    ASSUME IInv, NEW c \in Client, NEW op \in Ops, NEW ids \in SUBSET Hook,
           Ask(c, op, ids)
    PROVE  IInv'
<1> DEFINE k == [Idle EXCEPT !.op = op, !.at = "sent", !.ids = ids]
<1>1. k \in Call
  BY ApiAssumption DEF Call, Idle, Answers
<1>2. call' = [call EXCEPT ![c] = k] /\ UNCHANGED <<mysql, redis>> /\ faults' \in 0 .. MaxFaults
  BY FaultsBounded DEF Ask
<1>3. call'[c] = k
  BY <1>2 DEF IInv, ApiTypeOK
<1>4. CallInv(c)'
  BY <1>2, <1>3 DEF CallInv, Ask, Idle, Known, mysql
<1> QED
  BY <1>1, <1>2, <1>4, StepOfCall

LEMMA ReceiveKeeps ==
    ASSUME IInv, NEW c \in Client, Receive(c)
    PROVE  IInv'
<1>1. Idle \in Call
  BY DEF Call, Idle, Answers
<1>2. call' = [call EXCEPT ![c] = Idle] /\ UNCHANGED <<mysql, redis>> /\ faults' \in 0 .. MaxFaults
  BY FaultsBounded DEF Receive
<1>3. call'[c] = Idle
  BY <1>2 DEF IInv, ApiTypeOK
<1>4. CallInv(c)'
  BY <1>2, <1>3 DEF CallInv, Idle
<1> QED
  BY <1>1, <1>2, <1>4, StepOfCall

LEMMA DenyKeeps ==
    ASSUME IInv, NEW c \in Client, Deny(c)
    PROVE  IInv'
<1> DEFINE k == [call[c] EXCEPT !.at = "denied"]
<1>1. k \in Call /\ call[c] \in Call /\ CallInv(c)
  BY DEF Call, Answers, IInv, ApiTypeOK
<1>2. call' = [call EXCEPT ![c] = k] /\ UNCHANGED <<mysql, redis>> /\ faults' \in 0 .. MaxFaults
  BY FaultsBounded DEF Deny, Answered
<1>3. call'[c] = k
  BY <1>2 DEF IInv, ApiTypeOK
<1>4. CallInv(c)'
  BY <1>1, <1>2, <1>3 DEF CallInv, Deny, Known, mysql, redis, IInv, Call
<1> QED
  BY <1>1, <1>2, <1>4, StepOfCall

LEMMA SelectKeeps ==
    ASSUME IInv, NEW c \in Client, Select(c)
    PROVE  IInv'
<1> DEFINE got == { h \in call[c].ids : row[h] = "inactive" }
           k == IF got = {} THEN [call[c] EXCEPT !.at = "none"]
                ELSE [call[c] EXCEPT !.at = "work", !.got = got,
                                     !.script = { shard[h] : h \in got }]
<1>1. call[c] \in Call /\ CallInv(c) /\ got \subseteq Hook /\ got \subseteq Known
  BY DEF IInv, ApiTypeOK, Call, Known
<1>2. { shard[h] : h \in got } \subseteq Shard
  BY <1>1 DEF IInv, ApiTypeOK
<1>3. k \in Call
  BY <1>1, <1>2 DEF Call, Answers
<1>4. call' = [call EXCEPT ![c] = k] /\ UNCHANGED <<mysql, redis>> /\ faults' \in 0 .. MaxFaults
  BY FaultsBounded DEF Select, Answered
<1>5. call'[c] = k
  BY <1>4 DEF IInv, ApiTypeOK
<1>6. CallInv(c)'
  <2>1. CASE got = {}
    BY <1>1, <1>4, <1>5, <2>1 DEF CallInv, Select, Sent, Known, mysql, redis, Call
  <2>2. CASE got # {}
    <3>1. /\ call'[c].op = "activate" /\ call'[c].at = "work"
          /\ call'[c].ids = call[c].ids /\ call'[c].got = got
          /\ call'[c].script = { shard[h] : h \in got } /\ call'[c].update = {}
      BY <1>1, <1>5, <2>2 DEF CallInv, Select, Sent, Call
    <3>2. \A h \in got : shard[h] \in { shard[g] : g \in got }
      OBVIOUS
    <3> QED
      BY <1>1, <1>4, <3>1, <3>2 DEF CallInv, Known, mysql, redis
  <2> QED
    BY <2>1, <2>2
<1> QED
  BY <1>3, <1>4, <1>6, StepOfCall

LEMMA SettleKeeps ==
    ASSUME IInv, NEW c \in Client, Settle(c)
    PROVE  IInv'
<1> DEFINE k == [call[c] EXCEPT !.at = IF call[c].failed THEN "error" ELSE "ok"]
<1>1. k \in Call /\ call[c] \in Call /\ CallInv(c)
  BY DEF Call, Answers, IInv, ApiTypeOK
<1>2. call' = [call EXCEPT ![c] = k] /\ UNCHANGED <<mysql, redis>> /\ faults' \in 0 .. MaxFaults
  BY FaultsBounded DEF Settle, Answered
<1>3. call'[c] = k
  BY <1>2 DEF IInv, ApiTypeOK
<1>4. CallInv(c)'
  BY <1>1, <1>2, <1>3 DEF CallInv, Settle, Known, mysql, redis, Call
<1> QED
  BY <1>1, <1>2, <1>4, StepOfCall

LEMMA BreakOffKeeps ==
    ASSUME IInv, NEW c \in Client, BreakOff(c)
    PROVE  IInv'
<1> DEFINE k == [call[c] EXCEPT !.at = "error", !.script = {}, !.update = {}, !.hit = TRUE]
<1>1. k \in Call /\ call[c] \in Call /\ CallInv(c)
  BY DEF Call, Answers, IInv, ApiTypeOK
<1>2. call' = [call EXCEPT ![c] = k] /\ UNCHANGED <<mysql, redis>> /\ faults' \in 0 .. MaxFaults
  BY FaultsBounded DEF BreakOff
<1>3. call'[c] = k
  BY <1>2 DEF IInv, ApiTypeOK
<1>4. CallInv(c)'
  BY <1>1, <1>2, <1>3 DEF CallInv, Known, mysql, redis, Call
<1> QED
  BY <1>1, <1>2, <1>4, StepOfCall

-----------------------------------------------------------------------------
(* Steps of a mutation that change rows or jobs. *)

LEMMA CreateKeeps ==
    ASSUME IInv, NEW c \in Client, Create(c)
    PROVE  IInv' /\ Forward
<1> DEFINE k == [call[c] EXCEPT !.at = "ok"]
<1>1. k \in Call /\ call[c] \in Call /\ CallInv(c)
  BY DEF Call, Answers, IInv, ApiTypeOK
<1>2. call' = [call EXCEPT ![c] = k] /\ UNCHANGED <<url, shard, redis>> /\ faults' \in 0 .. MaxFaults
  BY FaultsBounded DEF Create, Answered
<1>3. call'[c] = k
  BY <1>2 DEF IInv, ApiTypeOK
<1>4. PICK h \in Hook : row[h] = "absent" /\ row' = [row EXCEPT ![h] = "inactive"]
  BY DEF Create
<1>5. Forward /\ ActiveIsRegistered' /\ jobs' = webhookSet' /\ jobs' \subseteq Known'
  BY <1>2, <1>4 DEF Forward, IInv, ApiTypeOK, ActiveIsRegistered, Known, redis
<1>6. row' \in [Hook -> {"absent", "inactive", "active", "removed"}]
  BY <1>4 DEF IInv, ApiTypeOK
<1>7. ApiTypeOK'
  BY <1>1, <1>2, <1>6 DEF IInv, ApiTypeOK, redis
<1>8. CallInv(c)'
  BY <1>1, <1>2, <1>3, <1>5 DEF CallInv, Create, Sent, Forward, Known, Present, Call
<1> QED
  BY <1>1, <1>2, <1>5, <1>7, <1>8, StepOfClient

LEMMA UpdateKeeps ==
    ASSUME IInv, NEW c \in Client, Update(c)
    PROVE  IInv' /\ Forward
<1> DEFINE k == [call[c] EXCEPT !.at = "ok"]
<1>1. k \in Call /\ call[c] \in Call /\ CallInv(c)
  BY DEF Call, Answers, IInv, ApiTypeOK
<1>2. call' = [call EXCEPT ![c] = k] /\ UNCHANGED <<row, shard, redis>> /\ faults' \in 0 .. MaxFaults
  BY FaultsBounded DEF Update, Answered
<1>3. call'[c] = k
  BY <1>2 DEF IInv, ApiTypeOK
<1>4. Forward /\ ActiveIsRegistered' /\ jobs' = webhookSet' /\ jobs' \subseteq Known'
  BY <1>2 DEF Forward, IInv, ApiTypeOK, ActiveIsRegistered, Known, redis
<1>5. url' \in [Hook -> {"a", "b"}]
  BY DEF Update, IInv, ApiTypeOK
<1>6. ApiTypeOK'
  BY <1>1, <1>2, <1>5 DEF IInv, ApiTypeOK, redis
<1>7. CallInv(c)'
  BY <1>1, <1>2, <1>3 DEF CallInv, Update, Sent, Known, Call
<1> QED
  BY <1>1, <1>2, <1>4, <1>6, <1>7, StepOfClient

LEMMA RemoveRowsKeeps ==
    ASSUME IInv, NEW c \in Client, RemoveRows(c)
    PROVE  IInv' /\ Forward
<1> DEFINE k == [call[c] EXCEPT !.at = "ok"]
<1>1. k \in Call /\ call[c] \in Call /\ CallInv(c)
  BY DEF Call, Answers, IInv, ApiTypeOK
<1>2. call' = [call EXCEPT ![c] = k] /\ UNCHANGED <<url, shard, redis>> /\ faults' \in 0 .. MaxFaults
  BY FaultsBounded DEF RemoveRows, Answered
<1>3. call'[c] = k
  BY <1>2 DEF IInv, ApiTypeOK
<1>4. row' = [h \in Hook |-> IF h \in call[c].ids /\ Present(h) THEN "removed" ELSE row[h]]
  BY DEF RemoveRows
<1>5. row' \in [Hook -> {"absent", "inactive", "active", "removed"}]
  BY <1>4 DEF IInv, ApiTypeOK
<1>6. Forward /\ ActiveIsRegistered' /\ jobs' = webhookSet' /\ jobs' \subseteq Known'
  BY <1>2, <1>4 DEF Forward, IInv, ApiTypeOK, ActiveIsRegistered, Known, Present, redis
<1>7. ApiTypeOK'
  BY <1>1, <1>2, <1>5 DEF IInv, ApiTypeOK, redis
<1>8. CallInv(c)'
  BY <1>1, <1>2, <1>3, <1>6 DEF CallInv, RemoveRows, Sent, Forward, Known, Present, Call
<1> QED
  BY <1>1, <1>2, <1>6, <1>7, <1>8, StepOfClient

\* What the script does to the sets, whether or not its reply arrives.
LEMMA ScriptKeeps ==
    ASSUME IInv, NEW c \in Client, NEW s \in Shard, Script(Group(c, s)), UNCHANGED mysql
    PROVE  /\ Forward /\ ActiveIsRegistered'
           /\ jobs' = webhookSet' /\ jobs' \subseteq Known' /\ jobs' \subseteq Hook
           /\ jobs' = jobs \cup Group(c, s)
<1>1. Group(c, s) \subseteq Known /\ Group(c, s) \subseteq Hook
  BY DEF IInv, CallInv, Group, Known
<1>2. jobs' = jobs \cup Group(c, s) /\ jobs' = webhookSet'
  BY DEF Script, IInv
<1> QED
  BY <1>1, <1>2 DEF IInv, ApiTypeOK, ActiveIsRegistered, Known, Forward, mysql

LEMMA RunScriptKeeps ==
    ASSUME IInv, NEW c \in Client, NEW s \in Shard, RunScript(c, s)
    PROVE  IInv' /\ Forward
<1> DEFINE k == IF Group(c, s) \subseteq webhookSet
                THEN [call[c] EXCEPT !.script = @ \ {s}, !.failed = TRUE]
                ELSE [call[c] EXCEPT !.script = @ \ {s}, !.update = @ \cup {s}]
<1>1. k \in Call /\ call[c] \in Call /\ CallInv(c) /\ call[c].at = "work"
  <2>1. call[c] \in Call /\ CallInv(c) /\ call[c].at = "work"
    BY DEF IInv, ApiTypeOK, CallInv, RunScript
  <2>2. /\ [call[c] EXCEPT !.script = @ \ {s}, !.failed = TRUE] \in Call
        /\ [call[c] EXCEPT !.script = @ \ {s}, !.update = @ \cup {s}] \in Call
    BY <2>1 DEF Call
  <2> QED
    BY <2>1, <2>2
<1>2. call' = [call EXCEPT ![c] = k] /\ UNCHANGED mysql /\ faults' \in 0 .. MaxFaults
  BY FaultsBounded DEF RunScript
<1>3. call'[c] = k
  BY <1>2 DEF IInv, ApiTypeOK
<1>4. /\ Forward /\ ActiveIsRegistered'
      /\ jobs' = webhookSet' /\ jobs' \subseteq Known' /\ jobs' \subseteq Hook
      /\ jobs' = jobs \cup Group(c, s)
  BY ScriptKeeps DEF RunScript
<1>5. ApiTypeOK'
  BY <1>1, <1>2, <1>4 DEF IInv, ApiTypeOK, mysql
<1>6. CallInv(c)'
  <2>1. CASE Group(c, s) \subseteq webhookSet
    BY <1>1, <1>2, <1>3, <1>4, <2>1 DEF CallInv, Known, mysql, Call
  <2>2. CASE ~(Group(c, s) \subseteq webhookSet)
    BY <1>1, <1>2, <1>3, <1>4, <2>2 DEF CallInv, Known, mysql, Call, Group
  <2> QED
    BY <2>1, <2>2
<1> QED
  BY <1>1, <1>2, <1>4, <1>5, <1>6, StepOfClient

LEMMA ScriptFailsKeeps ==
    ASSUME IInv, NEW c \in Client, NEW s \in Shard, ScriptFails(c, s)
    PROVE  IInv' /\ Forward
<1> DEFINE k == [call[c] EXCEPT !.script = @ \ {s}, !.failed = TRUE, !.hit = TRUE]
<1>1. k \in Call /\ call[c] \in Call /\ CallInv(c) /\ call[c].at = "work"
  BY DEF Call, Answers, IInv, ApiTypeOK, CallInv, ScriptFails
<1>2. call' = [call EXCEPT ![c] = k] /\ UNCHANGED mysql /\ faults' \in 0 .. MaxFaults
  BY FaultsBounded DEF ScriptFails
<1>3. call'[c] = k
  BY <1>2 DEF IInv, ApiTypeOK
<1>4. /\ Forward /\ ActiveIsRegistered' /\ jobs \subseteq jobs'
      /\ jobs' = webhookSet' /\ jobs' \subseteq Known' /\ jobs' \subseteq Hook
  <2>1. CASE Script(Group(c, s))
    BY <1>2, <2>1, ScriptKeeps
  <2>2. CASE UNCHANGED redis
    BY <1>2, <2>2 DEF IInv, ApiTypeOK, ActiveIsRegistered, Known, Forward, mysql, redis
  <2> QED
    BY <2>1, <2>2 DEF ScriptFails
<1>5. ApiTypeOK'
  BY <1>1, <1>2, <1>4 DEF IInv, ApiTypeOK, mysql
<1>6. CallInv(c)'
  BY <1>1, <1>2, <1>3, <1>4 DEF CallInv, Known, mysql, Call
<1> QED
  BY <1>1, <1>2, <1>4, <1>5, <1>6, StepOfClient

\* What the statement does to the rows, whether or not its reply arrives: the
\* webhooks of a shard whose script has run have jobs.
LEMMA SetActiveKeeps ==
    ASSUME IInv, NEW c \in Client, NEW s \in call[c].update, SetActive(Group(c, s)),
           UNCHANGED <<url, shard, redis>>
    PROVE  /\ Forward /\ ActiveIsRegistered'
           /\ jobs' = webhookSet' /\ jobs' \subseteq Known'
           /\ row' \in [Hook -> {"absent", "inactive", "active", "removed"}]
           /\ \A h \in Group(c, s) : Present(h) => h \in jobs
<1>1. CallInv(c)
  BY DEF IInv
<1>2. row' = [h \in Hook |-> IF h \in Group(c, s) /\ Present(h) THEN "active" ELSE row[h]]
  BY DEF SetActive
<1>3. row' \in [Hook -> {"absent", "inactive", "active", "removed"}]
  BY <1>2 DEF IInv, ApiTypeOK
<1>4. \A h \in Group(c, s) : Present(h) => h \in jobs
  BY <1>1 DEF CallInv, Group, Present
<1>5. Forward
  BY <1>2 DEF Forward, Present, redis
<1>6. ActiveIsRegistered' /\ jobs' = webhookSet' /\ jobs' \subseteq Known'
  BY <1>2, <1>4 DEF IInv, ActiveIsRegistered, Known, redis
<1> QED
  BY <1>3, <1>4, <1>5, <1>6

LEMMA RunUpdateKeeps ==
    ASSUME IInv, NEW c \in Client, NEW s \in Shard, RunUpdate(c, s)
    PROVE  IInv' /\ Forward
<1> DEFINE k == [call[c] EXCEPT !.update = @ \ {s}]
<1>1. k \in Call /\ call[c] \in Call /\ CallInv(c) /\ call[c].at = "work" /\ s \in call[c].update
  BY DEF Call, Answers, IInv, ApiTypeOK, CallInv, RunUpdate
<1>2. call' = [call EXCEPT ![c] = k] /\ UNCHANGED <<url, shard, redis>> /\ faults' \in 0 .. MaxFaults
  BY FaultsBounded DEF RunUpdate
<1>3. call'[c] = k
  BY <1>2 DEF IInv, ApiTypeOK
<1>4. /\ Forward /\ ActiveIsRegistered'
      /\ jobs' = webhookSet' /\ jobs' \subseteq Known'
      /\ row' \in [Hook -> {"absent", "inactive", "active", "removed"}]
  BY <1>1, <1>2, SetActiveKeeps DEF RunUpdate
<1>5. ApiTypeOK'
  BY <1>1, <1>2, <1>4 DEF IInv, ApiTypeOK, redis
<1>6. row' = [h \in Hook |-> IF h \in Group(c, s) /\ Present(h) THEN "active" ELSE row[h]]
  BY DEF RunUpdate, SetActive
<1>7. CallInv(c)'
  BY <1>1, <1>2, <1>3, <1>4, <1>6 DEF CallInv, Forward, Group, Known, Present, Call, redis
<1> QED
  BY <1>1, <1>2, <1>4, <1>5, <1>7, StepOfClient

LEMMA UpdateFailsKeeps ==
    ASSUME IInv, NEW c \in Client, NEW s \in Shard, UpdateFails(c, s)
    PROVE  IInv' /\ Forward
<1> DEFINE k == [call[c] EXCEPT !.update = @ \ {s}, !.failed = TRUE, !.hit = TRUE]
<1>1. k \in Call /\ call[c] \in Call /\ CallInv(c) /\ call[c].at = "work" /\ s \in call[c].update
  BY DEF Call, Answers, IInv, ApiTypeOK, CallInv, UpdateFails
<1>2. call' = [call EXCEPT ![c] = k] /\ UNCHANGED <<url, shard, redis>> /\ faults' \in 0 .. MaxFaults
  BY FaultsBounded DEF UpdateFails
<1>3. call'[c] = k
  BY <1>2 DEF IInv, ApiTypeOK
<1>4. /\ Forward /\ ActiveIsRegistered'
      /\ jobs' = webhookSet' /\ jobs' \subseteq Known'
      /\ row' \in [Hook -> {"absent", "inactive", "active", "removed"}]
  <2>1. CASE SetActive(Group(c, s))
    BY <1>1, <1>2, <2>1, SetActiveKeeps
  <2>2. CASE UNCHANGED row
    BY <1>2, <2>2 DEF IInv, ApiTypeOK, ActiveIsRegistered, Known, Forward, redis
  <2> QED
    BY <2>1, <2>2 DEF UpdateFails
<1>5. ApiTypeOK'
  BY <1>1, <1>2, <1>4 DEF IInv, ApiTypeOK, redis
<1>6. CallInv(c)'
  BY <1>1, <1>2, <1>3, <1>4 DEF CallInv, Forward, Known, Present, Call, redis
<1> QED
  BY <1>1, <1>2, <1>4, <1>5, <1>6, StepOfClient

\* The relay takes jobs of removed webhooks only.
LEMMA DropKeeps ==
    ASSUME IInv, NEW h \in Hook, Drop(h)
    PROVE  IInv' /\ Forward
<1>1. Forward
  BY DEF Drop, Forward, mysql
<1>2. ApiTypeOK' /\ ActiveIsRegistered' /\ jobs' = webhookSet' /\ jobs' \subseteq Known'
  BY DEF Drop, IInv, ApiTypeOK, ActiveIsRegistered, Known, mysql
<1>3. ASSUME NEW d \in Client PROVE CallInv(d)'
  BY <1>1, OthersKeep DEF Drop
<1> QED
  BY <1>1, <1>2, <1>3 DEF IInv

-----------------------------------------------------------------------------
(* The invariants, and the refinement. *)

LEMMA InitEstablishes == ApiInit => IInv
<1> SUFFICES ASSUME ApiInit PROVE IInv
  OBVIOUS
<1>1. ApiTypeOK
  BY ApiAssumption DEF ApiInit, ApiTypeOK, Idle, Call, Answers
<1>2. ActiveIsRegistered /\ jobs = webhookSet /\ jobs \subseteq Known
  BY DEF ApiInit, ActiveIsRegistered, Known
<1>3. \A c \in Client : CallInv(c)
  BY DEF ApiInit, CallInv, Idle
<1> QED
  BY <1>1, <1>2, <1>3 DEF IInv

LEMMA StepKeeps ==
    ASSUME IInv, [ApiNext]_api
    PROVE  IInv'
<1>1. CASE UNCHANGED api
  BY <1>1 DEF api, mysql, redis, IInv, ApiTypeOK, ActiveIsRegistered, Known, CallInv
<1>2. ASSUME NEW c \in Client, Serve(c) PROVE IInv'
  BY <1>2, DenyKeeps, CreateKeeps, UpdateKeeps, RemoveRowsKeeps, SelectKeeps, SettleKeeps,
     BreakOffKeeps, RunScriptKeeps, RunUpdateKeeps, ScriptFailsKeeps, UpdateFailsKeeps
     DEF Serve
<1>3. ASSUME NEW h \in Hook, Drop(h) PROVE IInv'
  BY <1>3, DropKeeps
<1>4. ASSUME NEW c \in Client, Receive(c) PROVE IInv'
  BY <1>4, ReceiveKeeps
<1>5. ASSUME NEW c \in Client, NEW op \in Ops, NEW ids \in SUBSET Hook, Ask(c, op, ids)
      PROVE IInv'
  BY <1>5, AskKeeps
<1> QED
  BY <1>1, <1>2, <1>3, <1>4, <1>5 DEF ApiNext, ApiStep

LEMMA Inductive == ApiSpec => []IInv
BY InitEstablishes, StepKeeps, PTL DEF ApiSpec

\* The variables stay of their types: no call leaves a request half written.
THEOREM ApiTypeCorrect == ApiSpec => []ApiTypeOK
<1>1. IInv => ApiTypeOK
  BY DEF IInv
<1> QED
  BY <1>1, Inductive, PTL

\* Whatever fails between the script (activate.ts:63) and the statement
\* (activate.ts:80), a webhook whose row says active has a job.
THEOREM ActiveAreRegistered == ApiSpec => []ActiveIsRegistered
<1>1. IInv => ActiveIsRegistered
  BY DEF IInv
<1> QED
  BY <1>1, Inductive, PTL

\* An activation that answers with success has left none of its webhooks
\* inactive, however many shards it spans and whoever else works on them.
THEOREM SuccessIsComplete == ApiSpec => []SuccessMeansActive
<1>1. IInv => SuccessMeansActive
  BY DEF IInv, CallInv, SuccessMeansActive
<1> QED
  BY <1>1, Inductive, PTL

LEMMA InitMaps == ApiInit => Life!Init
BY DEF ApiInit, Life!Init, Life!Present

\* Each step of the API is a step of a webhook's life, or none that shows.
LEMMA StepMaps ==
    ASSUME IInv, [ApiNext]_api
    PROVE  [Life!Next]_(Life!life)
<1> DEFINE Quiet == UNCHANGED <<row, jobs>>
<1> SUFFICES Life!Next \/ Quiet
  BY DEF Life!life
<1>1. CASE UNCHANGED api
  BY <1>1 DEF api, mysql, redis
<1>2. ASSUME NEW c \in Client, Deny(c) \/ Update(c) \/ Select(c) \/ Settle(c) \/ BreakOff(c)
                                \/ Receive(c) \/ \E op \in Ops, ids \in SUBSET Hook : Ask(c, op, ids)
      PROVE Quiet
  BY <1>2 DEF Deny, Update, Select, Settle, BreakOff, Receive, Ask, mysql, redis
<1>3. ASSUME NEW c \in Client, Create(c) PROVE Life!Next
  BY <1>3 DEF Create, redis, Life!Next, Life!Create
<1>4. ASSUME NEW c \in Client, RemoveRows(c) PROVE Life!Next
  <2>1. call[c].ids \in SUBSET Hook
    BY DEF IInv, CallInv, Known
  <2>2. Life!Remove(call[c].ids)
    BY <1>4 DEF RemoveRows, redis, Present, Life!Remove, Life!Present
  <2> QED
    BY <2>1, <2>2 DEF Life!Next
<1>5. ASSUME NEW c \in Client, NEW s \in Shard, Script(Group(c, s)), UNCHANGED mysql
      PROVE Life!Next
  <2>1. Group(c, s) \in SUBSET Hook /\ \A h \in Group(c, s) : row[h] # "absent"
    BY DEF IInv, CallInv, Group, Known
  <2>2. jobs' = jobs \cup Group(c, s)
    BY <1>5, ScriptKeeps
  <2>3. Life!Deliver(Group(c, s))
    BY <1>5, <2>1, <2>2 DEF mysql, Life!Deliver
  <2> QED
    BY <2>1, <2>3 DEF Life!Next
<1>6. ASSUME NEW c \in Client, NEW s \in call[c].update, s \in Shard, SetActive(Group(c, s)),
             UNCHANGED <<url, shard, redis>>
      PROVE Life!Next
  <2> DEFINE H == { h \in Group(c, s) : Present(h) }
  <2>1. H \in SUBSET Hook
    BY DEF IInv, CallInv, Group, Known
  <2>2. H \subseteq jobs
    BY <1>6, SetActiveKeeps
  <2>3. Life!Show(H)
    BY <1>6, <2>2 DEF SetActive, redis, Present, Life!Show, Life!Present
  <2> QED
    BY <2>1, <2>3 DEF Life!Next
<1>7. ASSUME NEW c \in Client, NEW s \in Shard, RunScript(c, s) \/ ScriptFails(c, s)
      PROVE Life!Next \/ Quiet
  BY <1>5, <1>7 DEF RunScript, ScriptFails, mysql, redis
<1>8. ASSUME NEW c \in Client, NEW s \in Shard, RunUpdate(c, s) \/ UpdateFails(c, s)
      PROVE Life!Next \/ Quiet
  BY <1>6, <1>8 DEF RunUpdate, UpdateFails, mysql, redis
<1>9. ASSUME NEW h \in Hook, Drop(h) PROVE Life!Next
  BY <1>9 DEF Drop, mysql, Life!Next, Life!Release
<1> QED
  BY <1>1, <1>2, <1>3, <1>4, <1>7, <1>8, <1>9 DEF ApiNext, ApiStep, Serve

\* The API implements what WebhookLife promises, its liveness apart: blocks are
\* delivered to every webhook that is shown as active, and delivery to a
\* webhook ends only after it was removed.
THEOREM ApiImplementsLife == ApiSpec => Life!Spec
BY InitMaps, StepMaps, Inductive, PTL DEF ApiSpec, Life!Spec
=============================================================================
