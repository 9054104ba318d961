-------------------------- MODULE RelayRetryProofs --------------------------
(***************************************************************************)
(* What holds of the relay even when the redis client repeats commands: no *)
(* job and no wakeup is lost, and the retry limit bounds how often a       *)
(* webhook's URL is called for one message, for any limit, any number of   *)
(* workers and any failures.                                               *)
(***************************************************************************)
EXTENDS WebhookRelayProofs

\* The larger of one and a number.
LEMMA MaxWithOne ==
    ASSUME NEW x \in Int
    PROVE  Max({1, x}) = IF x > 1 THEN x ELSE 1
BY DEF Max

-----------------------------------------------------------------------------
(* Backlogs of any length. *)

\* Rewriting an entry, but not its job, moves no job.
LEMMA EntryRewritten ==
    ASSUME TypeOK, NEW c \in Consumer, NEW i \in 1 .. Len(pel[c]), NEW e \in Entry,
           e.job = pel[c][i].job,
           pel' = [pel EXCEPT ![c] = [pel[c] EXCEPT ![i] = e]]
    PROVE  /\ pel' \in [Consumer -> Seq(Entry)]
           /\ Len(pel'[c]) = Len(pel[c]) /\ pel'[c][i] = e
           /\ \A k \in 1 .. Len(pel[c]) : k # i => pel'[c][k] = pel[c][k]
           /\ \A d \in Consumer : d # c => pel'[d] = pel[d]
           /\ DeliveredIds' = DeliveredIds
<1> DEFINE s == [pel[c] EXCEPT ![i] = e]
<1>1. pel \in [Consumer -> Seq(Entry)] /\ pel[c] \in Seq(Entry)
  BY DEF TypeOK
<1>2. /\ s \in Seq(Entry) /\ Len(s) = Len(pel[c]) /\ s[i] = e
      /\ \A k \in 1 .. Len(pel[c]) : k # i => s[k] = pel[c][k]
  BY <1>1
<1> HIDE DEF s
<1>3. pel'[c] = s /\ \A d \in Consumer : d # c => pel'[d] = pel[d]
  BY <1>1 DEF s
<1>4. pel' \in [Consumer -> Seq(Entry)]
  BY <1>1, <1>2 DEF s
<1>5. \A k \in 1 .. Len(pel[c]) : pel'[c][k].job = pel[c][k].job
  BY <1>2, <1>3
<1>6. \A d \in Consumer : PelIds(d)' = PelIds(d)
  <2> SUFFICES ASSUME NEW d \in Consumer PROVE PelIds(d)' = PelIds(d)
    OBVIOUS
  <2>1. CASE d = c
    BY <1>2, <1>3, <1>5, <2>1 DEF PelIds
  <2>2. CASE d # c
    BY <1>3, <2>2 DEF PelIds
  <2> QED
    BY <2>1, <2>2
<1>7. DeliveredIds' = DeliveredIds
  BY <1>6 DEF DeliveredIds
<1> QED
  BY <1>2, <1>3, <1>4, <1>7

\* An entry added to a backlog brings its webhook.
LEMMA EntryAdded ==
    ASSUME TypeOK, NEW c \in Consumer, NEW e \in Entry,
           pel' = [pel EXCEPT ![c] = Append(pel[c], e)]
    PROVE  /\ pel' \in [Consumer -> Seq(Entry)]
           /\ Len(pel[c]) \in Nat /\ Len(pel'[c]) = Len(pel[c]) + 1
           /\ pel'[c][Len(pel[c]) + 1] = e
           /\ \A k \in 1 .. Len(pel[c]) : pel'[c][k] = pel[c][k]
           /\ \A d \in Consumer : d # c => pel'[d] = pel[d]
           /\ DeliveredIds \cup {e.job.w} \subseteq DeliveredIds'
<1> DEFINE s == Append(pel[c], e)
<1>1. pel \in [Consumer -> Seq(Entry)] /\ pel[c] \in Seq(Entry) /\ Len(pel[c]) \in Nat
  BY DEF TypeOK
<1>2. /\ s \in Seq(Entry) /\ Len(s) = Len(pel[c]) + 1 /\ s[Len(pel[c]) + 1] = e
      /\ \A k \in 1 .. Len(pel[c]) : s[k] = pel[c][k]
  BY <1>1
<1> HIDE DEF s
<1>3. pel'[c] = s /\ \A d \in Consumer : d # c => pel'[d] = pel[d]
  BY <1>1 DEF s
<1>4. pel' \in [Consumer -> Seq(Entry)]
  BY <1>1, <1>2 DEF s
<1>5. PelIds(c) \cup {e.job.w} \subseteq PelIds(c)'
  <2>1. ASSUME NEW x \in PelIds(c) PROVE x \in PelIds(c)'
    <3>1. PICK k \in 1 .. Len(pel[c]) : x = pel[c][k].job.w
      BY <2>1 DEF PelIds
    <3>2. k \in 1 .. Len(s) /\ s[k] = pel[c][k]
      BY <1>1, <1>2
    <3> QED
      BY <1>3, <3>1, <3>2 DEF PelIds
  <2>2. e.job.w \in PelIds(c)'
    <3>1. Len(pel[c]) + 1 \in 1 .. Len(s)
      BY <1>1, <1>2
    <3> QED
      BY <1>2, <1>3, <3>1 DEF PelIds
  <2> QED
    BY <2>1, <2>2
<1>6. \A d \in Consumer : PelIds(d) \subseteq PelIds(d)'
  <2> SUFFICES ASSUME NEW d \in Consumer PROVE PelIds(d) \subseteq PelIds(d)'
    OBVIOUS
  <2>1. CASE d = c
    BY <1>5, <2>1
  <2>2. CASE d # c
    BY <1>3, <2>2 DEF PelIds
  <2> QED
    BY <2>1, <2>2
<1>7. DeliveredIds \cup {e.job.w} \subseteq DeliveredIds'
  BY <1>5, <1>6 DEF DeliveredIds
<1> QED
  BY <1>1, <1>2, <1>3, <1>4, <1>7

\* Removing an element keeps the others.
LEMMA RemovedAt ==
    ASSUME NEW S, NEW s \in Seq(S), NEW i \in 1 .. Len(s)
    PROVE  LET t == RemoveAt(s, i)
           IN  /\ t \in Seq(S) /\ Len(t) = Len(s) - 1
               /\ \A k \in 1 .. Len(t) : \E m \in 1 .. Len(s) : t[k] = s[m]
               /\ \A m \in 1 .. Len(s) : m # i => \E k \in 1 .. Len(t) : t[k] = s[m]
<1>1. PICK n \in Nat : n = Len(s) /\ i \in 1 .. n /\ s \in [1 .. n -> S]
  OBVIOUS
<1> DEFINE a == SubSeq(s, 1, i - 1)
           b == SubSeq(s, i + 1, n)
<1>2. /\ a \in Seq(S) /\ Len(a) = i - 1
      /\ \A k \in 1 .. i - 1 : a[k] = s[k]
  <2>1. i - 1 \in Int /\ 1 \in Int /\ \A k \in 1 .. i - 1 : s[k] \in S
    BY <1>1
  <2>2. /\ a \in Seq(S)
        /\ Len(a) = IF 1 <= i - 1 THEN i - 1 - 1 + 1 ELSE 0
        /\ \A k \in 1 .. i - 1 - 1 + 1 : a[k] = s[1 + k - 1]
    BY <2>1, SubSeqProperties
  <2>3. i - 1 - 1 + 1 = i - 1 /\ (~(1 <= i - 1) => i - 1 = 0)
    BY <1>1
  <2>4. \A k \in 1 .. i - 1 : 1 + k - 1 = k
    OBVIOUS
  <2> QED
    BY <2>2, <2>3, <2>4
<1>3. /\ b \in Seq(S) /\ Len(b) = n - i
      /\ \A k \in 1 .. n - i : b[k] = s[i + k]
  <2>1. PICK m \in Int : m = i + 1 /\ \A k \in m .. n : s[k] \in S
    BY <1>1
  <2>2. /\ b \in Seq(S) /\ b = SubSeq(s, m, n)
        /\ Len(b) = IF m <= n THEN n - m + 1 ELSE 0
        /\ \A k \in 1 .. n - m + 1 : b[k] = s[m + k - 1]
    BY <1>1, <2>1, SubSeqProperties
  <2> HIDE DEF b
  <2>3. Len(b) = n - i
    <3>1. i \in Int /\ 1 <= i /\ i <= n /\ m = i + 1 /\ n \in Nat
      BY <1>1, <2>1
    <3>2. (IF m <= n THEN n - m + 1 ELSE 0) = n - i
      BY ONLY <3>1
    <3> QED
      BY <2>2, <3>2
  <2>4. ASSUME NEW k \in 1 .. n - i PROVE b[k] = s[i + k]
    <3>1. k \in 1 .. n - m + 1 /\ m + k - 1 = i + k
      BY <1>1, <2>1
    <3>2. b[k] = s[m + k - 1]
      BY ONLY <2>2, <3>1
    <3> QED
      BY ONLY <3>1, <3>2
  <2> QED
    BY <2>2, <2>3, <2>4
<1> HIDE DEF a, b
<1> DEFINE t == a \o b
<1>4. /\ t \in Seq(S) /\ Len(t) = n - 1
      /\ \A k \in 1 .. i - 1 : t[k] = s[k]
      /\ \A k \in 1 .. n - i : t[i - 1 + k] = s[i + k]
  <2>1. /\ t \in Seq(S) /\ Len(t) = Len(a) + Len(b)
        /\ \A k \in 1 .. Len(a) + Len(b) :
              t[k] = IF k <= Len(a) THEN a[k] ELSE b[k - Len(a)]
    BY <1>2, <1>3, ConcatProperties
  <2>2. Len(t) = n - 1 /\ i - 1 + (n - i) = n - 1
    BY <1>1, <1>2, <1>3, <2>1
  <2>3. ASSUME NEW k \in 1 .. i - 1 PROVE t[k] = s[k]
    <3>1. k \in 1 .. Len(a) + Len(b) /\ k <= Len(a)
      BY <1>1, <1>2, <1>3
    <3> QED
      BY <1>2, <2>1, <3>1
  <2>4. ASSUME NEW k \in 1 .. n - i PROVE t[i - 1 + k] = s[i + k]
    <3>1. /\ i - 1 + k \in 1 .. Len(a) + Len(b) /\ ~(i - 1 + k <= Len(a))
          /\ i - 1 + k - Len(a) = k
      BY <1>1, <1>2, <1>3
    <3>2. PICK m \in 1 .. Len(a) + Len(b) :
              m = i - 1 + k /\ ~(m <= Len(a)) /\ m - Len(a) = k
      BY <3>1
    <3>3. t[m] = b[k]
      BY <2>1, <3>2
    <3> QED
      BY <1>3, <3>2, <3>3
  <2> QED
    BY <2>1, <2>2, <2>3, <2>4
<1>5. RemoveAt(s, i) = t
  BY <1>1 DEF RemoveAt, a, b
<1> HIDE DEF t
<1>6. ASSUME NEW k \in 1 .. Len(t) PROVE \E m \in 1 .. Len(s) : t[k] = s[m]
  <2>1. CASE k \in 1 .. i - 1
    <3>1. k \in 1 .. Len(s)
      BY <1>1, <2>1
    <3> QED
      BY <1>4, <2>1, <3>1
  <2>2. CASE k \notin 1 .. i - 1
    <3>1. PICK l \in 1 .. n - i : k = i - 1 + l
      <4>1. k - (i - 1) \in 1 .. n - i /\ k = i - 1 + (k - (i - 1))
        BY <1>1, <1>4, <2>2
      <4> QED
        BY <4>1
    <3>2. i + l \in 1 .. Len(s)
      BY <1>1
    <3>3. t[k] = s[i + l]
      BY <1>4, <3>1
    <3> QED
      BY <3>2, <3>3
  <2> QED
    BY <2>1, <2>2
<1>7. ASSUME NEW m \in 1 .. Len(s), m # i PROVE \E k \in 1 .. Len(t) : t[k] = s[m]
  <2>1. CASE m < i
    <3>1. m \in 1 .. i - 1 /\ m \in 1 .. Len(t)
      BY <1>1, <1>4, <2>1
    <3> QED
      BY <1>4, <3>1
  <2>2. CASE ~(m < i)
    <3>1. PICK l \in 1 .. n - i : m = i + l
      <4>1. m - i \in 1 .. n - i /\ m = i + (m - i)
        BY <1>1, <1>7, <2>2
      <4> QED
        BY <4>1
    <3>2. i - 1 + l \in 1 .. Len(t)
      BY <1>1, <1>4
    <3>3. t[i - 1 + l] = s[m]
      BY <1>4, <3>1
    <3> QED
      BY <3>2, <3>3
  <2> QED
    BY <2>1, <2>2
<1> QED
  BY <1>1, <1>4, <1>5, <1>6, <1>7

-----------------------------------------------------------------------------
(* What a worker knows. *)

\* A worker's part of the invariant.
Knows(c) == CursorOK(c) /\ \A i \in 1 .. Len(pel[c]) : RetryOK(c, i)

\* A worker that a step leaves alone.
Same(c) ==
    UNCHANGED <<pel[c], pc[c], pos[c], backlog[c], blocks[c]>>

\* A worker that a step leaves alone knows what it knew.
LEMMA SameKnows ==
    ASSUME NEW c \in Consumer, Knows(c), Same(c)
    PROVE  Knows(c)'
BY DEF Knows, Same, CursorOK, RetryOK

\* A step of one worker leaves the others alone.
LEMMA OthersKnow ==
    ASSUME RetryInv, NEW c \in Consumer, Knows(c)',
           \A d \in Consumer : d # c => Same(d)
    PROVE  \A d \in Consumer : Knows(d)'
<1> SUFFICES ASSUME NEW d \in Consumer PROVE Knows(d)'
  OBVIOUS
<1>1. CASE d = c
  BY <1>1
<1>2. CASE d # c
  <2>1. Knows(d) /\ Same(d)
    BY <1>2 DEF RetryInv, Knows
  <2> QED
    BY <2>1, SameKnows
<1> QED
  BY <1>1, <1>2

\* Outside of its handler a worker knows that its cursor is in its backlog, and
\* that no entry had more tries than deliveries, nor too many of either.
LEMMA IdleKnows ==
    ASSUME NEW c \in Consumer, pc'[c] \in {"backlog", "new", "stopped"},
           pos'[c] <= Len(pel'[c]),
           \A i \in 1 .. Len(pel'[c]) :
              /\ pel'[c][i].tries <= pel'[c][i].n
              /\ \/ pel'[c][i].tries <= 1
                 \/ pel'[c][i].tries < MaxRetries[pel'[c][i].job.w]
    PROVE  Knows(c)'
BY DEF Knows, CursorOK, RetryOK

\* What the invariant says of a worker and its entries.
LEMMA KnownEntries ==
    ASSUME RetryInv, NEW c \in Consumer
    PROVE  /\ Knows(c) /\ TypeOK /\ pel[c] \in Seq(Entry) /\ Len(pel[c]) \in Nat
           /\ pos[c] \in Nat /\ pos[c] <= Len(pel[c])
           /\ \A i \in 1 .. Len(pel[c]) :
                 /\ pel[c][i] \in Entry /\ pel[c][i].job \in Job
                 /\ pel[c][i].n \in Nat /\ pel[c][i].tries \in Nat
                 /\ MaxRetries[pel[c][i].job.w] \in Nat
                 /\ pel[c][i].tries <= pel[c][i].n
                 /\ \/ pel[c][i].tries <= 1
                    \/ pel[c][i].tries < MaxRetries[pel[c][i].job.w]
<1>1. Knows(c) /\ TypeOK /\ pel[c] \in Seq(Entry) /\ Len(pel[c]) \in Nat /\ pos[c] \in Nat
  BY DEF RetryInv, Knows, TypeOK
<1>2. pos[c] <= Len(pel[c])
  BY <1>1 DEF Knows, CursorOK
<1>3. ASSUME NEW i \in 1 .. Len(pel[c])
      PROVE  /\ pel[c][i] \in Entry /\ pel[c][i].job \in Job
             /\ pel[c][i].n \in Nat /\ pel[c][i].tries \in Nat
             /\ MaxRetries[pel[c][i].job.w] \in Nat
  <2>1. pel[c][i] \in Entry
    BY <1>1
  <2>2. pel[c][i].job \in Job /\ pel[c][i].n \in Nat /\ pel[c][i].tries \in Nat
    BY <2>1 DEF Entry
  <2>3. pel[c][i].job.w \in Webhook
    BY <2>2 DEF Job
  <2> QED
    BY <2>1, <2>2, <2>3, ConstantsAssumption
<1>4. \A i \in 1 .. Len(pel[c]) :
         /\ pel[c][i].tries <= pel[c][i].n
         /\ pel[c][i].tries <= 1 \/ pel[c][i].tries < MaxRetries[pel[c][i].job.w]
  BY <1>1 DEF Knows, RetryOK
<1> QED
  BY <1>1, <1>2, <1>3, <1>4

\* In the middle of its handler a worker has one of its entries in hand.
LEMMA InHand ==
    ASSUME RetryInv, NEW c \in Consumer, pc[c] \in Busy
    PROVE  /\ pos[c] \in 1 .. Len(pel[c]) /\ pos[c] # 0
           /\ Msg(c) = pel[c][pos[c]].job /\ Msg(c) \in Job
           /\ Msg(c).w \in Webhook /\ Msg(c).h \in Nat
           /\ pc[c] \in {"post", "ack"} => blocks[c] # {}
<1>1. pos[c] > 0 /\ (pc[c] \in {"post", "ack"} => blocks[c] # {})
  BY DEF RetryInv, CursorOK, Busy
<1>2. pos[c] \in 1 .. Len(pel[c]) /\ pos[c] # 0
  BY <1>1, KnownEntries
<1>3. Msg(c) = pel[c][pos[c]].job /\ Msg(c) \in Job
  BY <1>2, KnownEntries DEF Msg
<1> QED
  BY <1>1, <1>2, <1>3 DEF Job

\* After a handler that keeps its entry, or leaves only some of the worker's
\* entries, the worker's cursor is in its backlog.
LEMMA ReturnKnows ==
    ASSUME RetryInv, NEW c \in Consumer, pc[c] \in Busy,
           NEW kept \in BOOLEAN, HandlerReturns(c, kept),
           Len(pel'[c]) = IF kept THEN Len(pel[c]) ELSE Len(pel[c]) - 1,
           \A d \in Consumer : d # c => pel'[d] = pel[d],
           \A i \in 1 .. Len(pel'[c]) :
              /\ pel'[c][i].tries <= pel'[c][i].n
              /\ \/ pel'[c][i].tries <= 1
                 \/ pel'[c][i].tries < MaxRetries[pel'[c][i].job.w]
    PROVE  \A d \in Consumer : Knows(d)'
<1>1. TypeOK /\ pos[c] # 0 /\ pos[c] \in Nat /\ pos[c] <= Len(pel[c]) /\ Len(pel[c]) \in Nat
  BY InHand, KnownEntries
<1>2. /\ pc'[c] = "backlog" /\ pos'[c] \in Nat
      /\ pos'[c] <= pos[c] /\ (~kept => pos'[c] < pos[c])
      /\ \A d \in Consumer : d # c => Same(d)
  BY <1>1, ReturnOK DEF Same
<1>3. pos'[c] <= Len(pel'[c])
  <2>1. PICK p \in Nat, q \in Nat, n \in Nat : p = pos[c] /\ q = pos'[c] /\ n = Len(pel[c])
    BY <1>1, <1>2
  <2>2. /\ Len(pel'[c]) = (IF kept THEN n ELSE n - 1)
        /\ p <= n /\ q <= p /\ (~kept => q < p)
    BY <1>1, <1>2, <2>1
  <2>3. q <= (IF kept THEN n ELSE n - 1)
    BY ONLY <2>1, <2>2
  <2> QED
    BY <2>1, <2>2, <2>3
<1>4. Knows(c)'
  BY <1>2, <1>3, IdleKnows
<1> QED
  BY <1>2, <1>4, OthersKnow

\* A step that does not touch the shard's redis loses no job and no wakeup.
LEMMA RedisKept ==
    ASSUME RetryInv, UNCHANGED redis, TypeOK', \A c \in Consumer : Knows(c)'
    PROVE  RetryInv'
<1>1. NoLostWakeup' /\ PendingIds' = PendingIds /\ Ids(stream)' = Ids(stream)
  BY DEF RetryInv, NoLostWakeup, PendingIds, Ids, redis
<1>2. DeliveredIds' = DeliveredIds
  BY DEF DeliveredIds, PelIds, redis
<1>3. NoJobLost'
  BY <1>1, <1>2 DEF RetryInv, NoJobLost, redis
<1> QED
  BY <1>1, <1>3 DEF RetryInv, Knows

-----------------------------------------------------------------------------
(* The API and the router. *)

\* An activation that registers a webhook gives it a job.
LEMMA ApiRetry ==
    ASSUME RetryInv, NEW w \in Webhook,
           ActivateSelect(w) \/ ActivateScript(w) \/ RemoveWebhook(w)
    PROVE  RetryInv'
<1>1. \A c \in Consumer : Knows(c)'
  <2>1. ASSUME NEW c \in Consumer PROVE Knows(c) /\ Same(c)
    BY DEF RetryInv, Knows, Same, ActivateSelect, ActivateScript, RemoveWebhook,
           redis, worker
  <2> QED
    BY <2>1, SameKnows
<1>2. CASE ActivateSelect(w) \/ RemoveWebhook(w)
  <2>1. TypeOK' /\ UNCHANGED redis
    BY <1>2 DEF ActivateSelect, RemoveWebhook, RetryInv, TypeOK, redis, router,
                worker, ghost
  <2> QED
    BY <1>1, <2>1, RedisKept
<1>3. CASE ActivateScript(w)
  <2> DEFINE j == [w |-> w, h |-> 0, new |-> TRUE]
  <2>1. j \in Job /\ j.w = w /\ j.h = 0
    BY DEF Job
  <2>2. /\ pending' = (IF w \in webhookSet THEN pending ELSE pending \cup {j})
        /\ webhookSet' = webhookSet \cup {w} /\ requested' \subseteq requested
        /\ UNCHANGED <<latest, stream, pel, rows, router, worker, faults, ghost>>
    BY <1>3 DEF ActivateScript
  <2> HIDE DEF j
  <2>3. TypeOK'
    <3>1. pending' \subseteq Job /\ IsFiniteSet(pending')
      BY <2>1, <2>2, FS_AddElement DEF RetryInv, TypeOK
    <3> QED
      BY <2>2, <3>1 DEF RetryInv, TypeOK, router, worker, ghost
  <2>4. NoLostWakeup'
    BY <2>1, <2>2 DEF RetryInv, NoLostWakeup
  <2>5. PendingIds \subseteq PendingIds' /\ (w \notin webhookSet => w \in PendingIds')
    BY <2>1, <2>2 DEF PendingIds
  <2>6. Ids(stream)' = Ids(stream) /\ DeliveredIds' = DeliveredIds
    BY <2>2 DEF Ids, DeliveredIds, PelIds
  <2>7. NoJobLost'
    BY <2>2, <2>5, <2>6 DEF RetryInv, NoJobLost
  <2> QED
    BY <1>1, <2>3, <2>4, <2>7 DEF RetryInv, Knows
<1> QED
  BY <1>2, <1>3

\* The router moves jobs, all those below the height it announces.
LEMMA RouterRetry == ASSUME RetryInv, Router PROVE RetryInv'
<1>1. \A c \in Consumer : Knows(c)'
  <2>1. ASSUME NEW c \in Consumer PROVE Knows(c) /\ Same(c)
    BY DEF RetryInv, Knows, Same, Router, RouterPut, RouterReplay, RouterFlush, Flush,
           RouterAck, redis, worker
  <2> QED
    BY <2>1, SameKnows
<1>2. CASE RouterPut
  <2>1. PICK k \in 1 .. BatchSize, g \in 0 .. MaxGap :
            /\ Tip + g + k <= MaxHeight
            /\ stored' = stored \cup (Tip + g + 1 .. Tip + g + k)
            /\ flushing' = Tip + g + k
    BY <1>2 DEF RouterPut
  <2>2. /\ Tip \in Nat /\ stored \subseteq 1 .. MaxHeight /\ MaxHeight \in Nat
        /\ k \in Nat \ {0} /\ g \in Nat
    BY TipType, ConstantsAssumption DEF RetryInv, TypeOK
  <2>3. Tip + g + 1 .. Tip + g + k \subseteq 1 .. MaxHeight /\ Tip + g + k \in Nat
    BY <2>1, <2>2
  <2>4. stored' \subseteq 1 .. MaxHeight /\ flushing' \in Nat
    BY <2>1, <2>2, <2>3
  <2>5. TypeOK' /\ UNCHANGED redis
    BY <1>2, <2>4 DEF RouterPut, RetryInv, TypeOK, redis, api, worker, ghost
  <2> QED
    BY <1>1, <2>5, RedisKept
<1>3. CASE RouterReplay \/ RouterAck
  <2>1. flushing' \in Nat /\ faults' \in Nat
    <3>1. stored \subseteq Nat /\ flushing \in Nat /\ faults \in Nat
      BY ConstantsAssumption DEF RetryInv, TypeOK
    <3>2. CASE RouterReplay
      BY <3>1, <3>2 DEF RouterReplay, Fault
    <3>3. CASE RouterAck
      BY <3>1, <3>3 DEF RouterAck
    <3> QED
      BY <1>3, <3>2, <3>3
  <2>2. TypeOK' /\ UNCHANGED redis
    BY <1>3, <2>1 DEF RouterReplay, RouterAck, RetryInv, TypeOK, redis, api, worker, ghost
  <2> QED
    BY <1>1, <2>2, RedisKept
<1>4. CASE RouterFlush
  <2> DEFINE ready == { j \in pending : j.h < flushing }
  <2>1. /\ latest' = flushing /\ pending' = pending \ ready
        /\ UNCHANGED <<pel, webhookSet, api, router, worker, faults, ghost>>
    BY <1>4 DEF RouterFlush, Flush
  <2>2. PICK s \in PopOrders(ready) : stream' = stream \o s
    BY <1>4 DEF RouterFlush, Flush
  <2>3. ready \in SUBSET Job /\ IsFiniteSet(ready) /\ IsFiniteSet(pending')
    BY <2>1, FS_Subset DEF RetryInv, TypeOK
  <2>4. s \in Seq(Job) /\ Ids(s) = { j.w : j \in ready }
    BY <2>3, IdsOfPopOrder
  <2>5. stream \o s \in Seq(Job) /\ Ids(stream \o s) = Ids(stream) \cup Ids(s)
    BY <2>4, IdsOfConcat DEF RetryInv, TypeOK
  <2>6. stream' \in Seq(Job) /\ Ids(stream)' = Ids(stream) \cup Ids(s)
    BY <2>2, <2>5 DEF Ids
  <2>7. TypeOK'
    BY <2>1, <2>3, <2>6 DEF RetryInv, TypeOK, api, router, worker, ghost
  <2>8. NoLostWakeup'
    BY <2>1 DEF RetryInv, TypeOK, Job, NoLostWakeup
  <2>9. PendingIds \subseteq PendingIds' \cup Ids(s) /\ DeliveredIds' = DeliveredIds
    <3>1. DeliveredIds' = DeliveredIds
      BY <2>1 DEF DeliveredIds, PelIds
    <3>2. ASSUME NEW j \in pending PROVE j.w \in PendingIds' \cup Ids(s)
      BY <2>1, <2>4 DEF PendingIds
    <3> QED
      BY <3>1, <3>2 DEF PendingIds
  <2>10. NoJobLost'
    BY <2>1, <2>6, <2>9 DEF RetryInv, NoJobLost
  <2> QED
    BY <1>1, <2>7, <2>8, <2>10 DEF RetryInv, Knows
<1> QED
  BY <1>2, <1>3, <1>4 DEF Router

-----------------------------------------------------------------------------
(* Reading. *)

\* What is left to show of a step that moves no job but from the stream to a
\* worker.
LEMMA ReadKept ==
    ASSUME RetryInv, TypeOK', \A c \in Consumer : Knows(c)',
           UNCHANGED <<latest, pending, webhookSet>>,
           Ids(stream) \cup DeliveredIds \subseteq Ids(stream)' \cup DeliveredIds'
    PROVE  RetryInv'
<1>1. NoLostWakeup' /\ PendingIds' = PendingIds
  BY DEF RetryInv, NoLostWakeup, PendingIds
<1>2. NoJobLost'
  BY <1>1 DEF RetryInv, NoJobLost
<1> QED
  BY <1>1, <1>2 DEF RetryInv, Knows

\* A delivery from the backlog counts one more delivery of the next entry.
LEMMA Redelivered ==
    ASSUME RetryInv, NEW c \in Consumer, Redeliver(c)
    PROVE  /\ pel' \in [Consumer -> Seq(Entry)] /\ UNCHANGED stream
           /\ Ids(stream) \cup DeliveredIds \subseteq Ids(stream)' \cup DeliveredIds'
           /\ Len(pel'[c]) = Len(pel[c]) /\ pos[c] + 1 \in 1 .. Len(pel[c])
           /\ pos[c] + 1 \in Nat
           /\ pel'[c][pos[c] + 1].tries < pel'[c][pos[c] + 1].n
           /\ \A i \in 1 .. Len(pel'[c]) :
                 /\ pel'[c][i].tries <= pel'[c][i].n
                 /\ \/ pel'[c][i].tries <= 1
                    \/ pel'[c][i].tries < MaxRetries[pel'[c][i].job.w]
           /\ \A d \in Consumer : d # c => pel'[d] = pel[d]
<1>1. /\ TypeOK /\ pos[c] < Len(pel[c]) /\ pos[c] \in Nat /\ Len(pel[c]) \in Nat
      /\ UNCHANGED stream
  BY KnownEntries DEF Redeliver
<1>2. PICK p \in 1 .. Len(pel[c]) : p = pos[c] + 1 /\ p \in Nat
  BY <1>1
<1>3. /\ pel[c][p] \in Entry /\ pel[c][p].n \in Nat /\ pel[c][p].tries \in Nat
      /\ pel[c][p].tries <= pel[c][p].n
  BY KnownEntries
<1> DEFINE e == [pel[c][p] EXCEPT !.n = @ + 1]
<1>4. /\ e \in Entry /\ e.job = pel[c][p].job /\ e.tries = pel[c][p].tries
      /\ e.n = pel[c][p].n + 1
  BY <1>3 DEF Entry
<1>5. pel' = [pel EXCEPT ![c] = [pel[c] EXCEPT ![p] = e]]
  BY <1>2 DEF Redeliver
<1> HIDE DEF e
<1>6. /\ pel' \in [Consumer -> Seq(Entry)]
      /\ Len(pel'[c]) = Len(pel[c]) /\ pel'[c][p] = e
      /\ \A k \in 1 .. Len(pel[c]) : k # p => pel'[c][k] = pel[c][k]
      /\ \A d \in Consumer : d # c => pel'[d] = pel[d]
      /\ DeliveredIds' = DeliveredIds
  BY <1>1, <1>4, <1>5, EntryRewritten
<1>7. e.tries < e.n /\ e.tries <= e.n
  BY <1>3, <1>4
<1>8. ASSUME NEW i \in 1 .. Len(pel[c])
      PROVE  /\ pel'[c][i].tries <= pel'[c][i].n
             /\ \/ pel'[c][i].tries <= 1
                \/ pel'[c][i].tries < MaxRetries[pel'[c][i].job.w]
  <2>1. CASE i = p
    BY <1>4, <1>6, <1>7, <2>1, KnownEntries
  <2>2. CASE i # p
    BY <1>6, <2>2, KnownEntries
  <2> QED
    BY <2>1, <2>2
<1>9. Ids(stream)' = Ids(stream)
  BY <1>1 DEF Ids
<1> QED
  BY <1>1, <1>2, <1>6, <1>7, <1>8, <1>9

\* A delivery from the stream adds an entry that was delivered once and never
\* tried.
LEMMA Delivered ==
    ASSUME RetryInv, NEW c \in Consumer, Deliver(c)
    PROVE  /\ pel' \in [Consumer -> Seq(Entry)] /\ stream' \in Seq(Job)
           /\ Ids(stream) \cup DeliveredIds \subseteq Ids(stream)' \cup DeliveredIds'
           /\ Len(pel[c]) + 1 \in Nat /\ Len(pel'[c]) = Len(pel[c]) + 1
           /\ pos[c] <= Len(pel'[c])
           /\ pel'[c][Len(pel[c]) + 1].n = 1 /\ pel'[c][Len(pel[c]) + 1].tries = 0
           /\ \A i \in 1 .. Len(pel'[c]) :
                 /\ pel'[c][i].tries <= pel'[c][i].n
                 /\ \/ pel'[c][i].tries <= 1
                    \/ pel'[c][i].tries < MaxRetries[pel'[c][i].job.w]
           /\ \A d \in Consumer : d # c => pel'[d] = pel[d]
<1> DEFINE e == [job |-> Head(stream), n |-> 1, tries |-> 0]
<1>1. TypeOK /\ Len(pel[c]) \in Nat /\ pos[c] \in Nat /\ pos[c] <= Len(pel[c])
  BY KnownEntries
<1>2. /\ stream \in Seq(Job) /\ stream # <<>> /\ stream' = Tail(stream)
      /\ pel' = [pel EXCEPT ![c] = Append(pel[c], e)]
  BY <1>1 DEF Deliver, TypeOK
<1>3. /\ stream' \in Seq(Job) /\ Head(stream) \in Job
      /\ Ids(stream) = Ids(Tail(stream)) \cup {Head(stream).w}
  BY <1>2, IdsOfTail
<1>4. Ids(stream)' = Ids(Tail(stream))
  BY <1>2 DEF Ids
<1>5. e \in Entry /\ e.job = Head(stream) /\ e.n = 1 /\ e.tries = 0
  BY <1>3 DEF Entry
<1> HIDE DEF e
<1>6. /\ pel' \in [Consumer -> Seq(Entry)]
      /\ Len(pel'[c]) = Len(pel[c]) + 1
      /\ pel'[c][Len(pel[c]) + 1] = e
      /\ \A k \in 1 .. Len(pel[c]) : pel'[c][k] = pel[c][k]
      /\ \A d \in Consumer : d # c => pel'[d] = pel[d]
      /\ DeliveredIds \cup {e.job.w} \subseteq DeliveredIds'
  BY <1>1, <1>2, <1>5, EntryAdded
<1>7. ASSUME NEW i \in 1 .. Len(pel'[c])
      PROVE  /\ pel'[c][i].tries <= pel'[c][i].n
             /\ \/ pel'[c][i].tries <= 1
                \/ pel'[c][i].tries < MaxRetries[pel'[c][i].job.w]
  <2>1. i \in 1 .. Len(pel[c]) \/ i = Len(pel[c]) + 1
    BY <1>1, <1>6
  <2>2. CASE i \in 1 .. Len(pel[c])
    BY <1>6, <2>2, KnownEntries
  <2>3. CASE i = Len(pel[c]) + 1
    BY <1>5, <1>6, <2>3
  <2> QED
    BY <2>1, <2>2, <2>3
<1>8. Len(pel[c]) + 1 \in Nat /\ pos[c] <= Len(pel[c]) + 1
  BY <1>1
<1> QED
  BY <1>3, <1>4, <1>5, <1>6, <1>7, <1>8

\* Reading an entry, also when the worker does not learn of it.
LEMMA ReadRetry ==
    ASSUME RetryInv, NEW c \in Consumer,
           BacklogRead(c) \/ NewRead(c) \/ ReadError(c) \/ ReadAgain(c)
    PROVE  RetryInv'
<1>1. /\ UNCHANGED <<latest, pending, webhookSet, api, router, blocks, ghost>>
      /\ faults' \in Nat
      /\ \A d \in Consumer : d # c => pc'[d] = pc[d] /\ pos'[d] = pos[d]
                                   /\ backlog'[d] = backlog[d]
  BY DEF BacklogRead, NewRead, ReadError, ReadAgain, Redeliver, Deliver, Fault,
         redis, worker, RetryInv, TypeOK
<1>2. UNCHANGED redis \/ Redeliver(c) \/ Deliver(c)
  BY DEF BacklogRead, NewRead, ReadError, ReadAgain
<1>3. /\ pel' \in [Consumer -> Seq(Entry)] /\ stream' \in Seq(Job)
      /\ Ids(stream) \cup DeliveredIds \subseteq Ids(stream)' \cup DeliveredIds'
      /\ \A d \in Consumer : d # c => pel'[d] = pel[d]
      /\ pos[c] <= Len(pel'[c])
      /\ \A i \in 1 .. Len(pel'[c]) :
            /\ pel'[c][i].tries <= pel'[c][i].n
            /\ \/ pel'[c][i].tries <= 1
               \/ pel'[c][i].tries < MaxRetries[pel'[c][i].job.w]
  <2>1. CASE UNCHANGED redis
    <3>1. Ids(stream)' = Ids(stream) /\ DeliveredIds' = DeliveredIds
      BY <2>1 DEF redis, Ids, DeliveredIds, PelIds
    <3> QED
      BY <2>1, <3>1, KnownEntries DEF redis, RetryInv, TypeOK
  <2>2. CASE Redeliver(c)
    BY <2>2, Redelivered, KnownEntries DEF RetryInv, TypeOK
  <2>3. CASE Deliver(c)
    BY <2>3, Delivered
  <2> QED
    BY <1>2, <2>1, <2>2, <2>3
<1>4. \A d \in Consumer : d # c => Same(d)
  BY <1>1, <1>3 DEF Same
<1>5. CASE BacklogRead(c)
  <2>1. /\ Redeliver(c) /\ pc' = [pc EXCEPT ![c] = "find"]
        /\ backlog' = [backlog EXCEPT ![c] = TRUE]
        /\ pos' = [pos EXCEPT ![c] = pos[c] + 1]
    BY <1>5 DEF BacklogRead
  <2>2. PICK p \in Nat : /\ p = pos[c] + 1 /\ p \in 1 .. Len(pel'[c])
                         /\ pel'[c][p].tries < pel'[c][p].n
    BY <2>1, Redelivered
  <2>3. /\ pos' \in [Consumer -> Nat] /\ pc' \in [Consumer -> PC]
        /\ backlog' \in [Consumer -> BOOLEAN]
        /\ pos'[c] = p /\ pc'[c] = "find" /\ backlog'[c]
    BY <2>1, <2>2 DEF RetryInv, TypeOK, PC
  <2>4. TypeOK'
    BY <1>1, <1>3, <2>3 DEF RetryInv, TypeOK, api, router, ghost
  <2>5. Knows(c)'
    <3>1. p <= Len(pel'[c]) /\ p > 0
      BY <2>2
    <3> QED
      BY <1>3, <2>2, <2>3, <3>1 DEF Knows, CursorOK, RetryOK
  <2> QED
    BY <1>1, <1>3, <1>4, <2>4, <2>5, OthersKnow, ReadKept
<1>6. CASE NewRead(c)
  <2>1. /\ Deliver(c) /\ pc' = [pc EXCEPT ![c] = "find"]
        /\ backlog' = [backlog EXCEPT ![c] = FALSE]
        /\ pos' = [pos EXCEPT ![c] = Len(pel[c]) + 1]
    BY <1>6 DEF NewRead
  <2>2. PICK p \in Nat : /\ p = Len(pel[c]) + 1 /\ p = Len(pel'[c]) /\ p > 0
                         /\ pel'[c][p].n = 1 /\ pel'[c][p].tries = 0
    BY <2>1, Delivered, KnownEntries
  <2>3. /\ pos' \in [Consumer -> Nat] /\ pc' \in [Consumer -> PC]
        /\ backlog' \in [Consumer -> BOOLEAN]
        /\ pos'[c] = p /\ pc'[c] = "find" /\ ~backlog'[c]
    BY <2>1, <2>2 DEF RetryInv, TypeOK, PC
  <2>4. TypeOK'
    BY <1>1, <1>3, <2>3 DEF RetryInv, TypeOK, api, router, ghost
  <2>5. Knows(c)'
    BY <1>3, <2>2, <2>3 DEF Knows, CursorOK, RetryOK
  <2> QED
    BY <1>1, <1>3, <1>4, <2>4, <2>5, OthersKnow, ReadKept
<1>7. CASE ReadError(c) \/ ReadAgain(c)
  <2>1. /\ pc' \in [Consumer -> PC] /\ pc'[c] \in {"backlog", "new", "stopped"}
        /\ UNCHANGED <<pos, backlog>>
    BY <1>7 DEF ReadError, ReadAgain, Redeliver, Deliver, worker, RetryInv, TypeOK, PC
  <2>2. TypeOK'
    BY <1>1, <1>3, <2>1 DEF RetryInv, TypeOK, api, router, ghost
  <2>3. Knows(c)'
    BY <1>3, <2>1, IdleKnows
  <2> QED
    BY <1>1, <1>3, <1>4, <2>2, <2>3, OthersKnow, ReadKept
<1> QED
  BY <1>5, <1>6, <1>7

-----------------------------------------------------------------------------
(* Calls that leave the shard's redis as it is. *)

\* The end of a round of the backlog, a look-up, a fetch, and a failed call.
LEMMA QuietRetry ==
    ASSUME RetryInv, NEW c \in Consumer,
           BacklogEnd(c) \/ FindOne(c) \/ FetchBlocks(c) \/ CallError(c)
    PROVE  RetryInv'
<1>0. UNCHANGED redis /\ UNCHANGED pel
  BY DEF BacklogEnd, FindOne, FetchBlocks, CallError, redis
<1>1. CASE BacklogEnd(c)
  <2>1. /\ pos' = [pos EXCEPT ![c] = 0] /\ UNCHANGED <<api, router, backlog, blocks, faults, ghost>>
        /\ pc' \in [Consumer -> PC] /\ pc'[c] \in {"new", "backlog"}
        /\ \A d \in Consumer : d # c => pc'[d] = pc[d]
    BY <1>1 DEF BacklogEnd, RetryInv, TypeOK, PC
  <2>2. TypeOK'
    BY <1>0, <2>1 DEF RetryInv, TypeOK, redis, api, router, ghost
  <2>3. pos'[c] = 0 /\ 0 <= Len(pel'[c]) /\ \A d \in Consumer : d # c => Same(d)
    BY <1>0, <2>1, KnownEntries DEF RetryInv, TypeOK, Same
  <2>4. Knows(c)'
    BY <1>0, <2>1, <2>3, KnownEntries, IdleKnows
  <2> QED
    BY <1>0, <2>2, <2>3, <2>4, OthersKnow, RedisKept
<1>2. CASE FindOne(c)
  <2> DEFINE e == pel[c][pos[c]]
  <2>1. /\ pc[c] = "find" /\ UNCHANGED <<api, router, pos, backlog, blocks, faults, ghost>>
        /\ Msg(c) = e.job /\ pos[c] \in 1 .. Len(pel[c])
        /\ e.n \in Nat /\ MaxRetries[e.job.w] \in Nat
    BY <1>2, InHand, KnownEntries DEF FindOne, Busy
  <2>2. PICK v \in {"drop", "skip", "fetch"} :
            /\ pc' = [pc EXCEPT ![c] = v]
            /\ v = "fetch" => ~(backlog[c] /\ e.n >= MaxRetries[e.job.w])
    BY <1>2, <2>1 DEF FindOne
  <2>3. TypeOK' /\ pc'[c] = v /\ \A d \in Consumer : d # c => Same(d)
    BY <1>0, <2>1, <2>2 DEF RetryInv, TypeOK, PC, redis, api, router, ghost, Same
  <2>4. v = "fetch" /\ backlog[c] => e.n < MaxRetries[e.job.w]
    BY <2>1, <2>2
  <2>5. Knows(c)'
    <3>1. Knows(c)
      BY KnownEntries
    <3>2. CursorOK(c)'
      BY <1>0, <2>1, <2>2, <2>3, <3>1 DEF Knows, CursorOK
    <3>3. ASSUME NEW i \in 1 .. Len(pel[c]) PROVE RetryOK(c, i)'
      BY <1>0, <2>1, <2>3, <2>4, <3>1 DEF Knows, RetryOK
    <3> QED
      BY <1>0, <3>2, <3>3 DEF Knows
  <2> QED
    BY <1>0, <2>3, <2>5, OthersKnow, RedisKept
<1>3. CASE FetchBlocks(c)
  <2>1. /\ pc[c] = "fetch" /\ UNCHANGED <<api, router, pos, backlog, faults, ghost>>
        /\ pc' = [pc EXCEPT ![c] = "post"]
    BY <1>3 DEF FetchBlocks
  <2>0. PICK B \in Answers(Msg(c)) : B # {} /\ blocks' = [blocks EXCEPT ![c] = B]
    BY <1>3 DEF FetchBlocks
  <2>2. B \subseteq 1 .. MaxHeight
    <3>1. Msg(c) \in Job /\ TypeOK
      BY <2>1, InHand DEF Busy, RetryInv
    <3> QED
      BY <3>1, AnswerStored
  <2>3. /\ TypeOK' /\ pc'[c] = "post" /\ blocks'[c] # {}
        /\ \A d \in Consumer : d # c => Same(d)
    BY <1>0, <2>0, <2>1, <2>2 DEF RetryInv, TypeOK, PC, redis, api, router, ghost, Same
  <2>4. Knows(c)'
    <3>1. Knows(c)
      BY KnownEntries
    <3> QED
      BY <1>0, <2>1, <2>3, <3>1 DEF Knows, CursorOK, RetryOK
  <2> QED
    BY <1>0, <2>3, <2>4, OthersKnow, RedisKept
<1>4. CASE CallError(c)
  <2>1. /\ pc[c] \in Busy /\ HandlerReturns(c, TRUE) /\ UNCHANGED <<api, router, ghost>>
        /\ faults' \in Nat /\ TypeOK
    <3>1. TypeOK /\ faults \in Nat
      BY DEF RetryInv, TypeOK
    <3>2. faults' \in Nat
      BY <1>4, <3>1 DEF CallError, Fault
    <3> QED
      BY <1>4, <3>1, <3>2 DEF CallError, Busy
  <2>2. TypeOK'
    <3>1. /\ pc' \in [Consumer -> PC] /\ pos' \in [Consumer -> Nat]
          /\ backlog' \in [Consumer -> BOOLEAN]
          /\ blocks' \in [Consumer -> SUBSET (1 .. MaxHeight)]
      BY <2>1, InHand, ReturnOK
    <3> QED
      BY <1>0, <2>1, <3>1 DEF TypeOK, redis, api, router, ghost
  <2>3. \A d \in Consumer : Knows(d)'
    BY <1>0, <2>1, KnownEntries, ReturnKnows
  <2> QED
    BY <1>0, <2>2, <2>3, RedisKept
<1> QED
  BY <1>1, <1>2, <1>3, <1>4

\* A process that starts again begins with its backlog.
LEMMA DeathRetry ==
    ASSUME RetryInv,
           \/ \E c \in Consumer : Panic(c)
           \/ \E p \in Process : Crash(p) \/ Exit(p)
    PROVE  RetryInv'
<1>1. PICK p : Restart(p) /\ UNCHANGED <<redis, api, router, ghost>>
  BY DEF Panic, Crash, Exit
<1>2. faults' \in Nat
  BY DEF Panic, Crash, Exit, Fault, RetryInv, TypeOK
<1>3. /\ pc' = [c \in Consumer |-> IF c[1] = p THEN "backlog" ELSE pc[c]]
      /\ pos' = [c \in Consumer |-> IF c[1] = p THEN 0 ELSE pos[c]]
      /\ backlog' = [c \in Consumer |-> IF c[1] = p THEN FALSE ELSE backlog[c]]
      /\ blocks' = [c \in Consumer |-> IF c[1] = p THEN {} ELSE blocks[c]]
  BY <1>1 DEF Restart
<1>4. TypeOK'
  BY <1>1, <1>2, <1>3 DEF RetryInv, TypeOK, PC, redis, api, router, ghost
<1>5. ASSUME NEW c \in Consumer PROVE Knows(c)'
  <2>1. CASE c[1] = p
    <3>1. pc'[c] = "backlog" /\ pos'[c] = 0 /\ pel'[c] = pel[c]
      BY <1>1, <1>3, <2>1 DEF redis
    <3>2. 0 <= Len(pel[c])
      BY KnownEntries
    <3> QED
      BY <3>1, <3>2, KnownEntries, IdleKnows
  <2>2. CASE c[1] # p
    <3>1. Knows(c)
      BY KnownEntries
    <3>2. /\ pel'[c] = pel[c] /\ pc'[c] = pc[c] /\ pos'[c] = pos[c]
          /\ backlog'[c] = backlog[c] /\ blocks'[c] = blocks[c]
      BY <1>1, <1>3, <2>2 DEF redis
    <3>3. Same(c)
      BY <3>2 DEF Same
    <3> QED
      BY <3>1, <3>3, SameKnows
  <2> QED
    BY <2>1, <2>2
<1> QED
  BY <1>1, <1>4, <1>5, RedisKept

-----------------------------------------------------------------------------
(* Sending and acknowledging. *)

\* The POST request, whatever its outcome, was preceded by a delivery below the
\* limit or is the first.
LEMMA PostRetry ==
    ASSUME RetryInv, NEW c \in Consumer, PostOk(c) \/ PostError(c)
    PROVE  RetryInv'
<1>1. /\ pc[c] = "post" /\ pc[c] \in Busy /\ TypeOK /\ Knows(c)
      /\ UNCHANGED <<latest, pending, stream, webhookSet, api, router, faults, skipped>>
  BY KnownEntries DEF PostOk, PostError, Busy, ghost
<1>2. PICK p \in 1 .. Len(pel[c]) : p = pos[c]
  BY <1>1, InHand
<1>3. /\ pel[c][p] \in Entry /\ pel[c][p].n \in Nat /\ pel[c][p].tries \in Nat
      /\ MaxRetries[pel[c][p].job.w] \in Nat
      /\ Msg(c).w \in Webhook /\ blocks[c] # {}
  BY <1>1, InHand, KnownEntries
<1>4. /\ pel[c][p].tries < pel[c][p].n /\ (~backlog[c] => pel[c][p].n = 1)
      /\ backlog[c] => pel[c][p].n < MaxRetries[pel[c][p].job.w]
  BY <1>1, <1>2 DEF Knows, RetryOK
<1> DEFINE e == [pel[c][p] EXCEPT !.tries = @ + 1]
<1>5. /\ e \in Entry /\ e.job = pel[c][p].job /\ e.n = pel[c][p].n
      /\ e.tries = pel[c][p].tries + 1
  BY <1>3 DEF Entry
<1>6. pel' = [pel EXCEPT ![c] = [pel[c] EXCEPT ![p] = e]]
  BY <1>2 DEF PostOk, PostError, Tried
<1> HIDE DEF e
<1>7. /\ pel' \in [Consumer -> Seq(Entry)]
      /\ Len(pel'[c]) = Len(pel[c]) /\ pel'[c][p] = e
      /\ \A k \in 1 .. Len(pel[c]) : k # p => pel'[c][k] = pel[c][k]
      /\ \A d \in Consumer : d # c => pel'[d] = pel[d]
      /\ DeliveredIds' = DeliveredIds
  BY <1>1, <1>5, <1>6, EntryRewritten
<1>8. e.tries <= e.n /\ (e.tries <= 1 \/ e.tries < MaxRetries[e.job.w])
  <2>1. CASE backlog[c]
    BY <1>3, <1>4, <1>5, <2>1
  <2>2. CASE ~backlog[c]
    BY <1>3, <1>4, <1>5, <2>2
  <2> QED
    BY <2>1, <2>2
<1>9. ASSUME NEW i \in 1 .. Len(pel'[c])
      PROVE  /\ pel'[c][i].tries <= pel'[c][i].n
             /\ \/ pel'[c][i].tries <= 1
                \/ pel'[c][i].tries < MaxRetries[pel'[c][i].job.w]
  <2>1. CASE i = p
    BY <1>7, <1>8, <2>1
  <2>2. CASE i # p
    BY <1>7, <2>2, KnownEntries
  <2> QED
    BY <2>1, <2>2
<1>10. Ids(stream) \cup DeliveredIds \subseteq Ids(stream)' \cup DeliveredIds'
  BY <1>1, <1>7 DEF Ids
<1>11. CASE PostOk(c)
  <2>1. /\ pc' = [pc EXCEPT ![c] = "ack"] /\ UNCHANGED <<pos, backlog, blocks>>
    BY <1>11 DEF PostOk
  <2>2. sent' \in [Webhook -> SUBSET Nat]
    <3>1. blocks[c] \subseteq Nat
      BY <1>1 DEF TypeOK
    <3> QED
      BY <1>1, <1>3, <1>11, <3>1 DEF PostOk, TypeOK
  <2>3. TypeOK' /\ pc'[c] = "ack" /\ \A d \in Consumer : d # c => Same(d)
    BY <1>1, <1>7, <2>1, <2>2 DEF TypeOK, PC, api, router, Same
  <2>4. CursorOK(c)'
    BY <1>1, <1>3, <1>7, <2>1, <2>3 DEF Knows, CursorOK
  <2>5. Knows(c)'
    BY <1>9, <2>3, <2>4 DEF Knows, RetryOK
  <2> QED
    BY <1>1, <1>10, <2>3, <2>5, OthersKnow, ReadKept
<1>12. CASE PostError(c)
  <2>1. HandlerReturns(c, TRUE) /\ UNCHANGED sent
    BY <1>12 DEF PostError, ghost
  <2>2. TypeOK'
    <3>1. /\ pc' \in [Consumer -> PC] /\ pos' \in [Consumer -> Nat]
          /\ backlog' \in [Consumer -> BOOLEAN]
          /\ blocks' \in [Consumer -> SUBSET (1 .. MaxHeight)]
      BY <1>1, <2>1, InHand, ReturnOK
    <3> QED
      BY <1>1, <1>7, <2>1, <3>1 DEF TypeOK, api, router
  <2>3. \A d \in Consumer : Knows(d)'
    BY <1>1, <1>7, <1>9, <2>1, ReturnKnows
  <2> QED
    BY <1>1, <1>10, <2>2, <2>3, ReadKept
<1> QED
  BY <1>11, <1>12

\* An acknowledged entry is the only one that leaves its backlog.
LEMMA AckedRetry ==
    ASSUME RetryInv, NEW c \in Consumer, pc[c] \in Busy, Acked(c),
           HandlerReturns(c, FALSE)
    PROVE  /\ pel' \in [Consumer -> Seq(Entry)]
           /\ DeliveredIds \subseteq DeliveredIds' \cup {Msg(c).w}
           /\ \A d \in Consumer : Knows(d)'
           /\ pc' \in [Consumer -> PC] /\ pos' \in [Consumer -> Nat]
           /\ backlog' \in [Consumer -> BOOLEAN]
           /\ blocks' \in [Consumer -> SUBSET (1 .. MaxHeight)]
<1>1. PICK p \in 1 .. Len(pel[c]) : p = pos[c] /\ Msg(c) = pel[c][p].job
  BY InHand
<1>2. /\ TypeOK /\ pel[c] \in Seq(Entry) /\ pel \in [Consumer -> Seq(Entry)]
      /\ Len(pel[c]) \in Nat
  BY KnownEntries DEF TypeOK
<1> DEFINE t == RemoveAt(pel[c], p)
<1>3. /\ t \in Seq(Entry) /\ Len(t) = Len(pel[c]) - 1
      /\ \A k \in 1 .. Len(t) : \E m \in 1 .. Len(pel[c]) : t[k] = pel[c][m]
      /\ \A m \in 1 .. Len(pel[c]) : m # p => \E k \in 1 .. Len(t) : t[k] = pel[c][m]
  BY <1>2, RemovedAt
<1>4. pel' = [pel EXCEPT ![c] = t]
  BY <1>1 DEF Acked
<1> HIDE DEF t
<1>5. /\ pel' \in [Consumer -> Seq(Entry)] /\ pel'[c] = t
      /\ \A d \in Consumer : d # c => pel'[d] = pel[d]
  BY <1>2, <1>3, <1>4
<1>6. PelIds(c) \subseteq PelIds(c)' \cup {Msg(c).w}
  <2>1. ASSUME NEW m \in 1 .. Len(pel[c]), m # p PROVE pel[c][m].job.w \in PelIds(c)'
    BY <1>3, <1>5, <2>1 DEF PelIds
  <2> QED
    BY <1>1, <2>1 DEF PelIds
<1>7. \A d \in Consumer : d # c => PelIds(d)' = PelIds(d)
  BY <1>5 DEF PelIds
<1>8. DeliveredIds \subseteq DeliveredIds' \cup {Msg(c).w}
  <2> SUFFICES ASSUME NEW x \in DeliveredIds, x # Msg(c).w PROVE x \in DeliveredIds'
    OBVIOUS
  <2>1. PICK d \in Consumer : x \in PelIds(d)
    BY DEF DeliveredIds
  <2>2. x \in PelIds(d)'
    BY <1>6, <1>7, <2>1
  <2> QED
    BY <2>2 DEF DeliveredIds
<1>9. ASSUME NEW i \in 1 .. Len(pel'[c])
      PROVE  /\ pel'[c][i].tries <= pel'[c][i].n
             /\ \/ pel'[c][i].tries <= 1
                \/ pel'[c][i].tries < MaxRetries[pel'[c][i].job.w]
  <2>1. PICK m \in 1 .. Len(pel[c]) : pel'[c][i] = pel[c][m]
    BY <1>3, <1>5
  <2> QED
    BY <2>1, KnownEntries
<1>10. Len(pel'[c]) = Len(pel[c]) - 1
  BY <1>3, <1>5
<1>11. \A d \in Consumer : Knows(d)'
  BY <1>5, <1>9, <1>10, ReturnKnows
<1> QED
  BY <1>2, <1>5, <1>8, <1>11, InHand, ReturnOK

\* A webhook that is dropped needs its job no more.
LEMMA DropRetry == ASSUME RetryInv, NEW c \in Consumer, Drop(c) PROVE RetryInv'
<1>1. /\ pc[c] \in Busy /\ Acked(c) /\ HandlerReturns(c, FALSE)
      /\ webhookSet' = webhookSet \ {Msg(c).w}
      /\ UNCHANGED <<latest, pending, stream, api, router, faults, ghost>>
  BY DEF Drop, Busy
<1>2. /\ pel' \in [Consumer -> Seq(Entry)]
      /\ DeliveredIds \subseteq DeliveredIds' \cup {Msg(c).w}
      /\ \A d \in Consumer : Knows(d)'
      /\ pc' \in [Consumer -> PC] /\ pos' \in [Consumer -> Nat]
      /\ backlog' \in [Consumer -> BOOLEAN]
      /\ blocks' \in [Consumer -> SUBSET (1 .. MaxHeight)]
  BY <1>1, AckedRetry
<1>3. TypeOK'
  BY <1>1, <1>2 DEF RetryInv, TypeOK, api, router, ghost
<1>4. NoLostWakeup' /\ PendingIds' = PendingIds /\ Ids(stream)' = Ids(stream)
  BY <1>1 DEF RetryInv, NoLostWakeup, PendingIds, Ids
<1>5. NoJobLost'
  BY <1>1, <1>2, <1>4 DEF RetryInv, NoJobLost
<1> QED
  BY <1>2, <1>3, <1>4, <1>5 DEF RetryInv, Knows

\* The successor takes the job's place, or two of it do.
LEMMA ReplaceRetry ==
    ASSUME RetryInv, NEW c \in Consumer, Replace(c) \/ ReplaceTwice(c)
    PROVE  RetryInv'
<1> DEFINE k == Successor(c)
<1>1. /\ pc[c] \in {"skip", "ack"} /\ pc[c] \in Busy /\ Acked(c)
      /\ HandlerReturns(c, FALSE) /\ GiveUp(c)
      /\ UNCHANGED <<latest, webhookSet, api, router, sent>> /\ faults' \in Nat
  <2>1. faults \in Nat
    BY DEF RetryInv, TypeOK
  <2>2. faults' = faults \/ faults' = faults + 1
    BY DEF Replace, ReplaceTwice, Fault
  <2>3. faults' \in Nat
    BY <2>1, <2>2
  <2> QED
    BY <2>3 DEF Replace, ReplaceTwice, Busy
<1>2. /\ pel' \in [Consumer -> Seq(Entry)]
      /\ DeliveredIds \subseteq DeliveredIds' \cup {Msg(c).w}
      /\ \A d \in Consumer : Knows(d)'
      /\ pc' \in [Consumer -> PC] /\ pos' \in [Consumer -> Nat]
      /\ backlog' \in [Consumer -> BOOLEAN]
      /\ blocks' \in [Consumer -> SUBSET (1 .. MaxHeight)]
  BY <1>1, AckedRetry
<1>3. k \in Job /\ k.w = Msg(c).w /\ Msg(c).w \in Webhook /\ Msg(c).h \in Nat
  <2>1. /\ Msg(c) \in Job /\ Msg(c).w \in Webhook /\ Msg(c).h \in Nat
        /\ TypeOK /\ (pc[c] = "ack" => blocks[c] # {})
    BY <1>1, InHand DEF RetryInv
  <2> QED
    BY <1>1, <2>1, SuccessorOfJob
<1>4. skipped' \in [Webhook -> SUBSET Nat]
  BY <1>1, <1>3 DEF GiveUp, RetryInv, TypeOK
<1>5. \/ k.h >= latest /\ pending' = pending \cup {k} /\ UNCHANGED stream
      \/ UNCHANGED pending /\ stream' \in {Append(stream, k), stream \o <<k, k>>}
  BY DEF Replace, ReplaceTwice, Reschedule
<1> HIDE DEF k
<1>6. CASE k.h >= latest /\ pending' = pending \cup {k} /\ UNCHANGED stream
  <2>1. pending' \subseteq Job /\ IsFiniteSet(pending')
    BY <1>3, <1>6, FS_AddElement DEF RetryInv, TypeOK
  <2>2. TypeOK'
    BY <1>1, <1>2, <1>4, <1>6, <2>1 DEF RetryInv, TypeOK, api, router
  <2>3. NoLostWakeup'
    BY <1>1, <1>6 DEF RetryInv, NoLostWakeup
  <2>4. PendingIds \cup {Msg(c).w} \subseteq PendingIds' /\ Ids(stream)' = Ids(stream)
    BY <1>3, <1>6 DEF PendingIds, Ids
  <2>5. NoJobLost'
    BY <1>1, <1>2, <2>4 DEF RetryInv, NoJobLost
  <2> QED
    BY <1>2, <2>2, <2>3, <2>5 DEF RetryInv, Knows
<1>7. CASE UNCHANGED pending /\ stream' \in {Append(stream, k), stream \o <<k, k>>}
  <2>1. PICK t \in Seq(Job) : stream' = t /\ Ids(t) = Ids(stream) \cup {k.w}
    <3>1. stream \in Seq(Job)
      BY DEF RetryInv, TypeOK
    <3>2. Append(stream, k) \in Seq(Job) /\ Ids(Append(stream, k)) = Ids(stream) \cup {k.w}
      BY <1>3, <3>1, IdsOfAppend
    <3>3. <<k, k>> \in Seq(Job) /\ Ids(<<k, k>>) = {k.w}
      BY <1>3 DEF Ids
    <3>4. /\ stream \o <<k, k>> \in Seq(Job)
          /\ Ids(stream \o <<k, k>>) = Ids(stream) \cup {k.w}
      BY <3>1, <3>3, IdsOfConcat
    <3> QED
      BY <1>7, <3>2, <3>4
  <2>2. TypeOK'
    BY <1>1, <1>2, <1>4, <1>7, <2>1 DEF RetryInv, TypeOK, api, router
  <2>3. NoLostWakeup' /\ PendingIds' = PendingIds
    BY <1>1, <1>7 DEF RetryInv, NoLostWakeup, PendingIds
  <2>4. Ids(stream)' = Ids(stream) \cup {Msg(c).w}
    BY <1>3, <2>1 DEF Ids
  <2>5. NoJobLost'
    BY <1>1, <1>2, <2>3, <2>4 DEF RetryInv, NoJobLost
  <2> QED
    BY <1>2, <2>2, <2>3, <2>5 DEF RetryInv, Knows
<1> QED
  BY <1>5, <1>6, <1>7

-----------------------------------------------------------------------------
(* The theorems. *)

\* Every step preserves the invariant, a repeated command included.
LEMMA RetryNext == ASSUME RetryInv, [Next]_vars PROVE RetryInv'
<1>1. CASE Api
  BY <1>1, ApiRetry DEF Api
<1>2. CASE Router
  BY <1>2, RouterRetry
<1>3. ASSUME NEW c \in Consumer,
             Work(c) \/ ReadError(c) \/ ReadAgain(c) \/ CallError(c) \/ ReplaceTwice(c)
      PROVE  RetryInv'
  <2>1. CASE BacklogRead(c) \/ NewRead(c) \/ ReadError(c) \/ ReadAgain(c)
    BY <2>1, ReadRetry
  <2>2. CASE BacklogEnd(c) \/ FindOne(c) \/ FetchBlocks(c) \/ CallError(c)
    BY <2>2, QuietRetry
  <2>3. CASE Panic(c)
    BY <2>3, DeathRetry
  <2>4. CASE PostOk(c) \/ PostError(c)
    BY <2>4, PostRetry
  <2>5. CASE Drop(c)
    BY <2>5, DropRetry
  <2>6. CASE Replace(c) \/ ReplaceTwice(c)
    BY <2>6, ReplaceRetry
  <2> QED
    BY <1>3, <2>1, <2>2, <2>3, <2>4, <2>5, <2>6 DEF Work
<1>4. CASE \E p \in Process : Crash(p) \/ Exit(p)
  BY <1>4, DeathRetry
<1>5. CASE UNCHANGED vars
  <2>1. UNCHANGED redis /\ TypeOK'
    BY <1>5 DEF vars, redis, api, router, worker, ghost, RetryInv, TypeOK
  <2>2. ASSUME NEW c \in Consumer PROVE Knows(c)'
    <3>1. Knows(c) /\ Same(c)
      BY <1>5, KnownEntries DEF vars, redis, worker, Same
    <3> QED
      BY <3>1, SameKnows
  <2> QED
    BY <2>1, <2>2, RedisKept
<1> QED
  BY <1>1, <1>2, <1>3, <1>4, <1>5 DEF Next, Failure

\* At first no webhook is registered and no backlog has an entry.
LEMMA InitRetry == Init => RetryInv
<1> SUFFICES ASSUME Init PROVE RetryInv
  OBVIOUS
<1>1. TypeOK /\ NoLostWakeup
  BY InitIInv DEF IInv
<1>2. NoJobLost
  BY DEF Init, NoJobLost
<1>3. ASSUME NEW c \in Consumer PROVE Knows(c)
  <2>1. /\ Len(pel[c]) = 0 /\ pos[c] = 0 /\ pc[c] = "backlog"
    BY <1>3 DEF Init
  <2> QED
    BY <2>1 DEF Knows, CursorOK, RetryOK
<1> QED
  BY <1>1, <1>2, <1>3 DEF RetryInv, Knows

\* The invariant bounds the tries.
LEMMA RetryBound == RetryInv => TriesBounded
<1> SUFFICES ASSUME RetryInv, NEW c \in Consumer, NEW i \in 1 .. Len(pel[c])
             PROVE  LET e == pel[c][i] IN e.tries <= Max({1, MaxRetries[e.job.w] - 1})
  BY DEF TriesBounded
<1> DEFINE t == pel[c][i].tries
           m == MaxRetries[pel[c][i].job.w]
<1>1. t \in Nat /\ m \in Nat /\ (t <= 1 \/ t < m)
  BY KnownEntries
<1> HIDE DEF t, m
<1>2. t <= Max({1, m - 1})
  BY <1>1, MaxWithOne
<1> QED
  BY <1>2 DEF t, m

\* Every variable of the relay keeps its type, also when the redis client
\* repeats commands.
THEOREM TypeCorrect == Spec => []TypeOK
<1>1. RetryInv /\ [Next]_vars => RetryInv'
  BY RetryNext
<1>2. RetryInv => TypeOK
  BY DEF RetryInv
<1> QED
  BY InitRetry, <1>1, <1>2, PTL DEF Spec

\* No registered webhook is left without a job: neither a crash between a read
\* and the acknowledgement, nor a reply that is lost and a command that runs
\* twice, nor the race of an activation with a removal takes the last job of a
\* webhook away.
THEOREM JobsAreKept == Spec => []NoJobLost
<1>1. RetryInv /\ [Next]_vars => RetryInv'
  BY RetryNext
<1>2. RetryInv => NoJobLost
  BY DEF RetryInv
<1> QED
  BY InitRetry, <1>1, <1>2, PTL DEF Spec

\* A job that newer blocks exist for is never left in the pending set by the
\* race of the worker that reschedules it with the router that flushes.
THEOREM NoWakeupLost == Spec => []NoLostWakeup
<1>1. RetryInv /\ [Next]_vars => RetryInv'
  BY RetryNext
<1>2. RetryInv => NoLostWakeup
  BY DEF RetryInv
<1> QED
  BY InitRetry, <1>1, <1>2, PTL DEF Spec

\* A webhook's URL is called at most max_retries - 1 times for one message (and
\* once when that is less than one), for any limits, any number of workers and
\* processes and any failures, also when the client repeats commands.
THEOREM RetryLimit == Spec => []TriesBounded
<1>1. RetryInv /\ [Next]_vars => RetryInv'
  BY RetryNext
<1> QED
  BY InitRetry, <1>1, RetryBound, PTL DEF Spec
=============================================================================
