-------------------------- MODULE RelayFeedProofs ---------------------------
(***************************************************************************)
(* A webhook's feed has no silent hole until a batch is repeated, and with *)
(* ranges of one block never: for any webhooks, range lengths, workers,    *)
(* gaps in the store, retry limits, crashes and failed calls.              *)
(***************************************************************************)
EXTENDS WebhookRelayProofs

-----------------------------------------------------------------------------
(* The invariant. *)

\* The jobs that wait for no block: they are in the stream or with a worker.
StreamJobs == { stream[i] : i \in 1 .. Len(stream) }
PelJobs(c) == { pel[c][i].job : i \in 1 .. Len(pel[c]) }
OnTheWay   == StreamJobs \cup UNION { PelJobs(c) : c \in Consumer }

\* A job of a running feed begins at or after the feed's first block, at most
\* one height above a stored one, and if batches are whole, it leaves nothing
\* behind that was neither sent nor given up.
JobOK(j) ==
    ~j.new =>
        /\ sent[j.w] # {} /\ Min(sent[j.w]) <= j.h /\ 0 < j.h
        /\ \E g \in stored : j.h <= g + 1
        /\ Whole(j.w) => \A h \in stored : Min(sent[j.w]) <= h /\ h < j.h
                           => h \in sent[j.w] \cup skipped[j.w]

\* A job that waits for no block is not above all stored ones.
InReach(j) == \E g \in stored : j.new \/ j.h <= g

\* The blocks in a worker's hands are stored, and if batches are whole, are all
\* of those from the job's height to the last of them; once accepted they are
\* part of the feed.
HandOK(c) ==
    pc[c] \in {"post", "ack"} =>
        LET j == Msg(c)
        IN  /\ blocks[c] \subseteq stored
            /\ ~j.new => /\ \A b \in blocks[c] : j.h <= b
                         /\ Whole(j.w) => \A h \in stored : \A b \in blocks[c] :
                               j.h <= h /\ h <= b => h \in blocks[c]
            /\ pc[c] = "ack" /\ j.new => blocks[c] = sent[j.w]
            /\ pc[c] = "ack" => blocks[c] \subseteq sent[j.w]

\* The heights the shard and the router know are stored ones.
HeightsOK == latest \in stored \cup {0} /\ flushing \in stored \cup {0}

FeedInv ==
    /\ IInv
    /\ HeightsOK
    /\ \A j \in AllJobs : JobOK(j)
    /\ \A j \in OnTheWay : InReach(j)
    /\ \A c \in Consumer : HandOK(c)

-----------------------------------------------------------------------------
(* What a step leaves true. *)

\* The store only grows, above all that it holds, and a batch that was repeated
\* stays repeated.
StoreGrows ==
    /\ stored \subseteq stored'
    /\ \A h \in stored' \ stored : \A g \in stored : g < h
    /\ repeated => repeated'

\* Batches that are whole after a step were whole before it.
LEMMA WholeBefore ==
    ASSUME StoreGrows, NEW w, Whole(w)'
    PROVE  Whole(w)
BY DEF StoreGrows, Whole

\* AllJobs in two parts.
LEMMA JobsParted == AllJobs = pending \cup OnTheWay /\ AllJobs' = pending' \cup OnTheWay'
BY DEF AllJobs, OnTheWay, StreamJobs, PelJobs

\* Every job has the type of a job, wherever it is.
LEMMA JobsTyped ==
    ASSUME TypeOK
    PROVE  /\ \A i \in 1 .. Len(stream) : stream[i] \in Job
           /\ \A c \in Consumer : \A i \in 1 .. Len(pel[c]) : pel[c][i].job \in Job
           /\ AllJobs \subseteq Job
<1>1. \A i \in 1 .. Len(stream) : stream[i] \in Job
  BY DEF TypeOK
<1>2. ASSUME NEW c \in Consumer, NEW i \in 1 .. Len(pel[c])
      PROVE  pel[c][i].job \in Job
  <2>1. pel[c] \in Seq(Entry)
    BY DEF TypeOK
  <2>2. pel[c][i] \in Entry
    BY <2>1
  <2> QED
    BY <2>2 DEF Entry
<1>3. AllJobs \subseteq Job
  BY <1>1, <1>2 DEF AllJobs, TypeOK
<1> QED
  BY <1>1, <1>2, <1>3

\* The stored heights are natural numbers.
LEMMA StoredNat == ASSUME TypeOK PROVE stored \subseteq Nat
BY ConstantsAssumption DEF TypeOK

\* A job keeps its promise while its webhook is sent nothing else.
LEMMA JobKept ==
    ASSUME TypeOK, TypeOK', StoreGrows, NEW j \in Job, JobOK(j),
           sent'[j.w] = sent[j.w], skipped[j.w] \subseteq skipped'[j.w]
    PROVE  JobOK(j)'
<1> SUFFICES ASSUME ~j.new PROVE JobOK(j)'
  BY DEF JobOK
<1>1. stored \subseteq Nat /\ stored' \subseteq Nat /\ j.h \in Nat
  BY StoredNat, ConstantsAssumption DEF TypeOK, Job
<1>2. PICK g \in stored : j.h <= g + 1
  BY DEF JobOK
<1>3. ASSUME NEW h \in stored' \ stored PROVE ~(h < j.h)
  <2>1. g < h /\ g \in Nat /\ h \in Nat
    BY <1>1 DEF StoreGrows
  <2> QED
    BY <1>1, <1>2, <2>1
<1>4. \E x \in stored' : j.h <= x + 1
  BY <1>2 DEF StoreGrows
<1>6. ASSUME Whole(j.w)', NEW h \in stored', Min(sent[j.w]) <= h, h < j.h
      PROVE  h \in sent[j.w] \cup skipped'[j.w]
  <2>1. h \in stored
    BY <1>3, <1>6
  <2>2. Whole(j.w)
    BY <1>6, WholeBefore
  <2> QED
    BY <1>6, <2>1, <2>2 DEF JobOK
<1> QED
  BY <1>4, <1>6 DEF JobOK

\* So do the blocks in a worker's hands, while the worker keeps them.
LEMMA HandKept ==
    ASSUME TypeOK, TypeOK', StoreGrows, NEW c \in Consumer, HandOK(c),
           pc'[c] = pc[c], blocks'[c] = blocks[c], Msg(c)' = Msg(c),
           sent'[Msg(c).w] = sent[Msg(c).w]
    PROVE  HandOK(c)'
<1> SUFFICES ASSUME pc[c] \in {"post", "ack"} PROVE HandOK(c)'
  BY DEF HandOK
<1>1. stored \subseteq Nat /\ stored' \subseteq Nat /\ blocks[c] \subseteq stored
  BY StoredNat, ConstantsAssumption DEF TypeOK, HandOK
<1>2. blocks[c] \subseteq stored'
  BY <1>1 DEF StoreGrows
<1>3. ASSUME NEW h \in stored', NEW b \in blocks[c], h <= b PROVE h \in stored
  <2>1. h \in Nat /\ b \in Nat /\ b \in stored
    BY <1>1
  <2>2. h \notin stored => b < h
    BY <2>1 DEF StoreGrows
  <2> QED
    BY <1>3, <2>1, <2>2
<1>6. PICK j : j = Msg(c) /\ j = Msg(c)'
  OBVIOUS
<1>4. /\ ~j.new => /\ \A b \in blocks[c] : j.h <= b
                   /\ Whole(j.w) => \A h \in stored : \A b \in blocks[c] :
                         j.h <= h /\ h <= b => h \in blocks[c]
      /\ pc[c] = "ack" /\ j.new => blocks[c] = sent[j.w]
      /\ pc[c] = "ack" => blocks[c] \subseteq sent[j.w]
  BY <1>6 DEF HandOK
<1>7. Whole(j.w)' => Whole(j.w)
  BY WholeBefore
<1>5. ~j.new /\ Whole(j.w)' => \A h \in stored' : \A b \in blocks[c] :
                   j.h <= h /\ h <= b => h \in blocks[c]
  BY <1>3, <1>4, <1>7
<1>8. sent'[j.w] = sent[j.w]
  BY <1>6
<1> QED
  BY <1>2, <1>4, <1>5, <1>6, <1>8 DEF HandOK

\* What is left to show of a step that sends nothing: its new jobs, and the
\* workers whose hands it changes.
LEMMA FeedKept ==
    ASSUME FeedInv, IInv', HeightsOK', StoreGrows, sent' = sent,
           \A w \in Webhook : skipped[w] \subseteq skipped'[w],
           \A j \in AllJobs' : j \in AllJobs \/ JobOK(j)',
           \A j \in OnTheWay' : j \in OnTheWay \/ InReach(j)',
           \A c \in Consumer :
              \/ pc'[c] \notin {"post", "ack"}
              \/ pc'[c] = pc[c] /\ blocks'[c] = blocks[c] /\ Msg(c)' = Msg(c)
              \/ HandOK(c)'
    PROVE  FeedInv'
<1>1. TypeOK /\ TypeOK'
  BY DEF FeedInv, IInv
<1>2. ASSUME NEW j \in AllJobs' PROVE JobOK(j)'
  <2>1. CASE j \in AllJobs
    <3>1. j \in Job /\ j.w \in Webhook
      BY <1>1, <2>1, JobsTyped DEF Job
    <3>2. JobOK(j)
      BY <2>1 DEF FeedInv
    <3> QED
      BY <1>1, <3>1, <3>2, JobKept
  <2> QED
    BY <2>1
<1>3. ASSUME NEW j \in OnTheWay' PROVE InReach(j)'
  <2>1. CASE j \in OnTheWay
    <3>1. InReach(j)
      BY <2>1 DEF FeedInv
    <3> QED
      BY <3>1 DEF InReach, StoreGrows
  <2> QED
    BY <2>1
<1>4. ASSUME NEW c \in Consumer PROVE HandOK(c)'
  <2>1. CASE pc'[c] \notin {"post", "ack"}
    BY <2>1 DEF HandOK
  <2>2. CASE pc'[c] = pc[c] /\ blocks'[c] = blocks[c] /\ Msg(c)' = Msg(c)
    BY <1>1, <2>2, HandKept DEF FeedInv
  <2> QED
    BY <2>1, <2>2
<1> QED
  BY <1>2, <1>3, <1>4 DEF FeedInv

\* A step that leaves the store and the shard's heights as they are.
LEMMA StoreStays ==
    ASSUME FeedInv, UNCHANGED <<latest, router>>
    PROVE  StoreGrows /\ HeightsOK'
BY DEF FeedInv, StoreGrows, HeightsOK, router

-----------------------------------------------------------------------------
(* The API and the router. *)

\* Workers and their entries are as before.
LEMMA WorkersStay ==
    ASSUME UNCHANGED <<pel, pc, pos, blocks>>
    PROVE  /\ \A c \in Consumer : PelJobs(c)' = PelJobs(c)
           /\ \A c \in Consumer :
                 pc'[c] = pc[c] /\ blocks'[c] = blocks[c] /\ Msg(c)' = Msg(c)
BY DEF PelJobs, Msg

\* The API only adds new jobs, which promise nothing yet.
LEMMA ApiFeed ==
    ASSUME FeedInv, IInv', NEW w \in Webhook,
           ActivateSelect(w) \/ ActivateScript(w) \/ RemoveWebhook(w)
    PROVE  FeedInv'
<1>1. /\ UNCHANGED <<latest, router, sent, skipped, stream, pel, pc, pos, blocks>>
      /\ pending' \subseteq pending \cup {[w |-> w, h |-> 0, new |-> TRUE]}
  BY DEF ActivateSelect, ActivateScript, RemoveWebhook, redis, worker, ghost
<1>2. OnTheWay' = OnTheWay
  BY <1>1, WorkersStay DEF OnTheWay, StreamJobs
<1>3. \A j \in AllJobs' : j \in AllJobs \/ JobOK(j)'
  BY <1>1, <1>2, JobsParted DEF JobOK
<1> QED
  BY <1>1, <1>2, <1>3, StoreStays, WorkersStay, FeedKept

\* A new batch is above all that is stored.
LEMMA PutGrows == ASSUME TypeOK, RouterPut PROVE StoreGrows /\ flushing' \in stored'
<1>1. PICK k \in 1 .. BatchSize, g \in 0 .. MaxGap :
          /\ stored' = stored \cup (Tip + g + 1 .. Tip + g + k)
          /\ flushing' = Tip + g + k
  BY DEF RouterPut
<1>2. Tip \in Nat /\ k \in Nat \ {0} /\ g \in Nat
  BY TipType, ConstantsAssumption
<1>3. ASSUME NEW x \in stored PROVE x <= Tip /\ x \in Nat
  <2>1. stored \in SUBSET (1 .. MaxHeight) /\ MaxHeight \in Nat /\ stored # {}
    BY <1>2, <1>3, ConstantsAssumption DEF TypeOK
  <2>2. \A y \in stored : y <= Max(stored)
    BY <2>1, MaxOfHeights
  <2> QED
    BY <2>1, <2>2 DEF Tip
<1>4. StoreGrows
  BY <1>1, <1>2, <1>3 DEF StoreGrows, RouterPut
<1>5. flushing' \in stored'
  BY <1>1, <1>2
<1> QED
  BY <1>4, <1>5

LEMMA RouterPutFeed == ASSUME FeedInv, IInv', RouterPut PROVE FeedInv'
<1>1. StoreGrows /\ flushing' \in stored'
  BY PutGrows DEF FeedInv, IInv
<1>2. UNCHANGED <<latest, pending, stream, sent, skipped, pel, pc, pos, blocks>>
  BY DEF RouterPut, redis, worker, ghost
<1>3. HeightsOK'
  BY <1>1, <1>2 DEF FeedInv, HeightsOK, StoreGrows
<1>4. OnTheWay' = OnTheWay /\ AllJobs' = AllJobs
  BY <1>2, WorkersStay, JobsParted DEF OnTheWay, StreamJobs
<1> QED
  BY <1>1, <1>2, <1>3, <1>4, WorkersStay, FeedKept

\* Repeating a batch and acknowledging one change no job.
LEMMA RouterQuietFeed ==
    ASSUME FeedInv, IInv', RouterReplay \/ RouterAck
    PROVE  FeedInv'
<1>1. /\ UNCHANGED <<latest, pending, stream, stored, sent, skipped, pel, pc, pos, blocks>>
      /\ flushing' \in stored \cup {0} /\ (repeated => repeated')
  BY DEF RouterReplay, RouterAck, redis, worker, ghost
<1>2. StoreGrows /\ HeightsOK'
  BY <1>1 DEF FeedInv, HeightsOK, StoreGrows
<1>3. OnTheWay' = OnTheWay /\ AllJobs' = AllJobs
  BY <1>1, WorkersStay, JobsParted DEF OnTheWay, StreamJobs
<1> QED
  BY <1>1, <1>2, <1>3, WorkersStay, FeedKept

\* A set's pop orders list its elements.
LEMMA ElemsOfPopOrder ==
    ASSUME NEW S \in SUBSET Job, NEW s \in PopOrders(S), IsFiniteSet(S)
    PROVE  s \in Seq(Job) /\ \A i \in 1 .. Len(s) : s[i] \in S
<1>1. Cardinality(S) \in Nat
  BY FS_CardinalityType
<1>2. s \in [1 .. Cardinality(S) -> S]
  BY DEF PopOrders, Bijection, Injection, Surjection
<1>3. s \in Seq(Job) /\ Len(s) = Cardinality(S)
  BY <1>1, <1>2
<1> QED
  BY <1>2, <1>3

\* Each job of two streams one after the other is a job of one of them.
LEMMA ElemOfConcat ==
    ASSUME NEW s \in Seq(Job), NEW t \in Seq(Job), NEW i \in 1 .. Len(s \o t)
    PROVE  \/ \E k \in 1 .. Len(s) : (s \o t)[i] = s[k]
           \/ \E k \in 1 .. Len(t) : (s \o t)[i] = t[k]
<1>1. /\ Len(s) \in Nat /\ Len(t) \in Nat /\ Len(s \o t) = Len(s) + Len(t)
      /\ \A k \in 1 .. Len(s) : (s \o t)[k] = s[k]
      /\ \A k \in 1 .. Len(t) : (s \o t)[Len(s) + k] = t[k]
  BY ConcatProperties
<1>2. CASE i \in 1 .. Len(s)
  BY <1>1, <1>2
<1>3. CASE i \notin 1 .. Len(s)
  <2>1. i - Len(s) \in 1 .. Len(t) /\ i = Len(s) + (i - Len(s))
    BY <1>1, <1>3
  <2> QED
    BY <1>1, <2>1
<1> QED
  BY <1>2, <1>3

\* A flush moves jobs from the pending set to the stream.
LEMMA FlushMoves ==
    ASSUME TypeOK, RouterFlush
    PROVE  LET ready == { j \in pending : j.h < flushing }
           IN  OnTheWay' \subseteq OnTheWay \cup ready /\ AllJobs' \subseteq AllJobs
<1> DEFINE ready == { j \in pending : j.h < flushing }
<1>1. pending' = pending \ ready /\ UNCHANGED <<pel, pc, pos, blocks>>
  BY DEF RouterFlush, Flush, worker
<1>2. PICK s \in PopOrders(ready) : stream' = stream \o s
  BY DEF RouterFlush, Flush
<1>3. ready \in SUBSET Job /\ IsFiniteSet(ready) /\ stream \in Seq(Job)
  BY FS_Subset DEF TypeOK
<1>4. s \in Seq(Job) /\ \A i \in 1 .. Len(s) : s[i] \in ready
  BY <1>3, ElemsOfPopOrder
<1>5. StreamJobs' \subseteq StreamJobs \cup ready
  BY <1>2, <1>3, <1>4, ElemOfConcat DEF StreamJobs
<1>6. OnTheWay' \subseteq OnTheWay \cup ready
  BY <1>1, <1>5, WorkersStay DEF OnTheWay
<1>7. AllJobs' \subseteq AllJobs
  BY <1>1, <1>6, JobsParted
<1> QED
  BY <1>6, <1>7

\* The flushed jobs are below a stored height.
LEMMA RouterFlushFeed == ASSUME FeedInv, IInv', RouterFlush PROVE FeedInv'
<1> DEFINE ready == { j \in pending : j.h < flushing }
<1>1. /\ latest' = flushing /\ flushing > 0
      /\ UNCHANGED <<stored, flushing, repeated, sent, skipped, pel, pc, pos, blocks>>
  BY DEF RouterFlush, Flush, router, worker, ghost
<1>2. OnTheWay' \subseteq OnTheWay \cup ready /\ AllJobs' \subseteq AllJobs
  BY FlushMoves DEF FeedInv, IInv
<1>3. ready \in SUBSET Job
  BY DEF FeedInv, IInv, TypeOK
<1>4. flushing \in stored /\ flushing \in Nat
  BY <1>1 DEF FeedInv, HeightsOK, IInv, TypeOK
<1>5. StoreGrows /\ HeightsOK'
  BY <1>1, <1>4 DEF StoreGrows, HeightsOK
<1>6. ASSUME NEW j \in ready PROVE InReach(j)'
  <2>1. j.h \in Nat /\ j.h < flushing
    BY <1>3 DEF Job
  <2>2. flushing \in stored' /\ j.h <= flushing
    BY <1>1, <1>4, <2>1
  <2> QED
    BY <2>2 DEF InReach
<1> QED
  BY <1>1, <1>2, <1>5, <1>6, WorkersStay, FeedKept

-----------------------------------------------------------------------------
(* Workers: reading, and everything that sends nothing. *)

\* Rewriting a worker's only entry but not the entry's job.
LEMMA EntryKeepsJob ==
    ASSUME TypeOK, NEW c \in Consumer, NEW e \in Entry,
           Len(pel[c]) = 1, e.job = pel[c][1].job,
           pel' = [pel EXCEPT ![c] = [pel[c] EXCEPT ![1] = e]]
    PROVE  /\ pel'[c][1].job = pel[c][1].job
           /\ \A d \in Consumer : d # c => pel'[d] = pel[d]
           /\ \A d \in Consumer : PelJobs(d)' = PelJobs(d)
<1> DEFINE s == [pel[c] EXCEPT ![1] = e]
<1>1. pel \in [Consumer -> Seq(Entry)] /\ pel[c] \in Seq(Entry)
  BY DEF TypeOK
<1>2. s \in Seq(Entry) /\ Len(s) = 1 /\ s[1] = e
  BY <1>1, OnlyEntry
<1> HIDE DEF s
<1>3. pel'[c] = s /\ \A d \in Consumer : d # c => pel'[d] = pel[d]
  BY <1>1 DEF s
<1>4. PelJobs(c)' = PelJobs(c)
  BY <1>2, <1>3 DEF PelJobs
<1>5. \A d \in Consumer : d # c => PelJobs(d)' = PelJobs(d)
  BY <1>3 DEF PelJobs
<1> QED
  BY <1>2, <1>3, <1>4, <1>5

\* A call of the URL leaves the jobs where they are.
LEMMA TriedJobs ==
    ASSUME IInv, NEW c \in Consumer, pc[c] = "post", Tried(c), UNCHANGED <<pending, stream>>
    PROVE  /\ pos[c] = 1 /\ pel'[c][1].job = pel[c][1].job
           /\ \A d \in Consumer : d # c => pel'[d] = pel[d]
           /\ OnTheWay' = OnTheWay /\ AllJobs' = AllJobs
<1> DEFINE e == [pel[c][1] EXCEPT !.tries = @ + 1]
<1>1. pos[c] = 1 /\ Len(pel[c]) = 1 /\ pel[c][1] \in Entry /\ TypeOK
  BY Holding DEF Busy, IInv
<1>2. e \in Entry /\ e.job = pel[c][1].job
  BY <1>1 DEF Entry
<1>3. pel' = [pel EXCEPT ![c] = [pel[c] EXCEPT ![1] = e]]
  BY <1>1 DEF Tried
<1> HIDE DEF e
<1>4. /\ pel'[c][1].job = pel[c][1].job
      /\ \A d \in Consumer : d # c => pel'[d] = pel[d]
      /\ \A d \in Consumer : PelJobs(d)' = PelJobs(d)
  BY <1>1, <1>2, <1>3, EntryKeepsJob
<1>5. OnTheWay' = OnTheWay /\ AllJobs' = AllJobs
  BY <1>4, JobsParted DEF OnTheWay, StreamJobs
<1> QED
  BY <1>1, <1>4, <1>5

\* A second delivery leaves the jobs where they are.
LEMMA RedeliverFeed ==
    ASSUME FeedInv, NEW c \in Consumer, Redeliver(c)
    PROVE  /\ OnTheWay' = OnTheWay /\ AllJobs' = AllJobs
           /\ \A d \in Consumer : d # c => pel'[d] = pel[d]
<1>1. /\ pos[c] = 0 /\ Len(pel[c]) = 1 /\ TypeOK
  BY RedeliverOK DEF FeedInv, IInv
<1>2. pel[c] \in Seq(Entry)
  BY <1>1 DEF TypeOK
<1>3. pel[c][1] \in Entry
  BY <1>1, <1>2
<1> DEFINE e == [pel[c][1] EXCEPT !.n = @ + 1]
<1>4. e \in Entry /\ e.job = pel[c][1].job
  BY <1>3 DEF Entry
<1>5. pel' = [pel EXCEPT ![c] = [pel[c] EXCEPT ![1] = e]]
  BY <1>1 DEF Redeliver
<1> HIDE DEF e
<1>6. /\ \A d \in Consumer : d # c => pel'[d] = pel[d]
      /\ \A d \in Consumer : PelJobs(d)' = PelJobs(d)
  BY <1>1, <1>4, <1>5, EntryKeepsJob
<1>7. UNCHANGED <<pending, stream>>
  BY DEF Redeliver
<1> QED
  BY <1>6, <1>7, JobsParted DEF OnTheWay, StreamJobs

\* A first delivery moves a job from the stream to a worker.
LEMMA DeliverFeed ==
    ASSUME FeedInv, NEW c \in Consumer, Deliver(c)
    PROVE  /\ OnTheWay' \subseteq OnTheWay /\ AllJobs' \subseteq AllJobs
           /\ \A d \in Consumer : d # c => pel'[d] = pel[d]
<1>1. /\ \A d \in Consumer : d # c => pel'[d] = pel[d]
      /\ Len(pel[c]) = 0 /\ Len(pel'[c]) = 1
  BY DeliverOK DEF FeedInv
<1> DEFINE e == [job |-> Head(stream), n |-> 1, tries |-> 0]
<1>2. /\ stream \in Seq(Job) /\ stream # <<>> /\ stream' = Tail(stream)
      /\ pel \in [Consumer -> Seq(Entry)] /\ UNCHANGED pending
      /\ pel' = [pel EXCEPT ![c] = Append(pel[c], e)]
  BY DEF FeedInv, IInv, TypeOK, Deliver
<1>3. e \in Entry /\ e.job = Head(stream)
  BY <1>2 DEF Entry
<1> HIDE DEF e
<1>4. pel'[c][1] = e
  BY <1>1, <1>2, <1>3
<1>5. PelJobs(c)' \subseteq {Head(stream)}
  BY <1>1, <1>3, <1>4 DEF PelJobs
<1>6. Head(stream) \in StreamJobs /\ StreamJobs' \subseteq StreamJobs
  <2>1. /\ Len(stream) \in Nat \ {0} /\ Head(stream) = stream[1]
        /\ Len(Tail(stream)) = Len(stream) - 1
        /\ \A i \in 1 .. Len(Tail(stream)) : Tail(stream)[i] = stream[i + 1]
    BY <1>2
  <2>2. \A i \in 1 .. Len(stream') : i + 1 \in 1 .. Len(stream) /\ stream'[i] = stream[i + 1]
    BY <1>2, <2>1
  <2> QED
    BY <2>1, <2>2 DEF StreamJobs
<1>7. \A d \in Consumer : d # c => PelJobs(d)' = PelJobs(d)
  BY <1>1 DEF PelJobs
<1>8. OnTheWay' \subseteq OnTheWay
  BY <1>5, <1>6, <1>7 DEF OnTheWay
<1> QED
  BY <1>1, <1>2, <1>8, JobsParted

\* Reading moves jobs from the stream to a worker, or not at all.
LEMMA ReadFeed ==
    ASSUME FeedInv, IInv', NEW c \in Consumer,
           BacklogRead(c) \/ NewRead(c) \/ ReadError(c)
    PROVE  FeedInv'
<1>1. /\ UNCHANGED <<latest, router, sent, skipped, blocks>>
      /\ UNCHANGED redis \/ Redeliver(c) \/ Deliver(c)
  BY DEF BacklogRead, NewRead, ReadError, Redeliver, Deliver, redis, ghost
<1>2. /\ pc'[c] \notin {"post", "ack"}
      /\ \A d \in Consumer : d # c => pc'[d] = pc[d] /\ pos'[d] = pos[d]
  BY DEF BacklogRead, NewRead, ReadError, FeedInv, IInv, TypeOK
<1>3. /\ OnTheWay' \subseteq OnTheWay /\ AllJobs' \subseteq AllJobs
      /\ \A d \in Consumer : d # c => pel'[d] = pel[d]
  <2>1. CASE UNCHANGED redis
    BY <2>1 DEF redis, OnTheWay, StreamJobs, PelJobs, AllJobs
  <2> QED
    BY <1>1, <2>1, RedeliverFeed, DeliverFeed
<1>4. \A d \in Consumer : d # c => Msg(d)' = Msg(d)
  BY <1>2, <1>3 DEF Msg
<1> QED
  BY <1>1, <1>2, <1>3, <1>4, StoreStays, FeedKept

\* A step of a worker, or the death of its process, that changes neither the
\* jobs nor what other workers hold.
LEMMA QuietFeed ==
    ASSUME FeedInv, IInv', UNCHANGED <<redis, router, ghost>>,
           \A c \in Consumer :
              \/ pc'[c] \notin {"post", "ack"}
              \/ pc'[c] = pc[c] /\ pos'[c] = pos[c] /\ blocks'[c] = blocks[c]
    PROVE  FeedInv'
<1>1. /\ UNCHANGED <<latest, router, sent, skipped, pel>>
      /\ OnTheWay' = OnTheWay /\ AllJobs' = AllJobs
  BY DEF redis, ghost, OnTheWay, StreamJobs, PelJobs, AllJobs
<1>2. \A c \in Consumer : pos'[c] = pos[c] => Msg(c)' = Msg(c)
  BY <1>1 DEF Msg
<1> QED
  BY <1>1, <1>2, StoreStays, FeedKept

\* Calls that only look something up, or fail.
LEMMA QuietWorkerFeed ==
    ASSUME FeedInv, IInv', NEW c \in Consumer,
           BacklogEnd(c) \/ FindOne(c) \/ CallError(c)
    PROVE  FeedInv'
<1>1. UNCHANGED <<redis, router, ghost>>
  BY DEF BacklogEnd, FindOne, CallError
<1>2. pc'[c] \notin {"post", "ack"}
  BY DEF BacklogEnd, FindOne, CallError, HandlerReturns, FeedInv, IInv, TypeOK
<1>3. \A d \in Consumer : d # c =>
          pc'[d] = pc[d] /\ pos'[d] = pos[d] /\ blocks'[d] = blocks[d]
  BY DEF BacklogEnd, FindOne, CallError, HandlerReturns, FeedInv, IInv, TypeOK
<1> QED
  BY <1>1, <1>2, <1>3, QuietFeed

\* A process that dies or ends forgets what it fetched; its jobs stay.
LEMMA DeathFeed ==
    ASSUME FeedInv, IInv',
           \/ \E c \in Consumer : Panic(c)
           \/ \E p \in Process : Crash(p) \/ Exit(p)
    PROVE  FeedInv'
<1>1. PICK p : Restart(p) /\ UNCHANGED <<redis, router, ghost>>
  BY DEF Panic, Crash, Exit
<1>2. \A c \in Consumer :
         \/ pc'[c] = "backlog"
         \/ pc'[c] = pc[c] /\ pos'[c] = pos[c] /\ blocks'[c] = blocks[c]
  BY <1>1 DEF Restart
<1> QED
  BY <1>1, <1>2, QuietFeed

\* The blocks fetched for a job are stored, and all of its range that are.
LEMMA FetchFeed == ASSUME FeedInv, IInv', NEW c \in Consumer, FetchBlocks(c) PROVE FeedInv'
<1>0. PICK j, B : j = Msg(c) /\ B \in Answers(j) /\ blocks' = [blocks EXCEPT ![c] = B]
  BY DEF FetchBlocks
<1>1. /\ UNCHANGED <<latest, router, sent, skipped, pel, pos>> /\ UNCHANGED redis
      /\ pc'[c] = "post" /\ blocks'[c] = B
      /\ \A d \in Consumer : d # c => pc'[d] = pc[d] /\ blocks'[d] = blocks[d]
  BY <1>0 DEF FetchBlocks, FeedInv, IInv, TypeOK, redis, ghost
<1>2. \A d \in Consumer : Msg(d)' = Msg(d)
  BY <1>1 DEF Msg
<1>3. j \in Job /\ TypeOK /\ stored' = stored /\ repeated' = repeated
  BY <1>0, <1>1, Holding DEF FetchBlocks, Busy, FeedInv, IInv, router
<1>5. B \subseteq stored /\ (~j.new => \A b \in B : j.h <= b)
  BY <1>0, <1>3, AnswerStored
<1>6. ASSUME ~j.new, Whole(j.w), NEW h \in stored, NEW b \in B, j.h <= h, h <= b
      PROVE  h \in B
  BY <1>0, <1>3, <1>6, AnswerWhole
<1>7. HandOK(c)'
  <2>1. Msg(c)' = j
    BY <1>0, <1>2
  <2>2. Whole(j.w)' => Whole(j.w)
    BY <1>3 DEF Whole
  <2> QED
    BY <1>1, <1>3, <1>5, <1>6, <2>1, <2>2 DEF HandOK
<1>8. OnTheWay' = OnTheWay /\ AllJobs' = AllJobs
  BY <1>1 DEF redis, OnTheWay, StreamJobs, PelJobs, AllJobs
<1> QED
  BY <1>1, <1>2, <1>7, <1>8, StoreStays, FeedKept

-----------------------------------------------------------------------------
(* Workers: sending, dropping and replacing. *)

\* The job in a worker's hands is on its way, and the only one of its webhook.
LEMMA OnlyJob ==
    ASSUME IInv, NEW c \in Consumer, pc[c] \in Busy
    PROVE  /\ Msg(c) \in OnTheWay /\ Msg(c) \in AllJobs
           /\ \A k \in AllJobs : k.w = Msg(c).w => k = Msg(c)
           /\ \A d \in Consumer : d # c /\ pc[d] \in Busy => Msg(d).w # Msg(c).w
<1>1. /\ Len(pel[c]) = 1 /\ Msg(c) = pel[c][1].job /\ PelIds(c) = {Msg(c).w}
  BY Holding
<1>2. PelJobs(c) = {Msg(c)}
  BY <1>1 DEF PelJobs
<1>3. /\ Msg(c).w \notin PendingIds /\ Msg(c).w \notin Ids(stream)
      /\ \A d \in Consumer : d # c => Msg(c).w \notin PelIds(d)
  BY <1>1 DEF IInv, OneJobPerWebhook
<1>4. ASSUME NEW k \in AllJobs, k.w = Msg(c).w PROVE k = Msg(c)
  <2>1. k \notin pending
    BY <1>3, <1>4 DEF PendingIds
  <2>2. k \notin StreamJobs
    BY <1>3, <1>4 DEF StreamJobs, Ids
  <2>3. \A d \in Consumer : d # c => k \notin PelJobs(d)
    BY <1>3, <1>4 DEF PelJobs, PelIds
  <2> QED
    BY <1>2, <1>4, <2>1, <2>2, <2>3, JobsParted DEF OnTheWay
<1>5. Msg(c) \in OnTheWay /\ Msg(c) \in AllJobs
  BY <1>2, JobsParted DEF OnTheWay
<1>6. ASSUME NEW d \in Consumer, d # c, pc[d] \in Busy PROVE Msg(d).w # Msg(c).w
  BY <1>3, <1>6, Holding
<1> QED
  BY <1>4, <1>5, <1>6

\* Heights above a set's smallest one do not change it.
LEMMA MinOfMore ==
    ASSUME NEW S \in SUBSET Nat, NEW T \in SUBSET Nat, S # {},
           \A t \in T : Min(S) <= t
    PROVE  Min(S \cup T) = Min(S)
<1>1. Min(S) \in S /\ \A x \in S : Min(S) <= x
  BY MinOfNats
<1>2. Min(S \cup T) \in S \cup T /\ \A x \in S \cup T : Min(S \cup T) <= x
  BY MinOfNats
<1>3. Min(S \cup T) <= Min(S) /\ Min(S) <= Min(S \cup T)
  BY <1>1, <1>2
<1>4. Min(S \cup T) \in Nat /\ Min(S) \in Nat
  BY <1>1, <1>2
<1> QED
  BY <1>3, <1>4

\* The customer's URL accepted the blocks: they join the feed, or begin it.
LEMMA PostOkFeed == ASSUME FeedInv, IInv', NEW c \in Consumer, PostOk(c) PROVE FeedInv'
<1> DEFINE e == [pel[c][1] EXCEPT !.tries = @ + 1]
<1>0. PICK j \in Job, w \in Webhook : j = Msg(c) /\ w = j.w
  BY Holding DEF PostOk, Busy, FeedInv, Job
<1>1. /\ pc[c] = "post" /\ pos[c] = 1 /\ Len(pel[c]) = 1 /\ pel[c][1] \in Entry
      /\ j.h \in Nat /\ TypeOK /\ TypeOK'
  BY Holding DEF PostOk, Busy, FeedInv, IInv, Job
<1>2. /\ UNCHANGED <<latest, router, skipped, pending, stream, pos, blocks>>
      /\ pc'[c] = "ack" /\ \A d \in Consumer : d # c => pc'[d] = pc[d]
      /\ sent'[w] = IF j.new THEN blocks[c] ELSE sent[w] \cup blocks[c]
      /\ \A v \in Webhook : v # w => sent'[v] = sent[v]
  BY <1>0, <1>1 DEF PostOk, TypeOK
<1>3. e \in Entry /\ e.job = pel[c][1].job
  BY <1>1 DEF Entry
<1>4. pel' = [pel EXCEPT ![c] = [pel[c] EXCEPT ![1] = e]]
  BY <1>1 DEF PostOk, Tried
<1> HIDE DEF e
<1>5. /\ pel'[c][1].job = pel[c][1].job
      /\ \A d \in Consumer : d # c => pel'[d] = pel[d]
      /\ \A d \in Consumer : PelJobs(d)' = PelJobs(d)
  BY <1>1, <1>3, <1>4, EntryKeepsJob
<1>6. OnTheWay' = OnTheWay /\ AllJobs' = AllJobs
  BY <1>2, <1>5, JobsParted DEF OnTheWay, StreamJobs
<1>7. \A d \in Consumer : Msg(d)' = Msg(d)
  BY <1>1, <1>2, <1>5 DEF Msg
<1>8. StoreGrows /\ HeightsOK' /\ stored' = stored
  BY <1>2, StoreStays DEF router
<1>9. /\ j \in AllJobs /\ \A k \in AllJobs : k.w = w => k = j
      /\ \A d \in Consumer : d # c /\ pc[d] \in Busy => Msg(d).w # w
  BY <1>0, <1>1, OnlyJob DEF Busy, FeedInv
<1>10. /\ blocks[c] \subseteq stored /\ blocks[c] \subseteq Nat
       /\ ~j.new => \A b \in blocks[c] : j.h <= b
       /\ ~j.new /\ Whole(j.w) => \A h \in stored : \A b \in blocks[c] :
                       j.h <= h /\ h <= b => h \in blocks[c]
       /\ Whole(j.w)' => Whole(j.w)
  BY <1>0, <1>1, <1>8, StoredNat, WholeBefore DEF HandOK, FeedInv
<1>11. JobOK(j)'
  <2> SUFFICES ASSUME ~j.new PROVE JobOK(j)'
    BY DEF JobOK
  <2>1. /\ sent[w] # {} /\ Min(sent[w]) <= j.h /\ 0 < j.h
        /\ \E g \in stored : j.h <= g + 1
        /\ Whole(w) => \A h \in stored :
              Min(sent[w]) <= h /\ h < j.h => h \in sent[w] \cup skipped[w]
    BY <1>9, <1>0 DEF JobOK, FeedInv
  <2>2. sent[w] \subseteq Nat
    BY <1>1, <1>0 DEF TypeOK
  <2>3. Min(sent[w]) \in Nat
    BY <2>1, <2>2, MinOfNats
  <2>4. \A b \in blocks[c] : Min(sent[w]) <= b
    BY <1>1, <1>10, <2>1, <2>3
  <2>5. sent'[w] = sent[w] \cup blocks[c] /\ Min(sent'[w]) = Min(sent[w])
    BY <1>2, <1>10, <2>1, <2>2, <2>4, MinOfMore
  <2> QED
    BY <1>2, <1>8, <1>10, <1>0, <2>1, <2>5 DEF JobOK
<1>12. ASSUME NEW k \in AllJobs' PROVE JobOK(k)'
  <2>1. k \in AllJobs /\ k \in Job /\ k.w \in Webhook /\ JobOK(k)
    BY <1>1, <1>6, <1>12, JobsTyped DEF FeedInv, Job
  <2>2. CASE k.w = w
    BY <1>9, <1>11, <2>1, <2>2
  <2>3. CASE k.w # w
    BY <1>1, <1>2, <1>8, <2>1, <2>3, JobKept
  <2> QED
    BY <2>2, <2>3
<1>13. ASSUME NEW k \in OnTheWay' PROVE InReach(k)'
  BY <1>6, <1>8, <1>13 DEF FeedInv, InReach
<1>14. HandOK(c)'
  <2>1. Msg(c)' = j
    BY <1>0, <1>7
  <2> QED
    BY <1>2, <1>8, <1>10, <1>0, <2>1 DEF HandOK
<1>15. ASSUME NEW d \in Consumer, d # c PROVE HandOK(d)'
  <2>1. CASE pc[d] \notin {"post", "ack"}
    BY <1>2, <1>15, <2>1 DEF HandOK
  <2>2. CASE pc[d] \in {"post", "ack"}
    <3>1. Msg(d).w # w /\ Msg(d).w \in Webhook
      BY <1>9, <1>15, <2>2, Holding DEF Busy, FeedInv, Job
    <3>2. /\ HandOK(d) /\ pc'[d] = pc[d] /\ blocks'[d] = blocks[d]
          /\ Msg(d)' = Msg(d) /\ sent'[Msg(d).w] = sent[Msg(d).w]
      BY <1>2, <1>7, <1>15, <3>1 DEF FeedInv
    <3> QED
      BY <1>1, <1>8, <3>2, HandKept
  <2> QED
    BY <2>1, <2>2
<1> QED
  BY <1>8, <1>12, <1>13, <1>14, <1>15 DEF FeedInv

\* A failed POST request counts a try and keeps the job.
LEMMA PostErrorFeed ==
    ASSUME FeedInv, IInv', NEW c \in Consumer, PostError(c)
    PROVE  FeedInv'
<1> DEFINE e == [pel[c][1] EXCEPT !.tries = @ + 1]
<1>1. pos[c] = 1 /\ pos[c] # 0 /\ Len(pel[c]) = 1 /\ pel[c][1] \in Entry /\ TypeOK
  BY Holding DEF PostError, Busy, FeedInv, IInv
<1>2. e \in Entry /\ e.job = pel[c][1].job
  BY <1>1 DEF Entry
<1>3. pel' = [pel EXCEPT ![c] = [pel[c] EXCEPT ![1] = e]]
  BY <1>1 DEF PostError, Tried
<1> HIDE DEF e
<1>4. /\ \A d \in Consumer : d # c => pel'[d] = pel[d]
      /\ \A d \in Consumer : PelJobs(d)' = PelJobs(d)
  BY <1>1, <1>2, <1>3, EntryKeepsJob
<1>5. /\ UNCHANGED <<latest, router, sent, skipped, pending, stream>>
      /\ HandlerReturns(c, TRUE)
  BY DEF PostError, ghost
<1>6. /\ pc'[c] = "backlog"
      /\ \A d \in Consumer : d # c =>
            pc'[d] = pc[d] /\ pos'[d] = pos[d] /\ blocks'[d] = blocks[d]
  BY <1>1, <1>5, ReturnOK
<1>7. \A d \in Consumer : d # c => Msg(d)' = Msg(d)
  BY <1>4, <1>6 DEF Msg
<1>8. OnTheWay' = OnTheWay /\ AllJobs' = AllJobs
  BY <1>4, <1>5, JobsParted DEF OnTheWay, StreamJobs
<1> QED
  BY <1>5, <1>6, <1>7, <1>8, StoreStays, FeedKept

\* An acknowledged job is gone, and other workers have not noticed.
LEMMA AckedFeed ==
    ASSUME FeedInv, NEW c \in Consumer, pc[c] \in Busy, Acked(c), HandlerReturns(c, FALSE)
    PROVE  /\ \A d \in Consumer : PelJobs(d)' \subseteq PelJobs(d)
           /\ pc'[c] = "backlog"
           /\ \A d \in Consumer : d # c =>
                 pc'[d] = pc[d] /\ blocks'[d] = blocks[d] /\ Msg(d)' = Msg(d)
<1>1. pel'[c] = <<>> /\ \A d \in Consumer : d # c => pel'[d] = pel[d]
  BY AckedJob DEF FeedInv
<1>2. PelJobs(c)' = {}
  <2>1. 1 .. Len(pel'[c]) = {}
    BY <1>1
  <2> QED
    BY <2>1 DEF PelJobs
<1>3. \A d \in Consumer : d # c => PelJobs(d)' = PelJobs(d)
  BY <1>1 DEF PelJobs
<1>4. /\ pc'[c] = "backlog"
      /\ \A d \in Consumer : d # c =>
            pc'[d] = pc[d] /\ pos'[d] = pos[d] /\ blocks'[d] = blocks[d]
  BY Holding, ReturnOK DEF FeedInv, IInv
<1>5. \A d \in Consumer : d # c => Msg(d)' = Msg(d)
  BY <1>1, <1>4 DEF Msg
<1> QED
  BY <1>2, <1>3, <1>4, <1>5

\* A dropped job takes its promise along.
LEMMA DropFeed == ASSUME FeedInv, IInv', NEW c \in Consumer, Drop(c) PROVE FeedInv'
<1>1. /\ UNCHANGED <<latest, router, sent, skipped, pending, stream>>
      /\ pc[c] \in Busy /\ Acked(c) /\ HandlerReturns(c, FALSE)
  BY DEF Drop, ghost, Busy
<1>2. /\ \A d \in Consumer : PelJobs(d)' \subseteq PelJobs(d)
      /\ pc'[c] = "backlog"
      /\ \A d \in Consumer : d # c =>
            pc'[d] = pc[d] /\ blocks'[d] = blocks[d] /\ Msg(d)' = Msg(d)
  BY <1>1, AckedFeed
<1>3. OnTheWay' \subseteq OnTheWay /\ AllJobs' \subseteq AllJobs
  BY <1>1, <1>2, JobsParted DEF OnTheWay, StreamJobs
<1> QED
  BY <1>1, <1>2, <1>3, StoreStays, FeedKept

\* The successor begins where what was sent or given up ends.
LEMMA SuccessorOK ==
    ASSUME FeedInv, IInv', NEW c \in Consumer, Replace(c),
           NEW k \in Job, k = Successor(c)
    PROVE  JobOK(k)'
<1>0. PICK j \in Job, w \in Webhook : j = Msg(c) /\ w = j.w
  BY Holding DEF Replace, Busy, FeedInv, Job
<1>1. /\ j.h \in Nat /\ pc[c] \in {"skip", "ack"}
      /\ TypeOK /\ stored' = stored /\ sent' = sent /\ stored \subseteq Nat
      /\ sent[w] \subseteq Nat /\ repeated' = repeated
  BY Holding, StoredNat DEF Replace, Busy, FeedInv, IInv, Job, TypeOK, router
<1>7. Whole(w)' => Whole(w)
  BY <1>1 DEF Whole
<1>2. JobOK(j) /\ InReach(j)
  BY <1>0, <1>1, OnlyJob DEF Busy, FeedInv
<1>3. /\ skipped'[w] = IF pc[c] = "skip" /\ ~j.new THEN skipped[w] \cup {j.h}
                       ELSE skipped[w]
  BY <1>0, <1>1 DEF Replace, GiveUp, TypeOK
<1>4. CASE pc[c] = "skip" /\ j.new
  <2>1. k.new
    BY <1>0, <1>4 DEF Successor
  <2> QED
    BY <2>1 DEF JobOK
<1>5. CASE pc[c] = "skip" /\ ~j.new
  <2>1. k.w = w /\ k.h = j.h + 1
    BY <1>0, <1>5 DEF Successor
  <2>2. /\ sent[w] # {} /\ Min(sent[w]) <= j.h
        /\ \E g \in stored : j.h <= g
        /\ Whole(w) => \A h \in stored :
              Min(sent[w]) <= h /\ h < j.h => h \in sent[w] \cup skipped[w]
    BY <1>0, <1>2, <1>5 DEF JobOK, InReach
  <2>3. Min(sent[w]) \in Nat
    BY <1>1, <2>2, MinOfNats
  <2>4. Min(sent[w]) <= j.h + 1 /\ 0 < j.h + 1 /\ \E g \in stored : j.h + 1 <= g + 1
    BY <1>1, <2>2, <2>3
  <2>5. ASSUME Whole(w), NEW h \in stored, Min(sent[w]) <= h, h < j.h + 1
        PROVE  h \in sent[w] \cup (skipped[w] \cup {j.h})
    BY <1>1, <2>2, <2>5
  <2> QED
    BY <1>1, <1>3, <1>5, <1>7, <2>1, <2>2, <2>4, <2>5 DEF JobOK
<1>6. CASE pc[c] = "ack"
  <2>1. k.w = w /\ k.h = LastBlock(c) + 1 /\ ~k.new
    BY <1>0, <1>6 DEF Successor
  <2>2. /\ blocks[c] # {} /\ blocks[c] \subseteq stored /\ blocks[c] \subseteq sent[w]
        /\ j.new => blocks[c] = sent[w]
        /\ ~j.new => /\ \A b \in blocks[c] : j.h <= b
                     /\ Whole(w) => \A h \in stored : \A b \in blocks[c] :
                           j.h <= h /\ h <= b => h \in blocks[c]
    BY <1>0, <1>6 DEF FeedInv, HandOK, IInv, WorkerOK
  <2>3. blocks[c] \in SUBSET (1 .. MaxHeight) /\ MaxHeight \in Nat
    BY <1>1, ConstantsAssumption DEF TypeOK
  <2>4. CASE j.new
    <3>1. LastBlock(c) = Min(blocks[c])
      BY <1>0, <2>4 DEF LastBlock
    <3> DEFINE m == Min(blocks[c])
    <3>2. m \in blocks[c] /\ m \in Nat /\ m = Min(sent[w])
      BY <1>1, <2>2, <2>4, MinOfNats
    <3> HIDE DEF m
    <3>3. /\ sent[w] # {} /\ m <= m + 1 /\ k.h = m + 1 /\ m \in stored /\ 0 < k.h
      BY <2>1, <2>2, <3>1, <3>2 DEF m
    <3>4. ASSUME NEW h \in stored, m <= h, h < m + 1 PROVE h = m
      <4>1. h \in Nat
        BY <1>1
      <4> QED
        BY <3>2, <3>4, <4>1
    <3>5. m \in sent[w]
      BY <2>2, <3>2
    <3>6. \E g \in stored : m + 1 <= g + 1
      BY <3>2, <3>3
    <3>7. Min(sent[w]) = m
      BY <3>2
    <3> QED
      BY <1>1, <2>1, <3>3, <3>4, <3>5, <3>6, <3>7 DEF JobOK
  <2>5. CASE ~j.new
    <3> DEFINE m == Max(blocks[c])
               f == Min(sent[w])
    <3>1. LastBlock(c) = m
      BY <1>0, <2>5 DEF LastBlock
    <3>2. m \in blocks[c] /\ m \in Nat /\ m \in stored
      BY <1>1, <2>2, <2>3, MaxOfHeights
    <3>3. /\ sent[w] # {} /\ f <= j.h
          /\ Whole(w) => \A h \in stored :
                f <= h /\ h < j.h => h \in sent[w] \cup skipped[w]
      BY <1>0, <1>2, <2>5 DEF JobOK
    <3>4. f \in Nat /\ j.h <= m
      BY <1>1, <2>2, <2>5, <3>2, <3>3, MinOfNats
    <3>5. skipped'[w] = skipped[w]
      BY <1>3, <1>6
    <3> HIDE DEF m, f
    <3>6. ASSUME Whole(w), NEW h \in stored, f <= h, h < m + 1
          PROVE  h \in sent[w] \cup skipped[w]
      <4>1. h \in Nat /\ h <= m
        BY <1>1, <3>2, <3>6
      <4>2. CASE h < j.h
        BY <3>3, <3>6, <4>2
      <4>3. CASE j.h <= h
        BY <2>2, <2>5, <3>2, <3>6, <4>1, <4>3
      <4> QED
        BY <1>1, <4>1, <4>2, <4>3
    <3>7. f <= m + 1 /\ k.h = m + 1 /\ 0 < k.h /\ \E g \in stored : m + 1 <= g + 1
      BY <1>1, <2>1, <3>1, <3>2, <3>3, <3>4
    <3> QED
      BY <1>1, <1>7, <2>1, <3>3, <3>5, <3>6, <3>7 DEF JobOK, f
  <2> QED
    BY <2>4, <2>5
<1> QED
  BY <1>1, <1>4, <1>5, <1>6

\* The successor waits in the pending set or goes to the stream.
LEMMA ReplaceFeed == ASSUME FeedInv, IInv', NEW c \in Consumer, Replace(c) PROVE FeedInv'
<1>0. PICK k \in Job : k = Successor(c)
  BY Holding, SuccessorOfJob DEF Replace, Busy, FeedInv, IInv, WorkerOK
<1>1. /\ UNCHANGED <<latest, router, sent>> /\ GiveUp(c)
      /\ pc[c] \in Busy /\ Acked(c) /\ HandlerReturns(c, FALSE)
      /\ Reschedule(k)
  BY <1>0 DEF Replace, Busy
<1>2. /\ \A d \in Consumer : PelJobs(d)' \subseteq PelJobs(d)
      /\ pc'[c] = "backlog"
      /\ \A d \in Consumer : d # c =>
            pc'[d] = pc[d] /\ blocks'[d] = blocks[d] /\ Msg(d)' = Msg(d)
  BY <1>1, AckedFeed
<1>3. JobOK(k)' /\ k.h \in Nat
  BY <1>0, SuccessorOK DEF Job
<1>4. \A w \in Webhook : skipped[w] \subseteq skipped'[w]
  BY <1>1 DEF GiveUp, FeedInv, IInv, TypeOK
<1>5. CASE k.h >= latest
  <2>1. pending' = pending \cup {k} /\ UNCHANGED stream
    BY <1>1, <1>5 DEF Reschedule
  <2>2. OnTheWay' \subseteq OnTheWay
    BY <1>2, <2>1 DEF OnTheWay, StreamJobs
  <2>3. AllJobs' \subseteq AllJobs \cup {k}
    BY <2>1, <2>2, JobsParted
  <2> QED
    BY <1>1, <1>2, <1>3, <1>4, <2>2, <2>3, StoreStays, FeedKept
<1>6. CASE ~(k.h >= latest)
  <2>1. stream' = Append(stream, k) /\ UNCHANGED pending
    BY <1>1, <1>6 DEF Reschedule
  <2>2. StreamJobs' \subseteq StreamJobs \cup {k}
    <3>1. stream \in Seq(Job) /\ Len(stream) \in Nat
      BY DEF FeedInv, IInv, TypeOK
    <3>2. /\ Len(stream') = Len(stream) + 1 /\ stream'[Len(stream) + 1] = k
          /\ \A i \in 1 .. Len(stream) : stream'[i] = stream[i]
      BY <1>3, <2>1, <3>1
    <3> QED
      BY <3>1, <3>2 DEF StreamJobs
  <2>3. OnTheWay' \subseteq OnTheWay \cup {k}
    BY <1>2, <2>2 DEF OnTheWay
  <2>4. AllJobs' \subseteq AllJobs \cup {k}
    BY <2>1, <2>3, JobsParted
  <2>5. latest \in stored /\ k.h <= latest
    <3>1. latest \in Nat /\ latest # 0
      BY <1>3, <1>6 DEF FeedInv, IInv, TypeOK
    <3> QED
      BY <1>3, <1>6, <3>1 DEF FeedInv, HeightsOK
  <2>6. InReach(k)'
    BY <1>1, <2>5 DEF InReach, router
  <2> QED
    BY <1>1, <1>2, <1>3, <1>4, <2>3, <2>4, <2>6, StoreStays, FeedKept
<1> QED
  BY <1>5, <1>6

-----------------------------------------------------------------------------
(* The theorem. *)

\* At first there is no job.
LEMMA InitFeed == Init => FeedInv
<1> SUFFICES ASSUME Init PROVE FeedInv
  OBVIOUS
<1>1. StreamJobs = {} /\ \A c \in Consumer : PelJobs(c) = {}
  BY DEF Init, StreamJobs, PelJobs
<1>2. OnTheWay = {} /\ AllJobs = {}
  BY <1>1, JobsParted DEF OnTheWay, Init
<1> QED
  BY <1>2, InitIInv DEF Init, FeedInv, HeightsOK, HandOK

\* Every step, by the action it is.
LEMMA FeedNext == ASSUME ~ClientResends, FeedInv, [Next]_vars PROVE FeedInv'
<1>1. IInv'
  BY NextStep DEF FeedInv
<1>2. CASE Api
  BY <1>1, <1>2, ApiFeed DEF Api
<1>3. CASE Router
  BY <1>1, <1>3, RouterPutFeed, RouterQuietFeed, RouterFlushFeed DEF Router
<1>4. ASSUME NEW c \in Consumer, Work(c) \/ ReadError(c) \/ CallError(c) PROVE FeedInv'
  <2>1. CASE BacklogRead(c) \/ NewRead(c) \/ ReadError(c)
    BY <1>1, <2>1, ReadFeed
  <2>2. CASE BacklogEnd(c) \/ FindOne(c) \/ CallError(c)
    BY <1>1, <2>2, QuietWorkerFeed
  <2>3. CASE FetchBlocks(c)
    BY <1>1, <2>3, FetchFeed
  <2>4. CASE Panic(c)
    BY <1>1, <2>4, DeathFeed
  <2>5. CASE PostOk(c)
    BY <1>1, <2>5, PostOkFeed
  <2>6. CASE PostError(c)
    BY <1>1, <2>6, PostErrorFeed
  <2>7. CASE Drop(c)
    BY <1>1, <2>7, DropFeed
  <2>8. CASE Replace(c)
    BY <1>1, <2>8, ReplaceFeed
  <2> QED
    BY <1>4, <2>1, <2>2, <2>3, <2>4, <2>5, <2>6, <2>7, <2>8 DEF Work
<1>5. ASSUME NEW c \in Consumer, ReadAgain(c) \/ ReplaceTwice(c) PROVE FALSE
  BY <1>5 DEF ReadAgain, ReplaceTwice
<1>6. CASE \E p \in Process : Crash(p) \/ Exit(p)
  BY <1>1, <1>6, DeathFeed
<1>7. CASE UNCHANGED vars
  BY <1>1, <1>7, QuietFeed DEF vars, worker
<1> QED
  BY <1>2, <1>3, <1>4, <1>5, <1>6, <1>7 DEF Next, Failure

\* A feed has no silent hole until the chain repeats a batch, and with ranges of
\* one block not even then: once it has begun, every stored block below the
\* height of the webhook's job was accepted by its URL or given up by the retry
\* limit, whatever races, crashes and failed calls lie between reading a job,
\* sending its blocks and replacing it, whatever of the blocks is in the cache,
\* and whatever heights the store leaves out.  After a repeated batch a longer
\* range can leave out blocks that only the database has (cachedstore/main.go:
\* 142-156), and nothing is claimed of it.
THEOREM FeedHasNoHole == ASSUME ~ClientResends PROVE Spec => []NoSilentGap
<1>1. FeedInv /\ [Next]_vars => FeedInv'
  BY FeedNext
<1>2. FeedInv => NoSilentGap
  BY DEF FeedInv, NoSilentGap, JobOK
<1> QED
  BY InitFeed, <1>1, <1>2, PTL DEF Spec

-----------------------------------------------------------------------------
(* A store without gaps. *)

\* All heights up to a stored one are stored.
Gapless == \A g \in stored : 1 .. g \subseteq stored

\* Without a gap between batches the store stays without one.
LEMMA GaplessNext ==
    ASSUME MaxGap = 0, IInv, Gapless, [Next]_vars
    PROVE  Gapless'
<1>1. CASE RouterPut
  <2>1. PICK k \in 1 .. BatchSize, g \in 0 .. MaxGap :
            stored' = stored \cup (Tip + g + 1 .. Tip + g + k)
    BY <1>1 DEF RouterPut
  <2>2. /\ g = 0 /\ k \in Nat /\ Tip \in Nat
        /\ stored \in SUBSET (1 .. MaxHeight) /\ MaxHeight \in Nat
    BY TipType, ConstantsAssumption DEF IInv, TypeOK
  <2>3. 1 .. Tip \subseteq stored
    <3>1. CASE stored = {}
      BY <3>1 DEF Tip
    <3>2. CASE stored # {}
      BY <2>2, <3>2, MaxOfHeights DEF Tip, Gapless
    <3> QED
      BY <3>1, <3>2
  <2>4. stored' = stored \cup (Tip + 1 .. Tip + k)
    BY <2>1, <2>2
  <2>5. ASSUME NEW g1 \in Tip + 1 .. Tip + k, NEW x \in 1 .. g1 PROVE x \in stored'
    BY <2>2, <2>3, <2>4
  <2> QED
    BY <2>4, <2>5 DEF Gapless
<1>2. CASE ~RouterPut
  <2>1. stored' = stored
    BY <1>2 DEF Next, Api, ActivateSelect, ActivateScript, RemoveWebhook,
       Router, RouterReplay, RouterFlush, RouterAck, Failure, ReadError, ReadAgain,
       CallError, ReplaceTwice, Crash, Exit, Work, BacklogRead, BacklogEnd, NewRead,
       FindOne, FetchBlocks, Panic, PostOk, PostError, Drop, Replace, vars, router
  <2> QED
    BY <2>1 DEF Gapless
<1> QED
  BY <1>1, <1>2

\* In a store without gaps there is a block for every job on its way, whatever
\* the cache holds of it.
LEMMA BlocksAreThere ==
    ASSUME FeedInv, Gapless, NEW c \in Consumer, pc[c] = "fetch"
    PROVE  {} \notin Answers(Msg(c))
<1>0. PICK j : j = Msg(c)
  OBVIOUS
<1>1. /\ j \in Job /\ j.h \in Nat /\ MaxBlocks[j.w] \in Nat \ {0}
      /\ stored \in SUBSET (1 .. MaxHeight) /\ MaxHeight \in Nat /\ TypeOK
  BY <1>0, Holding, ConstantsAssumption DEF Busy, FeedInv, IInv, TypeOK, Job
<1>2. JobOK(j) /\ InReach(j)
  BY <1>0, OnlyJob DEF Busy, FeedInv
<1>3. PICK g \in stored : j.new \/ j.h <= g
  BY <1>2 DEF InReach
<1>4. ~j.new => j.h \in stored /\ j.h <= j.h + MaxBlocks[j.w] - 1
  BY <1>1, <1>2, <1>3 DEF JobOK, Gapless
<1>5. ASSUME NEW B \in Answers(j) PROVE B # {}
  <2>1. CASE j.new
    BY <1>1, <1>3, <1>5, <2>1, AnswerThere
  <2>2. CASE ~j.new
    BY <1>1, <1>4, <1>5, <2>2, AnswerThere
  <2> QED
    BY <2>1, <2>2
<1> QED
  BY <1>0, <1>5

\* The relay's panic on an empty range (blockrelay/main.go:143-150) is never
\* reached as long as the forwarder leaves out no height: neither a job flushed
\* too early, nor one rescheduled beside a flush, nor one that a crash brings
\* back asks for blocks that are not there.
THEOREM NoPanicWithoutGap ==
    ASSUME ~ClientResends, MaxGap = 0
    PROVE  Spec => []RelayNeverPanics
<1>1. Init => FeedInv /\ Gapless
  BY InitFeed DEF Init, Gapless
<1>2. FeedInv /\ Gapless /\ [Next]_vars => (FeedInv /\ Gapless)'
  BY FeedNext, GaplessNext DEF FeedInv
<1>3. FeedInv /\ Gapless => RelayNeverPanics
  BY BlocksAreThere DEF RelayNeverPanics
<1> QED
  BY <1>1, <1>2, <1>3, PTL DEF Spec
-----------------------------------------------------------------------------
(* No block twice. *)

\* Every height that was sent to a webhook is below its job's height, unless a
\* worker that sent it has yet to replace the job.
FreshJob(j) == ~j.new => \A x \in sent[j.w] : x < j.h
Acking(j)   == \E c \in Consumer : pc[c] = "ack" /\ Msg(c) = j

\* The first batch of a feed is a single block, and what was accepted is not
\* above the range that a worker has just sent.
HandFresh(c) ==
    /\ pc[c] \in {"post", "ack"} /\ Msg(c).new => \A x, y \in blocks[c] : x = y
    /\ pc[c] = "ack" => \A x \in sent[Msg(c).w] : \E b \in blocks[c] : x <= b

Fresh ==
    /\ \A j \in AllJobs : FreshJob(j) \/ Acking(j)
    /\ \A c \in Consumer : HandFresh(c)

\* The invariant: as long as nothing has failed.
FreshInv == FeedInv /\ Gapless /\ (faults = 0 => Fresh)

\* What is left to show of a step that sends nothing: its new jobs, and the jobs
\* of the workers that leave their handlers after sending.
LEMMA FreshKept ==
    ASSUME FeedInv, Fresh, UNCHANGED sent,
           \A j \in AllJobs' : j \in AllJobs \/ FreshJob(j)',
           \A c \in Consumer :
              \/ /\ pc'[c] \notin {"post", "ack"}
                 /\ pc[c] = "ack" => \A j \in AllJobs' : j = Msg(c) => FreshJob(j)'
              \/ pc'[c] = pc[c] /\ blocks'[c] = blocks[c] /\ Msg(c)' = Msg(c)
    PROVE  Fresh'
<1>1. ASSUME NEW j \in AllJobs' PROVE FreshJob(j)' \/ Acking(j)'
  <2>1. CASE FreshJob(j)'
    BY <2>1
  <2>2. CASE j \in AllJobs /\ FreshJob(j)
    BY <2>2 DEF FreshJob
  <2>3. CASE j \in AllJobs /\ Acking(j)
    <3>1. PICK c \in Consumer : pc[c] = "ack" /\ Msg(c) = j
      BY <2>3 DEF Acking
    <3>2. CASE pc'[c] = pc[c] /\ Msg(c)' = Msg(c)
      BY <3>1, <3>2 DEF Acking
    <3>3. CASE ~(pc'[c] = pc[c] /\ Msg(c)' = Msg(c))
      BY <1>1, <3>1, <3>3
    <3> QED
      BY <3>2, <3>3
  <2> QED
    BY <1>1, <2>1, <2>2, <2>3 DEF Fresh
<1>2. ASSUME NEW c \in Consumer PROVE HandFresh(c)'
  <2>1. CASE pc'[c] \notin {"post", "ack"}
    BY <2>1 DEF HandFresh
  <2>2. CASE pc'[c] = pc[c] /\ blocks'[c] = blocks[c] /\ Msg(c)' = Msg(c)
    BY <2>2 DEF Fresh, HandFresh
  <2> QED
    BY <2>1, <2>2
<1> QED
  BY <1>1, <1>2 DEF Fresh

\* The API and the router.
LEMMA ApiRouterFresh ==
    ASSUME FeedInv, Fresh, Api \/ RouterPut \/ RouterAck \/ RouterFlush
    PROVE  Fresh'
<1>1. UNCHANGED <<pel, pc, pos, blocks, sent>>
  BY DEF Api, ActivateSelect, ActivateScript, RemoveWebhook, RouterPut, RouterAck,
         RouterFlush, Flush, redis, worker, ghost
<1>2. ASSUME NEW j \in AllJobs' PROVE j \in AllJobs \/ FreshJob(j)'
  <2>1. CASE Api
    <3>1. PICK w \in Webhook :
              UNCHANGED stream /\ pending' \subseteq pending \cup {[w |-> w, h |-> 0, new |-> TRUE]}
      BY <2>1 DEF Api, ActivateSelect, ActivateScript, RemoveWebhook, redis
    <3>2. j \in AllJobs \/ j.new
      BY <1>1, <1>2, <3>1, WorkersStay, JobsParted DEF OnTheWay, StreamJobs
    <3> QED
      BY <3>2 DEF FreshJob
  <2>2. CASE RouterPut \/ RouterAck
    <3>1. UNCHANGED <<pending, stream>>
      BY <2>2 DEF RouterPut, RouterAck, redis
    <3> QED
      BY <1>1, <1>2, <3>1, WorkersStay, JobsParted DEF OnTheWay, StreamJobs
  <2>3. CASE RouterFlush
    BY <1>2, <2>3, FlushMoves DEF FeedInv, IInv
  <2> QED
    BY <2>1, <2>2, <2>3
<1> QED
  BY <1>1, <1>2, WorkersStay, FreshKept

\* Reading, looking up, and the end of a process whose workers have stopped.
LEMMA QuietFresh ==
    ASSUME FeedInv, Fresh,
           \/ \E c \in Consumer : BacklogRead(c) \/ NewRead(c) \/ BacklogEnd(c) \/ FindOne(c)
           \/ \E p \in Process : Exit(p)
    PROVE  Fresh'
<1>1. ASSUME NEW c \in Consumer, BacklogRead(c) \/ NewRead(c) \/ BacklogEnd(c) \/ FindOne(c)
      PROVE  Fresh'
  <2>1. /\ UNCHANGED <<sent, blocks>> /\ pc[c] # "ack" /\ pc'[c] \notin {"post", "ack"}
        /\ \A d \in Consumer : d # c => pc'[d] = pc[d] /\ pos'[d] = pos[d]
    BY <1>1 DEF BacklogRead, NewRead, BacklogEnd, FindOne, Redeliver, Deliver, ghost,
                FeedInv, IInv, TypeOK
  <2>2. /\ AllJobs' \subseteq AllJobs
        /\ \A d \in Consumer : d # c => pel'[d] = pel[d]
    <3>1. CASE BacklogRead(c) \/ NewRead(c)
      BY <3>1, RedeliverFeed, DeliverFeed DEF BacklogRead, NewRead
    <3>2. CASE BacklogEnd(c) \/ FindOne(c)
      BY <3>2 DEF BacklogEnd, FindOne, redis, AllJobs
    <3> QED
      BY <1>1, <3>1, <3>2
  <2>3. \A d \in Consumer : d # c => Msg(d)' = Msg(d)
    BY <2>1, <2>2 DEF Msg
  <2> QED
    BY <2>1, <2>2, <2>3, FreshKept
<1>2. ASSUME NEW p \in Process, Exit(p) PROVE Fresh'
  <2>1. /\ \A c \in Consumer : c[1] = p => pc[c] = "stopped"
        /\ Restart(p) /\ UNCHANGED <<redis, sent>>
    BY <1>2 DEF Exit, ghost
  <2>2. ASSUME NEW c \in Consumer
        PROVE  \/ pc[c] # "ack" /\ pc'[c] = "backlog"
               \/ pc'[c] = pc[c] /\ blocks'[c] = blocks[c] /\ pos'[c] = pos[c]
    BY <2>1 DEF Restart
  <2>3. AllJobs' = AllJobs /\ UNCHANGED pel
    BY <2>1 DEF redis, AllJobs
  <2>4. \A c \in Consumer : pos'[c] = pos[c] => Msg(c)' = Msg(c)
    BY <2>3 DEF Msg
  <2> QED
    BY <2>1, <2>2, <2>3, <2>4, FreshKept
<1> QED
  BY <1>1, <1>2

\* The first batch of a feed is the latest block.
LEMMA FetchFresh ==
    ASSUME FeedInv, Fresh, \A w \in Webhook : MaxBlocks[w] = 1,
           NEW c \in Consumer, FetchBlocks(c)
    PROVE  Fresh'
<1>0. PICK B : B \in Answers(Msg(c)) /\ blocks' = [blocks EXCEPT ![c] = B]
  BY DEF FetchBlocks
<1>1. /\ UNCHANGED <<redis, pos, sent>> /\ pc[c] = "fetch" /\ pc'[c] = "post"
      /\ blocks'[c] = B
      /\ \A d \in Consumer : d # c => pc'[d] = pc[d] /\ blocks'[d] = blocks[d]
  BY <1>0 DEF FetchBlocks, ghost, FeedInv, IInv, TypeOK
<1>2. AllJobs' = AllJobs /\ \A d \in Consumer : Msg(d)' = Msg(d)
  BY <1>1 DEF redis, AllJobs, Msg
<1>3. ASSUME NEW j \in AllJobs' PROVE FreshJob(j)' \/ Acking(j)'
  <2>1. CASE FreshJob(j)
    BY <1>1, <2>1 DEF FreshJob
  <2>2. CASE Acking(j)
    <3>1. PICK d \in Consumer : pc[d] = "ack" /\ Msg(d) = j
      BY <2>2 DEF Acking
    <3> QED
      BY <1>1, <1>2, <3>1 DEF Acking
  <2> QED
    BY <1>2, <1>3, <2>1, <2>2 DEF Fresh
<1>4. HandFresh(c)'
  <2>1. PICK j \in Job : j = Msg(c) /\ j.w \in Webhook /\ TypeOK
    BY <1>1, Holding DEF Busy, FeedInv, IInv, Job
  <2>2. j.new => \A x, y \in B : x = y
    BY <1>0, <2>1, OneBlock
  <2> QED
    BY <1>1, <1>2, <2>1, <2>2 DEF HandFresh
<1>5. ASSUME NEW d \in Consumer, d # c PROVE HandFresh(d)'
  BY <1>1, <1>2, <1>5 DEF Fresh, HandFresh
<1> QED
  BY <1>3, <1>4, <1>5 DEF Fresh

\* The job of a worker that has not sent its range is above all that was sent.
LEMMA NothingSentAhead ==
    ASSUME FeedInv, Fresh, NEW c \in Consumer, pc[c] \in Busy, pc[c] # "ack"
    PROVE  FreshJob(Msg(c)) /\ ~Acking(Msg(c))
<1>1. Msg(c) \in AllJobs /\ \A d \in Consumer : d # c /\ pc[d] \in Busy => Msg(d).w # Msg(c).w
  BY OnlyJob DEF FeedInv
<1>2. ~Acking(Msg(c))
  BY <1>1 DEF Acking, Busy
<1> QED
  BY <1>1, <1>2 DEF Fresh

\* The URL accepted a range: nothing above it was accepted before.
LEMMA PostOkFresh == ASSUME FeedInv, IInv', Fresh, NEW c \in Consumer, PostOk(c) PROVE Fresh'
<1> DEFINE e == [pel[c][1] EXCEPT !.tries = @ + 1]
<1>0. PICK j \in Job, w \in Webhook : j = Msg(c) /\ w = j.w
  BY Holding DEF PostOk, Busy, FeedInv, Job
<1>1. /\ pc[c] = "post" /\ pos[c] = 1 /\ Len(pel[c]) = 1 /\ pel[c][1] \in Entry
      /\ j.h \in Nat /\ TypeOK /\ TypeOK' /\ blocks[c] # {}
  BY Holding DEF PostOk, Busy, FeedInv, IInv, WorkerOK, Job
<1>2. /\ UNCHANGED <<pending, stream, pos, blocks>>
      /\ pc'[c] = "ack" /\ \A d \in Consumer : d # c => pc'[d] = pc[d]
      /\ sent'[w] = IF j.new THEN blocks[c] ELSE sent[w] \cup blocks[c]
      /\ \A v \in Webhook : v # w => sent'[v] = sent[v]
  BY <1>0, <1>1 DEF PostOk, TypeOK
<1>3. e \in Entry /\ e.job = pel[c][1].job
  BY <1>1 DEF Entry
<1>4. pel' = [pel EXCEPT ![c] = [pel[c] EXCEPT ![1] = e]]
  BY <1>1 DEF PostOk, Tried
<1> HIDE DEF e
<1>5. /\ pel'[c][1].job = pel[c][1].job
      /\ \A d \in Consumer : d # c => pel'[d] = pel[d]
      /\ \A d \in Consumer : PelJobs(d)' = PelJobs(d)
  BY <1>1, <1>3, <1>4, EntryKeepsJob
<1>6. AllJobs' = AllJobs
  BY <1>2, <1>5, JobsParted DEF OnTheWay, StreamJobs
<1>7. \A d \in Consumer : Msg(d)' = Msg(d)
  BY <1>1, <1>2, <1>5 DEF Msg
<1>8. /\ \A k \in AllJobs : k.w = w => k = j
      /\ \A d \in Consumer : d # c /\ pc[d] \in Busy => Msg(d).w # w
  BY <1>0, <1>1, OnlyJob DEF Busy, FeedInv
<1>9. ASSUME NEW k \in AllJobs' PROVE FreshJob(k)' \/ Acking(k)'
  <2>1. k \in AllJobs /\ k.w \in Webhook
    BY <1>1, <1>6, <1>9, JobsTyped DEF Job
  <2>2. CASE k.w = w
    BY <1>0, <1>2, <1>7, <1>8, <2>1, <2>2 DEF Acking
  <2>3. CASE k.w # w /\ FreshJob(k)
    BY <1>2, <2>1, <2>3 DEF FreshJob
  <2>4. CASE k.w # w /\ Acking(k)
    <3>1. PICK d \in Consumer : pc[d] = "ack" /\ Msg(d) = k
      BY <2>4 DEF Acking
    <3> QED
      BY <1>1, <1>2, <1>7, <3>1 DEF Acking
  <2> QED
    BY <2>1, <2>2, <2>3, <2>4 DEF Fresh
<1>10. HandFresh(c)'
  <2>1. Msg(c)' = j /\ Msg(c) = j
    BY <1>0, <1>7
  <2>2. j.new => \A x, y \in blocks[c] : x = y
    BY <1>1, <2>1 DEF Fresh, HandFresh
  <2>3. ASSUME NEW x \in sent'[w] PROVE \E b \in blocks[c] : x <= b
    <3>1. /\ sent[w] \subseteq Nat /\ sent'[w] \subseteq Nat /\ stored \subseteq Nat
          /\ blocks[c] \subseteq stored
      BY <1>1, StoredNat DEF TypeOK, FeedInv, HandOK
    <3>2. CASE x \in blocks[c]
      BY <2>3, <3>1, <3>2
    <3>3. CASE x \notin blocks[c]
      <4>1. ~j.new /\ x \in sent[w]
        BY <1>2, <2>3, <3>3
      <4>2. x < j.h
        BY <1>0, <1>1, <4>1, NothingSentAhead DEF FreshJob, Busy
      <4>3. PICK b \in blocks[c] : j.h <= b
        BY <1>1, <2>1, <4>1 DEF FeedInv, HandOK
      <4>4. x \in Nat /\ b \in Nat
        BY <3>1, <4>1, <4>3
      <4>5. x <= b
        BY <1>1, <4>2, <4>3, <4>4
      <4> QED
        BY <4>3, <4>5
    <3> QED
      BY <3>2, <3>3
  <2> QED
    BY <1>0, <1>2, <2>1, <2>2, <2>3 DEF HandFresh
<1>11. ASSUME NEW d \in Consumer, d # c PROVE HandFresh(d)'
  <2>1. CASE pc[d] \notin {"post", "ack"}
    BY <1>2, <1>11, <2>1 DEF HandFresh
  <2>2. CASE pc[d] \in {"post", "ack"}
    <3>1. Msg(d).w # w /\ Msg(d).w \in Webhook
      BY <1>8, <1>11, <2>2, Holding DEF Busy, FeedInv, Job
    <3>2. /\ HandFresh(d) /\ pc'[d] = pc[d] /\ blocks'[d] = blocks[d]
          /\ Msg(d)' = Msg(d) /\ sent'[Msg(d).w] = sent[Msg(d).w]
      BY <1>2, <1>7, <1>11, <3>1 DEF Fresh
    <3> QED
      BY <3>2 DEF HandFresh
  <2> QED
    BY <2>1, <2>2
<1> QED
  BY <1>9, <1>10, <1>11 DEF Fresh

\* A failed POST request sends nothing.
LEMMA PostErrorFresh == ASSUME FeedInv, Fresh, NEW c \in Consumer, PostError(c) PROVE Fresh'
<1> DEFINE e == [pel[c][1] EXCEPT !.tries = @ + 1]
<1>1. /\ pos[c] = 1 /\ pos[c] # 0 /\ pc[c] = "post"
      /\ Len(pel[c]) = 1 /\ pel[c][1] \in Entry /\ TypeOK
  BY Holding DEF PostError, Busy, FeedInv, IInv
<1>2. e \in Entry /\ e.job = pel[c][1].job
  BY <1>1 DEF Entry
<1>3. pel' = [pel EXCEPT ![c] = [pel[c] EXCEPT ![1] = e]]
  BY <1>1 DEF PostError, Tried
<1> HIDE DEF e
<1>4. /\ \A d \in Consumer : d # c => pel'[d] = pel[d]
      /\ \A d \in Consumer : PelJobs(d)' = PelJobs(d)
  BY <1>1, <1>2, <1>3, EntryKeepsJob
<1>5. UNCHANGED <<sent, pending, stream>> /\ HandlerReturns(c, TRUE)
  BY DEF PostError, ghost
<1>6. /\ pc'[c] = "backlog"
      /\ \A d \in Consumer : d # c =>
            pc'[d] = pc[d] /\ pos'[d] = pos[d] /\ blocks'[d] = blocks[d]
  BY <1>1, <1>5, ReturnOK
<1>7. \A d \in Consumer : d # c => Msg(d)' = Msg(d)
  BY <1>4, <1>6 DEF Msg
<1>8. AllJobs' = AllJobs
  BY <1>4, <1>5, JobsParted DEF OnTheWay, StreamJobs
<1> QED
  BY <1>1, <1>5, <1>6, <1>7, <1>8, FreshKept

\* A dropped job is gone.
LEMMA DropFresh == ASSUME FeedInv, Fresh, NEW c \in Consumer, Drop(c) PROVE Fresh'
<1>1. /\ UNCHANGED <<sent, pending, stream>>
      /\ pc[c] = "drop" /\ pc[c] \in Busy /\ Acked(c) /\ HandlerReturns(c, FALSE)
  BY DEF Drop, ghost, Busy
<1>2. /\ \A d \in Consumer : PelJobs(d)' \subseteq PelJobs(d)
      /\ pc'[c] = "backlog"
      /\ \A d \in Consumer : d # c =>
            pc'[d] = pc[d] /\ blocks'[d] = blocks[d] /\ Msg(d)' = Msg(d)
  BY <1>1, AckedFeed
<1>3. AllJobs' \subseteq AllJobs
  BY <1>1, <1>2, JobsParted DEF OnTheWay, StreamJobs
<1> QED
  BY <1>1, <1>2, <1>3, FreshKept

\* The successor begins above everything that was sent.
LEMMA SuccessorFresh ==
    ASSUME FeedInv, Fresh, NEW c \in Consumer, Replace(c),
           NEW k \in Job, k = Successor(c)
    PROVE  FreshJob(k)'
<1>0. PICK j \in Job, w \in Webhook : j = Msg(c) /\ w = j.w
  BY Holding DEF Replace, Busy, FeedInv, Job
<1>1. /\ j.h \in Nat /\ pc[c] \in {"skip", "ack"} /\ sent' = sent /\ sent[w] \subseteq Nat
  BY DEF Replace, FeedInv, IInv, Job, TypeOK
<1>2. CASE pc[c] = "skip" /\ j.new
  BY <1>0, <1>2 DEF Successor, FreshJob
<1>3. CASE pc[c] = "skip" /\ ~j.new
  <2>1. k.w = w /\ k.h = j.h + 1
    BY <1>0, <1>3 DEF Successor
  <2>2. \A x \in sent[w] : x < j.h
    BY <1>0, <1>3, NothingSentAhead DEF FreshJob, Busy
  <2>3. ASSUME NEW x \in sent[w] PROVE x < j.h + 1
    <3>1. x \in Nat /\ x < j.h
      BY <1>1, <2>2, <2>3
    <3> QED
      BY <1>1, <3>1
  <2> QED
    BY <1>1, <2>1, <2>3 DEF FreshJob
<1>4. CASE pc[c] = "ack"
  <2>1. k.w = w /\ k.h = LastBlock(c) + 1
    BY <1>0, <1>4 DEF Successor
  <2>2. /\ j.new => \A x, y \in blocks[c] : x = y
        /\ \A x \in sent[w] : \E b \in blocks[c] : x <= b
    BY <1>0, <1>4 DEF Fresh, HandFresh
  <2>3. /\ blocks[c] \in SUBSET (1 .. MaxHeight) /\ MaxHeight \in Nat
        /\ blocks[c] \subseteq Nat /\ blocks[c] # {}
    BY <1>4, ConstantsAssumption DEF FeedInv, IInv, TypeOK, WorkerOK
  <2>4. \A b \in blocks[c] : b <= LastBlock(c) /\ LastBlock(c) \in Nat
    <3>1. CASE j.new
      <4>1. Min(blocks[c]) \in blocks[c] /\ LastBlock(c) = Min(blocks[c])
        BY <1>0, <2>3, <3>1, MinOfNats DEF LastBlock
      <4>2. \A b \in blocks[c] : b = LastBlock(c)
        BY <2>2, <3>1, <4>1
      <4> QED
        BY <2>3, <4>1, <4>2
    <3>2. CASE ~j.new
      <4>1. LastBlock(c) = Max(blocks[c])
        BY <1>0, <3>2 DEF LastBlock
      <4> QED
        BY <2>3, <4>1, MaxOfHeights
    <3> QED
      BY <3>1, <3>2
  <2>5. ASSUME NEW x \in sent[w] PROVE x < LastBlock(c) + 1
    <3>1. PICK b \in blocks[c] : x <= b
      BY <2>2, <2>5
    <3>2. x \in Nat /\ b \in Nat /\ b <= LastBlock(c) /\ LastBlock(c) \in Nat
      BY <1>1, <2>3, <2>4, <2>5, <3>1
    <3> QED
      BY <3>1, <3>2
  <2> QED
    BY <1>1, <2>1, <2>5 DEF FreshJob
<1> QED
  BY <1>1, <1>2, <1>3, <1>4

\* The job that was sent is gone, and its successor is the only one of its
\* webhook.
LEMMA ReplaceFresh == ASSUME FeedInv, Fresh, NEW c \in Consumer, Replace(c) PROVE Fresh'
<1>0. PICK k \in Job : k = Successor(c)
  BY Holding, SuccessorOfJob DEF Replace, Busy, FeedInv, IInv, WorkerOK
<1>1. /\ sent' = sent
      /\ pc[c] \in Busy /\ Acked(c) /\ HandlerReturns(c, FALSE)
      /\ Reschedule(k)
  BY <1>0 DEF Replace, Busy
<1>2. /\ \A d \in Consumer : PelJobs(d)' \subseteq PelJobs(d)
      /\ pc'[c] = "backlog"
      /\ \A d \in Consumer : d # c =>
            pc'[d] = pc[d] /\ blocks'[d] = blocks[d] /\ Msg(d)' = Msg(d)
  BY <1>1, AckedFeed
<1>3. FreshJob(k)'
  BY <1>0, SuccessorFresh
<1>4. /\ Msg(c).w \notin DeliveredIds'
      /\ Msg(c).w \notin PendingIds /\ Msg(c).w \notin Ids(stream)
  BY <1>1, AckedJob DEF FeedInv
<1>5. pending' \subseteq pending \cup {k} /\ StreamJobs' \subseteq StreamJobs \cup {k}
  <2>1. CASE k.h >= latest
    BY <1>1, <2>1 DEF Reschedule, StreamJobs
  <2>2. CASE ~(k.h >= latest)
    <3>1. stream' = Append(stream, k) /\ UNCHANGED pending
      BY <1>1, <2>2 DEF Reschedule
    <3>2. stream \in Seq(Job) /\ Len(stream) \in Nat
      BY DEF FeedInv, IInv, TypeOK
    <3>3. /\ Len(stream') = Len(stream) + 1 /\ stream'[Len(stream) + 1] = k
          /\ \A i \in 1 .. Len(stream) : stream'[i] = stream[i]
      BY <1>0, <3>1, <3>2
    <3> QED
      BY <3>1, <3>2, <3>3 DEF StreamJobs
  <2> QED
    BY <2>1, <2>2
<1>6. ASSUME NEW x \in AllJobs' PROVE x = k \/ (x \in AllJobs /\ x # Msg(c))
  <2>1. CASE x \in pending \/ x \in StreamJobs
    BY <1>4, <2>1, JobsParted DEF OnTheWay, PendingIds, StreamJobs, Ids
  <2>2. ASSUME NEW d \in Consumer, x \in PelJobs(d)'
        PROVE  x \in AllJobs /\ x # Msg(c)
    <3>1. x.w \in PelIds(d)'
      BY <2>2 DEF PelJobs, PelIds
    <3>2. x.w \in DeliveredIds'
      BY <3>1 DEF DeliveredIds
    <3>3. x \in PelJobs(d)
      BY <1>2, <2>2
    <3> QED
      BY <1>4, <3>2, <3>3, JobsParted DEF OnTheWay
  <2>3. x = k \/ x \in pending \/ x \in StreamJobs \/ \E d \in Consumer : x \in PelJobs(d)'
    BY <1>5, <1>6, JobsParted DEF OnTheWay
  <2> QED
    BY <2>1, <2>2, <2>3
<1>7. \A x \in AllJobs' : x \in AllJobs \/ FreshJob(x)'
  BY <1>3, <1>6
<1>8. \A x \in AllJobs' : x = Msg(c) => FreshJob(x)'
  BY <1>3, <1>6
<1> QED
  BY <1>1, <1>2, <1>7, <1>8, FreshKept

\* A step after which nothing has failed is not a failure.
LEMMA NothingFailed ==
    ASSUME TypeOK, [Next]_vars, faults' = 0
    PROVE  /\ faults = 0
           /\ \/ Api \/ RouterPut \/ RouterAck \/ RouterFlush
              \/ \E c \in Consumer : Work(c)
              \/ \E p \in Process : Exit(p)
              \/ UNCHANGED vars
<1>1. faults \in Nat
  BY DEF TypeOK
<1>2. ~Fault
  BY <1>1 DEF Fault
<1>3. ~RouterReplay /\ ~Failure
  BY <1>2 DEF RouterReplay, Failure, ReadError, ReadAgain, CallError, ReplaceTwice, Crash
<1>4. \/ Api \/ RouterPut \/ RouterAck \/ RouterFlush
      \/ \E c \in Consumer : Work(c)
      \/ \E p \in Process : Exit(p)
      \/ UNCHANGED vars
  BY <1>3 DEF Next, Router
<1>5. faults' = faults
  BY <1>4 DEF Api, ActivateSelect, ActivateScript, RemoveWebhook, RouterPut, RouterAck,
     RouterFlush, Work, BacklogRead, BacklogEnd, NewRead, FindOne, FetchBlocks, Panic,
     PostOk, PostError, Drop, Replace, Exit, vars
<1> QED
  BY <1>4, <1>5

\* Every step, by the action it is; no worker panics in a store without gaps.
LEMMA FreshNext ==
    ASSUME ~ClientResends, MaxGap = 0, \A w \in Webhook : MaxBlocks[w] = 1,
           FreshInv, [Next]_vars
    PROVE  FreshInv'
<1>1. FeedInv /\ FeedInv' /\ Gapless /\ Gapless' /\ TypeOK /\ IInv'
  BY FeedNext, GaplessNext DEF FreshInv, FeedInv, IInv
<1>2. SUFFICES ASSUME faults' = 0 PROVE Fresh'
  BY <1>1 DEF FreshInv
<1>3. Fresh
  BY <1>1, <1>2, NothingFailed DEF FreshInv
<1>4. CASE Api \/ RouterPut \/ RouterAck \/ RouterFlush
  BY <1>1, <1>3, <1>4, ApiRouterFresh
<1>5. ASSUME NEW c \in Consumer, Work(c) PROVE Fresh'
  <2>1. CASE BacklogRead(c) \/ BacklogEnd(c) \/ NewRead(c) \/ FindOne(c)
    BY <1>1, <1>3, <2>1, QuietFresh
  <2>2. CASE FetchBlocks(c)
    BY <1>1, <1>3, <2>2, FetchFresh
  <2>3. CASE Panic(c)
    BY <1>1, <2>3, BlocksAreThere DEF Panic
  <2>4. CASE PostOk(c)
    BY <1>1, <1>3, <2>4, PostOkFresh
  <2>5. CASE PostError(c)
    BY <1>1, <1>3, <2>5, PostErrorFresh
  <2>6. CASE Drop(c)
    BY <1>1, <1>3, <2>6, DropFresh
  <2>7. CASE Replace(c)
    BY <1>1, <1>3, <2>7, ReplaceFresh
  <2> QED
    BY <1>5, <2>1, <2>2, <2>3, <2>4, <2>5, <2>6, <2>7 DEF Work
<1>6. CASE \E p \in Process : Exit(p)
  BY <1>1, <1>3, <1>6, QuietFresh
<1>7. CASE UNCHANGED vars
  <2>1. UNCHANGED <<pending, stream, pel, pc, pos, blocks, sent>>
    BY <1>7 DEF vars, redis, worker, ghost
  <2>2. AllJobs' = AllJobs /\ \A c \in Consumer : Msg(c)' = Msg(c)
    BY <2>1 DEF AllJobs, Msg
  <2> QED
    BY <1>1, <1>3, <2>1, <2>2, FreshKept
<1> QED
  BY <1>1, <1>2, <1>4, <1>5, <1>6, <1>7, NothingFailed

\* While nothing has failed no block is sent to a webhook again: races of the
\* API, the router and the workers alone never make a range overlap what was
\* sent.  The first batch must be a single block and the store without gaps, as
\* in the run that checks this; a longer first batch is sent again in part (run
\* relay_resent_blocks), and a panic on a missing block stops other workers
\* between sending and replacing.
THEOREM NoBlockTwice ==
    ASSUME ~ClientResends, MaxGap = 0, \A w \in Webhook : MaxBlocks[w] = 1
    PROVE  Spec => []FreshRange
<1>1. Init => FreshInv
  <2>1. SUFFICES ASSUME Init PROVE Fresh
    BY InitFeed DEF FreshInv, Init, Gapless
  <2>2. AllJobs = {}
    <3>1. StreamJobs = {} /\ \A c \in Consumer : PelJobs(c) = {}
      BY <2>1 DEF Init, StreamJobs, PelJobs
    <3> QED
      BY <2>1, <3>1, JobsParted DEF OnTheWay, Init
  <2> QED
    BY <2>1, <2>2 DEF Init, Fresh, HandFresh
<1>2. FreshInv /\ [Next]_vars => FreshInv'
  BY FreshNext
<1>3. FreshInv => FreshRange
  <2> SUFFICES ASSUME FeedInv, Fresh, NEW c \in Consumer, pc[c] = "post", ~Msg(c).new
               PROVE  blocks[c] \cap sent[Msg(c).w] = {}
    BY DEF FreshInv, FreshRange
  <2>1. Msg(c) \in Job /\ TypeOK
    BY Holding DEF Busy, FeedInv, IInv
  <2>2. /\ \A x \in sent[Msg(c).w] : x < Msg(c).h
        /\ \A b \in blocks[c] : Msg(c).h <= b
    BY NothingSentAhead DEF FreshJob, Busy, FeedInv, HandOK
  <2>3. Msg(c).h \in Nat /\ sent[Msg(c).w] \subseteq Nat
    BY <2>1 DEF Job, TypeOK
  <2>4. ASSUME NEW x, x \in blocks[c], x \in sent[Msg(c).w] PROVE FALSE
    <3>1. x \in Nat /\ x < Msg(c).h /\ Msg(c).h <= x
      BY <2>2, <2>3, <2>4
    <3> QED
      BY <2>3, <3>1
  <2> QED
    BY <2>4
<1> QED
  BY <1>1, <1>2, <1>3, PTL DEF Spec

-----------------------------------------------------------------------------
(* The relay is a feed for every webhook. *)

\* NextHeight of a set of jobs.
Cursor(J, w) ==
    LET H == { j.h : j \in { k \in J : k.w = w /\ ~k.new } }
    IN  IF H = {} THEN 0 ELSE CHOOSE h \in H : TRUE

\* A feed goes on at the height of its job, before and after a step.
LEMMA NextIsCursor ==
    ASSUME NEW w \in Webhook
    PROVE  NextHeight(w) = Cursor(AllJobs, w) /\ NextHeight(w)' = Cursor(AllJobs', w)
BY DEF NextHeight, Cursor

\* The only job of a webhook is the place of its feed.
LEMMA CursorOfJob ==
    ASSUME NEW J, NEW k \in J, \A x \in J : x.w = k.w => x = k
    PROVE  Cursor(J, k.w) = IF k.new THEN 0 ELSE k.h
<1> DEFINE H == { j.h : j \in { x \in J : x.w = k.w /\ ~x.new } }
<1>1. CASE k.new
  <2>1. H = {}
    BY <1>1
  <2> QED
    BY <1>1, <2>1 DEF Cursor
<1>2. CASE ~k.new
  <2>1. H = {k.h}
    BY <1>2
  <2> HIDE DEF H
  <2>2. (CHOOSE h \in H : TRUE) = k.h
    BY <2>1
  <2> QED
    BY <1>2, <2>1, <2>2 DEF Cursor, H
<1> QED
  BY <1>1, <1>2

\* Without a job there is no place.
LEMMA CursorOfNone ==
    ASSUME NEW J, NEW w, \A x \in J : x.w # w
    PROVE  Cursor(J, w) = 0
<1>1. { j.h : j \in { k \in J : k.w = w /\ ~k.new } } = {}
  OBVIOUS
<1> QED
  BY <1>1 DEF Cursor

\* The same jobs of a webhook are the same place.
LEMMA CursorSame ==
    ASSUME NEW J, NEW K, NEW w,
           \A x : x.w = w /\ ~x.new => (x \in J <=> x \in K)
    PROVE  Cursor(J, w) = Cursor(K, w)
<1>1. { k \in J : k.w = w /\ ~k.new } = { k \in K : k.w = w /\ ~k.new }
  OBVIOUS
<1> QED
  BY <1>1 DEF Cursor

\* The registered webhooks are those with a job.
LEMMA JobOfMember ==
    ASSUME IInv, IInv'
    PROVE  /\ \A w : w \in webhookSet <=> \E j \in AllJobs : j.w = w
           /\ \A w : w \in webhookSet' <=> \E j \in AllJobs' : j.w = w
<1>1. /\ PendingIds = { j.w : j \in pending }
      /\ Ids(stream) = { j.w : j \in StreamJobs }
      /\ \A c \in Consumer : PelIds(c) = { j.w : j \in PelJobs(c) }
  BY DEF PendingIds, Ids, StreamJobs, PelIds, PelJobs
<1>2. /\ PendingIds' = { j.w : j \in pending' }
      /\ Ids(stream)' = { j.w : j \in StreamJobs' }
      /\ \A c \in Consumer : PelIds(c)' = { j.w : j \in PelJobs(c)' }
  BY DEF PendingIds, Ids, StreamJobs, PelIds, PelJobs
<1>3. \A w : w \in webhookSet <=> \E j \in AllJobs : j.w = w
  BY <1>1, JobsParted DEF IInv, OneJobPerWebhook, DeliveredIds, OnTheWay
<1>4. \A w : w \in webhookSet' <=> \E j \in AllJobs' : j.w = w
  BY <1>2, JobsParted DEF IInv, OneJobPerWebhook, DeliveredIds, OnTheWay
<1> QED
  BY <1>3, <1>4

\* A webhook has one job.
LEMMA OneJobEach ==
    ASSUME IInv, NEW j \in AllJobs, NEW k \in AllJobs, j.w = k.w
    PROVE  j = k
<1>1. /\ PendingIds = { x.w : x \in pending }
      /\ Ids(stream) = { x.w : x \in StreamJobs }
      /\ \A c \in Consumer : PelIds(c) = { x.w : x \in PelJobs(c) }
  BY DEF PendingIds, Ids, StreamJobs, PelIds, PelJobs
<1>2. /\ PendingIds \cap Ids(stream) = {}
      /\ \A c \in Consumer : PelIds(c) \cap (PendingIds \cup Ids(stream)) = {}
      /\ \A c, d \in Consumer : c # d => PelIds(c) \cap PelIds(d) = {}
  BY DEF IInv, OneJobPerWebhook
<1>3. ASSUME j \in pending, k \in pending PROVE j = k
  BY <1>3 DEF IInv, OneJobPerWebhook
<1>4. ASSUME j \in StreamJobs, k \in StreamJobs PROVE j = k
  BY <1>4 DEF IInv, OneJobPerWebhook, Distinct, StreamJobs
<1>5. ASSUME NEW c \in Consumer, j \in PelJobs(c), k \in PelJobs(c) PROVE j = k
  BY <1>5 DEF IInv, OneJobPerWebhook, PelJobs
<1>6. \/ j \in pending \/ j \in StreamJobs \/ \E c \in Consumer : j \in PelJobs(c)
  BY JobsParted DEF OnTheWay
<1>7. \/ k \in pending \/ k \in StreamJobs \/ \E c \in Consumer : k \in PelJobs(c)
  BY JobsParted DEF OnTheWay
<1>8. CASE j \in pending
  BY <1>1, <1>2, <1>3, <1>7, <1>8
<1>9. CASE j \in StreamJobs
  BY <1>1, <1>2, <1>4, <1>7, <1>9
<1>10. ASSUME NEW c \in Consumer, j \in PelJobs(c) PROVE j = k
  <2>1. k \notin pending /\ k \notin StreamJobs
    BY <1>1, <1>2, <1>10
  <2>2. PICK d \in Consumer : k \in PelJobs(d)
    BY <1>7, <2>1
  <2>3. c = d
    BY <1>1, <1>2, <1>10, <2>2
  <2> QED
    BY <1>5, <1>10, <2>2, <2>3
<1> QED
  BY <1>6, <1>8, <1>9, <1>10

\* A webhook that stays registered, or stays unregistered, and gets no other
\* job keeps the place of its feed.
LEMMA NextSame ==
    ASSUME IInv, IInv', NEW w \in Webhook, w \in webhookSet <=> w \in webhookSet',
           \A x \in AllJobs' : x.w = w => x \in AllJobs
    PROVE  NextHeight(w)' = NextHeight(w)
<1>1. ASSUME NEW x \in AllJobs, x.w = w PROVE x \in AllJobs'
  <2>1. w \in webhookSet
    BY <1>1, JobOfMember
  <2>2. PICK y \in AllJobs' : y.w = w
    BY <2>1, JobOfMember
  <2>3. y = x
    BY <1>1, <2>2, OneJobEach
  <2> QED
    BY <2>2, <2>3
<1> QED
  BY <1>1, CursorSame, NextIsCursor

\* The webhooks whose batches are whole.
WholeFeeds == { w \in Webhook : Whole(w) }

FeedVars == <<stored, rows, WholeFeeds, Feed!feed>>

\* They are the same until a batch is repeated, and then fewer.
LEMMA WholeFeedsKept ==
    /\ repeated' = repeated => WholeFeeds' = WholeFeeds
    /\ (repeated => repeated') => WholeFeeds' \subseteq WholeFeeds
BY DEF WholeFeeds, Whole

\* Nobody outside notices a step that moves jobs.
LEMMA JobsMove ==
    ASSUME IInv, IInv', AllJobs' \subseteq AllJobs,
           UNCHANGED <<webhookSet, stored, repeated, rows, sent, skipped>>
    PROVE  UNCHANGED FeedVars
<1>1. \A w \in Webhook : NextHeight(w)' = NextHeight(w)
  BY NextSame
<1> QED
  BY <1>1, WholeFeedsKept DEF FeedVars, Feed!feed

-----------------------------------------------------------------------------
(* What a worker knows when it drops a job or has fetched its blocks. *)

\* The webhook of a job that is dropped was removed; blocks that are sent are
\* all stored ones between the first and the last, if batches are whole.
InHands(c) ==
    /\ pc[c] = "drop" => Msg(c).w \notin rows
    /\ pc[c] = "post" /\ Whole(Msg(c).w) =>
          \A a, b \in blocks[c] : \A h \in stored : a <= h /\ h <= b => h \in blocks[c]

MapInv == FeedInv /\ \A c \in Consumer : InHands(c)

\* What changes in a worker's hands.
LEMMA HandsMove ==
    ASSUME ~ClientResends, IInv, [Next]_vars, NEW c \in Consumer
    PROVE  \/ pc'[c] \notin {"drop", "post"}
           \/ FindOne(c) \/ FetchBlocks(c)
           \/ pc'[c] = pc[c] /\ blocks'[c] = blocks[c] /\ Msg(c)' = Msg(c)
<1> DEFINE Kept == pc'[c] = pc[c] /\ blocks'[c] = blocks[c] /\ Msg(c)' = Msg(c)
<1>1. /\ pel \in [Consumer -> Seq(Entry)] /\ pc \in [Consumer -> PC]
      /\ pos \in [Consumer -> Nat] /\ blocks \in [Consumer -> SUBSET (1 .. MaxHeight)]
  BY DEF IInv, TypeOK
<1>2. CASE Api \/ Router \/ UNCHANGED vars
  <2>1. UNCHANGED <<pel, worker>>
    BY <1>2 DEF Api, ActivateSelect, ActivateScript, RemoveWebhook, Router, RouterPut,
       RouterReplay, RouterFlush, RouterAck, Flush, redis, vars
  <2> QED
    BY <2>1 DEF worker, Msg
<1>3. ASSUME NEW d \in Consumer, Work(d) \/ ReadError(d) \/ CallError(d), d # c,
             ~Panic(d)
      PROVE  Kept
  <2>1. pc'[c] = pc[c] /\ blocks'[c] = blocks[c] /\ pos'[c] = pos[c]
    BY <1>1, <1>3 DEF Work, ReadError, CallError, BacklogRead, BacklogEnd, NewRead, FindOne,
       FetchBlocks, PostOk, PostError, Drop, Replace, HandlerReturns
  <2>2. pel'[c] = pel[c]
    BY <1>1, <1>3 DEF Work, ReadError, CallError, BacklogRead, BacklogEnd, NewRead, FindOne,
       FetchBlocks, PostOk, PostError, Drop, Replace, Redeliver, Deliver, Tried, Acked, redis
  <2> QED
    BY <2>1, <2>2 DEF Msg
<1>4. ASSUME Work(c) \/ ReadError(c) \/ CallError(c), ~Panic(c), ~FindOne(c), ~FetchBlocks(c)
      PROVE  pc'[c] \notin {"drop", "post"}
  BY <1>1, <1>4 DEF Work, ReadError, CallError, BacklogRead, BacklogEnd, NewRead,
     PostOk, PostError, Drop, Replace, HandlerReturns
<1>5. ASSUME NEW p, Restart(p), UNCHANGED redis
      PROVE  pc'[c] = "backlog" \/ Kept
  BY <1>5 DEF Restart, redis, Msg
<1>6. (\E d \in Consumer : Panic(d)) \/ (\E p \in Process : Crash(p) \/ Exit(p))
          => pc'[c] = "backlog" \/ Kept
  BY <1>5 DEF Panic, Crash, Exit
<1>7. ASSUME NEW d \in Consumer, ReadAgain(d) \/ ReplaceTwice(d) PROVE FALSE
  BY <1>7 DEF ReadAgain, ReplaceTwice
<1> QED
  BY <1>2, <1>3, <1>4, <1>6, <1>7 DEF Next, Failure, Work

\* Rows are only deleted, and the store grows only at its end.
LEMMA OutsideMoves ==
    ASSUME TypeOK, [Next]_vars
    PROVE  rows' \subseteq rows /\ StoreGrows
<1>1. CASE RouterPut
  BY <1>1, PutGrows DEF RouterPut, api
<1>2. CASE ~RouterPut
  <2>1. stored' = stored /\ rows' \subseteq rows
    BY <1>2 DEF Next, Api, ActivateSelect, ActivateScript, RemoveWebhook,
       Router, RouterReplay, RouterFlush, RouterAck, Failure, ReadError, ReadAgain,
       CallError, ReplaceTwice, Crash, Exit, Work, BacklogRead, BacklogEnd, NewRead,
       FindOne, FetchBlocks, Panic, PostOk, PostError, Drop, Replace, vars, router, api
  <2>2. repeated' = TRUE \/ UNCHANGED repeated
    BY <1>2 DEF Next, Api, ActivateSelect, ActivateScript, RemoveWebhook,
       Router, RouterReplay, RouterFlush, RouterAck, Failure, ReadError, ReadAgain,
       CallError, ReplaceTwice, Crash, Exit, Work, BacklogRead, BacklogEnd, NewRead,
       FindOne, FetchBlocks, Panic, PostOk, PostError, Drop, Replace, vars, router
  <2>3. repeated => repeated'
    BY ONLY <2>2
  <2> QED
    BY <2>1, <2>3 DEF StoreGrows
<1> QED
  BY <1>1, <1>2

\* A row that is gone does not come back, and no later block lies between two
\* that were fetched.
LEMMA HandsNext ==
    ASSUME ~ClientResends, FeedInv, [Next]_vars, NEW c \in Consumer, InHands(c)
    PROVE  InHands(c)'
<1>1. IInv /\ TypeOK /\ rows' \subseteq rows /\ StoreGrows
  BY OutsideMoves DEF FeedInv, IInv
<1>2. stored \subseteq Nat /\ stored' \subseteq Nat
  BY <1>1, NextStep, StoredNat, ConstantsAssumption DEF IInv, TypeOK
<1>3. CASE pc'[c] \notin {"drop", "post"}
  BY <1>3 DEF InHands
<1>4. CASE FindOne(c)
  <2>1. /\ Msg(c)' = Msg(c) /\ rows' = rows /\ pc'[c] # "post"
        /\ pc'[c] = "drop" => Msg(c).w \notin rows
    BY <1>1, <1>4 DEF FindOne, redis, api, Msg, IInv, TypeOK
  <2> QED
    BY <2>1 DEF InHands
<1>5. CASE FetchBlocks(c)
  <2>0. PICK j, B : j = Msg(c) /\ B \in Answers(j) /\ blocks' = [blocks EXCEPT ![c] = B]
    BY <1>5 DEF FetchBlocks
  <2>1. /\ j \in Job /\ stored' = stored /\ repeated' = repeated /\ blocks'[c] = B
        /\ pc'[c] = "post" /\ Msg(c)' = j
    BY <1>1, <1>5, <2>0, Holding DEF FetchBlocks, Busy, router, redis, Msg, TypeOK
  <2>2. B \subseteq stored /\ (~j.new => \A b \in B : j.h <= b) /\ j.h \in Nat
    BY <1>1, <2>0, <2>1, AnswerStored DEF Job
  <2>3. ASSUME Whole(j.w), NEW a \in B, NEW b \in B, NEW h \in stored, a <= h, h <= b
        PROVE  h \in B
    <3>1. ~j.new => j.h <= h
      <4>1. a \in Nat /\ h \in Nat /\ (~j.new => j.h <= a)
        BY <1>2, <2>2
      <4> QED
        BY <2>2, <2>3, <4>1
    <3> QED
      BY <1>1, <2>0, <2>1, <2>3, <3>1, AnswerWhole
  <2>4. Whole(j.w)' => Whole(j.w)
    BY <2>1 DEF Whole
  <2> QED
    BY <2>1, <2>3, <2>4 DEF InHands
<1>6. CASE pc'[c] = pc[c] /\ blocks'[c] = blocks[c] /\ Msg(c)' = Msg(c)
  <2>1. CASE pc[c] = "drop"
    BY <1>1, <1>6, <2>1 DEF InHands
  <2>2. CASE pc[c] = "post"
    <3>1. blocks[c] \subseteq stored
      BY <2>2 DEF FeedInv, HandOK
    <3>0. PICK w : w = Msg(c).w /\ w = Msg(c)'.w
      BY <1>6
    <3>3. Whole(w)' => Whole(w)
      BY <1>1, WholeBefore
    <3>2. ASSUME Whole(w), NEW a \in blocks[c], NEW b \in blocks[c], NEW h \in stored', a <= h, h <= b
          PROVE  h \in blocks[c]
      <4>1. h \in Nat /\ b \in Nat /\ b \in stored
        BY <1>2, <3>1
      <4>2. h \in stored
        <5>1. h \notin stored => b < h
          BY <1>1, <4>1 DEF StoreGrows
        <5> QED
          BY <3>2, <4>1, <5>1
      <4> QED
        BY <2>2, <3>0, <3>2, <4>2 DEF InHands
    <3> QED
      BY <1>6, <2>2, <3>0, <3>2, <3>3 DEF InHands
  <2> QED
    BY <1>3, <1>6, <2>1, <2>2
<1> QED
  BY <1>1, <1>3, <1>4, <1>5, <1>6, HandsMove

-----------------------------------------------------------------------------
(* The steps of the relay are steps of the feeds. *)

\* At first no feed has begun.
LEMMA InitMaps == Init => Feed!Init
<1> SUFFICES ASSUME Init PROVE Feed!Init
  OBVIOUS
<1>1. \A c \in Consumer : PelJobs(c) = {}
  BY DEF Init, PelJobs
<1>2. AllJobs = {}
  BY <1>1, JobsParted DEF Init, OnTheWay, StreamJobs
<1>3. \A w \in Webhook : NextHeight(w) = 0
  BY <1>2, NextIsCursor, CursorOfNone
<1> QED
  BY <1>3 DEF Init, Feed!Init, Whole

\* The API removes webhooks; what it activates has no feed yet.
LEMMA ApiMaps ==
    ASSUME IInv, IInv', NEW w \in Webhook,
           ActivateSelect(w) \/ ActivateScript(w) \/ RemoveWebhook(w)
    PROVE  Feed!Next \/ UNCHANGED FeedVars
<1>1. /\ UNCHANGED <<stored, repeated, sent, skipped, stream, pel, pc, pos, blocks>>
      /\ pending \subseteq pending'
      /\ pending' \subseteq pending \cup {[w |-> w, h |-> 0, new |-> TRUE]}
      /\ rows' = rows \/ rows' = rows \ {w}
  BY DEF ActivateSelect, ActivateScript, RemoveWebhook, redis, router, worker, ghost
<1>2. OnTheWay' = OnTheWay
  BY <1>1, WorkersStay DEF OnTheWay, StreamJobs
<1>3. \A x : ~x.new => (x \in AllJobs <=> x \in AllJobs')
  BY <1>1, <1>2, JobsParted
<1>4. \A v \in Webhook : NextHeight(v)' = NextHeight(v)
  BY <1>3, CursorSame, NextIsCursor
<1>5. UNCHANGED <<stored, WholeFeeds, Feed!feed>>
  BY <1>1, <1>4, WholeFeedsKept DEF Feed!feed
<1> QED
  BY <1>1, <1>5 DEF FeedVars, WholeFeeds, Feed!Next, Feed!Remove

\* A batch is stored or repeated; the router's other steps show nothing.
LEMMA RouterMaps ==
    ASSUME FeedInv, IInv', Router
    PROVE  Feed!Next \/ UNCHANGED FeedVars
<1>1. CASE RouterPut
  <2>1. /\ StoreGrows
        /\ UNCHANGED <<repeated, pending, stream, pel, pc, pos, blocks, rows, sent, skipped>>
    BY <1>1, PutGrows DEF FeedInv, IInv, RouterPut, redis, api, worker, ghost
  <2>2. AllJobs' = AllJobs
    BY <2>1, WorkersStay, JobsParted DEF OnTheWay, StreamJobs
  <2>3. \A v \in Webhook : NextHeight(v)' = NextHeight(v)
    BY <2>2, NextIsCursor
  <2> QED
    BY <2>1, <2>3, WholeFeedsKept
       DEF StoreGrows, WholeFeeds, Feed!Next, Feed!Store, Feed!feed
<1>4. CASE RouterReplay
  <2>1. UNCHANGED <<redis, stored, rows, sent, skipped>> /\ (repeated => repeated')
    BY <1>4 DEF RouterReplay, api, ghost
  <2>2. AllJobs' = AllJobs
    BY <2>1 DEF redis, AllJobs
  <2>3. \A v \in Webhook : NextHeight(v)' = NextHeight(v)
    BY <2>2, NextIsCursor
  <2>4. WholeFeeds' \subseteq WholeFeeds
    BY <2>1, WholeFeedsKept
  <2> QED
    BY <2>1, <2>3, <2>4 DEF WholeFeeds, Feed!Next, Feed!Repeat, Feed!feed
<1>2. CASE RouterAck
  <2>1. UNCHANGED <<redis, stored, repeated, rows, sent, skipped>>
    BY <1>2 DEF RouterAck, api, ghost
  <2>2. AllJobs' = AllJobs /\ webhookSet' = webhookSet
    BY <2>1 DEF redis, AllJobs
  <2> QED
    BY <2>1, <2>2, JobsMove DEF FeedInv
<1>3. CASE RouterFlush
  <2>1. AllJobs' \subseteq AllJobs
    BY <1>3, FlushMoves DEF FeedInv, IInv
  <2>2. UNCHANGED <<webhookSet, stored, repeated, rows, sent, skipped>>
    BY <1>3 DEF RouterFlush, Flush, api, router, ghost
  <2> QED
    BY <2>1, <2>2, JobsMove DEF FeedInv
<1> QED
  BY <1>1, <1>2, <1>3, <1>4 DEF Router

\* Reading, looking up, failing and dying show nothing.
LEMMA QuietMaps ==
    ASSUME FeedInv, IInv',
           \/ \E c \in Consumer : \/ BacklogRead(c) \/ BacklogEnd(c) \/ NewRead(c) \/ FindOne(c)
                                  \/ FetchBlocks(c) \/ Panic(c) \/ PostError(c)
                                  \/ ReadError(c) \/ CallError(c)
           \/ \E p \in Process : Crash(p) \/ Exit(p)
    PROVE  UNCHANGED FeedVars
<1>1. UNCHANGED <<webhookSet, stored, repeated, rows, sent, skipped>>
  BY DEF BacklogRead, BacklogEnd, NewRead, FindOne, FetchBlocks, Panic, PostError, ReadError,
         CallError, Crash, Exit, Redeliver, Deliver, redis, api, router, ghost
<1>2. ASSUME NEW c \in Consumer, BacklogRead(c) \/ NewRead(c) \/ ReadError(c), ~UNCHANGED redis
      PROVE  AllJobs' \subseteq AllJobs
  BY <1>2, RedeliverFeed, DeliverFeed DEF BacklogRead, NewRead, ReadError
<1>3. ASSUME NEW c \in Consumer, PostError(c) PROVE AllJobs' \subseteq AllJobs
  BY <1>3, TriedJobs DEF PostError, FeedInv
<1>4. ASSUME UNCHANGED redis PROVE AllJobs' \subseteq AllJobs
  BY <1>4 DEF redis, AllJobs
<1>5. AllJobs' \subseteq AllJobs
  BY <1>2, <1>3, <1>4 DEF BacklogEnd, FindOne, FetchBlocks, Panic, CallError, Crash, Exit
<1> QED
  BY <1>1, <1>5, JobsMove DEF FeedInv

\* Where the feed of the job in hand goes on.
LEMMA NextInHand ==
    ASSUME IInv, NEW c \in Consumer, pc[c] \in Busy
    PROVE  NextHeight(Msg(c).w) = IF Msg(c).new THEN 0 ELSE Msg(c).h
<1>1. Msg(c).w \in Webhook
  BY Holding DEF Job
<1> QED
  BY <1>1, OnlyJob, CursorOfJob, NextIsCursor

\* The customer's URL accepted a first batch or the next one.
LEMMA PostOkMaps ==
    ASSUME MapInv, IInv', NEW c \in Consumer, PostOk(c)
    PROVE  Feed!Next
<1>0. PICK j \in Job, w \in Webhook : j = Msg(c) /\ w = j.w
  BY Holding DEF PostOk, Busy, MapInv, FeedInv, Job
<1>1. /\ FeedInv /\ IInv /\ TypeOK /\ pc[c] = "post" /\ pc[c] \in Busy /\ j.h \in Nat
      /\ Tried(c) /\ UNCHANGED <<pending, stream>>
  BY DEF PostOk, Busy, MapInv, FeedInv, IInv, Job
<1>2. /\ UNCHANGED <<stored, WholeFeeds, rows, skipped>>
      /\ sent' = [sent EXCEPT ![w] = IF j.new THEN blocks[c] ELSE @ \cup blocks[c]]
  BY <1>0, WholeFeedsKept DEF PostOk, api, router
<1>3. AllJobs' = AllJobs
  BY <1>1, TriedJobs
<1>4. \A v \in Webhook : NextHeight(v)' = NextHeight(v)
  BY <1>3, NextIsCursor
<1>5. NextHeight(w) = IF j.new THEN 0 ELSE j.h
  BY <1>0, <1>1, NextInHand
<1>6. /\ blocks[c] \in SUBSET (1 .. MaxHeight) /\ MaxHeight \in Nat
      /\ blocks[c] \subseteq Nat /\ blocks[c] # {} /\ blocks[c] \subseteq stored
      /\ stored \subseteq Nat
  BY <1>1, StoredNat, ConstantsAssumption DEF TypeOK, IInv, WorkerOK, FeedInv, HandOK
<1> DEFINE m == Min(blocks[c])
           n == Max(blocks[c])
<1>7. /\ m \in blocks[c] /\ n \in blocks[c]
      /\ \A x \in blocks[c] : m <= x /\ x <= n
  BY <1>6, MinOfNats, MaxOfHeights
<1> HIDE DEF m, n
<1>8. CASE j.new
  <2>1. blocks[c] \in Feed!Batches(w, m, n)
    <3>1. Whole(w) => \A h \in stored : m <= h /\ h <= n => h \in blocks[c]
      BY <1>0, <1>1, <1>7 DEF MapInv, InHands
    <3>2. blocks[c] \subseteq Feed!Between(m, n)
      BY <1>6, <1>7 DEF Feed!Between
    <3>3. Whole(w) => blocks[c] = Feed!Between(m, n)
      BY <3>1, <3>2 DEF Feed!Between
    <3> QED
      BY <1>6, <3>2, <3>3 DEF Feed!Batches
  <2>2. m \in stored /\ n \in stored
    BY <1>6, <1>7
  <2>3. sent' = [sent EXCEPT ![w] = blocks[c]]
    BY <1>2, <1>8
  <2>4. Feed!Begin(w)
    BY <1>2, <1>4, <1>5, <1>8, <2>1, <2>2, <2>3 DEF WholeFeeds, Feed!Begin
  <2> QED
    BY <2>4 DEF Feed!Next
<1>9. CASE ~j.new
  <2>1. blocks[c] \in Feed!Batches(w, j.h, n)
    <3>1. /\ \A b \in blocks[c] : j.h <= b
          /\ Whole(w) => \A h \in stored : j.h <= h /\ h <= n => h \in blocks[c]
      BY <1>0, <1>1, <1>7, <1>9 DEF FeedInv, HandOK
    <3>2. blocks[c] \subseteq Feed!Between(j.h, n)
      BY <1>6, <1>7, <3>1 DEF Feed!Between
    <3>3. Whole(w) => blocks[c] = Feed!Between(j.h, n)
      BY <3>1, <3>2 DEF Feed!Between
    <3> QED
      BY <1>6, <3>2, <3>3 DEF Feed!Batches
  <2>3. n \in stored
    BY <1>6, <1>7
  <2>4. sent' = [sent EXCEPT ![w] = @ \cup blocks[c]]
    BY <1>2, <1>9
  <2>5. NextHeight(w) = j.h /\ j.h # 0
    <3>1. JobOK(j)
      BY <1>0, <1>1, OnlyJob DEF FeedInv
    <3> QED
      BY <1>1, <1>5, <1>9, <3>1 DEF JobOK
  <2>6. Feed!Deliver(w)
    BY <1>2, <1>4, <2>1, <2>3, <2>4, <2>5 DEF WholeFeeds, Feed!Deliver
  <2> QED
    BY <2>6 DEF Feed!Next
<1> QED
  BY <1>8, <1>9

\* The feed of a removed webhook ends.
LEMMA DropMaps ==
    ASSUME MapInv, IInv', NEW c \in Consumer, Drop(c)
    PROVE  Feed!Next
<1>0. PICK w \in Webhook : w = Msg(c).w
  BY Holding DEF Drop, Busy, MapInv, FeedInv, Job
<1>1. /\ FeedInv /\ IInv /\ pc[c] = "drop" /\ pc[c] \in Busy /\ Acked(c)
      /\ HandlerReturns(c, FALSE)
      /\ webhookSet' = webhookSet \ {w}
      /\ UNCHANGED <<stored, WholeFeeds, rows, sent, skipped, pending, stream>>
  BY <1>0, WholeFeedsKept DEF Drop, Busy, MapInv, FeedInv, api, router, ghost
<1>2. \A d \in Consumer : PelJobs(d)' \subseteq PelJobs(d)
  BY <1>1, AckedFeed
<1>3. AllJobs' \subseteq AllJobs
  BY <1>1, <1>2, JobsParted DEF OnTheWay, StreamJobs
<1>4. \A v \in Webhook : v # w => NextHeight(v)' = NextHeight(v)
  BY <1>1, <1>3, NextSame
<1>5. NextHeight(w)' = 0
  <2>1. \A x \in AllJobs' : x.w # w
    BY <1>1, JobOfMember
  <2> QED
    BY <2>1, CursorOfNone, NextIsCursor
<1>6. w \notin rows
  BY <1>0, <1>1 DEF MapInv, InHands
<1>7. Feed!End(w)
  BY <1>1, <1>4, <1>5, <1>6 DEF WholeFeeds, Feed!End
<1> QED
  BY <1>7 DEF Feed!Next

\* After a job was replaced its successor is the only one of the webhook.
LEMMA ReplaceJobs ==
    ASSUME FeedInv, NEW c \in Consumer, Replace(c), NEW k \in Job, k = Successor(c)
    PROVE  /\ k \in AllJobs'
           /\ \A x \in AllJobs' : x = k \/ (x \in AllJobs /\ x.w # Msg(c).w)
<1>1. /\ pc[c] \in Busy /\ Acked(c) /\ HandlerReturns(c, FALSE) /\ Reschedule(k)
  BY DEF Replace, Busy
<1>2. \A d \in Consumer : PelJobs(d)' \subseteq PelJobs(d)
  BY <1>1, AckedFeed
<1>3. /\ Msg(c).w \notin DeliveredIds'
      /\ Msg(c).w \notin PendingIds /\ Msg(c).w \notin Ids(stream)
  BY <1>1, AckedJob DEF FeedInv
<1>4. /\ pending' \subseteq pending \cup {k} /\ StreamJobs' \subseteq StreamJobs \cup {k}
      /\ k \in pending' \cup StreamJobs'
  <2>1. CASE k.h >= latest
    BY <1>1, <2>1 DEF Reschedule, StreamJobs
  <2>2. CASE ~(k.h >= latest)
    <3>1. stream' = Append(stream, k) /\ UNCHANGED pending
      BY <1>1, <2>2 DEF Reschedule
    <3>2. stream \in Seq(Job) /\ Len(stream) \in Nat
      BY DEF FeedInv, IInv, TypeOK
    <3>3. /\ Len(stream') = Len(stream) + 1 /\ stream'[Len(stream) + 1] = k
          /\ \A i \in 1 .. Len(stream) : stream'[i] = stream[i]
      BY <3>1, <3>2
    <3>4. Len(stream) + 1 \in 1 .. Len(stream')
      BY <3>2, <3>3
    <3> QED
      BY <3>1, <3>2, <3>3, <3>4 DEF StreamJobs
  <2> QED
    BY <2>1, <2>2
<1>5. ASSUME NEW x \in AllJobs' PROVE x = k \/ (x \in AllJobs /\ x.w # Msg(c).w)
  <2>1. CASE x \in pending \/ x \in StreamJobs
    BY <1>3, <2>1, JobsParted DEF OnTheWay, PendingIds, StreamJobs, Ids
  <2>2. ASSUME NEW d \in Consumer, x \in PelJobs(d)'
        PROVE  x \in AllJobs /\ x.w # Msg(c).w
    <3>1. x.w \in PelIds(d)'
      BY <2>2 DEF PelJobs, PelIds
    <3>2. x.w \in DeliveredIds'
      BY <3>1 DEF DeliveredIds
    <3>3. x \in PelJobs(d)
      BY <1>2, <2>2
    <3> QED
      BY <1>3, <3>2, <3>3, JobsParted DEF OnTheWay
  <2>3. x = k \/ x \in pending \/ x \in StreamJobs \/ \E d \in Consumer : x \in PelJobs(d)'
    BY <1>4, <1>5, JobsParted DEF OnTheWay
  <2> QED
    BY <2>1, <2>2, <2>3
<1>6. k \in AllJobs'
  BY <1>4, JobsParted DEF OnTheWay
<1> QED
  BY <1>5, <1>6

\* A feed goes on behind what was sent, or gives one height up.
LEMMA ReplaceMaps ==
    ASSUME MapInv, IInv', NEW c \in Consumer, Replace(c)
    PROVE  Feed!Next \/ UNCHANGED FeedVars
<1>0. PICK j \in Job, w \in Webhook : j = Msg(c) /\ w = j.w
  BY Holding DEF Replace, Busy, MapInv, FeedInv, Job
<1>1. /\ FeedInv /\ IInv /\ TypeOK /\ pc[c] \in {"skip", "ack"} /\ pc[c] \in Busy /\ j.h \in Nat
      /\ UNCHANGED <<stored, WholeFeeds, rows, sent, webhookSet>>
  BY WholeFeedsKept DEF Replace, Busy, MapInv, FeedInv, IInv, Job, api, router
<1>2. skipped' = IF pc[c] = "skip" /\ ~j.new THEN [skipped EXCEPT ![w] = @ \cup {j.h}]
                 ELSE skipped
  BY <1>0 DEF Replace, GiveUp
<1>3. PICK k \in Job : k = Successor(c)
  BY <1>1, Holding, SuccessorOfJob DEF IInv, WorkerOK
<1>4. k.w = w
  BY <1>0, <1>1, <1>3, Holding, SuccessorOfJob DEF IInv, WorkerOK
<1>5. k \in AllJobs' /\ \A x \in AllJobs' : x = k \/ (x \in AllJobs /\ x.w # w)
  BY <1>0, <1>1, <1>3, ReplaceJobs
<1>6. NextHeight(w)' = IF k.new THEN 0 ELSE k.h
  BY <1>4, <1>5, CursorOfJob, NextIsCursor
<1>7. NextHeight(w) = IF j.new THEN 0 ELSE j.h
  BY <1>0, <1>1, NextInHand
<1>8. \A v \in Webhook : v # w => NextHeight(v)' = NextHeight(v)
  BY <1>1, <1>4, <1>5, NextSame
<1>9. JobOK(j) /\ InReach(j)
  BY <1>0, <1>1, OnlyJob DEF FeedInv
<1>10. CASE pc[c] = "skip" /\ j.new
  <2>1. k.new
    BY <1>0, <1>3, <1>10 DEF Successor
  <2> QED
    BY <1>1, <1>2, <1>6, <1>7, <1>8, <1>10, <2>1 DEF FeedVars, Feed!feed
<1>11. CASE pc[c] = "skip" /\ ~j.new
  <2>1. ~k.new /\ k.h = j.h + 1
    BY <1>0, <1>3, <1>11 DEF Successor
  <2>2. j.h # 0 /\ \E g \in stored : j.h <= g
    BY <1>1, <1>9, <1>11 DEF JobOK, InReach
  <2>3. Feed!GiveUp(w)
    BY <1>1, <1>2, <1>6, <1>7, <1>8, <1>11, <2>1, <2>2 DEF WholeFeeds, Feed!GiveUp
  <2> QED
    BY <2>3 DEF Feed!Next
<1>12. CASE pc[c] = "ack"
  <2> DEFINE h == LastBlock(c)
  <2>1. ~k.new /\ k.h = h + 1
    BY <1>0, <1>3, <1>12 DEF Successor
  <2>2. /\ blocks[c] # {} /\ blocks[c] \subseteq stored /\ blocks[c] \subseteq sent[w]
        /\ blocks[c] \in SUBSET (1 .. MaxHeight) /\ MaxHeight \in Nat
        /\ blocks[c] \subseteq Nat /\ stored \subseteq Nat
        /\ j.new => blocks[c] = sent[w]
        /\ ~j.new => /\ \A b \in blocks[c] : j.h <= b
                     /\ Whole(w) => \A g \in stored : \A b \in blocks[c] :
                           j.h <= g /\ g <= b => g \in blocks[c]
    BY <1>0, <1>1, <1>12, StoredNat, ConstantsAssumption
       DEF FeedInv, HandOK, IInv, WorkerOK, TypeOK
  <2>3. /\ h \in blocks[c] /\ h \in sent[w] /\ h \in Nat
        /\ j.new => \A b \in blocks[c] : h <= b
    <3>1. CASE j.new
      BY <1>0, <2>2, <3>1, MinOfNats DEF LastBlock
    <3>2. CASE ~j.new
      BY <1>0, <2>2, <3>2, MaxOfHeights DEF LastBlock
    <3> QED
      BY <3>1, <3>2
  <2> HIDE DEF h
  <2>4. NextHeight(w) <= h
    BY <1>7, <2>2, <2>3
  <2>5. ASSUME Whole(w) PROVE Feed!Due(w, h) \subseteq sent[w]
    <3>1. CASE j.new
      <4>1. ASSUME NEW g \in stored, NEW f \in sent[w], g <= h, f <= g PROVE g \in sent[w]
        <5>1. f \in Nat /\ g \in Nat /\ h <= f
          BY <2>2, <2>3, <3>1
        <5>2. g = h
          BY <2>3, <4>1, <5>1
        <5> QED
          BY <2>3, <5>2
      <4> QED
        BY <1>7, <3>1, <4>1 DEF Feed!Due
    <3>2. CASE ~j.new
      <4>1. j.h # 0
        BY <1>1, <1>9, <3>2 DEF JobOK
      <4>2. NextHeight(w) = j.h
        BY <1>7, <3>2
      <4> QED
        BY <2>2, <2>3, <2>5, <3>2, <4>1, <4>2 DEF Feed!Due
    <3> QED
      BY <3>1, <3>2
  <2>6. NextHeight(w)' = h + 1
    BY <1>6, <2>1
  <2>7. Feed!Advance(w)
    BY <1>1, <1>2, <1>8, <1>12, <2>3, <2>4, <2>5, <2>6 DEF WholeFeeds, Feed!Advance
  <2> QED
    BY <2>7 DEF Feed!Next
<1> QED
  BY <1>1, <1>10, <1>11, <1>12

\* Every step, by the action it is.
LEMMA StepMaps ==
    ASSUME ~ClientResends, MapInv, IInv', [Next]_vars
    PROVE  [Feed!Next]_FeedVars
<1> SUFFICES Feed!Next \/ UNCHANGED FeedVars
  OBVIOUS
<1>1. FeedInv /\ IInv
  BY DEF MapInv, FeedInv
<1>2. CASE Api
  BY <1>1, <1>2, ApiMaps DEF Api
<1>3. CASE Router
  BY <1>1, <1>3, RouterMaps
<1>4. ASSUME NEW c \in Consumer, Work(c) \/ ReadError(c) \/ CallError(c)
      PROVE  Feed!Next \/ UNCHANGED FeedVars
  <2>1. CASE PostOk(c)
    BY <2>1, PostOkMaps
  <2>2. CASE Drop(c)
    BY <2>2, DropMaps
  <2>3. CASE Replace(c)
    BY <2>3, ReplaceMaps
  <2>4. CASE ~(PostOk(c) \/ Drop(c) \/ Replace(c))
    BY <1>1, <1>4, <2>4, QuietMaps DEF Work
  <2> QED
    BY <2>1, <2>2, <2>3, <2>4
<1>5. ASSUME NEW c \in Consumer, ReadAgain(c) \/ ReplaceTwice(c) PROVE FALSE
  BY <1>5 DEF ReadAgain, ReplaceTwice
<1>6. CASE \E p \in Process : Crash(p) \/ Exit(p)
  BY <1>1, <1>6, QuietMaps
<1>7. CASE UNCHANGED vars
  <2>1. AllJobs' = AllJobs /\ UNCHANGED <<webhookSet, stored, repeated, rows, sent, skipped>>
    BY <1>7 DEF vars, redis, api, router, ghost, AllJobs
  <2> QED
    BY <1>1, <2>1, JobsMove
<1> QED
  BY <1>2, <1>3, <1>4, <1>5, <1>6, <1>7 DEF Next, Failure

\* A shard implements what WebhookFeed promises to its customers: for any number
\* of webhooks, replicas and workers, range lengths, retry limits, gaps in the
\* store, crashes, failed calls and repeated batches, each step of the relay, the
\* router and the API begins a feed, takes it on in order, gives one height up,
\* ends the feed of a removed webhook, or is not seen by customers.  Batches are
\* whole until one is repeated on the block stream, and always when they are of
\* one block; after that a longer batch may leave blocks out, and all that is
\* promised of it is the order.
THEOREM RelayImplementsFeed == ASSUME ~ClientResends PROVE Spec => FeedIsImplemented
<1>1. Init => MapInv
  BY InitFeed DEF Init, MapInv, InHands
<1>2. MapInv /\ [Next]_vars => MapInv'
  BY FeedNext, HandsNext DEF MapInv
<1>3. MapInv /\ MapInv' /\ [Next]_vars
         => [Feed!Next]_<<stored, rows, { w \in Webhook : Whole(w) }, Feed!feed>>
  BY StepMaps DEF MapInv, FeedInv, FeedVars, WholeFeeds
<1> QED
  BY InitMaps, <1>1, <1>2, <1>3, PTL DEF Spec, FeedIsImplemented, Feed!Spec
=============================================================================
