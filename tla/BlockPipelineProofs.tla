------------------------ MODULE BlockPipelineProofs ------------------------
(***************************************************************************)
(* Proofs about BlockPipeline, for any number of shards, batch size, chain *)
(* and number of failures.                                                 *)
(***************************************************************************)
EXTENDS BlockPipeline, FiniteSetTheorems, SequenceTheorems, TLAPS

\* The heights of the bounded chain.
Top    == IF FirstHead > MaxHeight THEN FirstHead ELSE MaxHeight
Height == 0 .. Top

Elems(s) == { s[i] : i \in 1 .. Len(s) }

-----------------------------------------------------------------------------
(* The inductive invariant. *)

Typed ==
    /\ head \in Height /\ headers \in Seq(Height) /\ curr \in Nat
    /\ fwd \in {"start", "subscribe", "run", "catchup"}
    /\ isBehind \in BOOLEAN /\ backlog \in BOOLEAN /\ failed \in BOOLEAN
    /\ stream \in Seq(Height) /\ pel \in Seq(Height)
    /\ pc \in {"backlog", "new", "put", "flush", "ack"}
    /\ pos \in Nat /\ held \in Nat /\ todo \subseteq Shard
    /\ stored \subseteq Height /\ forwarded \subseteq Height
    /\ latest \in [Shard -> Height] /\ reached \in [Shard -> Height]
    /\ faults \in Nat /\ coldStarts \in Nat /\ resent \in BOOLEAN

\* A subscription has handled a header only while it is open.
CatchingUp == fwd = "catchup" => headers # <<>>

\* The handler's batch is a part of the backlog, and is not empty.
InHand ==
    /\ pos + held <= Len(pel)
    /\ pc \in {"put", "flush", "ack"} => held > 0
    /\ pc \in {"backlog", "new"} => held = 0

\* Shards that have been flushed with the whole batch in hand.
Announced(s) == \A h \in Batch : reached[s] >= h

\* How far the batch in hand has come.
Progress ==
    /\ pc \in {"flush", "ack"} => Batch \subseteq stored
    /\ pc = "flush" /\ ~failed => \A s \in Shard \ todo : Announced(s)
    /\ pc = "ack" => \A s \in Shard : Announced(s)

IInv == Typed /\ CatchingUp /\ InHand /\ Progress /\ AckedIsRouted /\ LatestIsStored

-----------------------------------------------------------------------------
(* Facts about heights and sequences of heights. *)

\* The head starts and ends at heights, and heights have a top.
LEMMA TopType == Top \in Nat /\ FirstHead \in Height /\ MaxHeight \in Height
BY ConstantsAssumption DEF Top, Height

\* A nonempty set of heights has a largest element, which Max returns.
LEMMA MaxOfHeights ==
    ASSUME NEW S \in SUBSET Height, S # {}
    PROVE  Max(S) \in S /\ \A x \in S : x <= Max(S)
<1> DEFINE T == { Top - x : x \in S }
<1>1. T \in SUBSET Nat /\ T # {}
  <2>1. \A x \in S : Top - x \in Nat
    BY TopType DEF Height
  <2> QED
    BY <2>1
<1>2. PICK m \in T : \A t \in T : ~ (<<t, m>> \in OpToRel(<, Nat))
  <2> HIDE DEF T
  <2> QED
    BY <1>1, NatLessThanWellFounded, WFMin
<1>3. ASSUME NEW t \in T PROVE m <= t
  <2>1. <<t, m>> \notin { ss \in Nat \X Nat : ss[1] < ss[2] }
    BY <1>2 DEF OpToRel
  <2>2. t \in Nat /\ m \in Nat
    BY <1>1
  <2> QED
    BY <2>1, <2>2
<1>4. PICK x \in S : m = Top - x
  OBVIOUS
<1>5. \A y \in S : Top - x <= Top - y
  BY <1>3, <1>4
<1>6. \A y \in S : y <= x
  BY <1>5, TopType DEF Height
<1> QED
  BY <1>6 DEF Max

\* The blocks of a stream after XADD of one more.
LEMMA ElemsOfAppend ==
    ASSUME NEW s \in Seq(Height), NEW h \in Height
    PROVE  Append(s, h) \in Seq(Height) /\ Elems(Append(s, h)) = Elems(s) \cup {h}
<1>1. /\ Len(Append(s, h)) = Len(s) + 1 /\ Len(s) \in Nat
      /\ \A i \in 1 .. Len(s) : Append(s, h)[i] = s[i]
      /\ Append(s, h)[Len(s) + 1] = h
      /\ Append(s, h) \in Seq(Height)
  OBVIOUS
<1> DEFINE t == Append(s, h)
<1> HIDE DEF t
<1>2. ASSUME NEW x \in Elems(t) PROVE x \in Elems(s) \cup {h}
  BY <1>1, <1>2 DEF Elems, t
<1>3. ASSUME NEW x \in Elems(s) PROVE x \in Elems(t)
  BY <1>1, <1>3 DEF Elems, t
<1>4. h \in Elems(t)
  BY <1>1 DEF Elems, t
<1> QED
  BY <1>1, <1>2, <1>3, <1>4 DEF t

\* The blocks of two streams one after the other.
LEMMA ElemsOfConcat ==
    ASSUME NEW s \in Seq(Height), NEW t \in Seq(Height)
    PROVE  /\ s \o t \in Seq(Height) /\ Len(s \o t) = Len(s) + Len(t)
           /\ \A i \in 1 .. Len(s) : (s \o t)[i] = s[i]
           /\ Elems(s \o t) = Elems(s) \cup Elems(t)
<1> DEFINE u == s \o t
<1>1. /\ u \in Seq(Height) /\ Len(s) \in Nat /\ Len(t) \in Nat
      /\ Len(u) = Len(s) + Len(t)
      /\ \A i \in 1 .. Len(s) : u[i] = s[i]
      /\ \A i \in 1 .. Len(u) : i > Len(s) => u[i] = t[i - Len(s)]
      /\ \A i \in 1 .. Len(t) : u[Len(s) + i] = t[i]
  BY ConcatProperties
<1> HIDE DEF u
<1>2. ASSUME NEW x \in Elems(u) PROVE x \in Elems(s) \cup Elems(t)
  <2>1. PICK i \in 1 .. Len(u) : x = u[i]
    BY <1>2 DEF Elems
  <2>2. CASE i <= Len(s)
    BY <1>1, <2>1, <2>2 DEF Elems
  <2>3. CASE i > Len(s)
    <3>1. i - Len(s) \in 1 .. Len(t)
      BY <1>1, <2>3
    <3> QED
      BY <1>1, <2>1, <2>3, <3>1 DEF Elems
  <2> QED
    BY <1>1, <2>2, <2>3
<1>3. ASSUME NEW x \in Elems(s) PROVE x \in Elems(u)
  BY <1>1, <1>3 DEF Elems
<1>4. ASSUME NEW x \in Elems(t) PROVE x \in Elems(u)
  <2>1. PICK i \in 1 .. Len(t) : x = t[i]
    BY <1>4 DEF Elems
  <2>2. Len(s) + i \in 1 .. Len(u)
    BY <1>1
  <2> QED
    BY <1>1, <2>1, <2>2 DEF Elems
<1> QED
  BY <1>1, <1>2, <1>3, <1>4 DEF u

\* A sequence is cut into the first n elements and the others.
LEMMA ElemsOfCut ==
    ASSUME NEW s \in Seq(Height), NEW n \in 0 .. Len(s)
    PROVE  /\ SubSeq(s, 1, n) \in Seq(Height) /\ Len(SubSeq(s, 1, n)) = n
           /\ SubSeq(s, n + 1, Len(s)) \in Seq(Height)
           /\ Len(SubSeq(s, n + 1, Len(s))) = Len(s) - n
           /\ \A i \in 1 .. n : s[i] \in Elems(SubSeq(s, 1, n))
           /\ \A i \in n + 1 .. Len(s) : s[i] \in Elems(SubSeq(s, n + 1, Len(s)))
<1> DEFINE a == SubSeq(s, 1, n)
           b == SubSeq(s, n + 1, Len(s))
<1>1. Len(s) \in Nat /\ \A i \in 1 .. Len(s) : s[i] \in Height
  OBVIOUS
<1>2. a \in Seq(Height) /\ Len(a) = n /\ \A i \in 1 .. n : a[i] = s[i]
  <2>1. \A i \in 1 .. n : s[i] \in Height
    BY <1>1
  <2> QED
    BY <1>1, <2>1, SubSeqProperties
<1>3. b \in Seq(Height) /\ Len(b) = Len(s) - n
      /\ \A i \in 1 .. Len(s) - n : b[i] = s[n + i]
  <2>1. \A i \in n + 1 .. Len(s) : s[i] \in Height
    BY <1>1
  <2> QED
    BY <1>1, <2>1, SubSeqProperties
<1> HIDE DEF a, b
<1>4. ASSUME NEW i \in n + 1 .. Len(s) PROVE s[i] \in Elems(b)
  <2>1. i - n \in 1 .. Len(s) - n /\ n + (i - n) = i
    BY <1>1
  <2> QED
    BY <1>3, <2>1 DEF Elems
<1> QED
  BY <1>2, <1>3, <1>4 DEF a, b, Elems

\* The blocks that wait: those of the stream and those of the backlog.
LEMMA Queued ==
    ASSUME NEW h
    PROVE  InQueue(h) <=> h \in Elems(stream) \cup Elems(pel)
BY DEF InQueue, Elems

\* The same after a step.
LEMMA QueuedNext ==
    ASSUME NEW h
    PROVE  InQueue(h)' <=> h \in Elems(stream') \cup Elems(pel')
BY DEF InQueue, Elems

\* The queue's part of AckedIsRouted: no height leaves the two queues.
LEMMA StillQueued ==
    ASSUME AckedIsRouted, forwarded' \subseteq forwarded \cup Elems(stream'),
           Elems(stream) \cup Elems(pel) \subseteq Elems(stream') \cup Elems(pel'),
           stored \subseteq stored',
           \A s \in Shard, h \in forwarded : reached[s] >= h => reached'[s] >= h
    PROVE  AckedIsRouted'
<1> SUFFICES ASSUME NEW h \in forwarded'
             PROVE  h \in Elems(stream') \cup Elems(pel')
                    \/ (h \in stored' /\ \A s \in Shard : reached'[s] >= h)
  BY QueuedNext DEF AckedIsRouted
<1>1. CASE h \in forwarded
  BY <1>1, Queued DEF AckedIsRouted
<1> QED
  BY <1>1

-----------------------------------------------------------------------------
(* The initial states. *)

\* The pipeline starts with nothing stored, announced or queued.
LEMMA InitIInv == Init => IInv
<1> SUFFICES ASSUME Init PROVE IInv
  OBVIOUS
<1> USE DEF Init
<1>1. Typed
  <2>1. 0 \in Height /\ FirstHead \in Height
    BY TopType DEF Height
  <2>2. latest \in [Shard -> Height] /\ reached \in [Shard -> Height]
    BY <2>1
  <2>3. /\ headers \in Seq(Height) /\ stream \in Seq(Height) /\ pel \in Seq(Height)
        /\ stored \subseteq Height /\ forwarded \subseteq Height
    OBVIOUS
  <2>4. /\ isBehind \in BOOLEAN /\ backlog \in BOOLEAN /\ failed \in BOOLEAN
        /\ resent \in BOOLEAN
    OBVIOUS
  <2> QED
    BY <2>1, <2>2, <2>3, <2>4 DEF Typed
<1>2. CatchingUp /\ InHand /\ Progress /\ AckedIsRouted /\ LatestIsStored
  BY DEF CatchingUp, InHand, Progress, AckedIsRouted, LatestIsStored
<1> QED
  BY <1>1, <1>2 DEF IInv

-----------------------------------------------------------------------------
(* The node and the forwarder. *)

\* Steps of the node and the forwarder leave the router alone, so that only
\* the forwarded heights and the block stream matter.
LEMMA ForwarderKeeps ==
    ASSUME IInv, Typed', CatchingUp', UNCHANGED <<pel, router, stored, shards>>,
           \/ UNCHANGED <<stream, forwarded>>
           \/ \E h \in Height : XAdd(h)
    PROVE  IInv'
<1> USE DEF IInv
<1>1. InHand' /\ Progress' /\ LatestIsStored'
  BY DEF router, shards, InHand, Progress, LatestIsStored, Announced, Batch
<1>2. /\ forwarded' \subseteq forwarded \cup Elems(stream')
      /\ Elems(stream) \subseteq Elems(stream')
  <2>1. CASE UNCHANGED <<stream, forwarded>>
    BY <2>1
  <2>2. ASSUME NEW h \in Height, XAdd(h)
        PROVE  /\ forwarded' \subseteq forwarded \cup Elems(stream')
               /\ Elems(stream) \subseteq Elems(stream')
    <3>1. Elems(stream') = Elems(stream) \cup {h}
      BY <2>2, ElemsOfAppend DEF XAdd, Typed
    <3> QED
      BY <2>2, <3>1 DEF XAdd
  <2> QED
    BY <2>1, <2>2
<1>3. AckedIsRouted'
  <2>1. pel' = pel /\ stored' = stored /\ reached' = reached
    BY DEF shards
  <2> QED
    BY <1>2, <2>1, StillQueued
<1> QED
  BY <1>1, <1>3

\* XADD keeps the block stream a sequence of heights.
LEMMA XAddTyped ==
    ASSUME IInv, NEW h \in Height, XAdd(h)
    PROVE  stream' \in Seq(Height) /\ forwarded' \subseteq Height
BY ElemsOfAppend DEF IInv, Typed, XAdd

\* The node's and the forwarder's actions: they only add blocks to the stream.
LEMMA NewHeadStep == ASSUME IInv, NewHead PROVE IInv'
<1> USE DEF NewHead
<1>1. head + 1 \in Height /\ head' = head + 1
  BY TopType DEF IInv, Typed, Height
<1>2. headers' \in Seq(Height) /\ (headers # <<>> => headers' # <<>>)
  <2>1. Append(headers, head + 1) \in Seq(Height) /\ Append(headers, head + 1) # <<>>
    BY <1>1, ElemsOfAppend DEF IInv, Typed
  <2> QED
    BY <2>1 DEF IInv, Typed
<1>3. Typed'
  BY <1>1, <1>2 DEF IInv, Typed, queue, router, shards
<1>4. CatchingUp'
  BY <1>2 DEF IInv, CatchingUp
<1> QED
  BY <1>3, <1>4, ForwarderKeeps DEF queue

\* The forwarder asks the store where to start.
LEMMA StartForwarderStep == ASSUME IInv, StartForwarder PROVE IInv'
<1> USE DEF StartForwarder
<1>1. curr' \in Nat
  <2>1. CASE stored = {}
    BY <2>1
  <2>2. CASE stored # {}
    <3>1. Max(stored) \in Height
      BY <2>2, MaxOfHeights DEF IInv, Typed
    <3> QED
      BY <2>2, <3>1 DEF Height
  <2> QED
    BY <2>1, <2>2
<1>2. Typed'
  BY <1>1 DEF IInv, Typed, queue, router, shards
<1>3. CatchingUp'
  BY DEF CatchingUp
<1> QED
  BY <1>2, <1>3, ForwarderKeeps DEF queue

\* It subscribes to new headers.
LEMMA SubscribeStep == ASSUME IInv, SubscribeNewHead PROVE IInv'
<1> USE DEF SubscribeNewHead
<1>1. Typed'
  BY DEF IInv, Typed, queue, router, shards
<1>2. CatchingUp'
  BY DEF CatchingUp
<1> QED
  BY <1>1, <1>2, ForwarderKeeps DEF queue

\* It forwards a header.
LEMMA ForwardHeaderStep == ASSUME IInv, ForwardHeader PROVE IInv'
<1> USE DEF ForwardHeader
<1>1. Head(headers) \in Height /\ Tail(headers) \in Seq(Height)
  BY DEF IInv, Typed
<1>2. Typed'
  BY <1>1, XAddTyped DEF IInv, Typed, router, shards
<1>3. CatchingUp'
  BY DEF CatchingUp
<1> QED
  BY <1>1, <1>2, <1>3, ForwarderKeeps

\* It catches up by one block, or is done.
LEMMA CatchUpStep == ASSUME IInv, CatchUp PROVE IInv'
<1> USE DEF CatchUp
<1>1. Head(headers) \in Height /\ Tail(headers) \in Seq(Height)
  BY DEF IInv, Typed, CatchingUp
<1>2. CASE curr <= Head(headers)
  <2>1. curr \in Height /\ XAdd(curr) /\ curr' = curr + 1
    BY <1>1, <1>2, TopType DEF IInv, Typed, Height
  <2>2. Typed'
    BY <1>2, <2>1, XAddTyped DEF IInv, Typed, router, shards
  <2>3. CatchingUp'
    BY <1>2 DEF IInv, CatchingUp
  <2> QED
    BY <2>1, <2>2, <2>3, ForwarderKeeps
<1>3. CASE ~(curr <= Head(headers))
  <2>1. Typed'
    BY <1>1, <1>3 DEF IInv, Typed, router, shards
  <2>2. CatchingUp'
    BY <1>3 DEF CatchingUp
  <2> QED
    BY <1>3, <2>1, <2>2, ForwarderKeeps
<1> QED
  BY <1>2, <1>3

\* The first header of a forwarder that is behind.
LEMMA BeginCatchUpStep == ASSUME IInv, BeginCatchUp PROVE IInv'
<1> USE DEF BeginCatchUp
<1>1. Typed'
  BY DEF IInv, Typed, queue, router, shards
<1>2. CatchingUp'
  BY DEF CatchingUp
<1> QED
  BY <1>1, <1>2, ForwarderKeeps DEF queue

\* The forwarder dies.
LEMMA ForwarderExitStep == ASSUME IInv, ForwarderExit PROVE IInv'
<1> USE DEF ForwarderExit, Fault
<1>1. UNCHANGED <<head, queue, router, stored, shards, forwarded, coldStarts, resent>>
  OBVIOUS
<1>2. /\ faults' \in Nat /\ curr' \in Nat /\ headers' \in Seq(Height)
      /\ fwd' = "start" /\ isBehind' = FALSE
  BY DEF IInv, Typed
<1>3. Typed'
  BY <1>1, <1>2 DEF IInv, Typed, queue, router, shards
<1>4. CatchingUp'
  BY DEF CatchingUp
<1> QED
  BY <1>3, <1>4, ForwarderKeeps DEF queue

-----------------------------------------------------------------------------
(* The router. *)

\* A step that brings the router back to its loop, or keeps it there, and
\* leaves the stored blocks and the shards' heights at least as they were.
LEMMA BackInLoop ==
    ASSUME IInv, Typed', UNCHANGED <<forwarder, shards, forwarded>>,
           pc' \in {"backlog", "new", "put"}, stored \subseteq stored',
           Elems(stream) \cup Elems(pel) \subseteq Elems(stream') \cup Elems(pel'),
           InHand'
    PROVE  IInv'
<1>1. CatchingUp' /\ Progress'
  BY DEF IInv, CatchingUp, Progress, forwarder
<1>2. AckedIsRouted' /\ LatestIsStored'
  <2>1. reached' = reached /\ latest' = latest /\ forwarded' = forwarded
    BY DEF shards
  <2>2. AckedIsRouted'
    BY <2>1, StillQueued DEF IInv
  <2> QED
    BY <2>1, <2>2 DEF IInv, LatestIsStored
<1> QED
  BY <1>1, <1>2 DEF IInv

\* What a read from the stream or the backlog leaves in the router's hand.
LEMMA BatchInHand ==
    ASSUME IInv, pc \in {"put", "flush", "ack"}
    PROVE  /\ Batch \subseteq Height /\ Batch # {} /\ Batch \subseteq Elems(pel)
           /\ BatchHeight \in Batch /\ \A h \in Batch : h <= BatchHeight
<1>1. \A i \in pos + 1 .. pos + held : i \in 1 .. Len(pel)
  BY DEF IInv, Typed, InHand
<1>2. pos + 1 \in pos + 1 .. pos + held
  BY DEF IInv, Typed, InHand
<1>3. /\ Batch \subseteq Height /\ Batch # {} /\ Batch \subseteq Elems(pel)
  BY <1>1, <1>2 DEF IInv, Typed, Batch, Elems
<1> QED
  BY <1>3, MaxOfHeights DEF BatchHeight

\* XREADGROUP moves the first blocks of the stream to the backlog.
LEMMA DeliverMoves ==
    ASSUME IInv, NEW n \in 1 .. BatchSize, Deliver(n)
    PROVE  /\ stream' \in Seq(Height) /\ pel' \in Seq(Height)
           /\ n \in Nat /\ n > 0 /\ Len(pel') = Len(pel) + n
           /\ Elems(stream) \cup Elems(pel) \subseteq Elems(stream') \cup Elems(pel')
<1>1. n \in Nat /\ n > 0 /\ n <= Len(stream)
  <2> DEFINE S == {BatchSize, Len(stream)}
  <2>1. S \subseteq Nat /\ Len(stream) \in Nat /\ BatchSize \in Nat
    BY ConstantsAssumption DEF IInv, Typed
  <2>2. \E m \in S : \A x \in S : m <= x
    BY <2>1
  <2>3. \A x \in S : n <= x
    BY <2>2 DEF Deliver, Min
  <2> QED
    BY <2>1, <2>3
<1>2. /\ pel \in Seq(Height) /\ stream \in Seq(Height) /\ n \in 0 .. Len(stream)
      /\ Len(pel) \in Nat /\ Len(stream) \in Nat
  BY <1>1 DEF IInv, Typed
<1> DEFINE a == SubSeq(stream, 1, n)
<1>3. /\ a \in Seq(Height) /\ Len(a) = n /\ stream' \in Seq(Height)
      /\ \A i \in 1 .. n : stream[i] \in Elems(a)
      /\ \A i \in n + 1 .. Len(stream) : stream[i] \in Elems(stream')
  BY <1>2, ElemsOfCut DEF Deliver
<1>4. pel' = pel \o a
  BY DEF Deliver
<1> HIDE DEF a
<1>5. /\ pel' \in Seq(Height) /\ Len(pel') = Len(pel) + n
      /\ Elems(pel') = Elems(pel) \cup Elems(a)
  BY <1>2, <1>3, <1>4, ElemsOfConcat
<1>6. ASSUME NEW x \in Elems(stream) PROVE x \in Elems(stream') \cup Elems(a)
  <2>1. PICK i \in 1 .. Len(stream) : x = stream[i]
    BY <1>6 DEF Elems
  <2>2. i \in 1 .. n \/ i \in n + 1 .. Len(stream)
    BY <1>1, <1>2
  <2> QED
    BY <1>3, <2>1, <2>2
<1> QED
  BY <1>1, <1>3, <1>5, <1>6

\* The router's reads: a new batch in hand has made no progress yet.
LEMMA BacklogReadStep == ASSUME IInv, BacklogRead PROVE IInv'
<1> USE DEF BacklogRead, Elsewhere
<1>1. held' \in Nat /\ held' > 0 /\ pos + held' <= Len(pel)
  <2> DEFINE S == {BatchSize, Len(pel) - pos}
  <2>1. S \subseteq Nat \ {0} /\ Len(pel) \in Nat /\ pos \in Nat
    BY ConstantsAssumption DEF IInv, Typed
  <2>2. \E m \in S : \A x \in S : m <= x
    BY <2>1
  <2>3. held' \in S /\ \A x \in S : held' <= x
    BY <2>2 DEF Min
  <2> QED
    BY <2>1, <2>3
<1>2. Typed'
  BY <1>1 DEF IInv, Typed, forwarder, queue, shards
<1>3. InHand'
  BY <1>1 DEF IInv, InHand, queue
<1> QED
  BY <1>2, <1>3, BackInLoop DEF queue

\* The router has reached the end of its backlog.
LEMMA BacklogEndStep == ASSUME IInv, BacklogEnd PROVE IInv'
<1> USE DEF BacklogEnd, Elsewhere
<1>1. Typed'
  BY DEF IInv, Typed, forwarder, queue, shards
<1>2. InHand'
  BY DEF IInv, Typed, InHand, queue
<1>3. pc' \in {"backlog", "new", "put"}
  OBVIOUS
<1> QED
  BY <1>1, <1>2, <1>3, BackInLoop DEF queue

\* It reads new blocks.
LEMMA NewReadStep == ASSUME IInv, NewRead PROVE IInv'
<1> USE DEF NewRead, Elsewhere
<1>1. PICK n \in 1 .. BatchSize : Deliver(n) /\ held' = n
  OBVIOUS
<1>2. /\ stream' \in Seq(Height) /\ pel' \in Seq(Height)
      /\ held' \in Nat /\ held' > 0 /\ Len(pel') = Len(pel) + held'
      /\ Elems(stream) \cup Elems(pel) \subseteq Elems(stream') \cup Elems(pel')
  BY <1>1, DeliverMoves
<1>3. pos' = Len(pel) /\ Len(pel) \in Nat
  BY DEF IInv, Typed
<1>4. Typed'
  BY <1>2, <1>3 DEF IInv, Typed, forwarder, shards
<1>5. InHand'
  BY <1>2, <1>3 DEF InHand
<1> QED
  BY <1>2, <1>4, <1>5, BackInLoop

\* Its read is repeated by the client.
LEMMA ReadAgainStep == ASSUME IInv, ReadAgain PROVE IInv'
<1> USE DEF ReadAgain
<1>1. PICK n \in 1 .. BatchSize : Deliver(n)
  OBVIOUS
<1>2. /\ stream' \in Seq(Height) /\ pel' \in Seq(Height)
      /\ n \in Nat /\ n > 0 /\ Len(pel') = Len(pel) + n
      /\ Elems(stream) \cup Elems(pel) \subseteq Elems(stream') \cup Elems(pel')
  BY <1>1, DeliverMoves
<1>3. Typed'
  <2>1. faults' \in Nat /\ resent' = TRUE
    BY DEF Fault, IInv, Typed
  <2> QED
    BY <1>2, <2>1 DEF IInv, Typed, forwarder, router, shards
<1>4. pc = "new" /\ pc' = pc
  BY <1>1 DEF Deliver, router
<1>5. InHand'
  BY <1>2, <1>4 DEF IInv, Typed, InHand, router
<1> QED
  BY <1>2, <1>3, <1>4, <1>5, BackInLoop

\* The handler's return brings the cursor to a place within the backlog.
LEMMA ReturnKeeps ==
    ASSUME IInv, pc \in {"put", "flush", "ack"}, HandlerReturns(TRUE),
           UNCHANGED <<forwarder, queue, shards, forwarded>>,
           Typed', stored \subseteq stored'
    PROVE  IInv'
<1> USE DEF HandlerReturns
<1>1. InHand'
  BY DEF IInv, Typed, InHand, queue
<1> QED
  BY <1>1, BackInLoop DEF queue

\* Leaving the handler, whatever it returns, keeps the router's state typed.
LEMMA ReturnTyped ==
    ASSUME IInv, HandlerReturns(TRUE)
    PROVE  /\ pc' = "backlog" /\ pos' \in Nat /\ held' \in Nat
           /\ backlog' \in BOOLEAN /\ todo' \subseteq Shard /\ failed' \in BOOLEAN
<1>1. pos' \in Nat
  BY DEF HandlerReturns, IInv, Typed
<1> QED
  BY <1>1 DEF HandlerReturns

\* The steps of the handler: each makes its part of the progress or returns.
LEMMA PutBlocksStep == ASSUME IInv, PutBlocks PROVE IInv'
<1> USE DEF PutBlocks
<1>1. Batch \subseteq Height /\ pc \in {"put", "flush", "ack"}
  BY BatchInHand
<1>2. Typed'
  BY <1>1 DEF IInv, Typed, forwarder, queue, shards
<1>3. CatchingUp' /\ InHand'
  BY DEF IInv, CatchingUp, InHand, forwarder, queue
<1>4. Progress'
  <2>1. Batch' = Batch
    BY DEF Batch, queue
  <2> QED
    BY <2>1 DEF Progress
<1>5. AckedIsRouted' /\ LatestIsStored'
  <2>1. stored \subseteq stored' /\ UNCHANGED <<stream, pel, latest, reached, forwarded>>
    BY DEF queue, shards
  <2>2. AckedIsRouted'
    BY <2>1, StillQueued DEF IInv
  <2> QED
    BY <2>1, <2>2 DEF IInv, LatestIsStored
<1> QED
  BY <1>2, <1>3, <1>4, <1>5 DEF IInv

\* The store fails.
LEMMA PutErrorStep == ASSUME IInv, PutError PROVE IInv'
<1> USE DEF PutError
<1>1. pc \in {"put", "flush", "ack"} /\ stored \subseteq stored' /\ stored' \subseteq Height
  BY BatchInHand DEF IInv, Typed
<1>2. faults' \in Nat
  BY DEF Fault, IInv, Typed
<1>3. Typed'
  BY <1>1, <1>2, ReturnTyped DEF IInv, Typed, forwarder, queue, shards
<1> QED
  BY <1>1, <1>3, ReturnKeeps

\* The acknowledgement fails.
LEMMA AckErrorStep == ASSUME IInv, AckError PROVE IInv'
<1> USE DEF AckError, Elsewhere
<1>1. faults' \in Nat
  BY DEF Fault, IInv, Typed
<1>2. Typed'
  BY <1>1, ReturnTyped DEF IInv, Typed, forwarder, queue, shards
<1> QED
  BY <1>2, ReturnKeeps

\* The router dies.
LEMMA RouterCrashStep == ASSUME IInv, RouterCrash PROVE IInv'
<1> USE DEF RouterCrash, Elsewhere
<1>1. faults' \in Nat
  BY DEF Fault, IInv, Typed
<1>2. Typed'
  BY <1>1 DEF IInv, Typed, forwarder, queue, shards
<1>3. InHand'
  BY DEF IInv, Typed, InHand, queue
<1> QED
  BY <1>2, <1>3, BackInLoop DEF queue

-----------------------------------------------------------------------------
(* The flushes of a batch. *)

\* A flush that reaches its shard announces the whole batch there and takes
\* back nothing that was announced before.
LEMMA FlushedAnnounces ==
    ASSUME IInv, pc = "flush", NEW s \in Shard, Flushed(s)
    PROVE  /\ latest' \in [Shard -> Height] /\ reached' \in [Shard -> Height]
           /\ latest'[s] \in stored
           /\ \A r \in Shard \ {s} : latest'[r] = latest[r]
           /\ \A h \in Batch : reached'[s] >= h
           /\ \A r \in Shard : reached'[r] >= reached[r]
<1> DEFINE S == {reached[s], BatchHeight}
<1>1. /\ BatchHeight \in Height /\ BatchHeight \in stored
      /\ \A h \in Batch : h <= BatchHeight /\ h \in Height
  BY BatchInHand DEF IInv, Progress
<1>2. /\ latest \in [Shard -> Height] /\ reached \in [Shard -> Height]
      /\ Height \subseteq Nat
  BY DEF IInv, Typed, Height
<1>3. Max(S) \in S /\ \A x \in S : x <= Max(S)
  <2>1. S \in SUBSET Height /\ S # {}
    BY <1>1, <1>2
  <2> QED
    BY <2>1, MaxOfHeights
<1>4. Max(S) \in Height
  BY <1>1, <1>2, <1>3
<1> DEFINE m == Max(S)
<1>5. /\ latest' = [latest EXCEPT ![s] = BatchHeight]
      /\ reached' = [reached EXCEPT ![s] = m]
  BY DEF Flushed
<1>6. m \in Height /\ m \in Nat /\ reached[s] <= m /\ BatchHeight <= m
  BY <1>2, <1>3, <1>4
<1> HIDE DEF m, S
<1>7. \A h \in Batch : m >= h
  <2>1. BatchHeight \in Nat /\ \A h \in Batch : h \in Nat
    BY <1>1, <1>2
  <2> QED
    BY <1>1, <1>6, <2>1
<1>8. ASSUME NEW r \in Shard PROVE reached'[r] >= reached[r]
  <2>1. reached[r] \in Nat
    BY <1>2
  <2>2. reached'[r] = IF r = s THEN m ELSE reached[r]
    BY <1>2, <1>5
  <2> QED
    BY <1>6, <2>1, <2>2
<1>9. latest' \in [Shard -> Height] /\ reached' \in [Shard -> Height]
  BY <1>1, <1>2, <1>5, <1>6
<1>10. /\ latest'[s] = BatchHeight /\ reached'[s] = m
       /\ \A r \in Shard \ {s} : latest'[r] = latest[r]
  BY <1>2, <1>5
<1> QED
  BY <1>1, <1>7, <1>8, <1>9, <1>10

\* What holds after a flush returned, with or without an error.
LEMMA FlushKeeps ==
    ASSUME IInv, pc = "flush", NEW s \in Shard, Typed',
           UNCHANGED <<forwarder, queue, pc, pos, held, stored, forwarded>>,
           todo' = todo \ {s},
           \/ Flushed(s) /\ failed' = failed
           \/ (Flushed(s) \/ UNCHANGED shards) /\ failed' = TRUE
    PROVE  IInv'
<1>1. Batch' = Batch /\ UNCHANGED <<stream, pel, forwarder>>
  BY DEF Batch, queue
<1>2. CatchingUp' /\ InHand'
  BY <1>1 DEF IInv, CatchingUp, InHand, forwarder
<1>3. \A r \in Shard : reached'[r] \in Nat /\ reached[r] \in Nat /\ reached'[r] >= reached[r]
  <2>1. \A r \in Shard : reached'[r] \in Nat /\ reached[r] \in Nat
    BY DEF IInv, Typed, Height
  <2>2. CASE Flushed(s)
    BY <2>1, <2>2, FlushedAnnounces
  <2>3. CASE UNCHANGED shards
    BY <2>1, <2>3 DEF shards
  <2> QED
    BY <2>1, <2>2, <2>3
<1>4. Progress'
  <2>1. Batch' \subseteq stored'
    BY <1>1 DEF IInv, Progress
  <2>2. ASSUME ~failed', NEW r \in Shard \ todo', NEW h \in Batch
        PROVE  reached'[r] >= h
    <3>1. Flushed(s) /\ ~failed /\ h \in Nat
      BY <2>2, BatchInHand DEF Height
    <3>2. CASE r = s
      BY <3>1, <3>2, FlushedAnnounces
    <3>3. CASE r # s
      <4>1. r \in Shard \ todo /\ reached[r] >= h
        BY <2>2, <3>1, <3>3 DEF IInv, Progress, Announced
      <4> QED
        BY <1>3, <3>1, <4>1
    <3> QED
      BY <3>2, <3>3
  <2> QED
    BY <1>1, <2>1, <2>2 DEF Progress, Announced
<1>5. AckedIsRouted'
  <2>1. \A r \in Shard, h \in forwarded : reached[r] >= h => reached'[r] >= h
    <3>1. \A h \in forwarded : h \in Nat
      BY DEF IInv, Typed, Height
    <3> QED
      BY <1>3, <3>1
  <2> QED
    BY <1>1, <2>1, StillQueued DEF IInv
<1>6. LatestIsStored'
  <2>1. CASE Flushed(s)
    BY <2>1, FlushedAnnounces DEF IInv, LatestIsStored
  <2>2. CASE UNCHANGED shards
    BY <2>2 DEF IInv, LatestIsStored, shards
  <2> QED
    BY <2>1, <2>2
<1> QED
  BY <1>2, <1>4, <1>5, <1>6 DEF IInv

\* A shard is flushed.
LEMMA FlushShardStep == ASSUME IInv, NEW s \in Shard, FlushShard(s) PROVE IInv'
<1> USE DEF FlushShard
<1>1. Typed'
  BY FlushedAnnounces DEF IInv, Typed, forwarder, queue
<1> QED
  BY <1>1, FlushKeeps

\* The flush of a shard fails.
LEMMA FlushErrorStep == ASSUME IInv, NEW s \in Shard, FlushError(s) PROVE IInv'
<1> USE DEF FlushError
<1>1. latest' \in [Shard -> Height] /\ reached' \in [Shard -> Height]
  BY FlushedAnnounces DEF IInv, Typed, shards
<1>2. faults' \in Nat
  BY DEF Fault, IInv, Typed
<1>3. Typed'
  BY <1>1, <1>2 DEF IInv, Typed, forwarder, queue
<1> QED
  BY <1>3, FlushKeeps

\* All flushes have returned.
LEMMA FlushesReturnStep == ASSUME IInv, FlushesReturn PROVE IInv'
<1> USE DEF FlushesReturn, Elsewhere
<1>1. CASE failed
  <2>1. HandlerReturns(TRUE)
    BY <1>1
  <2>2. Typed'
    BY <2>1, ReturnTyped DEF IInv, Typed, forwarder, queue, shards
  <2> QED
    BY <2>1, <2>2, ReturnKeeps
<1>2. CASE ~failed
  <2>1. UNCHANGED <<pos, held, backlog, todo, failed>> /\ pc' = "ack" /\ todo = {}
    BY <1>2
  <2>2. Typed'
    BY <2>1 DEF IInv, Typed, forwarder, queue, shards
  <2>3. CatchingUp' /\ InHand' /\ AckedIsRouted' /\ LatestIsStored'
    BY <2>1 DEF IInv, CatchingUp, InHand, AckedIsRouted, LatestIsStored, InQueue,
                forwarder, queue, shards
  <2>4. Progress'
    <3>1. Batch' = Batch /\ UNCHANGED <<stored, reached>>
      BY <2>1 DEF Batch, queue, shards
    <3> QED
      BY <1>2, <2>1, <3>1 DEF IInv, Progress, Announced
  <2> QED
    BY <2>2, <2>3, <2>4 DEF IInv
<1> QED
  BY <1>1, <1>2

\* The batch is acknowledged.
LEMMA XAckDelStep == ASSUME IInv, XAckDel PROVE IInv'
<1> DEFINE a == SubSeq(pel, 1, pos)
           b == SubSeq(pel, pos + held + 1, Len(pel))
<1>1. /\ pel \in Seq(Height) /\ pos \in Nat /\ held \in Nat /\ Len(pel) \in Nat
      /\ pos + held <= Len(pel) /\ pos \in 0 .. Len(pel)
      /\ pos + held \in 0 .. Len(pel)
  BY DEF IInv, Typed, InHand
<1>2. /\ a \in Seq(Height) /\ Len(a) = pos
      /\ \A i \in 1 .. pos : pel[i] \in Elems(a)
  BY <1>1, ElemsOfCut
<1>3. /\ b \in Seq(Height) /\ Len(b) = Len(pel) - (pos + held)
      /\ \A i \in pos + held + 1 .. Len(pel) : pel[i] \in Elems(b)
  BY <1>1, ElemsOfCut
<1>4. /\ pel' = a \o b /\ pc = "ack"
      /\ UNCHANGED <<Elsewhere, stream, faults>>
      /\ pc' = "backlog" /\ pos' \in {0, pos} /\ held' = 0 /\ backlog' = FALSE
      /\ todo' = {} /\ failed' = FALSE
  BY DEF XAckDel, HandlerReturns
<1> HIDE DEF a, b
<1>5. pel' \in Seq(Height) /\ Elems(pel') = Elems(a) \cup Elems(b)
  BY <1>2, <1>3, <1>4, ElemsOfConcat
<1>6. Len(pel') = Len(pel) - held
  <2>1. Len(pel') = Len(a) + Len(b)
    BY <1>2, <1>3, <1>4, ElemsOfConcat
  <2> QED
    BY <1>1, <1>2, <1>3, <2>1
<1>7. Typed'
  <2>1. pos' \in Nat /\ held' \in Nat
    BY <1>1, <1>4
  <2> QED
    BY <1>4, <1>5, <2>1 DEF IInv, Typed, Elsewhere, forwarder, shards
<1>8. CatchingUp' /\ InHand' /\ Progress' /\ LatestIsStored'
  <2>1. InHand'
    BY <1>1, <1>4, <1>6 DEF InHand
  <2> QED
    BY <1>4, <2>1 DEF IInv, CatchingUp, Progress, LatestIsStored, Elsewhere,
                      forwarder, shards
<1>9. AckedIsRouted'
  <2>1. UNCHANGED <<stream, stored, reached, forwarded>>
    BY <1>4 DEF Elsewhere, shards
  <2> SUFFICES ASSUME NEW h \in forwarded
               PROVE  h \in Elems(stream') \cup Elems(pel')
                      \/ (h \in stored /\ \A s \in Shard : reached[s] >= h)
    BY <2>1, QueuedNext DEF AckedIsRouted
  <2>2. CASE h \in Elems(pel)
    <3>1. PICK i \in 1 .. Len(pel) : h = pel[i]
      BY <2>2 DEF Elems
    <3>2. CASE i \in pos + 1 .. pos + held
      <4>1. h \in Batch
        BY <3>1, <3>2 DEF Batch
      <4> QED
        BY <1>4, <4>1 DEF IInv, Progress, Announced
    <3>3. CASE i \notin pos + 1 .. pos + held
      <4>1. i \in 1 .. pos \/ i \in pos + held + 1 .. Len(pel)
        BY <1>1, <3>3
      <4> QED
        BY <1>2, <1>3, <1>5, <3>1, <4>1
    <3> QED
      BY <3>2, <3>3
  <2>3. CASE h \notin Elems(pel)
    BY <2>1, <2>3, Queued DEF IInv, AckedIsRouted
  <2> QED
    BY <2>2, <2>3
<1> QED
  BY <1>7, <1>8, <1>9 DEF IInv

-----------------------------------------------------------------------------
(* The theorems. *)

\* Every step, by the action it is.
LEMMA NextStep == ASSUME IInv, [Next]_vars PROVE IInv'
<1>1. CASE Forwarder
  BY <1>1, StartForwarderStep, SubscribeStep, ForwardHeaderStep, BeginCatchUpStep,
     CatchUpStep DEF Forwarder
<1>2. CASE Router
  BY <1>2, BacklogReadStep, BacklogEndStep, NewReadStep, PutBlocksStep,
     FlushesReturnStep, XAckDelStep, FlushShardStep DEF Router
<1>3. CASE Failure
  BY <1>3, ForwarderExitStep, RouterCrashStep, ReadAgainStep, PutErrorStep,
     AckErrorStep, FlushErrorStep DEF Failure
<1>4. CASE UNCHANGED vars
  <2>1. Typed' /\ CatchingUp' /\ UNCHANGED <<pel, router, stored, shards, stream, forwarded>>
    BY <1>4 DEF IInv, Typed, CatchingUp, vars, forwarder, queue, router, shards
  <2> QED
    BY <2>1, ForwarderKeeps
<1> QED
  BY <1>1, <1>2, <1>3, <1>4, NewHeadStep DEF Next

\* The invariant holds of every behaviour.
LEMMA Inductive == Spec => []IInv
<1>1. IInv /\ [Next]_vars => IInv'
  BY NextStep
<1> QED
  BY InitIInv, <1>1, PTL DEF Spec

\* Every variable of the pipeline keeps its type.
THEOREM PipelineTypeCorrect == Spec => []TypeOK
<1>1. IInv => TypeOK
  <2> SUFFICES ASSUME Typed PROVE TypeOK
    BY DEF IInv
  <2>1. Height \subseteq Nat
    BY DEF Height
  <2>2. ASSUME NEW s \in Seq(Height) PROVE s \in Seq(Nat)
    BY <2>1, SeqMonotonic
  <2>3. /\ headers \in Seq(Nat) /\ stream \in Seq(Nat) /\ pel \in Seq(Nat)
    BY <2>2 DEF Typed
  <2>4. /\ stored \subseteq Nat /\ forwarded \subseteq Nat /\ head \in Nat
        /\ latest \in [Shard -> Nat] /\ reached \in [Shard -> Nat]
    BY <2>1 DEF Typed
  <2> QED
    BY <2>3, <2>4 DEF Typed, TypeOK
<1> QED
  BY Inductive, <1>1, PTL

\* A block is acknowledged on the block stream only when it is stored and was
\* announced to every shard, for any number of shards and failures and also
\* when a delivery was repeated.
THEOREM AcknowledgedIsRouted == Spec => []AckedIsRouted
<1>1. IInv => AckedIsRouted
  BY DEF IInv
<1> QED
  BY Inductive, <1>1, PTL

\* A shard is only ever told of heights whose block is stored.
THEOREM AnnouncedIsStored == Spec => []LatestIsStored
<1>1. IInv => LatestIsStored
  BY DEF IInv
<1> QED
  BY Inductive, <1>1, PTL

-----------------------------------------------------------------------------
(* No gap in the store: the invariant of the order of the blocks. *)

Gapless(X) == \A a, b \in X : \A m \in a .. b : m \in X

\* The first n elements of a sequence.
Upto(s, n) == { s[i] : i \in 1 .. n }

\* What the store will have when the batch in hand, or the whole stream, is put.
Waiting == stored \cup Elems(pel)
Under   == Waiting \cup Elems(stream)

\* The conditions of NoGap.
Orderly == coldStarts <= 1 /\ ~resent

\* The backlog is one batch, which is repeated as a whole.
OneBatch ==
    /\ Len(pel) <= BatchSize /\ pos \in {0, Len(pel)}
    /\ held > 0 => pos = 0 /\ held = Len(pel)
    /\ pc = "new" => pel = <<>>

\* Storing the backlog and then the stream, block by block, leaves no gap.
Unbroken ==
    /\ Gapless(stored)
    /\ \A i \in 0 .. Len(stream) : Gapless(Waiting \cup Upto(stream, i))

\* The headers that wait are those after b up to the node's head.
Follows(hs, b, top) ==
    /\ FirstHead <= b /\ top = b + Len(hs)
    /\ \A i \in 1 .. Len(hs) : hs[i] = b + i

Subscription(b) ==
    /\ Follows(headers, b, head)
    /\ fwd \in {"start", "subscribe"} => headers = <<>>

\* Where the forwarder is, b being the header it handled last: it goes on at
\* a block that was forwarded or stored, or behind one, and catches up from
\* there to the first header it was sent.
Forwarding(b) ==
    /\ \A h \in Under : 1 <= h /\ h <= head
    /\ coldStarts = 0 => fwd = "start" /\ Under = {}
    /\ fwd = "subscribe" => IF curr = 0 THEN Under = {} ELSE curr \in Under
    /\ fwd = "run" /\ ~isBehind => Under = {} \/ b \in Under
    /\ fwd = "run" /\ isBehind => curr \in Under /\ curr <= b
    /\ fwd = "catchup" => /\ curr <= b + 2
                          /\ \/ curr \in Under /\ curr <= b + 1
                             \/ \E x \in Under : curr = x + 1

GapInv ==
    /\ IInv
    /\ \E b \in Nat : Subscription(b) /\ (Orderly => Forwarding(b))
    /\ Orderly => OneBatch /\ Unbroken

-----------------------------------------------------------------------------
(* Facts about sets without gaps, and about the first blocks of the stream. *)

\* A set without gaps may grow by one of its elements, or by the next one.
LEMMA GaplessGrows ==
    ASSUME NEW X \in SUBSET Nat, Gapless(X), NEW h \in Nat,
           X = {} \/ h \in X \/ \E x \in X : h = x + 1
    PROVE  Gapless(X \cup {h})
<1>1. CASE X = {}
  BY <1>1 DEF Gapless
<1>2. CASE h \in X
  <2>1. X \cup {h} = X
    BY <1>2
  <2> QED
    BY <2>1
<1>3. ASSUME NEW x \in X, h = x + 1 PROVE Gapless(X \cup {h})
  <2> SUFFICES ASSUME NEW a \in X \cup {h}, NEW b \in X \cup {h}, NEW m \in a .. b
               PROVE  m \in X \cup {h}
    BY DEF Gapless
  <2>1. CASE a \in X /\ b \in X
    BY <2>1 DEF Gapless
  <2>2. CASE a \in X /\ b = h
    <3>1. m = h \/ m \in a .. x
      BY <1>3, <2>2
    <3> QED
      BY <2>2, <3>1 DEF Gapless
  <2>3. CASE a = h /\ b \in X
    <3>1. m \in x .. b
      BY <1>3, <2>3
    <3> QED
      BY <2>3, <3>1 DEF Gapless
  <2>4. CASE a = h /\ b = h
    BY <1>3, <2>4
  <2> QED
    BY <2>1, <2>2, <2>3, <2>4
<1> QED
  BY <1>1, <1>2, <1>3

\* What is in the stores and queues is a set of natural numbers.
LEMMA UnderType ==
    ASSUME IInv
    PROVE  /\ Under \in SUBSET Nat /\ Waiting \in SUBSET Nat /\ Height \subseteq Nat
           /\ Len(stream) \in Nat /\ Len(pel) \in Nat
           /\ Elems(stream) = Upto(stream, Len(stream))
<1>1. /\ stored \subseteq Height /\ Height \subseteq Nat
      /\ stream \in Seq(Height) /\ pel \in Seq(Height)
  BY DEF IInv, Typed, Height
<1>2. Elems(stream) \subseteq Height /\ Elems(pel) \subseteq Height
  BY <1>1 DEF Elems
<1>3. Len(stream) \in Nat /\ Len(pel) \in Nat
  BY <1>1
<1> QED
  BY <1>1, <1>2, <1>3 DEF Under, Waiting, Elems, Upto

\* The first blocks of a stream are those of the longer one.
LEMMA UptoAppend ==
    ASSUME NEW s \in Seq(Height), NEW h \in Height
    PROVE  /\ Len(Append(s, h)) = Len(s) + 1 /\ Len(s) \in Nat
           /\ \A i \in 0 .. Len(s) : Upto(Append(s, h), i) = Upto(s, i)
           /\ Upto(Append(s, h), Len(s) + 1) = Elems(s) \cup {h}
<1>1. /\ Len(Append(s, h)) = Len(s) + 1 /\ Len(s) \in Nat
      /\ \A i \in 1 .. Len(s) : Append(s, h)[i] = s[i]
      /\ Append(s, h)[Len(s) + 1] = h
  OBVIOUS
<1> DEFINE t == Append(s, h)
<1> HIDE DEF t
<1>2. ASSUME NEW i \in 0 .. Len(s) PROVE Upto(t, i) = Upto(s, i)
  <2>1. \A j \in 1 .. i : t[j] = s[j]
    BY <1>1 DEF t
  <2> QED
    BY <2>1 DEF Upto
<1>3. Upto(t, Len(s) + 1) = Elems(s) \cup {h}
  <2>1. ASSUME NEW x \in Upto(t, Len(s) + 1) PROVE x \in Elems(s) \cup {h}
    BY <1>1, <2>1 DEF Upto, Elems, t
  <2>2. ASSUME NEW x \in Elems(s) PROVE x \in Upto(t, Len(s) + 1)
    BY <1>1, <2>2 DEF Upto, Elems, t
  <2>3. h \in Upto(t, Len(s) + 1)
    BY <1>1 DEF Upto, t
  <2> QED
    BY <2>1, <2>2, <2>3
<1> QED
  BY <1>1, <1>2, <1>3 DEF t

\* A sequence is cut after n elements: those of the first part, and those up
\* to a place in the second part.
LEMMA UptoCut ==
    ASSUME NEW s \in Seq(Height), NEW n \in 0 .. Len(s)
    PROVE  /\ Elems(SubSeq(s, 1, n)) = Upto(s, n)
           /\ Len(SubSeq(s, n + 1, Len(s))) = Len(s) - n
           /\ \A i \in 0 .. Len(s) - n :
                 Upto(s, n) \cup Upto(SubSeq(s, n + 1, Len(s)), i) = Upto(s, n + i)
<1> DEFINE a == SubSeq(s, 1, n)
           b == SubSeq(s, n + 1, Len(s))
<1>1. Len(s) \in Nat /\ \A i \in 1 .. Len(s) : s[i] \in Height
  OBVIOUS
<1>2. Len(a) = n /\ \A i \in 1 .. n : a[i] = s[i]
  <2>1. \A i \in 1 .. n : s[i] \in Height
    BY <1>1
  <2> QED
    BY <1>1, <2>1, SubSeqProperties
<1>3. Len(b) = Len(s) - n /\ \A i \in 1 .. Len(s) - n : b[i] = s[n + i]
  <2>1. \A i \in n + 1 .. Len(s) : s[i] \in Height
    BY <1>1
  <2> QED
    BY <1>1, <2>1, SubSeqProperties
<1> HIDE DEF a, b
<1>4. Elems(a) = Upto(s, n)
  BY <1>1, <1>2 DEF Elems, Upto
<1>5. ASSUME NEW i \in 0 .. Len(s) - n PROVE Upto(s, n) \cup Upto(b, i) = Upto(s, n + i)
  <2>1. ASSUME NEW x \in Upto(s, n) PROVE x \in Upto(s, n + i)
    BY <1>1, <2>1 DEF Upto
  <2>2. ASSUME NEW x \in Upto(b, i) PROVE x \in Upto(s, n + i)
    <3>1. PICK j \in 1 .. i : x = b[j]
      BY <2>2 DEF Upto
    <3>2. x = s[n + j] /\ n + j \in 1 .. n + i
      BY <1>1, <1>3, <3>1
    <3> QED
      BY <3>2 DEF Upto
  <2>3. ASSUME NEW x \in Upto(s, n + i) PROVE x \in Upto(s, n) \cup Upto(b, i)
    <3>1. PICK j \in 1 .. n + i : x = s[j]
      BY <2>3 DEF Upto
    <3>2. CASE j <= n
      BY <3>1, <3>2 DEF Upto
    <3>3. CASE j > n
      <4>1. j - n \in 1 .. i /\ j - n \in 1 .. Len(s) - n /\ n + (j - n) = j
        BY <1>1, <3>1, <3>3
      <4>2. b[j - n] = s[j]
        BY <1>3, <4>1
      <4> QED
        BY <3>1, <4>1, <4>2 DEF Upto
    <3> QED
      BY <1>1, <3>2, <3>3
  <2> QED
    BY <2>1, <2>2, <2>3
<1> QED
  BY <1>3, <1>4, <1>5 DEF a, b

\* A header more, or a header less.
LEMMA FollowsAppend ==
    ASSUME NEW hs \in Seq(Height), NEW b \in Nat, NEW top \in Nat, Follows(hs, b, top),
           top + 1 \in Height
    PROVE  Follows(Append(hs, top + 1), b, top + 1)
<1>1. /\ Len(Append(hs, top + 1)) = Len(hs) + 1 /\ Len(hs) \in Nat
      /\ \A i \in 1 .. Len(hs) : Append(hs, top + 1)[i] = hs[i]
      /\ Append(hs, top + 1)[Len(hs) + 1] = top + 1
  OBVIOUS
<1> DEFINE t == Append(hs, top + 1)
<1> HIDE DEF t
<1> QED
  BY <1>1 DEF Follows, t

\* The first header that waits is handled.
LEMMA FollowsTail ==
    ASSUME NEW hs \in Seq(Height), hs # <<>>, NEW b \in Nat, NEW top \in Nat,
           Follows(hs, b, top)
    PROVE  Head(hs) = b + 1 /\ Follows(Tail(hs), b + 1, top)
<1>1. /\ Len(Tail(hs)) = Len(hs) - 1 /\ Len(hs) \in Nat /\ Len(hs) > 0
      /\ \A i \in 1 .. Len(hs) - 1 : Tail(hs)[i] = hs[i + 1]
      /\ Head(hs) = hs[1]
  BY EmptySeq
<1> DEFINE t == Tail(hs)
<1> HIDE DEF t
<1>2. FirstHead \in Nat
  BY ConstantsAssumption
<1>3. Head(hs) = b + 1
  BY <1>1 DEF Follows
<1>4. Follows(t, b + 1, top)
  BY <1>1, <1>2 DEF Follows, t
<1> QED
  BY <1>3, <1>4 DEF t

-----------------------------------------------------------------------------
(* The steps of the node and the forwarder. *)

\* Nothing of a part of the invariant is touched.
LEMMA OrderKept ==
    ASSUME OneBatch, Unbroken, UNCHANGED <<stored, stream, pel, pos, held, pc>>
    PROVE  OneBatch' /\ Unbroken' /\ Under' = Under
BY DEF OneBatch, Unbroken, Waiting, Under, Elems, Upto

\* A block joins the stream that is forwarded or stored already, or the next.
LEMMA XAddOrder ==
    ASSUME IInv, OneBatch, Unbroken, UNCHANGED <<stored, pel, pos, held, pc>>,
           NEW h \in Height, XAdd(h),
           Under = {} \/ h \in Under \/ \E x \in Under : h = x + 1
    PROVE  OneBatch' /\ Unbroken' /\ Under' = Under \cup {h}
<1>1. stream \in Seq(Height) /\ stream' = Append(stream, h) /\ Waiting' = Waiting
  BY DEF IInv, Typed, XAdd, Waiting, Elems
<1>2. /\ Len(stream') = Len(stream) + 1 /\ Len(stream) \in Nat
      /\ \A i \in 0 .. Len(stream) : Upto(stream', i) = Upto(stream, i)
      /\ Upto(stream', Len(stream) + 1) = Elems(stream) \cup {h}
  BY <1>1, UptoAppend
<1>3. Under' = Under \cup {h}
  BY <1>1, ElemsOfAppend DEF Under
<1>4. Gapless(Under \cup {h})
  <2>1. Gapless(Under)
    BY UnderType DEF Unbroken, Under
  <2>2. h \in Nat
    BY UnderType
  <2> QED
    BY <2>1, <2>2, UnderType, GaplessGrows
<1>5. Unbroken'
  <2> SUFFICES ASSUME NEW i \in 0 .. Len(stream) + 1
               PROVE  Gapless(Waiting \cup Upto(stream', i))
    BY <1>1, <1>2 DEF Unbroken
  <2>1. CASE i = Len(stream) + 1
    BY <1>2, <1>4, <2>1 DEF Under
  <2>2. CASE i # Len(stream) + 1
    <3>1. i \in 0 .. Len(stream)
      BY <1>2, <2>2
    <3> QED
      BY <1>2, <3>1 DEF Unbroken
  <2> QED
    BY <2>1, <2>2
<1> QED
  BY <1>3, <1>5 DEF OneBatch

\* The node has a new block, and the subscription its header.
LEMMA NewHeadGap == ASSUME GapInv, NewHead PROVE GapInv'
<1>1. IInv'
  BY NewHeadStep DEF GapInv
<1>2. PICK b \in Nat : Subscription(b) /\ (Orderly => Forwarding(b))
  BY DEF GapInv
<1>3. /\ headers \in Seq(Height) /\ head \in Nat /\ head + 1 \in Height /\ head' = head + 1
  BY TopType DEF GapInv, IInv, Typed, Height, NewHead
<1>4. UNCHANGED <<fwd, curr, isBehind, stream, pel, pc, pos, held, stored, coldStarts, resent>>
  BY DEF NewHead, queue, router
<1>5. Orderly => OneBatch' /\ Unbroken' /\ Under' = Under
  BY <1>4, OrderKept DEF GapInv
<1>6. CASE fwd \in {"run", "catchup"}
  <2>1. headers' = Append(headers, head + 1)
    BY <1>6 DEF NewHead
  <2>2. Subscription(b)'
    <3>1. Follows(headers', b, head')
      BY <1>2, <1>3, <2>1, FollowsAppend DEF Subscription
    <3> QED
      BY <1>4, <1>6, <3>1 DEF Subscription
  <2>3. Orderly => Forwarding(b)'
    <3> SUFFICES ASSUME Orderly PROVE Forwarding(b)'
      OBVIOUS
    <3>1. \A h \in Under : 1 <= h /\ h <= head + 1
      BY <1>2, <1>3, UnderType DEF GapInv, Forwarding
    <3> QED
      BY <1>2, <1>3, <1>4, <1>5, <3>1 DEF Forwarding
  <2> QED
    BY <1>1, <1>4, <1>5, <2>2, <2>3 DEF GapInv, Orderly
<1>7. CASE fwd \in {"start", "subscribe"}
  <2>1. headers' = headers /\ headers = <<>>
    BY <1>2, <1>7 DEF NewHead, Subscription
  <2>2. Subscription(b + 1)'
    <3>1. Follows(headers', b + 1, head')
      BY <1>2, <1>3, <2>1, EmptySeq, ConstantsAssumption DEF Subscription, Follows
    <3> QED
      BY <2>1, <3>1 DEF Subscription
  <2>3. Orderly => Forwarding(b + 1)'
    <3> SUFFICES ASSUME Orderly PROVE Forwarding(b + 1)'
      OBVIOUS
    <3>1. \A h \in Under : 1 <= h /\ h <= head + 1
      BY <1>2, <1>3, UnderType DEF GapInv, Forwarding
    <3> QED
      BY <1>2, <1>3, <1>4, <1>5, <1>7, <3>1 DEF Forwarding
  <2> QED
    BY <1>1, <1>4, <1>5, <2>2, <2>3 DEF GapInv, Orderly
<1> QED
  BY <1>6, <1>7 DEF GapInv, IInv, Typed

\* The forwarder starts from the highest stored block, or anew.
LEMMA StartForwarderGap == ASSUME GapInv, StartForwarder PROVE GapInv'
<1>1. IInv'
  BY StartForwarderStep DEF GapInv
<1>2. PICK b \in Nat : Subscription(b) /\ (Orderly => Forwarding(b))
  BY DEF GapInv
<1>3. UNCHANGED <<head, headers, stream, pel, pc, pos, held, stored, resent>>
      /\ fwd = "start" /\ fwd' = "subscribe"
  BY DEF StartForwarder, queue, router
<1>4. Subscription(b)'
  BY <1>2, <1>3 DEF Subscription
<1>5. coldStarts \in Nat
  BY DEF GapInv, IInv, Typed
<1>6. Orderly' => Orderly
  BY <1>3, <1>5 DEF StartForwarder, Orderly
<1>7. Orderly' => OneBatch' /\ Unbroken' /\ Under' = Under
  BY <1>3, <1>6, OrderKept DEF GapInv
<1>8. Orderly' => Forwarding(b)'
  <2> SUFFICES ASSUME Orderly' PROVE Forwarding(b)'
    OBVIOUS
  <2>1. CASE stored = {}
    <3>1. curr' = 0 /\ coldStarts' = coldStarts + 1
      BY <2>1 DEF StartForwarder
    <3>2. coldStarts = 0
      BY <1>5, <3>1 DEF Orderly
    <3>3. Under = {}
      BY <1>2, <1>6, <3>2 DEF Forwarding
    <3>4. coldStarts' # 0
      BY <1>5, <3>1
    <3> QED
      BY <1>3, <1>7, <3>1, <3>3, <3>4 DEF Forwarding
  <2>2. CASE stored # {}
    <3>1. curr' \in stored /\ coldStarts' = coldStarts
      BY <2>2, MaxOfHeights DEF StartForwarder, GapInv, IInv, Typed
    <3>2. curr' \in Under
      BY <3>1 DEF Under, Waiting
    <3>3. \A h \in Under : 1 <= h /\ h <= head
      BY <1>2, <1>6 DEF Forwarding
    <3>4. curr' # 0
      BY <3>2, <3>3
    <3>5. coldStarts # 0
      BY <1>2, <1>6, <3>2 DEF Forwarding
    <3> QED
      BY <1>3, <1>7, <3>1, <3>2, <3>3, <3>4, <3>5 DEF Forwarding
  <2> QED
    BY <2>1, <2>2
<1> QED
  BY <1>1, <1>4, <1>7, <1>8 DEF GapInv

\* The subscription begins with the headers after the node's head.
LEMMA SubscribeGap == ASSUME GapInv, SubscribeNewHead PROVE GapInv'
<1>1. IInv'
  BY SubscribeStep DEF GapInv
<1>2. PICK b \in Nat : Subscription(b) /\ (Orderly => Forwarding(b))
  BY DEF GapInv
<1>3. UNCHANGED <<head, curr, stream, pel, pc, pos, held, stored, resent, coldStarts>>
      /\ fwd = "subscribe" /\ fwd' = "run" /\ headers' = <<>> /\ isBehind' = (curr # 0)
  BY DEF SubscribeNewHead, queue, router
<1>4. headers = <<>>
  BY <1>2, <1>3 DEF Subscription
<1>5. Subscription(b)'
  BY <1>2, <1>3, <1>4 DEF Subscription
<1>6. head = b
  BY <1>2, <1>4, EmptySeq DEF Subscription, Follows
<1>7. Orderly => OneBatch' /\ Unbroken' /\ Under' = Under
  BY <1>3, OrderKept DEF GapInv
<1>8. Orderly => Forwarding(b)'
  BY <1>2, <1>3, <1>6, <1>7 DEF Forwarding
<1> QED
  BY <1>1, <1>3, <1>5, <1>7, <1>8 DEF GapInv, Orderly

\* The next header's block is forwarded: it follows the one handled before.
LEMMA ForwardHeaderGap == ASSUME GapInv, ForwardHeader PROVE GapInv'
<1>1. IInv'
  BY ForwardHeaderStep DEF GapInv
<1>2. PICK b \in Nat : Subscription(b) /\ (Orderly => Forwarding(b))
  BY DEF GapInv
<1>3. /\ UNCHANGED <<head, fwd, curr, isBehind, pel, pc, pos, held, stored, resent, coldStarts>>
      /\ fwd = "run" /\ headers # <<>> /\ ~isBehind /\ headers' = Tail(headers)
      /\ XAdd(Head(headers))
  BY DEF ForwardHeader, router
<1>4. headers \in Seq(Height) /\ head \in Nat /\ Head(headers) \in Height
  <2>1. headers \in Seq(Height) /\ head \in Nat
    BY UnderType DEF GapInv, IInv, Typed
  <2> QED
    BY <1>3, <2>1
<1>5. Head(headers) = b + 1 /\ Follows(headers', b + 1, head)
  BY <1>2, <1>3, <1>4, FollowsTail DEF Subscription
<1>6. Subscription(b + 1)'
  BY <1>3, <1>5 DEF Subscription
<1>7. XAdd(b + 1) /\ b + 1 \in Height
  BY <1>3, <1>4, <1>5
<1>8. Orderly => OneBatch' /\ Unbroken' /\ Under' = Under \cup {b + 1}
  <2> SUFFICES ASSUME Orderly PROVE OneBatch' /\ Unbroken' /\ Under' = Under \cup {b + 1}
    OBVIOUS
  <2>1. Under = {} \/ b + 1 \in Under \/ \E x \in Under : b + 1 = x + 1
    BY <1>2, <1>3 DEF Forwarding
  <2> QED
    BY <1>3, <1>7, <2>1, XAddOrder DEF GapInv
<1>9. b + 1 <= head
  <2>1. Len(headers) \in Nat /\ Len(headers) # 0
    BY <1>3, <1>4, EmptySeq
  <2> QED
    BY <1>2, <2>1 DEF Subscription, Follows
<1>10. Orderly => Forwarding(b + 1)'
  <2> SUFFICES ASSUME Orderly PROVE Forwarding(b + 1)'
    OBVIOUS
  <2>1. \A h \in Under \cup {b + 1} : 1 <= h /\ h <= head
    BY <1>2, <1>9 DEF Forwarding
  <2> QED
    BY <1>2, <1>3, <1>8, <2>1 DEF Forwarding
<1> QED
  BY <1>1, <1>3, <1>6, <1>8, <1>10 DEF GapInv, Orderly

\* The catch-up loop begins at the block the forwarder started from.
LEMMA BeginCatchUpGap == ASSUME GapInv, BeginCatchUp PROVE GapInv'
<1>1. IInv'
  BY BeginCatchUpStep DEF GapInv
<1>2. PICK b \in Nat : Subscription(b) /\ (Orderly => Forwarding(b))
  BY DEF GapInv
<1>3. /\ UNCHANGED <<head, headers, curr, isBehind, stream, pel, pc, pos, held, stored,
                     resent, coldStarts>>
      /\ fwd = "run" /\ isBehind /\ fwd' = "catchup"
  BY DEF BeginCatchUp, queue, router
<1>4. Subscription(b)'
  BY <1>2, <1>3 DEF Subscription
<1>5. Orderly => OneBatch' /\ Unbroken' /\ Under' = Under
  BY <1>3, OrderKept DEF GapInv
<1>6. Orderly => Forwarding(b)'
  <2>1. curr \in Nat
    BY DEF GapInv, IInv, Typed
  <2> QED
    BY <1>2, <1>3, <1>5, <2>1 DEF Forwarding
<1> QED
  BY <1>1, <1>3, <1>4, <1>5, <1>6 DEF GapInv, Orderly

\* The loop forwards one block after the other, up to its header.
LEMMA CatchUpGap == ASSUME GapInv, CatchUp PROVE GapInv'
<1>1. IInv'
  BY CatchUpStep DEF GapInv
<1>2. PICK b \in Nat : Subscription(b) /\ (Orderly => Forwarding(b))
  BY DEF GapInv
<1>3. /\ UNCHANGED <<head, pel, pc, pos, held, stored, resent, coldStarts>>
      /\ fwd = "catchup" /\ headers # <<>> /\ curr \in Nat
  BY DEF CatchUp, router, GapInv, IInv, Typed, CatchingUp
<1>4. headers \in Seq(Height) /\ head \in Nat /\ Head(headers) \in Height
  <2>1. headers \in Seq(Height) /\ head \in Nat
    BY UnderType DEF GapInv, IInv, Typed
  <2> QED
    BY <1>3, <2>1
<1>5. Head(headers) = b + 1 /\ Follows(Tail(headers), b + 1, head)
  BY <1>2, <1>3, <1>4, FollowsTail DEF Subscription
<1>6. b + 1 <= head
  <2>1. Len(headers) \in Nat /\ Len(headers) # 0
    BY <1>3, <1>4, EmptySeq
  <2> QED
    BY <1>2, <2>1 DEF Subscription, Follows
<1>7. CASE curr <= b + 1
  <2>1. XAdd(curr) /\ curr' = curr + 1 /\ UNCHANGED <<headers, fwd, isBehind>>
    BY <1>5, <1>7 DEF CatchUp
  <2>2. PICK c \in Nat : c = curr
    BY <1>3
  <2>3. c \in Height
    <3>1. b + 1 \in Height
      BY <1>4, <1>5
    <3> QED
      BY <1>7, <2>2, <3>1, TopType DEF Height
  <2>4. Subscription(b)'
    BY <1>2, <1>3, <2>1 DEF Subscription
  <2>5. Orderly => OneBatch' /\ Unbroken' /\ Under' = Under \cup {c}
    <3> SUFFICES ASSUME Orderly PROVE OneBatch' /\ Unbroken' /\ Under' = Under \cup {c}
      OBVIOUS
    <3>1. c \in Under \/ \E x \in Under : c = x + 1
      BY <1>2, <1>3, <2>2 DEF Forwarding
    <3> QED
      BY <1>3, <2>1, <2>2, <2>3, <3>1, XAddOrder DEF GapInv
  <2>6. Orderly => Forwarding(b)'
    <3> SUFFICES ASSUME Orderly PROVE Forwarding(b)'
      OBVIOUS
    <3>1. 1 <= c
      <4>1. \A h \in Under : 1 <= h /\ h \in Nat
        BY <1>2, UnderType DEF Forwarding, GapInv
      <4>2. c \in Under \/ \E x \in Under : c = x + 1
        BY <1>2, <1>3, <2>2 DEF Forwarding
      <4> QED
        BY <4>1, <4>2
    <3>2. \A h \in Under \cup {c} : 1 <= h /\ h <= head
      <4>1. c <= head
        BY <1>4, <1>6, <1>7, <2>2
      <4> QED
        BY <1>2, <3>1, <4>1 DEF Forwarding
    <3>3. coldStarts # 0
      BY <1>2, <1>3 DEF Forwarding
    <3>4. curr' = c + 1 /\ c + 1 <= b + 2
      BY <1>7, <2>1, <2>2
    <3> QED
      BY <1>3, <2>1, <2>5, <3>2, <3>3, <3>4 DEF Forwarding
  <2> QED
    BY <1>1, <1>3, <2>4, <2>5, <2>6 DEF GapInv, Orderly
<1>8. CASE ~(curr <= b + 1)
  <2>1. /\ isBehind' = FALSE /\ headers' = Tail(headers) /\ fwd' = "run"
        /\ UNCHANGED <<stream, curr>>
    BY <1>5, <1>8 DEF CatchUp
  <2>2. Subscription(b + 1)'
    BY <1>3, <1>5, <2>1 DEF Subscription
  <2>3. Orderly => OneBatch' /\ Unbroken' /\ Under' = Under
    BY <1>3, <2>1, OrderKept DEF GapInv
  <2>4. Orderly => Forwarding(b + 1)'
    <3> SUFFICES ASSUME Orderly PROVE Forwarding(b + 1)'
      OBVIOUS
    <3>1. b + 1 \in Under
      <4>1. PICK x \in Under : curr = x + 1
        BY <1>2, <1>3, <1>8 DEF Forwarding
      <4>2. curr <= b + 2 /\ x \in Nat
        BY <1>2, <1>3, UnderType DEF Forwarding, GapInv
      <4>3. x = b + 1
        BY <1>3, <1>8, <4>1, <4>2
      <4> QED
        BY <4>3
    <3> QED
      BY <1>2, <1>3, <2>1, <2>3, <3>1 DEF Forwarding
  <2> QED
    BY <1>1, <1>3, <2>2, <2>3, <2>4 DEF GapInv, Orderly
<1> QED
  BY <1>7, <1>8

\* The forwarder ends; the next one asks the store where to go on.
LEMMA ForwarderExitGap == ASSUME GapInv, ForwarderExit PROVE GapInv'
<1>1. IInv'
  BY ForwarderExitStep DEF GapInv
<1>2. PICK b \in Nat : Subscription(b) /\ (Orderly => Forwarding(b))
  BY DEF GapInv
<1>3. /\ UNCHANGED <<head, stream, pel, pc, pos, held, stored, resent, coldStarts>>
      /\ fwd' = "start" /\ headers' = <<>> /\ fwd # "start"
  BY DEF ForwarderExit, queue, router
<1>4. PICK t \in Nat : t = head
  BY DEF GapInv, IInv, Typed, Height
<1>5. FirstHead <= t
  BY <1>2, <1>4, ConstantsAssumption DEF Subscription, Follows, GapInv, IInv, Typed
<1>6. Subscription(t)'
  <2>1. Follows(<<>>, t, t)
    BY <1>5, EmptySeq DEF Follows
  <2> QED
    BY <1>3, <1>4, <2>1 DEF Subscription
<1>7. Orderly => OneBatch' /\ Unbroken' /\ Under' = Under
  BY <1>3, OrderKept DEF GapInv
<1>8. Orderly => Forwarding(t)'
  BY <1>2, <1>3, <1>7 DEF Forwarding
<1> QED
  BY <1>1, <1>3, <1>6, <1>7, <1>8 DEF GapInv, Orderly

-----------------------------------------------------------------------------
(* The steps of the router. *)

\* The router's steps leave the forwarder alone, so that what it relies on is
\* that no block is lost.
LEMMA RouterGap ==
    ASSUME GapInv, IInv', UNCHANGED <<head, forwarder, coldStarts>>,
           Orderly' => Orderly /\ OneBatch' /\ Unbroken' /\ Under' = Under
    PROVE  GapInv'
<1>1. PICK b \in Nat : Subscription(b) /\ (Orderly => Forwarding(b))
  BY DEF GapInv
<1>2. UNCHANGED <<headers, fwd, curr, isBehind>>
  BY DEF forwarder
<1>3. Subscription(b)'
  BY <1>1, <1>2 DEF Subscription
<1>4. Orderly' => Forwarding(b)'
  BY <1>1, <1>2 DEF Forwarding
<1> QED
  BY <1>3, <1>4 DEF GapInv

\* Steps that leave the store and the queues alone.
LEMMA CursorGap ==
    ASSUME GapInv, IInv',
           UNCHANGED <<head, forwarder, coldStarts, resent, stored, stream, pel>>,
           OneBatch => OneBatch'
    PROVE  GapInv'
<1>1. Orderly' => Orderly
  BY DEF Orderly
<1>2. Orderly => Unbroken' /\ Under' = Under
  BY DEF GapInv, Unbroken, Under, Waiting, Elems, Upto
<1> QED
  BY <1>1, <1>2, RouterGap DEF GapInv

\* The batch in hand is the whole backlog.
LEMMA BatchIsBacklog ==
    ASSUME IInv, OneBatch, pc \in {"put", "flush", "ack"}
    PROVE  Batch = Elems(pel)
BY DEF IInv, Typed, InHand, OneBatch, Batch, Elems

\* The batch is stored: the store grows by the whole backlog.
LEMMA StoreGap ==
    ASSUME GapInv, IInv', pc \in {"put", "flush", "ack"},
           UNCHANGED <<head, forwarder, coldStarts, resent, stream, pel>>,
           stored' \in {stored, stored \cup Batch}, OneBatch => OneBatch'
    PROVE  GapInv'
<1>1. Orderly' => Orderly
  BY DEF Orderly
<1>2. ASSUME Orderly PROVE Unbroken' /\ Under' = Under
  <2>1. stored' = stored \/ stored' = Waiting
    BY <1>2, BatchIsBacklog DEF GapInv, Waiting
  <2>2. Waiting' = Waiting /\ Under' = Under
    BY <2>1 DEF Waiting, Under, Elems
  <2>3. Gapless(Waiting)
    <3>1. 0 \in 0 .. Len(stream) /\ Upto(stream, 0) = {}
      BY UnderType DEF Upto, GapInv
    <3> QED
      BY <1>2, <3>1 DEF GapInv, Unbroken
  <2>4. Gapless(stored')
    BY <1>2, <2>1, <2>3 DEF GapInv, Unbroken
  <2> QED
    BY <1>2, <2>2, <2>4 DEF GapInv, Unbroken, Upto
<1> QED
  BY <1>1, <1>2, RouterGap DEF GapInv

\* The backlog is read from its beginning to its end at once.
LEMMA BacklogReadGap == ASSUME GapInv, BacklogRead PROVE GapInv'
<1>1. IInv' /\ Len(pel) \in Nat /\ BatchSize \in Nat /\ pos \in Nat
  BY BacklogReadStep, ConstantsAssumption DEF GapInv, IInv, Typed
<1>2. ASSUME OneBatch PROVE OneBatch'
  <2>1. pos = 0 /\ Len(pel) <= BatchSize
    BY <1>1, <1>2 DEF OneBatch, BacklogRead
  <2>2. Min({BatchSize, Len(pel)}) = Len(pel)
    <3> DEFINE S == {BatchSize, Len(pel)}
    <3>1. Len(pel) \in S /\ \A x \in S : Len(pel) <= x
      BY <1>1, <2>1
    <3>2. \A y \in S : (\A x \in S : y <= x) => y = Len(pel)
      BY <1>1, <2>1
    <3> HIDE DEF S
    <3>3. Min(S) = Len(pel)
      BY <3>1, <3>2 DEF Min
    <3> QED
      BY <3>3 DEF S
  <2>3. Len(pel) - pos = Len(pel)
    BY <1>1, <2>1
  <2>4. held' = Len(pel) /\ UNCHANGED <<pel, pos>> /\ pc' = "put"
    BY <2>2, <2>3 DEF BacklogRead, queue
  <2> QED
    BY <1>2, <2>1, <2>4 DEF OneBatch
<1> QED
  BY <1>1, <1>2, CursorGap DEF BacklogRead, Elsewhere, queue

\* The end of the backlog: the router turns to new blocks when it is empty.
LEMMA BacklogEndGap == ASSUME GapInv, BacklogEnd PROVE GapInv'
<1>1. IInv' /\ Len(pel) \in Nat /\ pel \in Seq(Height) /\ held = 0
  BY BacklogEndStep DEF GapInv, IInv, Typed, InHand, BacklogEnd
<1>2. UNCHANGED <<pel, held>> /\ pos' = 0
  BY DEF BacklogEnd, queue
<1>3. ASSUME pc' = "new" PROVE pel = <<>>
  <2>1. pos = 0 /\ pos >= Len(pel)
    BY <1>3 DEF BacklogEnd
  <2>2. Len(pel) = 0
    BY <1>1, <2>1
  <2> QED
    BY <1>1, <2>2, EmptySeq
<1>4. OneBatch => OneBatch'
  BY <1>1, <1>2, <1>3 DEF OneBatch
<1> QED
  BY <1>1, <1>4, CursorGap DEF BacklogEnd, Elsewhere, queue

\* A new batch is the first part of the stream, and the backlog was empty.
LEMMA NewReadGap == ASSUME GapInv, NewRead PROVE GapInv'
<1>1. IInv'
  BY NewReadStep DEF GapInv
<1>2. PICK n \in 1 .. BatchSize : Deliver(n) /\ held' = n
  BY DEF NewRead
<1>3. /\ UNCHANGED <<head, forwarder, coldStarts, resent, stored>>
      /\ pos' = Len(pel) /\ pc' = "put" /\ pc = "new"
  BY <1>2 DEF NewRead, Elsewhere, Deliver
<1>4. /\ stream \in Seq(Height) /\ pel \in Seq(Height) /\ Len(stream) \in Nat
      /\ BatchSize \in Nat
  BY ConstantsAssumption DEF GapInv, IInv, Typed
<1>5. n \in 0 .. Len(stream)
  <2> DEFINE S == {BatchSize, Len(stream)}
  <2>1. \E m \in S : \A x \in S : m <= x
    BY <1>4
  <2>2. \A x \in S : n <= x
    BY <1>2, <2>1 DEF Deliver, Min
  <2> QED
    BY <1>4, <2>2
<1>6. ASSUME Orderly PROVE OneBatch' /\ Unbroken' /\ Under' = Under
  <2>1. pel = <<>> /\ Len(pel) = 0
    BY <1>3, <1>6, EmptySeq DEF GapInv, OneBatch
  <2>2. pel' = SubSeq(stream, 1, n) /\ stream' = SubSeq(stream, n + 1, Len(stream))
    <3>1. SubSeq(stream, 1, n) \in Seq(Height)
      BY <1>4, <1>5, ElemsOfCut
    <3>2. <<>> \o SubSeq(stream, 1, n) = SubSeq(stream, 1, n)
      BY <3>1, ConcatEmptySeq
    <3> QED
      BY <1>2, <2>1, <3>2 DEF Deliver
  <2>3. /\ Elems(pel') = Upto(stream, n) /\ Len(stream') = Len(stream) - n
        /\ \A i \in 0 .. Len(stream) - n :
              Upto(stream, n) \cup Upto(stream', i) = Upto(stream, n + i)
    BY <1>4, <1>5, <2>2, UptoCut
  <2>4. Elems(pel) = {}
    BY <2>1 DEF Elems
  <2>5. Waiting = stored /\ Waiting' = stored \cup Upto(stream, n)
    BY <1>3, <2>3, <2>4 DEF Waiting
  <2>6. \A i \in 0 .. Len(stream) - n :
            Waiting' \cup Upto(stream', i) = stored \cup Upto(stream, n + i)
    BY <2>3, <2>5
  <2>7. Unbroken'
    <3>1. ASSUME NEW i \in 0 .. Len(stream) - n
          PROVE  Gapless(Waiting' \cup Upto(stream', i))
      <4>1. n + i \in 0 .. Len(stream)
        BY <1>4, <1>5, <3>1
      <4>2. Gapless(stored \cup Upto(stream, n + i))
        BY <1>6, <2>5, <4>1 DEF GapInv, Unbroken
      <4> QED
        BY <2>6, <4>2
    <3> QED
      BY <1>3, <1>6, <2>3, <3>1 DEF GapInv, Unbroken
  <2>8. Under' = Under
    <3>1. Elems(stream') = Upto(stream', Len(stream) - n)
      BY <2>3 DEF Elems, Upto
    <3>2. Len(stream) - n \in 0 .. Len(stream) - n /\ n + (Len(stream) - n) = Len(stream)
      BY <1>4, <1>5
    <3>3. Under' = stored \cup Upto(stream, Len(stream))
      BY <2>6, <3>1, <3>2 DEF Under
    <3> QED
      BY <2>5, <3>3 DEF Under, Elems, Upto
  <2>9. OneBatch'
    <3>1. Len(pel') = n /\ n <= BatchSize
      BY <1>4, <1>5, <2>2, ElemsOfCut
    <3> QED
      BY <1>2, <1>3, <2>1, <3>1 DEF OneBatch
  <2> QED
    BY <2>7, <2>8, <2>9
<1> QED
  BY <1>1, <1>3, <1>6, RouterGap DEF Orderly

\* A command that is repeated ends what is promised.
LEMMA ReadAgainGap == ASSUME GapInv, ReadAgain PROVE GapInv'
<1>1. IInv'
  BY ReadAgainStep DEF GapInv
<1>2. ~Orderly' /\ UNCHANGED <<head, forwarder, coldStarts>>
  BY DEF ReadAgain, Orderly
<1> QED
  BY <1>1, <1>2, RouterGap

\* Leaving the handler.
LEMMA ReturnOneBatch ==
    ASSUME IInv, OneBatch, HandlerReturns(TRUE), pel' = pel PROVE OneBatch'
<1>1. pos' \in {0, Len(pel)}
  <2>1. CASE held > 0
    BY <2>1 DEF OneBatch, HandlerReturns
  <2>2. CASE ~(held > 0)
    BY <2>2 DEF OneBatch, HandlerReturns, IInv, Typed
  <2> QED
    BY <2>1, <2>2
<1> QED
  BY <1>1 DEF OneBatch, HandlerReturns

\* The handler's steps before the acknowledgement.
LEMMA HandlerGap ==
    ASSUME GapInv,
           \/ PutBlocks \/ PutError \/ AckError \/ FlushesReturn
           \/ \E s \in Shard : FlushShard(s) \/ FlushError(s)
    PROVE  GapInv'
<1>1. IInv' /\ IInv
  BY PutBlocksStep, PutErrorStep, AckErrorStep, FlushShardStep, FlushErrorStep,
     FlushesReturnStep DEF GapInv
<1>2. /\ pc \in {"put", "flush", "ack"}
      /\ UNCHANGED <<head, forwarder, coldStarts, resent, stream, pel>>
      /\ stored' \in {stored, stored \cup Batch}
  BY DEF PutBlocks, PutError, AckError, FlushShard, FlushError, FlushesReturn, Elsewhere, queue
<1>3. OneBatch => OneBatch'
  <2>1. HandlerReturns(TRUE) \/ (UNCHANGED <<pos, held>> /\ pc' # "new")
    BY DEF PutBlocks, PutError, AckError, FlushShard, FlushError, FlushesReturn
  <2> QED
    BY <1>1, <1>2, <2>1, ReturnOneBatch DEF OneBatch
<1> QED
  BY <1>1, <1>2, <1>3, StoreGap

\* The batch, which is the whole backlog and stored, is acknowledged.
LEMMA XAckDelGap == ASSUME GapInv, XAckDel PROVE GapInv'
<1>1. IInv' /\ IInv
  BY XAckDelStep DEF GapInv
<1>2. /\ pc = "ack" /\ pc' = "backlog" /\ held' = 0 /\ pos' \in {0, pos}
      /\ pel' = SubSeq(pel, 1, pos) \o SubSeq(pel, pos + held + 1, Len(pel))
      /\ UNCHANGED <<head, forwarder, coldStarts, resent, stream, stored>>
  BY DEF XAckDel, HandlerReturns, Elsewhere
<1>3. Orderly' => Orderly
  BY <1>2 DEF Orderly
<1>4. ASSUME Orderly PROVE OneBatch' /\ Unbroken' /\ Under' = Under
  <2>1. OneBatch /\ Unbroken /\ held > 0 /\ pos = 0 /\ held = Len(pel)
    BY <1>1, <1>2, <1>4 DEF GapInv, IInv, InHand, OneBatch
  <2>2. pel \in Seq(Height) /\ Len(pel) \in Nat
    BY <1>1 DEF IInv, Typed
  <2>3. pel' = <<>>
    <3>1. SubSeq(pel, 1, 0) = <<>> /\ SubSeq(pel, Len(pel) + 1, Len(pel)) = <<>>
      BY <2>2, SubSeqEmpty
    <3>2. pel' = <<>> \o <<>>
      BY <1>2, <2>1, <3>1
    <3> QED
      BY <3>2, EmptySeq, ConcatEmptySeq
  <2>4. OneBatch'
    <3>1. BatchSize \in Nat /\ Len(<<>>) = 0
      BY ConstantsAssumption
    <3> QED
      BY <1>2, <2>1, <2>3, <3>1 DEF OneBatch
  <2>5. Waiting = stored
    <3>1. Batch \subseteq stored /\ Batch = Elems(pel)
      BY <1>1, <1>2, <2>1, BatchIsBacklog DEF IInv, Progress
    <3> QED
      BY <3>1 DEF Waiting
  <2>6. Waiting' = Waiting
    <3>1. Elems(pel') = {}
      BY <2>3 DEF Elems
    <3>2. Waiting' = stored' \cup Elems(pel')
      BY DEF Waiting, Elems
    <3> QED
      BY <1>2, <2>5, <3>1, <3>2
  <2>7. Under' = Under /\ Unbroken'
    BY <1>2, <2>1, <2>6 DEF Under, Unbroken, Elems, Upto
  <2> QED
    BY <2>4, <2>7
<1> QED
  BY <1>1, <1>2, <1>3, <1>4, RouterGap

\* A router that was started again reads its backlog from the beginning.
LEMMA RouterCrashGap == ASSUME GapInv, RouterCrash PROVE GapInv'
<1>1. IInv'
  BY RouterCrashStep DEF GapInv
<1>2. /\ UNCHANGED <<head, forwarder, coldStarts, resent, stored, stream, pel>>
      /\ pos' = 0 /\ held' = 0 /\ pc' = "backlog"
  BY DEF RouterCrash, Elsewhere, queue
<1>3. OneBatch => OneBatch'
  BY <1>2 DEF OneBatch
<1> QED
  BY <1>1, <1>2, <1>3, CursorGap

\* At first nothing is forwarded or stored.
LEMMA InitGap == Init => GapInv
<1> SUFFICES ASSUME Init PROVE GapInv
  OBVIOUS
<1>1. IInv
  BY InitIInv
<1>2. /\ FirstHead \in Nat /\ BatchSize \in Nat /\ Len(headers) = 0 /\ Len(pel) = 0
      /\ Len(stream) = 0
  BY ConstantsAssumption DEF Init
<1>3. Under = {} /\ Waiting = {} /\ Upto(stream, 0) = {} /\ stored = {}
  BY <1>2 DEF Init, Under, Waiting, Elems, Upto
<1>4. Subscription(FirstHead) /\ Forwarding(FirstHead)
  BY <1>2, <1>3 DEF Init, Subscription, Follows, Forwarding
<1>5. OneBatch /\ Unbroken
  BY <1>2, <1>3 DEF Init, OneBatch, Unbroken, Gapless
<1> QED
  BY <1>1, <1>2, <1>4, <1>5 DEF GapInv

\* Every step keeps the order of the blocks, by the action it is.
LEMMA NextGap == ASSUME GapInv, [Next]_vars PROVE GapInv'
<1>1. CASE Forwarder
  BY <1>1, StartForwarderGap, SubscribeGap, ForwardHeaderGap, BeginCatchUpGap,
     CatchUpGap DEF Forwarder
<1>2. CASE Router
  BY <1>2, BacklogReadGap, BacklogEndGap, NewReadGap, XAckDelGap, HandlerGap DEF Router
<1>3. CASE Failure
  BY <1>3, ForwarderExitGap, RouterCrashGap, ReadAgainGap, HandlerGap DEF Failure
<1>4. CASE UNCHANGED vars
  <2>1. IInv'
    BY <1>4, NextStep DEF GapInv
  <2>2. /\ UNCHANGED <<head, forwarder, coldStarts, resent, stored, stream, pel>>
        /\ OneBatch => OneBatch'
    BY <1>4 DEF vars, queue, router, OneBatch
  <2> QED
    BY <2>1, <2>2, CursorGap
<1> QED
  BY <1>1, <1>2, <1>3, <1>4, NewHeadGap DEF Next

\* The block store never has a gap, as long as the forwarder found it empty
\* only once and no repeated XREADGROUP mixed two batches: through restarts of
\* the forwarder, which catches up from the highest stored block, and of the
\* router, which repeats its batch as a whole, for every batch size and chain.
THEOREM StoreHasNoGap == Spec => []NoGap
<1>1. GapInv /\ [Next]_vars => GapInv'
  BY NextGap
<1>2. GapInv => NoGap
  BY DEF GapInv, Unbroken, Orderly, Gapless, NoGap
<1> QED
  BY InitGap, <1>1, <1>2, PTL DEF Spec
=============================================================================
