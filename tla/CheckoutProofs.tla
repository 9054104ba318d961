--------------------------- MODULE CheckoutProofs ---------------------------
(***************************************************************************)
(* Proofs about Checkout, for any requests, sessions, events and failures. *)
(***************************************************************************)
EXTENDS Checkout, SequenceTheorems, TLAPS

-----------------------------------------------------------------------------
(* Types. *)

Status   == {"none", "open", "expired", "complete"}
Standing == {"none", "active", "past_due", "canceled"}
Id       == Session \cup {None}

\* A row of the table, or none.
Rows == {NoRow} \cup [id : Session, sess : Session]

StripeTyped ==
    /\ status \in [Session -> Status] /\ customer \in [Session -> Id]
    /\ sub \in [Session -> Standing] /\ gone \subseteq Session /\ lapses \in Nat

DbTyped ==
    /\ row \in Rows /\ draft \in Rows /\ lock \in Request \cup {None}
    /\ known \in BOOLEAN /\ userCached \in BOOLEAN /\ cache \in Object

\* A request asks Stripe for the session of a row it has read, and records a
\* session it has created.
RequestTyped ==
    /\ pc \in [Request -> {"idle", "get", "fetch", "set", "decide", "delete",
                           "create", "write", "read"}]
    /\ op \in [Request -> {"none", "checkout", "access"}]
    /\ saw \in [Request -> Rows] /\ obj \in [Request -> Object]
    /\ want \in [Request -> [ref : Id, customer : Id]]
    /\ new \in [Request -> Id]
    /\ \A r \in Request : pc[r] \in {"get", "fetch"} => saw[r] # NoRow
    /\ \A r \in Request : pc[r] = "write" => new[r] # None

GhostsTyped == shown \subseteq Session /\ stale \in BOOLEAN /\ stray \in BOOLEAN

Typed == EventsTypeOK /\ StripeTyped /\ DbTyped /\ RequestTyped /\ GhostsTyped

\* Sessions are positive numbers, None is no session and no request.
LEMMA NoneIsNone == None \notin Session /\ None \notin Request
BY CheckoutAssumption DEF Session, None

\* A row has a session, and the values that stand for nothing have their types.
LEMMA RowsOfSessions ==
    /\ \A w \in Rows : w # NoRow => w.id \in Session /\ w.sess \in Session
    /\ Rows \subseteq Row /\ NoRow \in Rows /\ NoObj \in Object
    /\ Empty \in [ref : Id, customer : Id]
    /\ \A i, s \in Session : [id |-> i, sess |-> s] \in Rows /\ [id |-> i, sess |-> s] # NoRow
    /\ \A w \in Rows, s \in Session : w # NoRow => [w EXCEPT !.sess = s] \in Rows
    /\ NoRow.id = None /\ NoRow.sess = None
BY NoneIsNone DEF Rows, Row, NoRow, NoObj, Object, Empty, Id

\* What Stripe returns of a session is a session object.
LEMMA RetrievedType == ASSUME StripeTyped, NEW s \in Session PROVE Retrieved(s) \in Object
BY DEF StripeTyped, Retrieved, Object, Status, Standing, Id

\* The strengthened types imply the type invariant.
LEMMA TypedIsTypeOK == ASSUME Typed PROVE TypeOK
<1>1. /\ \A s \in Session : Retrieved(s) \in Object
      /\ gone \subseteq Session /\ lapses \in Nat
  BY RetrievedType DEF Typed, StripeTyped
<1>2. /\ row \in Row /\ draft \in Row /\ lock \in Request \cup {None}
      /\ known \in BOOLEAN /\ userCached \in BOOLEAN /\ cache \in Object
  BY RowsOfSessions DEF Typed, DbTyped
<1>3. saw \in [Request -> Row]
  BY RowsOfSessions DEF Typed, RequestTyped
<1> QED
  BY <1>1, <1>2, <1>3 DEF Typed, RequestTyped, GhostsTyped, TypeOK, Id

-----------------------------------------------------------------------------
(* The events have their types. *)

\* Stripe has something to report, or has too much already.
LEMMA EmitTyped ==
    ASSUME EventsTypeOK, NEW k \in Kind, Emit(k), UNCHANGED <<stream, consumer, faults>>
    PROVE  EventsTypeOK'
<1>1. due' \in [Kind -> Nat]
  BY DEF EventsTypeOK, Emit
<1> QED
  BY <1>1 DEF EventsTypeOK, consumer

\* A fault is counted up to its bound.
LEMMA FaultTyped == ASSUME EventsTypeOK, Fault PROVE faults' \in 0 .. MaxFaults
BY EventsAssumption DEF EventsTypeOK, Fault

\* A call of a handler returns, and it may have failed.
LEMMA FinishTyped ==
    ASSUME EventsTypeOK, NEW call, Finish(call), UNCHANGED faults \/ Fault
    PROVE  EventsTypeOK'
<1>1. faults' \in 0 .. MaxFaults
  BY FaultTyped DEF EventsTypeOK
<1> QED
  BY <1>1 DEF EventsTypeOK, Finish, delivery

\* The event the consumer works on is taken from the others.
LEMMA AckDelTyped == ASSUME EventsTypeOK, AckDel PROVE EventsTypeOK'
<1>1. Position \in Int /\ pel \in Seq(Kind) /\ Len(pel) \in Nat
  BY DEF EventsTypeOK, Position
<1>2. Position >= 0
  BY <1>1 DEF EventsTypeOK, Position
<1>3. SubSeq(pel, 1, Position - 1) \in Seq(Kind)
  <2>1. \A i \in 1 .. Position - 1 : i \in 1 .. Len(pel)
    BY <1>1 DEF Position
  <2> QED
    BY <1>1, <2>1
<1>4. SubSeq(pel, Position + 1, Len(pel)) \in Seq(Kind)
  BY <1>1, <1>2
<1>5. pel' \in Seq(Kind)
  BY <1>3, <1>4 DEF AckDel
<1> QED
  BY <1>5 DEF AckDel, EventsTypeOK, delivery

\* Every step of the endpoint and the consumer.
LEMMA EventsStep ==
    ASSUME EventsTypeOK,
           Endpoint \/ Consume \/ ReadAgain \/ HandleError \/ ConsumerCrash
    PROVE  EventsTypeOK'
<1>1. ASSUME NEW k \in Kind, Produce(k) \/ ProduceUnanswered(k) PROVE EventsTypeOK'
  <2>1. faults' \in 0 .. MaxFaults /\ stream' \in Seq(Kind)
    <3>1. Append(stream, k) \in Seq(Kind)
      BY DEF EventsTypeOK
    <3>2. stream' = Append(stream, k) /\ (UNCHANGED faults \/ Fault)
      BY <1>1 DEF Produce, ProduceUnanswered
    <3> QED
      BY <3>1, <3>2, FaultTyped DEF EventsTypeOK
  <2>2. due' \in [Kind -> Nat]
    BY <1>1 DEF EventsTypeOK, Produce, ProduceUnanswered
  <2> QED
    BY <1>1, <2>1, <2>2 DEF EventsTypeOK, Produce, ProduceUnanswered, consumer
<1>2. CASE Build \/ ReadBacklog
  <2>1. stream' \in Seq(Kind)
    <3>1. stream' = stream \/ stream' = <<>>
      BY <1>2 DEF Build, ReadBacklog, delivery
    <3> QED
      BY <3>1, EmptySeq DEF EventsTypeOK
  <2> QED
    BY <1>2, <2>1 DEF EventsTypeOK, Build, ReadBacklog, delivery
<1>3. CASE ReadNew \/ ReadAgain
  <2>1. faults' \in 0 .. MaxFaults
    <3>1. UNCHANGED faults \/ Fault
      BY <1>3 DEF ReadNew, ReadAgain
    <3> QED
      BY <3>1, FaultTyped DEF EventsTypeOK
  <2>2. stream' \in Seq(Kind) /\ pel' \in Seq(Kind)
    <3>1. Deliver
      BY <1>3 DEF ReadNew, ReadAgain
    <3>2. Head(stream) \in Kind /\ Tail(stream) \in Seq(Kind)
      BY <3>1 DEF EventsTypeOK, Deliver
    <3> QED
      BY <3>1, <3>2 DEF EventsTypeOK, Deliver
  <2> QED
    BY <1>3, <2>1, <2>2 DEF EventsTypeOK, ReadNew, ReadAgain
<1>4. CASE Handle \/ HandleError
  <2>1. faults' \in 0 .. MaxFaults
    BY <1>4, FaultTyped DEF EventsTypeOK, Handle, HandleError
  <2>2. todo' \subseteq {"cache", "row"}
    BY <1>4 DEF Handle, HandleError
  <2> QED
    BY <1>4, <2>1, <2>2 DEF EventsTypeOK, Handle, HandleError, delivery
<1>5. CASE ConsumerCrash
  <2>1. faults' \in 0 .. MaxFaults
    BY <1>5, FaultTyped DEF ConsumerCrash
  <2> QED
    BY <1>5, <2>1 DEF EventsTypeOK, ConsumerCrash, delivery
<1> QED
  BY <1>1, <1>2, <1>3, <1>4, <1>5, AckDelTyped DEF Endpoint, Consume

\* A request can fail, and the consumer is not affected.
LEMMA OnlyFault ==
    ASSUME EventsTypeOK, Fault, UNCHANGED <<delivery, consumer>> PROVE EventsTypeOK'
BY FaultTyped DEF EventsTypeOK, delivery, consumer

\* Nothing happens to the events.
LEMMA QuietEvents == ASSUME EventsTypeOK, UNCHANGED events PROVE EventsTypeOK'
BY DEF EventsTypeOK, events, delivery, consumer

-----------------------------------------------------------------------------
(* The other variables have their types. *)

\* Initially there is nothing but types.
LEMMA InitTyped == Init => Typed
<1> SUFFICES ASSUME Init PROVE Typed
  OBVIOUS
<1>1. EventsTypeOK
  <2>1. <<>> \in Seq(Kind) /\ 0 \in 0 .. MaxFaults
    BY EventsAssumption, EmptySeq
  <2> QED
    BY <2>1 DEF Init, EventsInit, EventsTypeOK
<1>2. StripeTyped /\ GhostsTyped
  BY DEF Init, StripeTyped, GhostsTyped, Status, Standing, Id
<1>3. DbTyped
  BY RowsOfSessions DEF Init, DbTyped
<1>4. RequestTyped
  BY RowsOfSessions DEF Init, RequestTyped, Id
<1> QED
  BY <1>1, <1>2, <1>3, <1>4 DEF Typed

\* What Stripe does of itself.
LEMMA WorldTyped ==
    ASSUME Typed, World
    PROVE  EventsTypeOK' /\ StripeTyped'
<1> PICK s \in Session : Pay(s) \/ Expire(s) \/ ChangeSubscription(s) \/ DeleteCustomer(s)
  BY DEF World
<1>1. EventsTypeOK'
  BY EmitTyped, QuietEvents
     DEF Typed, Pay, Expire, ChangeSubscription, DeleteCustomer, Kind, consumer
<1> USE DEF Typed, StripeTyped
<1>2. CASE Pay(s)
  <2>1. /\ status' = [status EXCEPT ![s] = "complete"]
        /\ sub' = [sub EXCEPT ![s] = "active"]
        /\ gone' = gone /\ lapses' = lapses
    BY <1>2 DEF Pay
  <2>2. customer' = [customer EXCEPT ![s] = s] \/ customer' = customer
    BY <1>2 DEF Pay
  <2> QED
    BY <1>1, <2>1, <2>2 DEF Status, Standing, Id
<1>3. CASE Expire(s)
  <2>1. status' = [status EXCEPT ![s] = "expired"] /\ UNCHANGED <<customer, sub, gone, lapses>>
    BY <1>3 DEF Expire
  <2> QED
    BY <1>1, <2>1 DEF Status
<1>4. CASE ChangeSubscription(s)
  <2>1. /\ \E x \in Standing : sub' = [sub EXCEPT ![s] = x]
        /\ lapses' = lapses \/ lapses' = lapses + 1
        /\ UNCHANGED <<status, customer, gone>>
    BY <1>4 DEF ChangeSubscription, Standing
  <2> QED
    BY <1>1, <2>1
<1>5. CASE DeleteCustomer(s)
  <2>1. /\ sub' = [t \in Session |-> IF customer[t] = s /\ sub[t] # "none"
                                     THEN "canceled" ELSE sub[t]]
        /\ gone' = gone \cup {s} /\ UNCHANGED <<status, customer, lapses>>
    BY <1>5 DEF DeleteCustomer
  <2> QED
    BY <1>1, <2>1 DEF Standing
<1> QED
  BY <1>1, <1>2, <1>3, <1>4, <1>5

\* A request ends, and leaves nothing behind.
LEMMA EndedTyped ==
    ASSUME RequestTyped, NEW r \in Request, Ended(r)
    PROVE  RequestTyped'
BY RowsOfSessions DEF RequestTyped, Ended, Id

\* The steps of requests on their own variables.
LEMMA BeginTyped ==
    ASSUME RequestTyped, DbTyped, NEW r \in Request, NEW kind \in Ops, Begin(r, kind)
    PROVE  RequestTyped' /\ DbTyped'
<1>1. DbTyped'
  BY DEF Begin, Authenticate, DbTyped, db
<1>2. kind \in {"none", "checkout", "access"}
  BY CheckoutAssumption
<1>3. RequestTyped'
  BY <1>2 DEF Begin, DbTyped, RequestTyped
<1> QED
  BY <1>1, <1>3

\* The cache is asked, then Stripe, then the cache is filled.
LEMMA AskTyped ==
    ASSUME RequestTyped, DbTyped, StripeTyped, NEW r \in Request,
           GetCached(r) \/ Fetch(r) \/ SetCached(r)
    PROVE  RequestTyped' /\ DbTyped'
<1>1. CASE GetCached(r)
  BY <1>1 DEF GetCached, RequestTyped, DbTyped, db, users
<1>2. CASE Fetch(r)
  <2>1. saw[r].sess \in Session
    BY <1>2, RowsOfSessions DEF Fetch, RequestTyped
  <2> DEFINE o == Retrieved(saw[r].sess)
  <2>2. o \in Object
    BY <2>1, RetrievedType
  <2>3. obj' = [obj EXCEPT ![r] = o]
    BY <1>2 DEF Fetch
  <2> HIDE DEF o
  <2> QED
    BY <1>2, <2>2, <2>3 DEF Fetch, RequestTyped, DbTyped, db, users
<1>3. CASE SetCached(r)
  BY <1>3 DEF SetCached, RequestTyped, DbTyped, db, users
<1> QED
  BY <1>1, <1>2, <1>3

\* A request decides what the session object means.
LEMMA DecideTyped ==
    ASSUME RequestTyped, DbTyped, GhostsTyped, NEW r \in Request,
           DecideAccess(r) \/ DecideCheckout(r)
    PROVE  RequestTyped' /\ DbTyped' /\ GhostsTyped'
<1>1. DbTyped'
  BY DEF DecideAccess, DecideCheckout, DbTyped, db, users
<1>2. CASE DecideAccess(r)
  BY <1>1, <1>2, EndedTyped DEF DecideAccess, GhostsTyped, ghosts
<1>3. CASE DecideCheckout(r)
  <2>1. stale' \in BOOLEAN /\ stray' = stray
    BY <1>3 DEF DecideCheckout, GhostsTyped
  <2>2. saw[r].sess \in Id /\ obj[r].customer \in Id /\ obj[r] \in Object
    BY RowsOfSessions DEF RequestTyped, Object, Id
  <2>3. CASE pc' = [pc EXCEPT ![r] = "delete"] /\ obj' = [obj EXCEPT ![r] = NoObj]
             /\ UNCHANGED <<op, saw, want, new, shown>>
    BY <2>1, <2>3, <1>1, RowsOfSessions DEF RequestTyped, GhostsTyped
  <2>4. CASE /\ want' = [want EXCEPT ![r] = Resolved(obj[r], saw[r].sess)]
             /\ saw' = [saw EXCEPT ![r] = NoRow] /\ obj' = [obj EXCEPT ![r] = NoObj]
             /\ pc' = [pc EXCEPT ![r] = "create"]
             /\ UNCHANGED <<op, new, shown>>
    <3>1. Resolved(obj[r], saw[r].sess) \in [ref : Id, customer : Id]
      BY <2>2 DEF Resolved
    <3> QED
      BY <2>1, <2>4, <3>1, <1>1, RowsOfSessions DEF RequestTyped, GhostsTyped
  <2>5. CASE Return(r, IF obj[r].status = "open" THEN saw[r].sess ELSE None)
    BY <2>1, <2>2, <2>5, <1>1, EndedTyped DEF Return, GhostsTyped, Id
  <2> QED
    BY <1>3, <2>3, <2>4, <2>5 DEF DecideCheckout
<1> QED
  BY <1>2, <1>3

\* The row of a deleted customer goes.
LEMMA DeleteRowTyped ==
    ASSUME RequestTyped, DbTyped, NEW r \in Request, DeleteRow(r)
    PROVE  RequestTyped' /\ DbTyped'
<1>1. DbTyped'
  BY RowsOfSessions DEF DeleteRow, DbTyped, users
<1>2. RequestTyped'
  BY RowsOfSessions DEF DeleteRow, RequestTyped
<1> QED
  BY <1>1, <1>2

\* A session is created, or refused.
LEMMA CreateTyped ==
    ASSUME RequestTyped, DbTyped, StripeTyped, NEW r \in Request, CreateSession(r)
    PROVE  RequestTyped' /\ DbTyped' /\ StripeTyped'
<1>1. DbTyped'
  BY DEF CreateSession, DbTyped, db
<1>2. CASE Ended(r) /\ UNCHANGED <<status, customer>>
  BY <1>1, <1>2, EndedTyped DEF CreateSession, StripeTyped
<1>3. ASSUME NEW s \in Session,
             status' = [status EXCEPT ![s] = "open"],
             customer' = [customer EXCEPT ![s] = want[r].customer],
             new' = [new EXCEPT ![r] = s], pc' = [pc EXCEPT ![r] = "write"],
             UNCHANGED <<op, saw, obj, want>>
      PROVE  RequestTyped' /\ StripeTyped'
  <2>1. RequestTyped'
    BY <1>3, NoneIsNone DEF RequestTyped, Id
  <2>2. want[r].customer \in Id
    BY DEF RequestTyped
  <2>3. StripeTyped'
    BY <1>3, <2>2 DEF CreateSession, StripeTyped, Status
  <2> QED
    BY <2>1, <2>3
<1> QED
  BY <1>1, <1>2, <1>3 DEF CreateSession

\* What a transaction writes: a row of the new session, the row with the new
\* session, or nothing new.
LEMMA WriteCases ==
    ASSUME Typed, NEW r \in Request, WriteSession(r)
    PROVE  /\ new[r] \in Session
           /\ \/ UNCHANGED <<lock, draft>>
              \/ /\ lock = None /\ lock' = r
                 /\ \/ draft' = row
                    \/ row = NoRow /\ draft' = [id |-> new[r], sess |-> new[r]]
                    \/ /\ row # NoRow /\ want[r].ref # None /\ row.sess = want[r].ref
                       /\ draft' = [row EXCEPT !.sess = new[r]]
<1>1. new[r] \in Session
  BY DEF WriteSession, Typed, RequestTyped, Id
<1>2. row = NoRow => row.sess = None
  BY RowsOfSessions
<1> QED
  BY <1>1, <1>2 DEF WriteSession, Insert, LockAndUpdate

\* The new session is written.
LEMMA WriteTyped ==
    ASSUME Typed, NEW r \in Request, WriteSession(r)
    PROVE  RequestTyped' /\ DbTyped'
<1>1. draft' \in Rows /\ lock' \in Request \cup {None}
  BY WriteCases, RowsOfSessions DEF Typed, DbTyped
<1>2. DbTyped'
  BY <1>1 DEF WriteSession, Typed, DbTyped, users
<1>3. RequestTyped'
  BY RowsOfSessions DEF WriteSession, Typed, RequestTyped, Id
<1> QED
  BY <1>2, <1>3

\* The transaction is committed, and the request ends.
LEMMA CommitTyped ==
    ASSUME Typed, NEW r \in Request, ReadAndCommit(r)
    PROVE  RequestTyped' /\ DbTyped' /\ GhostsTyped'
<1>1. RowSeenBy(r).sess \in Id
  BY RowsOfSessions DEF RowSeenBy, Typed, DbTyped, Id
<1>2. RequestTyped' /\ GhostsTyped'
  BY <1>1, EndedTyped DEF ReadAndCommit, Return, Typed, GhostsTyped, Id
<1>3. DbTyped'
  BY RowsOfSessions DEF ReadAndCommit, Typed, DbTyped, db, users
<1> QED
  BY <1>2, <1>3

\* Every step.
LEMMA TypedNext == ASSUME Typed, [Next]_vars PROVE Typed'
<1> USE DEF Typed
<1>1. CASE World
  <2>1. UNCHANGED <<db, users, cache, request, ghosts>>
    BY <1>1 DEF World, Pay, Expire, ChangeSubscription, DeleteCustomer
  <2>2. DbTyped' /\ RequestTyped' /\ GhostsTyped'
    BY <2>1 DEF DbTyped, RequestTyped, GhostsTyped, db, users, request, ghosts
  <2> QED
    BY <1>1, <2>2, WorldTyped
<1>2. CASE Events \/ CacheExpires \/ UserExpires \/ Invalidate \/ EffectError \/ UNCHANGED vars
  <2>1. EventsTypeOK'
    BY <1>2, EventsStep, FinishTyped, QuietEvents
       DEF Events, CacheExpires, UserExpires, Invalidate, EffectError, vars
  <2>2. UNCHANGED <<stripe, db, request, ghosts>>
    BY <1>2 DEF Events, CacheExpires, UserExpires, Invalidate, EffectError, vars
  <2>3. cache' \in {cache, NoObj} /\ userCached' \in {userCached, FALSE} /\ known' = known
    BY <1>2 DEF Events, CacheExpires, UserExpires, Invalidate, EffectError, vars, users
  <2>4. DbTyped'
    BY <2>2, <2>3, RowsOfSessions DEF DbTyped, db
  <2>5. StripeTyped' /\ RequestTyped' /\ GhostsTyped'
    BY <2>2 DEF StripeTyped, RequestTyped, GhostsTyped, stripe, request, ghosts
  <2> QED
    BY <2>1, <2>4, <2>5
<1>3. CASE DeleteRowOfCustomer
  <2>1. EventsTypeOK'
    BY <1>3, FinishTyped DEF DeleteRowOfCustomer
  <2>2. DbTyped'
    BY <1>3, RowsOfSessions DEF DeleteRowOfCustomer, DbTyped, users
  <2>3. StripeTyped' /\ RequestTyped'
    BY <1>3 DEF DeleteRowOfCustomer, StripeTyped, RequestTyped, stripe, request
  <2>4. GhostsTyped'
    BY <1>3 DEF DeleteRowOfCustomer, GhostsTyped
  <2> QED
    BY <2>1, <2>2, <2>3, <2>4
<1>4. ASSUME NEW r \in Request, \E kind \in Ops : Begin(r, kind) PROVE Typed'
  <2>1. EventsTypeOK' /\ StripeTyped' /\ GhostsTyped'
    BY <1>4, QuietEvents DEF Begin, Elsewhere, StripeTyped, GhostsTyped, stripe, ghosts
  <2> QED
    BY <1>4, <2>1, BeginTyped
<1>5. ASSUME NEW r \in Request, Work(r) PROVE Typed'
  <2>1. UNCHANGED events
    BY <1>5 DEF Work, GetCached, Fetch, SetCached, DecideAccess, DecideCheckout,
                DeleteRow, CreateSession, WriteSession, ReadAndCommit, Elsewhere
  <2>2. CASE GetCached(r) \/ Fetch(r) \/ SetCached(r) \/ DeleteRow(r) \/ WriteSession(r)
    <3>1. StripeTyped' /\ GhostsTyped'
      BY <2>2 DEF GetCached, Fetch, SetCached, DeleteRow, WriteSession, Elsewhere,
                  StripeTyped, GhostsTyped, stripe, ghosts
    <3> QED
      BY <2>1, <2>2, <3>1, QuietEvents, AskTyped, DeleteRowTyped, WriteTyped
  <2>3. CASE DecideAccess(r) \/ DecideCheckout(r) \/ ReadAndCommit(r)
    <3>1. StripeTyped'
      BY <2>3 DEF DecideAccess, DecideCheckout, ReadAndCommit, Elsewhere, StripeTyped, stripe
    <3> QED
      BY <2>1, <2>3, <3>1, QuietEvents, DecideTyped, CommitTyped
  <2>4. CASE CreateSession(r)
    <3>1. GhostsTyped'
      BY <2>4 DEF CreateSession, GhostsTyped, ghosts
    <3> QED
      BY <2>1, <2>4, <3>1, QuietEvents, CreateTyped
  <2> QED
    BY <1>5, <2>2, <2>3, <2>4 DEF Work
<1>6. ASSUME NEW r \in Request, RequestFails(r) PROVE Typed'
  <2>1. EventsTypeOK' /\ RequestTyped'
    BY <1>6, OnlyFault, EndedTyped DEF RequestFails
  <2>2. StripeTyped' /\ GhostsTyped'
    BY <1>6 DEF RequestFails, StripeTyped, GhostsTyped, stripe, ghosts
  <2>3. DbTyped'
    BY <1>6, RowsOfSessions DEF RequestFails, DbTyped, db, users
  <2> QED
    BY <2>1, <2>2, <2>3
<1> QED
  BY <1>1, <1>2, <1>3, <1>4, <1>5, <1>6 DEF Next

\* Every variable has its type in every reachable state, for any requests,
\* sessions, events and failures: no request asks Stripe for a session it has
\* not read, or records one it has not created.
THEOREM CheckoutTypeCorrect == Spec => []TypeOK
<1>1. Typed /\ [Next]_vars => Typed'
  BY TypedNext
<1>2. Typed => TypeOK
  BY TypedIsTypeOK
<1> QED
  BY InitTyped, <1>1, <1>2, PTL DEF Spec

-----------------------------------------------------------------------------
(* One link, one customer: the inductive invariant. *)

\* A session that nobody can pay, now or later, and whose subscription, if it
\* ever had one, has ended.
Dead(s) == \/ status[s] = "expired"
           \/ customer[s] \in gone
           \/ status[s] = "complete" /\ sub[s] = "canceled"

\* How Stripe's books hang together.
Books ==
    /\ \A s \in Session :
          /\ status[s] = "none" => customer[s] = None
          /\ sub[s] # "none" => status[s] = "complete"
          /\ customer[s] \in gone => sub[s] \in {"none", "canceled"}
          /\ customer[s] # None => customer[customer[s]] = customer[s]
          /\ status[s] = "complete" => customer[s] # None
    /\ \A c \in gone : customer[c] = c

\* Sessions that the user has seen, or that a request may find in the row.
Mentioned(s) == \/ s \in shown \/ s = row.id \/ s = row.sess
                \/ \E r \in Request : s = saw[r].id \/ s = saw[r].sess

Named(s) == Mentioned(s) \/ s = draft.id \/ s = draft.sess \/ \E r \in Request : new[r] = s

\* Nobody knows of a session before it is created.
Unborn == \A s \in Session : status[s] = "none" => ~Named(s)

\* A session object, however old, is right about all that is final.
Snapshot(o) ==
    /\ o.status \in {"expired", "complete"} =>
          o.id # None /\ status[o.id] = o.status /\ customer[o.id] = o.customer
    /\ o.status = "complete" /\ o.deleted => customer[o.id] \in gone
    /\ o.status = "complete" /\ o.sub = "canceled" => sub[o.id] = "canceled"

Snapshots == Snapshot(cache) /\ \A r \in Request : Snapshot(obj[r])

\* A session is replaced when it is dead, and hands on its customer.
Wants ==
    \A r \in Request :
        /\ want[r].ref = None => want[r].customer = None
        /\ want[r].ref # None => /\ Dead(want[r].ref)
                                 /\ customer[want[r].ref] = want[r].customer

\* A session that was just created is its creator's alone.
News ==
    \A r \in Request : pc[r] = "write" =>
        /\ ~Mentioned(new[r])
        /\ lock # None => draft.sess # new[r]
        /\ \A q \in Request : pc[q] = "write" /\ new[q] = new[r] => q = r
        /\ customer[new[r]] = want[r].customer

\* What a transaction that locks the row may commit: the row as it is, the
\* user's first row, or the row with the successor of a dead session.
Drafts ==
    lock # None =>
        \/ draft = row
        \/ /\ draft # NoRow /\ ~Mentioned(draft.sess)
           /\ \/ row = NoRow /\ draft.id = draft.sess /\ customer[draft.sess] = None
              \/ /\ row # NoRow /\ draft.id = row.id
                 /\ Dead(row.sess) /\ customer[draft.sess] = customer[row.sess]

\* Of the sessions that were shown, and of those that a request has read in
\* the row, all but the one of the row are dead.
Recorded ==
    /\ \A s \in shown : Dead(s) \/ row.sess = s
    /\ \A r \in Request : saw[r] # NoRow => Dead(saw[r].sess) \/ row.sess = saw[r].sess

\* A row keeps its customer while its session is replaced, so that a row whose
\* key was read with a deleted customer has that customer still.
SameCustomer ==
    \A r \in Request :
        /\ saw[r] # NoRow /\ saw[r].id = row.id =>
              \/ row.sess = saw[r].sess
              \/ Dead(saw[r].sess) /\ customer[saw[r].sess] \in {None, customer[row.sess]}
        /\ pc[r] = "delete" => saw[r] # NoRow /\ customer[saw[r].sess] \in gone

\* A customer that is not deleted is the customer of the row.
OfRow ==
    \A c \in Session : customer[c] = c /\ c \notin gone =>
        row # NoRow /\ customer[row.sess] = c

Single == Wants /\ News /\ Drafts /\ Recorded /\ SameCustomer /\ OfRow

Linked == Books /\ Unborn /\ Snapshots /\ Single

LinkInv == Typed /\ (Fresh => Linked)

\* What the invariant is for: at most one session is not dead among those
\* that were shown, and it is the one of the row.
LEMMA LiveIsRecorded ==
    ASSUME LinkInv, Fresh, NEW s \in shown, Payable(s) \/ Live(s)
    PROVE  row.sess = s
<1>1. s \in Session
  BY DEF LinkInv, Typed, GhostsTyped
<1>2. ~Dead(s)
  BY <1>1 DEF LinkInv, Linked, Books, Payable, Live, Dead
<1> QED
  BY <1>2 DEF LinkInv, Linked, Single, Recorded

\* The properties follow.
LEMMA LinkInvImplies == ASSUME LinkInv PROVE OneLinkIfFresh /\ ShownIsRecorded /\ OneCustomer
<1>1. OneLinkIfFresh /\ ShownIsRecorded
  BY LiveIsRecorded DEF OneLinkIfFresh, OneLink, ShownIsRecorded
<1>2. OneCustomer
  BY DEF LinkInv, Linked, Single, OfRow, OneCustomer
<1> QED
  BY <1>1, <1>2

\* At first there is no session.
LEMMA InitLink == Init => LinkInv
<1> SUFFICES ASSUME Init PROVE LinkInv
  OBVIOUS
<1>1. Books
  BY NoneIsNone DEF Init, Books
<1>2. Unborn /\ Snapshots
  BY NoneIsNone DEF Init, Unborn, Named, Mentioned, Snapshots, Snapshot, NoRow, NoObj
<1>3. Wants /\ News /\ Drafts
  BY DEF Init, Wants, News, Drafts, Empty
<1>4. Recorded /\ SameCustomer /\ OfRow
  BY NoneIsNone DEF Init, Recorded, SameCustomer, OfRow
<1> QED
  BY <1>1, <1>2, <1>3, <1>4, InitTyped DEF LinkInv, Linked, Single

-----------------------------------------------------------------------------
(* What Stripe changes, and what it never takes back. *)

\* No step takes back what is final about a session.
Onward ==
    /\ gone \subseteq gone'
    /\ \A s \in Session :
          /\ status'[s] = "none" => status[s] = "none"
          /\ status[s] \in {"expired", "complete"} => status'[s] = status[s]
          /\ sub[s] = "canceled" => sub'[s] = "canceled"
          /\ customer[s] # None => customer'[s] = customer[s]
          /\ status[s] \in {"expired", "complete"} => customer'[s] = customer[s]
          /\ Dead(s) => Dead(s)' /\ customer'[s] = customer[s]

\* Only a payment gives a session a customer, unless it is a new session.
Payment ==
    \A s \in Session : customer'[s] # customer[s] =>
        s \in shown /\ ~Dead(s) /\ customer[s] = None /\ customer'[s] = s

\* Steps in which Stripe takes no part.
LEMMA QuietOnward == ASSUME UNCHANGED stripe PROVE Onward /\ Payment
BY DEF Onward, Payment, stripe, Dead

\* A payment, which may make a customer.
LEMMA PayOnward ==
    ASSUME Typed, Books, NEW s \in Session, Pay(s)
    PROVE  Books' /\ Onward /\ Payment
<1>1. /\ s \in shown /\ status[s] = "open" /\ customer[s] \notin gone /\ gone' = gone
      /\ status' = [status EXCEPT ![s] = "complete"]
      /\ customer' = [customer EXCEPT ![s] = IF customer[s] = None THEN s ELSE customer[s]]
      /\ sub' = [sub EXCEPT ![s] = "active"]
  BY DEF Pay
<1>2. /\ status \in [Session -> Status] /\ customer \in [Session -> Id]
      /\ sub \in [Session -> Standing] /\ gone \subseteq Session
  BY DEF Typed, StripeTyped
<1>3. /\ status'[s] = "complete" /\ sub'[s] = "active" /\ customer'[s] # None
      /\ customer[s] # None => customer'[s] = customer[s]
      /\ customer[s] = None => customer'[s] = s
      /\ \A t \in Session \ {s} : /\ status'[t] = status[t] /\ customer'[t] = customer[t]
                                  /\ sub'[t] = sub[t]
  BY <1>1, <1>2, NoneIsNone
<1>4. ~Dead(s)
  BY <1>1 DEF Dead
<1>5. Onward /\ Payment
  <2>1. ASSUME NEW t \in Session, Dead(t) PROVE Dead(t)' /\ customer'[t] = customer[t]
    <3>1. t # s
      BY <1>4, <2>1
    <3> QED
      BY <1>1, <1>3, <2>1, <3>1 DEF Dead
  <2>2. ASSUME NEW t \in Session
        PROVE  /\ status'[t] = "none" => status[t] = "none"
               /\ status[t] \in {"expired", "complete"} => status'[t] = status[t]
               /\ sub[t] = "canceled" => sub'[t] = "canceled"
               /\ customer[t] # None => customer'[t] = customer[t]
               /\ status[t] \in {"expired", "complete"} => customer'[t] = customer[t]
    <3>1. sub[s] = "none"
      BY <1>1 DEF Books
    <3>2. CASE t = s
      BY <1>1, <1>3, <3>1, <3>2
    <3>3. CASE t # s
      BY <1>3, <3>3
    <3> QED
      BY <3>2, <3>3
  <2>4. Onward
    BY <1>1, <2>1, <2>2 DEF Onward
  <2>3. Payment
    BY <1>1, <1>3, <1>4 DEF Payment
  <2> QED
    BY <2>3, <2>4
<1>6. customer[s] = None => s \notin gone
  BY NoneIsNone DEF Books
<1>7. \A t \in Session : customer[t] # None => customer[t] \in Session
  BY <1>2 DEF Id
<1>8. customer'[s] \notin gone
  BY <1>1, <1>3, <1>6
<1>9. \A t \in Session : customer'[t] # None => customer'[customer'[t]] = customer'[t]
  BY <1>3, <1>7 DEF Books
<1>10. \A c \in gone : customer'[c] = c
  BY <1>2, <1>3, NoneIsNone DEF Books
<1> QED
  BY <1>1, <1>3, <1>5, <1>8, <1>9, <1>10 DEF Books

\* An open session expires.
LEMMA ExpireOnward ==
    ASSUME Typed, Books, NEW s \in Session, Expire(s)
    PROVE  Books' /\ Onward /\ Payment
<1>1. /\ status[s] = "open" /\ status' = [status EXCEPT ![s] = "expired"]
      /\ UNCHANGED <<customer, sub, gone>>
  BY DEF Expire
<1>2. status'[s] = "expired" /\ \A t \in Session \ {s} : status'[t] = status[t]
  BY <1>1 DEF Typed, StripeTyped
<1> QED
  BY <1>1, <1>2 DEF Books, Onward, Payment, Dead

\* A subscription lapses, is made up for or ends.
LEMMA SubscriptionOnward ==
    ASSUME Typed, Books, NEW s \in Session, ChangeSubscription(s)
    PROVE  Books' /\ Onward /\ Payment
<1>1. /\ sub[s] \in {"active", "past_due"}
      /\ \E x \in {"active", "past_due", "canceled"} : sub' = [sub EXCEPT ![s] = x]
      /\ UNCHANGED <<status, customer, gone>>
  BY DEF ChangeSubscription
<1>2. \A t \in Session \ {s} : sub'[t] = sub[t]
  BY <1>1 DEF Typed, StripeTyped
<1>3. status[s] = "complete" /\ customer[s] \notin gone
  BY <1>1 DEF Books
<1> QED
  BY <1>1, <1>2, <1>3 DEF Books, Onward, Payment, Dead

\* A customer is deleted, with its subscriptions.
LEMMA DeleteOnward ==
    ASSUME Typed, Books, NEW c \in Session, DeleteCustomer(c)
    PROVE  Books' /\ Onward /\ Payment
<1>1. /\ \E s \in Session : customer[s] = c
      /\ gone' = gone \cup {c}
      /\ sub' = [s \in Session |-> IF customer[s] = c /\ sub[s] # "none"
                                   THEN "canceled" ELSE sub[s]]
      /\ UNCHANGED <<status, customer>>
  BY DEF DeleteCustomer
<1>2. \A s \in Session : sub'[s] \in {sub[s], "canceled"} /\ (sub[s] = "none" => sub'[s] = "none")
  BY <1>1
<1>3. customer[c] = c
  BY <1>1, NoneIsNone DEF Books
<1>4. Books'
  BY <1>1, <1>2, <1>3 DEF Books
<1>5. Onward /\ Payment
  BY <1>1, <1>2 DEF Onward, Payment, Dead
<1> QED
  BY <1>4, <1>5

\* Everything Stripe does of itself.
LEMMA WorldOnward == ASSUME Typed, Books, World PROVE Books' /\ Onward /\ Payment
BY PayOnward, ExpireOnward, SubscriptionOnward, DeleteOnward DEF World

-----------------------------------------------------------------------------
(* How the parts of the invariant are kept. *)

\* No step takes a created session back, so that only new names matter.
LEMMA UnbornStays ==
    ASSUME Unborn, Onward, \A s \in Session : Named(s)' => Named(s)
    PROVE  Unborn'
BY DEF Unborn, Onward

\* Session objects stay right, wherever they are passed on.
LEMMA SnapshotsStay ==
    ASSUME Typed, Snapshots, Onward,
           cache' \in {cache, NoObj} \cup {obj[r] : r \in Request},
           \A r \in Request : obj'[r] \in {obj[r], cache, NoObj}
    PROVE  Snapshots'
<1>1. ASSUME NEW o \in Object, Snapshot(o) PROVE Snapshot(o)'
  <2>1. o.id # None => o.id \in Session
    BY DEF Object
  <2> QED
    BY <1>1, <2>1 DEF Snapshot, Onward
<1>2. NoObj \in Object /\ Snapshot(NoObj)
  BY RowsOfSessions DEF Snapshot, NoObj
<1>3. cache \in Object /\ Snapshot(cache)
  BY DEF Typed, DbTyped, Snapshots
<1>4. ASSUME NEW r \in Request PROVE obj[r] \in Object /\ Snapshot(obj[r])
  BY DEF Typed, RequestTyped, Snapshots
<1>5. ASSUME NEW o \in Object, Snapshot(o) PROVE cache' = o => Snapshot(cache)'
  BY <1>1, <1>5 DEF Snapshot
<1>6. Snapshot(cache)'
  <2>1. PICK o \in Object : Snapshot(o) /\ cache' = o
    BY <1>2, <1>3, <1>4
  <2> QED
    BY <2>1, <1>5
<1>7. ASSUME NEW r \in Request PROVE Snapshot(obj[r])'
  <2>1. PICK o \in Object : Snapshot(o) /\ obj'[r] = o
    BY <1>2, <1>3, <1>4
  <2>2. Snapshot(o)'
    BY <1>1, <2>1
  <2> QED
    BY <2>1, <2>2 DEF Snapshot
<1> QED
  BY <1>6, <1>7 DEF Snapshots

\* The dead, and the customers of the dead, stay what they are.
LEMMA DeadStays ==
    ASSUME Onward, NEW s \in Session, Dead(s) PROVE Dead(s)' /\ customer'[s] = customer[s]
BY DEF Onward

\* Payments, expiries, cancellations and deletions at Stripe: only the row's
\* session can be paid.
LEMMA WorldSingle ==
    ASSUME Typed, Books, Single, Onward, Payment,
           UNCHANGED <<db, request, shown>>
    PROVE  Single'
<1>1. /\ \A w \in Rows : w # NoRow => w.sess \in Session
      /\ row \in Rows /\ draft \in Rows /\ \A r \in Request : saw[r] \in Rows
      /\ NoRow.sess = None /\ None \notin Session
  BY RowsOfSessions, NoneIsNone DEF Typed, DbTyped, RequestTyped
<1>2. /\ \A r \in Request : want[r].ref # None => want[r].ref \in Session
      /\ \A r \in Request : pc[r] = "write" => new[r] \in Session
  BY DEF Typed, RequestTyped, Id
<1>3. UNCHANGED <<row, lock, draft, pc, saw, want, new, shown>>
  BY DEF db, request
<1>4. \A s : Mentioned(s)' <=> Mentioned(s)
  BY <1>3 DEF Mentioned
<1>5. \A s \in Session : s \notin shown => customer'[s] = customer[s]
  BY DEF Payment
<1> USE DEF Single
<1>6. Wants'
  BY <1>2, <1>3, DeadStays DEF Wants
<1>7. News'
  BY <1>2, <1>3, <1>4, <1>5 DEF News, Mentioned
<1>8. Drafts'
  <2>1. lock # None /\ draft # row => customer'[draft.sess] = customer[draft.sess]
    BY <1>1, <1>5 DEF Drafts, Mentioned
  <2>2. row # NoRow /\ Dead(row.sess) => Dead(row.sess)' /\ customer'[row.sess] = customer[row.sess]
    <3>1. row # NoRow => row.sess \in Session
      BY <1>1
    <3>2. row' = row
      BY <1>3
    <3> QED
      BY <3>1, <3>2, DeadStays DEF Dead
  <2> QED
    BY <1>3, <1>4, <2>1, <2>2 DEF Drafts
<1>9. Recorded'
  BY <1>1, <1>3, DeadStays DEF Recorded, Typed, GhostsTyped
<1>10. SameCustomer'
  <2> SUFFICES ASSUME NEW r \in Request
               PROVE  /\ saw[r] # NoRow /\ saw[r].id = row.id =>
                            \/ row.sess = saw[r].sess
                            \/ /\ Dead(saw[r].sess)'
                               /\ customer'[saw[r].sess] \in {None, customer'[row.sess]}
                      /\ pc[r] = "delete" => saw[r] # NoRow /\ customer'[saw[r].sess] \in gone'
    BY <1>3 DEF SameCustomer, Dead
  <2>1. saw[r] # NoRow => saw[r].sess \in Session
    BY <1>1
  <2>2. saw[r] # NoRow /\ customer[saw[r].sess] \in gone
        => customer'[saw[r].sess] = customer[saw[r].sess] /\ customer[saw[r].sess] \in gone'
    BY <2>1, NoneIsNone DEF Onward, Typed, StripeTyped
  <2>3. saw[r] # NoRow /\ Dead(saw[r].sess)
        => customer'[saw[r].sess] = customer[saw[r].sess]
           /\ \/ status'[saw[r].sess] = "expired"
              \/ customer'[saw[r].sess] \in gone'
              \/ status'[saw[r].sess] = "complete" /\ sub'[saw[r].sess] = "canceled"
    BY <2>1, DeadStays DEF Dead
  <2>4. saw[r] # NoRow /\ saw[r].id = row.id => row.sess \in Session
    BY <1>1, RowsOfSessions, NoneIsNone
  <2>5. row.sess \in Session /\ customer[row.sess] # None
        => customer'[row.sess] = customer[row.sess]
    BY DEF Onward
  <2> QED
    BY <1>3, <2>2, <2>3, <2>4, <2>5 DEF SameCustomer, Dead
<1>11. OfRow'
  <2> SUFFICES ASSUME NEW c \in Session, customer'[c] = c, c \notin gone'
               PROVE  row # NoRow /\ customer'[row.sess] = c
    BY <1>3 DEF OfRow
  <2>1. CASE customer[c] = c
    <3>1. row # NoRow /\ customer[row.sess] = c
      BY <2>1 DEF OfRow, Onward
    <3>2. row.sess \in Session
      BY <1>1, <3>1
    <3> QED
      BY <1>1, <3>1, <3>2 DEF Onward
  <2>2. CASE customer[c] # c
    <3>1. c \in shown /\ ~Dead(c)
      BY <2>2 DEF Payment
    <3>2. row.sess = c
      BY <3>1 DEF Recorded
    <3> QED
      BY <1>1, <3>2
  <2> QED
    BY <2>1, <2>2
<1> QED
  BY <1>6, <1>7, <1>8, <1>9, <1>10, <1>11

\* Steps of requests that leave Stripe and the database alone.
LEMMA RequestSingle ==
    ASSUME Typed, Single, UNCHANGED <<stripe, db>>,
           \A s \in shown' : s \in shown \/ s = row.sess \/ \E q \in Request : s = saw[q].sess,
           shown' \subseteq Session,
           \A q \in Request : saw'[q] \in {saw[q], row, NoRow},
           \A q \in Request : pc'[q] = "write" =>
               pc[q] = "write" /\ new'[q] = new[q] /\ want'[q] = want[q],
           \A q \in Request : pc'[q] = "delete" =>
               saw'[q] # NoRow /\ customer[saw'[q].sess] \in gone,
           Wants'
    PROVE  Single'
<1>1. /\ UNCHANGED <<status, customer, sub, gone, row, lock, draft>>
      /\ NoRow.sess = None /\ NoRow.id = None /\ None \notin Session
      /\ \A w \in Rows : w # NoRow => w.sess \in Session
      /\ row \in Rows /\ draft \in Rows /\ \A r \in Request : saw[r] \in Rows
      /\ \A r \in Request : pc[r] = "write" => new[r] \in Session
  BY RowsOfSessions, NoneIsNone DEF stripe, db, Typed, DbTyped, RequestTyped, Id
<1>2. \A s : Dead(s)' <=> Dead(s)
  BY <1>1 DEF Dead
<1>3. \A s \in Session : Mentioned(s)' => Mentioned(s)
  BY <1>1 DEF Mentioned
<1> USE DEF Single
<1>4. News'
  BY <1>1, <1>3 DEF News
<1>5. Drafts'
  BY <1>1, <1>2, <1>3 DEF Drafts
<1>6. Recorded'
  <2>1. ASSUME NEW s \in shown' PROVE Dead(s) \/ row.sess = s
    BY <1>1, <2>1 DEF Recorded
  <2>2. ASSUME NEW r \in Request, saw'[r] # NoRow
        PROVE  Dead(saw'[r].sess) \/ row.sess = saw'[r].sess
    BY <2>2 DEF Recorded
  <2> QED
    BY <1>1, <2>1, <2>2 DEF Recorded, Dead
<1>7. SameCustomer'
  BY <1>1 DEF SameCustomer, Dead
<1>8. OfRow'
  BY <1>1 DEF OfRow
<1> QED
  BY <1>4, <1>5, <1>6, <1>7, <1>8

\* A transaction locks the row, and will replace it or insert it.
LEMMA LockSingle ==
    ASSUME Typed, Typed', Single, NEW r \in Request, WriteSession(r)
    PROVE  Single'
<1>1. /\ UNCHANGED <<status, customer, sub, gone, row, saw, shown, obj>>
      /\ pc[r] = "write"
      /\ pc' = [pc EXCEPT ![r] = "read"]
      /\ want' = [want EXCEPT ![r] = Empty] /\ new' = [new EXCEPT ![r] = None]
  BY DEF WriteSession, Elsewhere, stripe, ghosts
<1>2. \A q \in Request : \/ q = r /\ pc'[q] = "read" /\ want'[q] = Empty
                         \/ /\ q # r /\ pc'[q] = pc[q] /\ want'[q] = want[q]
                            /\ new'[q] = new[q]
  BY <1>1 DEF Typed, RequestTyped
<1>3. /\ new[r] \in Session /\ None \notin Session /\ None \notin Request
      /\ NoRow.sess = None /\ NoRow.id = None
      /\ [id |-> new[r], sess |-> new[r]] # NoRow
      /\ \A w \in Rows, s \in Session : w # NoRow => w.sess \in Session /\ w.id \in Session
      /\ row \in Rows /\ draft \in Rows /\ \A q \in Request : saw[q] \in Rows
  BY RowsOfSessions, NoneIsNone, WriteCases DEF Typed, DbTyped, RequestTyped
<1>4. \A s : (Dead(s)' <=> Dead(s)) /\ (Mentioned(s)' <=> Mentioned(s))
  BY <1>1 DEF Dead, Mentioned
<1>5. \/ UNCHANGED <<lock, draft>>
      \/ /\ lock = None /\ lock' = r
         /\ \/ draft' = row
            \/ row = NoRow /\ draft'.id = new[r] /\ draft'.sess = new[r] /\ draft' # NoRow
               /\ want[r].ref = None
            \/ /\ row # NoRow /\ want[r].ref # None /\ row.sess = want[r].ref
               /\ draft'.id = row.id /\ draft'.sess = new[r] /\ draft' # NoRow
  <2>1. ASSUME row # NoRow, draft' = [row EXCEPT !.sess = new[r]]
        PROVE  draft'.id = row.id /\ draft'.sess = new[r] /\ draft' # NoRow
    BY <1>3, <2>1 DEF Rows, NoRow
  <2>2. row = NoRow /\ want[r].ref # None => UNCHANGED <<lock, draft>>
    BY <1>3 DEF WriteSession, LockAndUpdate
  <2> QED
    BY <1>3, <2>1, <2>2, WriteCases
<1> USE DEF Single
<1>6. ~Mentioned(new[r]) /\ customer[new[r]] = want[r].customer
      /\ \A q \in Request : pc[q] = "write" /\ q # r => new[q] # new[r]
  BY <1>1 DEF News
<1>7. Wants'
  BY <1>2, <1>4, <1>1 DEF Wants, Empty
<1>8. News'
  <2> SUFFICES ASSUME NEW q \in Request, pc'[q] = "write"
               PROVE  /\ ~Mentioned(new[q])
                      /\ lock' # None => draft'.sess # new[q]
                      /\ \A p \in Request : pc'[p] = "write" /\ new'[p] = new'[q] => p = q
                      /\ customer[new[q]] = want[q].customer
                      /\ new'[q] = new[q] /\ want'[q] = want[q]
    BY <1>1, <1>4 DEF News
  <2>1. q # r /\ pc[q] = "write" /\ new'[q] = new[q] /\ want'[q] = want[q]
    BY <1>2
  <2>2. row.sess # new[q]
    BY <2>1 DEF News, Mentioned
  <2>3. lock' # None => draft'.sess # new[q]
    BY <1>5, <1>6, <2>1, <2>2 DEF News
  <2> QED
    BY <1>2, <2>1, <2>3 DEF News
<1>9. Drafts'
  <2>1. CASE UNCHANGED <<lock, draft>>
    BY <1>1, <1>4, <2>1 DEF Drafts
  <2>2. CASE draft' = row
    BY <1>1, <2>2 DEF Drafts
  <2>3. CASE row = NoRow /\ draft'.id = new[r] /\ draft'.sess = new[r] /\ draft' # NoRow
             /\ want[r].ref = None
    <3>1. want[r].customer = None
      BY <2>3 DEF Wants
    <3> QED
      BY <1>1, <1>4, <1>6, <2>3, <3>1 DEF Drafts
  <2>4. CASE /\ row # NoRow /\ want[r].ref # None /\ row.sess = want[r].ref
             /\ draft'.id = row.id /\ draft'.sess = new[r] /\ draft' # NoRow
    <3>1. Dead(row.sess) /\ customer[row.sess] = want[r].customer
      BY <2>4 DEF Wants
    <3> QED
      BY <1>1, <1>4, <1>6, <2>4, <3>1 DEF Drafts
  <2> QED
    BY <1>5, <2>1, <2>2, <2>3, <2>4
<1>10. Recorded' /\ OfRow'
  BY <1>1, <1>4 DEF Recorded, OfRow
<1>11. SameCustomer'
  BY <1>1, <1>2, <1>4 DEF SameCustomer
<1> QED
  BY <1>7, <1>8, <1>9, <1>10, <1>11

\* A transaction is committed: its row is the user's row from now on.
LEMMA CommitSingle ==
    ASSUME Typed, Single, UNCHANGED stripe, lock # None, lock' = None, row' = draft,
           shown' \subseteq shown \cup ({draft.sess} \ {None}),
           \A q \in Request : \/ saw'[q] = NoRow /\ pc'[q] = "idle" /\ want'[q] = Empty
                              \/ /\ saw'[q] = saw[q] /\ pc'[q] = pc[q]
                                 /\ new'[q] = new[q] /\ want'[q] = want[q]
    PROVE  Single'
<1>1. /\ UNCHANGED <<status, customer, sub, gone>>
      /\ None \notin Session /\ NoRow.sess = None /\ NoRow.id = None
      /\ \A w \in Rows : w # NoRow => w.sess \in Session /\ w.id \in Session
      /\ row \in Rows /\ draft \in Rows /\ \A q \in Request : saw[q] \in Rows
      /\ \A q \in Request : pc[q] = "write" => new[q] \in Session
  BY RowsOfSessions, NoneIsNone DEF stripe, Typed, DbTyped, RequestTyped, Id
<1>2. \A s : Dead(s)' <=> Dead(s)
  BY <1>1 DEF Dead
<1> USE DEF Single
<1>3. Wants'
  BY <1>1, <1>2 DEF Wants, Empty
<1>4. News'
  <2>1. ASSUME NEW q \in Request, pc[q] = "write" PROVE new[q] # draft.id /\ new[q] # draft.sess
    BY <2>1 DEF News, Drafts, Mentioned
  <2>2. ASSUME NEW q \in Request, pc'[q] = "write"
        PROVE  pc[q] = "write" /\ new'[q] = new[q] /\ want'[q] = want[q]
    BY <2>2
  <2>3. ASSUME NEW q \in Request, pc'[q] = "write"
        PROVE  /\ ~(\/ new'[q] \in shown' \/ new'[q] = row'.id \/ new'[q] = row'.sess
                    \/ \E p \in Request : new'[q] = saw'[p].id \/ new'[q] = saw'[p].sess)
    BY <1>1, <2>1, <2>2, <2>3 DEF News, Mentioned
  <2> QED
    BY <1>1, <2>2, <2>3 DEF News, Mentioned
<1>5. Drafts'
  BY DEF Drafts
<1>6. row # NoRow => draft = row \/ Dead(row.sess)
  BY DEF Drafts
<1>7. Recorded'
  <2>1. row = NoRow => \A s \in Session : row.sess # s
    BY <1>1
  <2>2. ASSUME NEW s \in Session, Dead(s) \/ row.sess = s PROVE Dead(s) \/ draft.sess = s
    BY <1>6, <2>1, <2>2
  <2>3. \A s \in shown : Dead(s) \/ draft.sess = s
    BY <2>2 DEF Recorded, Typed, GhostsTyped
  <2>4. \A q \in Request : saw[q] # NoRow => Dead(saw[q].sess) \/ draft.sess = saw[q].sess
    BY <1>1, <2>2 DEF Recorded
  <2> QED
    BY <1>2, <2>3, <2>4 DEF Recorded
<1>8. SameCustomer'
  <2>1. ASSUME NEW q \in Request, saw[q] # NoRow, saw[q].id = draft.id
        PROVE  \/ draft.sess = saw[q].sess
               \/ Dead(saw[q].sess) /\ customer[saw[q].sess] \in {None, customer[draft.sess]}
    <3>1. CASE draft = row
      BY <2>1, <3>1 DEF SameCustomer
    <3>2. CASE draft # row /\ row = NoRow
      BY <2>1, <3>2 DEF Drafts, Mentioned
    <3>3. CASE draft # row /\ row # NoRow
      BY <2>1, <3>3 DEF Drafts, SameCustomer
    <3> QED
      BY <3>1, <3>2, <3>3
  <2> QED
    BY <1>1, <1>2, <2>1 DEF SameCustomer
<1>9. OfRow'
  <2>1. ASSUME NEW c \in Session, customer[c] = c, c \notin gone
        PROVE  draft # NoRow /\ customer[draft.sess] = c
    BY <2>1 DEF OfRow, Drafts
  <2> QED
    BY <1>1, <2>1 DEF OfRow
<1> QED
  BY <1>3, <1>4, <1>5, <1>7, <1>8, <1>9

\* A transaction is rolled back, or its row was the user's already.
LEMMA RollbackSingle ==
    ASSUME Typed, Single, UNCHANGED <<stripe, row, shown>>, lock' = None,
           \A q \in Request : \/ saw'[q] = NoRow /\ pc'[q] = "idle" /\ want'[q] = Empty
                              \/ /\ saw'[q] = saw[q] /\ pc'[q] = pc[q]
                                 /\ new'[q] = new[q] /\ want'[q] = want[q]
    PROVE  Single'
<1>1. /\ UNCHANGED <<status, customer, sub, gone>>
      /\ None \notin Session /\ NoRow.sess = None /\ NoRow.id = None
      /\ \A q \in Request : pc[q] = "write" => new[q] \in Session
  BY RowsOfSessions, NoneIsNone DEF stripe, Typed, RequestTyped, Id
<1>2. \A s : Dead(s)' <=> Dead(s)
  BY <1>1 DEF Dead
<1> USE DEF Single
<1>3. Wants'
  BY <1>1, <1>2 DEF Wants, Empty
<1>4. News'
  <2>1. ASSUME NEW q \in Request, pc'[q] = "write"
        PROVE  pc[q] = "write" /\ new'[q] = new[q] /\ want'[q] = want[q]
    BY <2>1
  <2>2. \A s \in Session : Mentioned(s)' => Mentioned(s)
    BY <1>1 DEF Mentioned
  <2>3. ASSUME NEW q \in Request, pc'[q] = "write"
        PROVE  /\ ~(\/ new'[q] \in shown' \/ new'[q] = row'.id \/ new'[q] = row'.sess
                    \/ \E p \in Request : new'[q] = saw'[p].id \/ new'[q] = saw'[p].sess)
    BY <1>1, <2>1, <2>3 DEF News, Mentioned
  <2> QED
    BY <1>1, <2>1, <2>3 DEF News, Mentioned
<1>5. Drafts' /\ OfRow'
  BY <1>1 DEF Drafts, OfRow
<1>6. Recorded' /\ SameCustomer'
  BY <1>1, <1>2 DEF Recorded, SameCustomer
<1> QED
  BY <1>3, <1>4, <1>5, <1>6

\* The row is deleted, by its key or by an event, and its customer is gone.
LEMMA RowGoneSingle ==
    ASSUME Typed, Single, UNCHANGED <<stripe, shown, want, lock, draft>>, lock = None,
           row' = NoRow, row # NoRow => customer[row.sess] \in gone,
           \A q \in Request : /\ saw'[q] \in {saw[q], NoRow}
                              /\ pc'[q] = "write" => pc[q] = "write" /\ new'[q] = new[q]
                              /\ pc'[q] = "delete" => pc[q] = "delete" /\ saw'[q] = saw[q]
    PROVE  Single'
<1>1. /\ UNCHANGED <<status, customer, sub, gone>>
      /\ None \notin Session /\ NoRow.sess = None /\ NoRow.id = None
      /\ \A w \in Rows : w # NoRow => w.sess \in Session /\ w.id \in Session
      /\ row \in Rows /\ draft \in Rows /\ \A q \in Request : saw[q] \in Rows
      /\ \A q \in Request : pc[q] = "write" => new[q] \in Session
  BY RowsOfSessions, NoneIsNone DEF stripe, Typed, DbTyped, RequestTyped, Id
<1>2. \A s : Dead(s)' <=> Dead(s)
  BY <1>1 DEF Dead
<1>3. \A s \in Session : Mentioned(s)' => Mentioned(s)
  BY <1>1 DEF Mentioned
<1>4. \A s \in Session : row.sess = s => Dead(s)
  BY <1>1 DEF Dead
<1> USE DEF Single
<1>5. Wants'
  BY <1>1, <1>2 DEF Wants
<1>6. News'
  BY <1>1, <1>3 DEF News
<1>7. Drafts'
  BY <1>1, <1>2, <1>3 DEF Drafts
<1>8. Recorded'
  <2>1. \A s \in shown : Dead(s)
    BY <1>4 DEF Recorded, Typed, GhostsTyped
  <2>2. \A q \in Request : saw[q] # NoRow => Dead(saw[q].sess)
    BY <1>1, <1>4 DEF Recorded
  <2> QED
    BY <1>1, <1>2, <2>1, <2>2 DEF Recorded
<1>9. SameCustomer'
  BY <1>1, <1>2 DEF SameCustomer
<1>10. OfRow'
  BY <1>1 DEF OfRow
<1> QED
  BY <1>5, <1>6, <1>7, <1>8, <1>9, <1>10

\* A new session, with the customer of the one it replaces, of which nobody
\* but its creator knows.
LEMMA CreateSingle ==
    ASSUME Typed, Linked, NEW r \in Request, NEW s \in Session,
           pc[r] = "create", want[r].customer \notin gone, status[s] = "none",
           status' = [status EXCEPT ![s] = "open"],
           customer' = [customer EXCEPT ![s] = want[r].customer],
           new' = [new EXCEPT ![r] = s], pc' = [pc EXCEPT ![r] = "write"],
           UNCHANGED <<sub, gone, saw, want, obj, db, cache, shown>>
    PROVE  Linked'
<1> USE DEF Linked, Single
<1>1. /\ None \notin Session /\ NoRow.sess = None
      /\ \A w \in Rows : w # NoRow => w.sess \in Session /\ w.id \in Session
      /\ row \in Rows /\ draft \in Rows /\ \A q \in Request : saw[q] \in Rows
      /\ \A q \in Request : pc[q] = "write" => new[q] \in Session
      /\ \A q \in Request : want[q].ref \in Id /\ want[q].customer \in Id
      /\ \A t \in Session : customer[t] \in Id
      /\ gone \subseteq Session /\ shown \subseteq Session
      /\ UNCHANGED <<row, lock, draft>>
  BY RowsOfSessions, NoneIsNone
     DEF db, Typed, DbTyped, RequestTyped, StripeTyped, GhostsTyped, Id
<1>2. /\ customer[s] = None /\ sub[s] = "none" /\ ~Named(s)
  BY DEF Books, Unborn
<1>3. /\ status'[s] = "open" /\ customer'[s] = want[r].customer
      /\ \A t \in Session : t # s => status'[t] = status[t] /\ customer'[t] = customer[t]
  BY DEF Typed, StripeTyped
<1>4. \A q \in Request : \/ q = r /\ pc'[q] = "write" /\ new'[q] = s
                         \/ q # r /\ pc'[q] = pc[q] /\ new'[q] = new[q]
  BY DEF Typed, RequestTyped
<1>5. /\ want[r].customer # s
      /\ want[r].customer # None =>
            want[r].customer \in Session /\ customer[want[r].customer] = want[r].customer
  <2>1. CASE want[r].customer = None
    BY <1>1, <2>1
  <2>2. CASE want[r].customer # None
    <3>1. want[r].ref \in Session /\ customer[want[r].ref] = want[r].customer
      BY <1>1, <2>2 DEF Wants, Id
    <3>2. customer[want[r].customer] = want[r].customer
      BY <2>2, <3>1 DEF Books
    <3> QED
      BY <1>1, <1>2, <2>2, <3>2 DEF Id
  <2> QED
    BY <2>1, <2>2
<1>6. Books'
  <2>1. \A t \in Session :
           /\ status'[t] = "none" => customer'[t] = None
           /\ sub[t] # "none" => status'[t] = "complete"
           /\ customer'[t] \in gone => sub[t] \in {"none", "canceled"}
           /\ status'[t] = "complete" => customer'[t] # None
    BY <1>2, <1>3 DEF Books
  <2>2. ASSUME NEW t \in Session, customer'[t] # None
        PROVE  customer'[customer'[t]] = customer'[t]
    <3>1. PICK c \in Session : c = customer'[t] /\ customer[c] = c
      BY <1>1, <1>3, <1>5, <2>2 DEF Books, Id
    <3>2. c # s
      BY <1>1, <1>2, <3>1
    <3> QED
      BY <1>3, <3>1, <3>2
  <2>3. \A c \in gone : customer'[c] = c
    BY <1>1, <1>2, <1>3 DEF Books
  <2> QED
    BY <2>1, <2>2, <2>3 DEF Books
<1>7. ~Dead(s) /\ \A t \in Session : t # s => (Dead(t)' <=> Dead(t))
  BY <1>1, <1>2, <1>3 DEF Dead
<1>8. Onward
  BY <1>1, <1>2, <1>3, <1>7 DEF Onward
<1>9. \A t : Mentioned(t)' <=> Mentioned(t)
  BY <1>1 DEF Mentioned
<1>10. Unborn'
  <2> SUFFICES ASSUME NEW t \in Session, status'[t] = "none" PROVE ~Named(t)'
    BY DEF Unborn
  <2>1. t # s /\ status[t] = "none"
    BY <1>3
  <2>2. ~Named(t)
    BY <2>1 DEF Unborn
  <2> QED
    BY <1>1, <1>4, <1>9, <2>1, <2>2 DEF Named
<1>11. Snapshots'
  BY <1>8, SnapshotsStay
<1>12. Wants'
  BY <1>1, <1>3, <1>7 DEF Wants, Id
<1>13. News'
  <2> SUFFICES ASSUME NEW q \in Request, pc'[q] = "write"
               PROVE  /\ ~Mentioned(new'[q])
                      /\ lock # None => draft.sess # new'[q]
                      /\ \A p \in Request : pc'[p] = "write" /\ new'[p] = new'[q] => p = q
                      /\ customer'[new'[q]] = want[q].customer
    BY <1>1 DEF News, Mentioned
  <2>1. \A p \in Request : new[p] # s
    BY <1>2 DEF Named
  <2>2. CASE q = r
    BY <1>2, <1>3, <1>4, <2>1, <2>2 DEF Named
  <2>3. CASE q # r
    BY <1>1, <1>3, <1>4, <2>1, <2>3 DEF News
  <2> QED
    BY <2>2, <2>3
<1>14. row # NoRow => row.sess \in Session /\ row.sess # s
  BY <1>1, <1>2 DEF Named, Mentioned
<1>15. \A q \in Request : saw[q] # NoRow => saw[q].sess \in Session /\ saw[q].sess # s
  BY <1>1, <1>2 DEF Named, Mentioned
<1>16. Drafts'
  <2>1. draft # NoRow => draft.sess \in Session /\ draft.sess # s
    BY <1>1, <1>2 DEF Named
  <2> QED
    BY <1>1, <1>3, <1>7, <1>9, <1>14, <2>1 DEF Drafts
<1>17. Recorded'
  <2>1. \A t \in shown : t \in Session /\ t # s
    BY <1>1, <1>2 DEF Named, Mentioned
  <2> QED
    BY <1>1, <1>7, <1>15, <2>1 DEF Recorded
<1>18. SameCustomer'
  <2> SUFFICES ASSUME NEW q \in Request
               PROVE  /\ saw[q] # NoRow /\ saw[q].id = row.id =>
                            \/ row.sess = saw[q].sess
                            \/ /\ Dead(saw[q].sess)
                               /\ customer[saw[q].sess] \in {None, customer'[row.sess]}
                      /\ pc'[q] = "delete" => saw[q] # NoRow /\ customer[saw[q].sess] \in gone
    BY <1>1, <1>3, <1>7, <1>15 DEF SameCustomer
  <2>1. saw[q] # NoRow /\ saw[q].id = row.id => row # NoRow
    BY <1>1, RowsOfSessions
  <2> QED
    BY <1>1, <1>3, <1>4, <1>14, <2>1 DEF SameCustomer
<1>19. OfRow'
  <2> SUFFICES ASSUME NEW c \in Session, customer'[c] = c, c \notin gone
               PROVE  row # NoRow /\ customer'[row.sess] = c
    BY <1>1 DEF OfRow
  <2>1. c # s
    BY <1>3, <1>5
  <2> QED
    BY <1>3, <1>14, <2>1 DEF OfRow
<1> QED
  BY <1>6, <1>10, <1>11, <1>12, <1>13, <1>16, <1>17, <1>18, <1>19

-----------------------------------------------------------------------------
(* Every step, by who takes it. *)

\* Once a stale entry decided, or an old event deleted the row, it has.
LEMMA WasFresh == ASSUME [Next]_vars, Fresh' PROVE Fresh
<1>1. CASE World \/ Events \/ CacheExpires \/ UserExpires \/ Invalidate \/ EffectError
           \/ UNCHANGED vars
  BY <1>1 DEF World, Pay, Expire, ChangeSubscription, DeleteCustomer, Events, CacheExpires,
              UserExpires, Invalidate, EffectError, vars, ghosts, Fresh
<1>2. CASE DeleteRowOfCustomer
  BY <1>2 DEF DeleteRowOfCustomer, Fresh
<1>3. ASSUME NEW r \in Request, \/ \E kind \in Ops : Begin(r, kind)
                                \/ Work(r) \/ RequestFails(r)
      PROVE  Fresh
  <2>1. CASE DecideCheckout(r)
    BY <2>1 DEF DecideCheckout, Fresh
  <2>2. CASE ~DecideCheckout(r)
    <3>1. UNCHANGED <<stale, stray>>
      BY <1>3, <2>2 DEF Begin, Work, RequestFails, GetCached, Fetch, SetCached, DecideAccess,
                        DeleteRow, CreateSession, WriteSession, ReadAndCommit, ghosts
    <3> QED
      BY <3>1 DEF Fresh
  <2> QED
    BY <2>1, <2>2
<1> QED
  BY <1>1, <1>2, <1>3 DEF Next

\* Stripe, the consumer without its row, and the expiry of cached entries.
LEMMA OthersLinked ==
    ASSUME Typed, Linked,
           World \/ Events \/ CacheExpires \/ UserExpires \/ Invalidate \/ EffectError
           \/ UNCHANGED vars
    PROVE  Linked'
<1> USE DEF Linked
<1>1. UNCHANGED <<db, request, ghosts>> /\ cache' \in {cache, NoObj}
  BY DEF World, Pay, Expire, ChangeSubscription, DeleteCustomer, Events, CacheExpires,
         UserExpires, Invalidate, EffectError, vars
<1>2. World \/ UNCHANGED stripe
  BY DEF Events, CacheExpires, UserExpires, Invalidate, EffectError, vars
<1>3. Books' /\ Onward /\ Payment
  <2>1. UNCHANGED stripe => Books'
    BY DEF Books, stripe
  <2> QED
    BY <1>2, <2>1, WorldOnward, QuietOnward
<1>4. Unborn'
  <2>1. \A s \in Session : Named(s)' => Named(s)
    BY <1>1 DEF Named, Mentioned, db, request, ghosts
  <2> QED
    BY <1>3, <2>1, UnbornStays
<1>5. Snapshots'
  <2>1. \A r \in Request : obj'[r] = obj[r]
    BY <1>1 DEF request
  <2> QED
    BY <1>1, <1>3, <2>1, SnapshotsStay
<1>6. Single'
  BY <1>1, <1>3, WorldSingle DEF ghosts
<1> QED
  BY <1>3, <1>4, <1>5, <1>6

\* The parts of the invariant besides Single, for steps that leave Stripe alone.
LEMMA QuietLinked ==
    ASSUME Typed, Linked, UNCHANGED stripe, Single',
           \A s \in Session : Named(s)' => Named(s),
           cache' \in {cache, NoObj} \cup {obj[r] : r \in Request},
           \A r \in Request : obj'[r] \in {obj[r], cache, NoObj}
    PROVE  Linked'
<1> USE DEF Linked
<1>1. Books'
  BY DEF Books, stripe
<1>2. Onward
  BY QuietOnward
<1> QED
  BY <1>1, <1>2, UnbornStays, SnapshotsStay

\* A customer was deleted, and the consumer deletes its row.
LEMMA DeleteRowOfCustomerLinked ==
    ASSUME Typed, Linked, DeleteRowOfCustomer, Fresh'
    PROVE  Linked'
<1>1. /\ UNCHANGED <<stripe, cache, request, lock, draft, shown>> /\ lock = None
      /\ row' = NoRow
  BY DEF DeleteRowOfCustomer
<1>2. row # NoRow => customer[row.sess] \in gone
  BY DEF DeleteRowOfCustomer, Fresh
<1>3. UNCHANGED <<pc, saw, obj, want, new>>
  BY <1>1 DEF request
<1>4. Single'
  BY <1>1, <1>2, <1>3, RowGoneSingle DEF Linked
<1>5. \A s \in Session : Named(s)' => Named(s)
  BY <1>1, <1>3, RowsOfSessions, NoneIsNone DEF Named, Mentioned
<1>6. \A r \in Request : obj'[r] = obj[r]
  BY <1>3
<1> QED
  BY <1>1, <1>4, <1>5, <1>6, QuietLinked

\* A request reads the row.
LEMMA BeginLinked ==
    ASSUME Typed, Linked, NEW r \in Request, NEW kind \in Ops, Begin(r, kind)
    PROVE  Linked'
<1>1. /\ UNCHANGED <<stripe, db, cache, obj, want, new, shown>>
      /\ saw' = [saw EXCEPT ![r] = row]
      /\ \E p \in {"get", "create", "decide"} : pc' = [pc EXCEPT ![r] = p]
  BY DEF Begin, Elsewhere, ghosts
<1>2. \A q \in Request : \/ q = r /\ pc'[q] \in {"get", "create", "decide"} /\ saw'[q] = row
                         \/ q # r /\ pc'[q] = pc[q] /\ saw'[q] = saw[q]
  BY <1>1 DEF Typed, RequestTyped
<1>3. UNCHANGED <<status, customer, sub, gone, row, lock, draft>>
  BY <1>1 DEF stripe, db
<1>4. Wants'
  BY <1>1, <1>3 DEF Linked, Single, Wants, Dead
<1>5. Single'
  <2>1. shown \subseteq Session
    BY DEF Typed, GhostsTyped
  <2>2. \A q \in Request : pc'[q] = "delete" =>
            saw'[q] # NoRow /\ customer[saw'[q].sess] \in gone
    BY <1>2 DEF Linked, Single, SameCustomer
  <2>3. Single
    BY DEF Linked
  <2> QED
    BY <1>1, <1>2, <1>4, <2>1, <2>2, <2>3, RequestSingle
<1>6. \A s \in Session : Named(s)' => Named(s)
  BY <1>1, <1>2, <1>3 DEF Named, Mentioned
<1> QED
  BY <1>1, <1>5, <1>6, QuietLinked

\* Steps of a request that change neither what it saw nor what it wants, except
\* that it may end.
LEMMA IdleLinked ==
    ASSUME Typed, Linked, UNCHANGED <<stripe, db>>, NEW r \in Request,
           \/ Ended(r)
           \/ UNCHANGED <<saw, want, new>>
              /\ \E p \in {"fetch", "set", "decide"} : pc' = [pc EXCEPT ![r] = p],
           shown' \subseteq Session,
           \A s \in shown' : s \in shown \/ s = row.sess \/ s = saw[r].sess,
           cache' \in {cache, NoObj} \cup {obj[q] : q \in Request},
           \A q \in Request : obj'[q] \in {obj[q], cache, NoObj}
    PROVE  Linked'
<1>1. \A q \in Request :
         \/ saw'[q] = NoRow /\ pc'[q] = "idle" /\ want'[q] = Empty /\ new'[q] = None
         \/ /\ saw'[q] = saw[q] /\ want'[q] = want[q] /\ new'[q] = new[q]
            /\ pc'[q] = pc[q] \/ pc'[q] \notin {"write", "delete"}
  BY DEF Typed, RequestTyped, Ended
<1>2. UNCHANGED <<status, customer, sub, gone, row, lock, draft>>
  BY DEF stripe, db
<1>3. Wants'
  BY <1>1, <1>2 DEF Linked, Single, Wants, Dead, Empty
<1>4. Single'
  <2>1. \A q \in Request : pc'[q] = "delete" =>
            saw'[q] # NoRow /\ customer[saw'[q].sess] \in gone
    BY <1>1 DEF Linked, Single, SameCustomer
  <2>2. Single
    BY DEF Linked
  <2>3. \A q \in Request : pc'[q] = "write" =>
            pc[q] = "write" /\ new'[q] = new[q] /\ want'[q] = want[q]
    BY <1>1
  <2>4. \A q \in Request : saw'[q] \in {saw[q], row, NoRow}
    BY <1>1
  <2> QED
    BY <1>3, <2>1, <2>2, <2>3, <2>4, RequestSingle
<1>5. \A s \in Session : Named(s)' => Named(s)
  BY <1>1, <1>2, NoneIsNone, RowsOfSessions DEF Named, Mentioned
<1> QED
  BY <1>4, <1>5, QuietLinked

\* The session is looked up in the cache and at Stripe.
LEMMA GetCachedLinked ==
    ASSUME Typed, Linked, NEW r \in Request, GetCached(r) \/ SetCached(r)
    PROVE  Linked'
<1>1. /\ UNCHANGED <<stripe, db, saw, want, new, shown>>
      /\ \E p \in {"fetch", "set", "decide"} : pc' = [pc EXCEPT ![r] = p]
      /\ cache' \in {cache, obj[r]}
      /\ obj' = obj \/ obj' = [obj EXCEPT ![r] = cache]
  <2>1. CASE GetCached(r)
    <3>1. PICK p \in {"fetch", "decide"} : pc' = [pc EXCEPT ![r] = p]
      BY <2>1 DEF GetCached
    <3> QED
      BY <2>1, <3>1 DEF GetCached, Elsewhere, ghosts
  <2>2. CASE SetCached(r)
    BY <2>2 DEF SetCached, Elsewhere, ghosts
  <2> QED
    BY <2>1, <2>2
<1>2. \A q \in Request : obj'[q] \in {obj[q], cache, NoObj}
  BY <1>1 DEF Typed, RequestTyped
<1>3. shown' \subseteq Session
  BY <1>1 DEF Typed, GhostsTyped
<1>4. cache' \in {cache, NoObj} \cup {obj[q] : q \in Request}
  BY <1>1
<1>5. UNCHANGED <<stripe, db>> /\ UNCHANGED <<saw, want, new>> /\ shown' = shown
  BY <1>1
<1>6. PICK p \in {"fetch", "set", "decide"} : pc' = [pc EXCEPT ![r] = p]
  BY <1>1
<1> QED
  BY <1>2, <1>3, <1>4, <1>5, <1>6, IdleLinked

\* Stripe's answer is right when it is given.
LEMMA FetchLinked ==
    ASSUME Typed, Linked, NEW r \in Request, Fetch(r)
    PROVE  Linked'
<1>1. /\ UNCHANGED <<stripe, db, cache, saw, want, new, shown>>
      /\ pc[r] = "fetch" /\ pc' = [pc EXCEPT ![r] = "set"]
  BY DEF Fetch, Elsewhere, ghosts
<1>2. PICK s \in Session : s = saw[r].sess
  BY <1>1, RowsOfSessions DEF Typed, RequestTyped
<1>3. \A q \in Request : q # r => obj'[q] = obj[q]
  BY DEF Fetch, Typed, RequestTyped
<1>4. obj'[r] = Retrieved(s)
  BY <1>2 DEF Fetch, Typed, RequestTyped
<1>5. UNCHANGED <<status, customer, sub, gone, row, lock, draft>>
  BY <1>1 DEF stripe, db
<1>6. Snapshots'
  <2>1. Snapshot(Retrieved(s))
    BY NoneIsNone DEF Snapshot, Retrieved
  <2>2. Snapshot(obj[r])'
    BY <1>4, <1>5, <2>1 DEF Snapshot, Retrieved
  <2>3. \A q \in Request : q # r => Snapshot(obj[q])'
    BY <1>3, <1>5 DEF Linked, Snapshots, Snapshot
  <2>4. Snapshot(cache)'
    BY <1>1, <1>5 DEF Linked, Snapshots, Snapshot
  <2> QED
    BY <2>2, <2>3, <2>4 DEF Snapshots
<1>7. \A q \in Request : pc'[q] = pc[q] \/ pc'[q] = "set"
  BY <1>1 DEF Typed, RequestTyped
<1>8. Wants'
  BY <1>1, <1>5 DEF Linked, Single, Wants, Dead
<1>9. Single'
  <2>1. \A q \in Request : pc'[q] = "delete" =>
            saw'[q] # NoRow /\ customer[saw'[q].sess] \in gone
    BY <1>1, <1>7 DEF Linked, Single, SameCustomer
  <2>2. Single /\ shown \subseteq Session
    BY DEF Linked, Typed, GhostsTyped
  <2> QED
    BY <1>1, <1>7, <1>8, <2>1, <2>2, RequestSingle
<1>10. Books' /\ Unborn'
  BY <1>1, <1>5 DEF Linked, Books, Unborn, Named, Mentioned
<1> QED
  BY <1>6, <1>9, <1>10 DEF Linked

\* A request for access is answered.
LEMMA DecideAccessLinked ==
    ASSUME Typed, Linked, NEW r \in Request, DecideAccess(r)
    PROVE  Linked'
<1>1. UNCHANGED <<stripe, db, cache, shown>> /\ Ended(r)
  BY DEF DecideAccess, Elsewhere, ghosts
<1>2. \A q \in Request : obj'[q] \in {obj[q], cache, NoObj}
  BY <1>1 DEF Typed, RequestTyped, Ended
<1>3. shown' \subseteq Session
  BY <1>1 DEF Typed, GhostsTyped
<1> QED
  BY <1>1, <1>2, <1>3, IdleLinked

\* What is decided of an object of the row's session: its link is shown, it
\* gives way to a successor, or the row goes with the customer.
LEMMA DecideCheckoutLinked ==
    ASSUME Typed, Linked, NEW r \in Request, DecideCheckout(r), Fresh'
    PROVE  Linked'
<1> DEFINE o == obj[r]
<1>1. UNCHANGED <<stripe, db, cache>> /\ o.id = saw[r].sess
  BY DEF DecideCheckout, Elsewhere, Fresh
<1>2. UNCHANGED <<status, customer, sub, gone, row, lock, draft>>
  BY <1>1 DEF stripe, db
<1>3. /\ o \in Object /\ saw[r] \in Rows /\ Snapshot(o)
      /\ NoRow.sess = None /\ NoRow.id = None /\ None \notin Session
      /\ \A w \in Rows : w # NoRow => w.sess \in Session /\ w.id \in Session
      /\ shown \subseteq Session
  BY RowsOfSessions, NoneIsNone DEF Typed, RequestTyped, GhostsTyped, Linked, Snapshots
<1>4. o.status \in {"expired", "complete"} =>
          saw[r] # NoRow /\ saw[r].sess \in Session /\ saw[r].sess # None
  BY <1>1, <1>3 DEF Snapshot
<1>5. CASE /\ o.status = "complete" /\ o.deleted
           /\ pc' = [pc EXCEPT ![r] = "delete"] /\ obj' = [obj EXCEPT ![r] = NoObj]
           /\ UNCHANGED <<op, saw, want, new, shown>>
  <2>1. customer[saw[r].sess] \in gone /\ saw[r] # NoRow
    BY <1>1, <1>3, <1>4, <1>5 DEF Snapshot
  <2>2. \A q \in Request : \/ q = r /\ pc'[q] = "delete" /\ obj'[q] = NoObj
                           \/ q # r /\ pc'[q] = pc[q] /\ obj'[q] = obj[q]
    BY <1>5 DEF Typed, RequestTyped
  <2>3. Wants'
    BY <1>2, <1>5 DEF Linked, Single, Wants, Dead
  <2>4. Single'
    <3>1. \A q \in Request : pc'[q] = "delete" =>
              saw'[q] # NoRow /\ customer[saw'[q].sess] \in gone
      BY <1>5, <2>1, <2>2 DEF Linked, Single, SameCustomer
    <3>2. Single
      BY DEF Linked
    <3>3. \A q \in Request : pc'[q] = "write" =>
              pc[q] = "write" /\ new'[q] = new[q] /\ want'[q] = want[q]
      BY <1>5, <2>2
    <3>4. saw' = saw /\ shown' = shown /\ UNCHANGED <<stripe, db>>
      BY <1>1, <1>5
    <3> HIDE DEF o
    <3> QED
      BY <1>3, <2>3, <3>1, <3>2, <3>3, <3>4, RequestSingle
  <2>5. \A s \in Session : Named(s)' => Named(s)
    BY <1>2, <1>5 DEF Named, Mentioned
  <2>6. \A q \in Request : obj'[q] \in {obj[q], cache, NoObj}
    BY <2>2
  <2> QED
    BY <1>1, <2>4, <2>5, <2>6, QuietLinked
<1>6. CASE /\ Replaceable(o)
           /\ want' = [want EXCEPT ![r] = Resolved(o, saw[r].sess)]
           /\ saw' = [saw EXCEPT ![r] = NoRow] /\ obj' = [obj EXCEPT ![r] = NoObj]
           /\ pc' = [pc EXCEPT ![r] = "create"]
           /\ UNCHANGED <<op, new, shown>>
  <2>1. /\ saw[r].sess \in Session /\ Dead(saw[r].sess)
        /\ customer[saw[r].sess] = o.customer
    BY <1>1, <1>3, <1>4, <1>6 DEF Snapshot, Replaceable, Dead
  <2>2. \A q \in Request :
           \/ /\ q = r /\ pc'[q] = "create" /\ obj'[q] = NoObj /\ saw'[q] = NoRow
              /\ want'[q].ref = saw[q].sess /\ want'[q].customer = o.customer
           \/ /\ q # r /\ pc'[q] = pc[q] /\ obj'[q] = obj[q] /\ saw'[q] = saw[q]
              /\ want'[q] = want[q]
    BY <1>6 DEF Typed, RequestTyped, Resolved
  <2>3. Wants'
    <3>1. \A s : Dead(s)' <=> Dead(s)
      BY <1>2 DEF Dead
    <3> HIDE DEF o
    <3> QED
      BY <1>2, <1>3, <2>1, <2>2, <3>1 DEF Linked, Single, Wants
  <2>4. Single'
    <3>1. \A q \in Request : pc'[q] = "delete" =>
              saw'[q] # NoRow /\ customer[saw'[q].sess] \in gone
      BY <2>2 DEF Linked, Single, SameCustomer
    <3>2. Single
      BY DEF Linked
    <3>3. \A q \in Request : pc'[q] = "write" =>
              pc[q] = "write" /\ new'[q] = new[q] /\ want'[q] = want[q]
      BY <1>6, <2>2
    <3>4. \A q \in Request : saw'[q] \in {saw[q], row, NoRow}
      BY <2>2
    <3>5. shown' = shown /\ UNCHANGED <<stripe, db>>
      BY <1>1, <1>6
    <3> HIDE DEF o
    <3> QED
      BY <1>3, <2>3, <3>1, <3>2, <3>3, <3>4, <3>5, RequestSingle
  <2>5. \A s \in Session : Named(s)' => Named(s)
    BY <1>2, <1>3, <1>6, <2>2 DEF Named, Mentioned
  <2>6. \A q \in Request : obj'[q] \in {obj[q], cache, NoObj}
    BY <2>2
  <2> QED
    BY <1>1, <2>4, <2>5, <2>6, QuietLinked
<1>7. CASE Return(r, IF o.status = "open" THEN saw[r].sess ELSE None)
  <2>1. Ended(r) /\ shown' \subseteq shown \cup ({saw[r].sess} \ {None})
    BY <1>7 DEF Return
  <2>2. shown' \subseteq Session /\ \A s \in shown' : s \in shown \/ s = row.sess \/ s = saw[r].sess
    BY <1>3, <2>1
  <2>3. \A q \in Request : obj'[q] \in {obj[q], cache, NoObj}
    BY <2>1 DEF Typed, RequestTyped, Ended
  <2> HIDE DEF o
  <2> QED
    BY <1>1, <2>1, <2>2, <2>3, IdleLinked
<1> QED
  BY <1>5, <1>6, <1>7 DEF DecideCheckout

\* The row that was read is deleted by its key, if it is there.
LEMMA DeleteRowLinked ==
    ASSUME Typed, Linked, NEW r \in Request, DeleteRow(r)
    PROVE  Linked'
<1>1. /\ UNCHANGED <<stripe, lock, draft, cache, obj, want, new, shown>> /\ lock = None
      /\ pc[r] = "delete" /\ pc' = [pc EXCEPT ![r] = "create"]
      /\ saw' = [saw EXCEPT ![r] = NoRow]
      /\ row' = IF row.id = saw[r].id THEN NoRow ELSE row
  BY DEF DeleteRow, Elsewhere, ghosts
<1>2. \A q \in Request : \/ q = r /\ pc'[q] = "create" /\ saw'[q] = NoRow
                         \/ q # r /\ pc'[q] = pc[q] /\ saw'[q] = saw[q]
  BY <1>1 DEF Typed, RequestTyped
<1>3. NoRow.sess = None /\ NoRow.id = None /\ None \notin Session
  BY RowsOfSessions, NoneIsNone
<1>4. Single'
  <2>1. CASE row.id = saw[r].id
    <3>1. customer[row.sess] \in gone
      <4>1. saw[r] # NoRow /\ customer[saw[r].sess] \in gone
        BY <1>1 DEF Linked, Single, SameCustomer
      <4>2. customer[saw[r].sess] # None
        BY <1>3, <4>1 DEF Typed, StripeTyped
      <4> QED
        BY <2>1, <4>1, <4>2 DEF Linked, Single, SameCustomer
    <3>2. Single /\ row' = NoRow
      BY <1>1, <2>1 DEF Linked
    <3> QED
      BY <1>1, <1>2, <3>1, <3>2, RowGoneSingle
  <2>2. CASE row.id # saw[r].id
    <3>1. UNCHANGED <<stripe, db>> /\ shown' = shown
      BY <1>1, <2>2 DEF db
    <3>2. Wants'
      BY <1>1 DEF Linked, Single, Wants, Dead, stripe
    <3>3. \A q \in Request : pc'[q] = "delete" =>
              saw'[q] # NoRow /\ customer[saw'[q].sess] \in gone
      BY <1>2 DEF Linked, Single, SameCustomer
    <3>4. Single /\ shown \subseteq Session
      BY DEF Linked, Typed, GhostsTyped
    <3> QED
      BY <1>1, <1>2, <3>1, <3>2, <3>3, <3>4, RequestSingle
  <2> QED
    BY <2>1, <2>2
<1>5. \A s \in Session : Named(s)' => Named(s)
  BY <1>1, <1>2, <1>3 DEF Named, Mentioned
<1> QED
  BY <1>1, <1>4, <1>5, QuietLinked

\* A session is created, or Stripe refuses a deleted customer.
LEMMA CreateSessionLinked ==
    ASSUME Typed, Linked, NEW r \in Request, CreateSession(r)
    PROVE  Linked'
<1>1. CASE want[r].customer \in gone
  <2>1. UNCHANGED <<stripe, db, cache, shown>> /\ Ended(r)
    BY <1>1 DEF CreateSession, stripe, ghosts
  <2>2. \A q \in Request : obj'[q] \in {obj[q], cache, NoObj}
    BY <2>1 DEF Typed, RequestTyped, Ended
  <2>3. shown' \subseteq Session
    BY <2>1 DEF Typed, GhostsTyped
  <2> QED
    BY <2>1, <2>2, <2>3, IdleLinked
<1>2. CASE want[r].customer \notin gone
  <2>1. PICK s \in Session :
           /\ \A t \in Session : (status[t] = "none") = (t >= s)
           /\ status' = [status EXCEPT ![s] = "open"]
           /\ customer' = [customer EXCEPT ![s] = want[r].customer]
           /\ new' = [new EXCEPT ![r] = s]
           /\ pc' = [pc EXCEPT ![r] = "write"]
           /\ UNCHANGED <<op, saw, obj, want>>
    BY <1>2 DEF CreateSession
  <2>2. status[s] = "none"
    BY <2>1 DEF Session
  <2>3. pc[r] = "create" /\ UNCHANGED <<sub, gone, db, cache, shown>>
    BY DEF CreateSession, ghosts
  <2> QED
    BY <1>2, <2>1, <2>2, <2>3, CreateSingle
<1> QED
  BY <1>1, <1>2

\* The new session is written in a transaction.
LEMMA WriteLinked ==
    ASSUME Typed, Typed', Linked, NEW r \in Request, WriteSession(r)
    PROVE  Linked'
<1>1. Single'
  BY LockSingle DEF Linked
<1>2. /\ UNCHANGED <<stripe, cache, obj, saw, row, shown>>
      /\ new' = [new EXCEPT ![r] = None]
  BY DEF WriteSession, Elsewhere, ghosts
<1>3. \A q \in Request : new'[q] \in {new[q], None}
  BY <1>2 DEF Typed, RequestTyped
<1>4. \A s \in Session : s = draft'.id \/ s = draft'.sess => Named(s)
  <2>1. draft' \in {draft, row, [id |-> new[r], sess |-> new[r]], [row EXCEPT !.sess = new[r]]}
    BY WriteCases
  <2>2. [id |-> new[r], sess |-> new[r]].id = new[r] /\ [id |-> new[r], sess |-> new[r]].sess = new[r]
    OBVIOUS
  <2>3. row \in Rows => [row EXCEPT !.sess = new[r]].id = row.id
                        /\ [row EXCEPT !.sess = new[r]].sess = new[r]
    BY DEF Rows, NoRow
  <2>4. row \in Rows
    BY DEF Typed, DbTyped
  <2> QED
    BY <2>1, <2>2, <2>3, <2>4 DEF Named, Mentioned
<1>5. \A s \in Session : Named(s)' => Named(s)
  BY <1>2, <1>3, <1>4, NoneIsNone DEF Named, Mentioned
<1> QED
  BY <1>1, <1>2, <1>5, QuietLinked

\* A request ends with its transaction, which is committed or rolled back, or
\* ends without one.
LEMMA EndLinked ==
    ASSUME Typed, Linked, NEW r \in Request, Ended(r), UNCHANGED <<stripe, cache>>,
           IF lock = r THEN /\ lock' = None /\ draft' = NoRow
                            /\ \/ row' = row /\ shown' = shown
                               \/ /\ row' = draft
                                  /\ shown' \subseteq shown \cup ({draft.sess} \ {None})
           ELSE UNCHANGED db /\ shown' \subseteq shown \cup ({row.sess} \ {None})
    PROVE  Linked'
<1>1. \A q \in Request :
         \/ saw'[q] = NoRow /\ pc'[q] = "idle" /\ want'[q] = Empty /\ new'[q] = None
            /\ obj'[q] = NoObj
         \/ /\ saw'[q] = saw[q] /\ want'[q] = want[q] /\ new'[q] = new[q]
            /\ pc'[q] = pc[q] /\ obj'[q] = obj[q]
  BY DEF Typed, RequestTyped, Ended
<1>2. /\ row \in Rows /\ draft \in Rows /\ shown \subseteq Session
      /\ \A w \in Rows : w # NoRow => w.sess \in Session /\ w.id \in Session
      /\ NoRow.sess = None /\ NoRow.id = None /\ None \notin Session /\ None \notin Request
  BY RowsOfSessions, NoneIsNone DEF Typed, DbTyped, GhostsTyped
<1>3. CASE lock = r
  <2>1. Single /\ lock # None /\ lock' = None
    BY <1>2, <1>3 DEF Linked
  <2>2. Single'
    <3>1. CASE row' = row /\ shown' = shown
      BY <1>1, <2>1, <3>1, RollbackSingle
    <3>2. CASE row' = draft /\ shown' \subseteq shown \cup ({draft.sess} \ {None})
      BY <1>1, <2>1, <3>2, CommitSingle
    <3> QED
      BY <1>3, <3>1, <3>2
  <2>3. \A s \in Session : Named(s)' => Named(s)
    BY <1>1, <1>2, <1>3 DEF Named, Mentioned
  <2> QED
    BY <1>1, <2>2, <2>3, QuietLinked
<1>4. CASE lock # r
  <2>1. UNCHANGED <<stripe, db>> /\ shown' \subseteq Session
        /\ \A s \in shown' : s \in shown \/ s = row.sess \/ s = saw[r].sess
    BY <1>2, <1>4
  <2> QED
    BY <1>1, <2>1, IdleLinked
<1> QED
  BY <1>3, <1>4

\* A transaction is committed, or a request fails.
LEMMA CommitLinked ==
    ASSUME Typed, Linked, NEW r \in Request, ReadAndCommit(r) \/ RequestFails(r)
    PROVE  Linked'
<1>1. Ended(r) /\ UNCHANGED <<stripe, cache>>
  BY DEF ReadAndCommit, RequestFails, Return, Elsewhere
<1>2. CASE ReadAndCommit(r)
  BY <1>1, <1>2, EndLinked DEF ReadAndCommit, Return, RowSeenBy
<1>3. CASE RequestFails(r)
  <2>1. shown' = shown
    BY <1>3 DEF RequestFails, ghosts
  <2> QED
    BY <1>1, <1>3, <2>1, EndLinked DEF RequestFails
<1> QED
  BY <1>2, <1>3

\* The invariant is inductive.
LEMMA LinkNext == ASSUME LinkInv, [Next]_vars PROVE LinkInv'
<1>1. Typed /\ Typed'
  BY TypedNext DEF LinkInv
<1> SUFFICES ASSUME Fresh' PROVE Linked'
  BY <1>1 DEF LinkInv
<1>2. Linked
  BY WasFresh DEF LinkInv
<1>3. CASE World \/ Events \/ CacheExpires \/ UserExpires \/ Invalidate \/ EffectError
           \/ UNCHANGED vars
  BY <1>1, <1>2, <1>3, OthersLinked
<1>4. CASE DeleteRowOfCustomer
  BY <1>1, <1>2, <1>4, DeleteRowOfCustomerLinked
<1>5. ASSUME NEW r \in Request, \/ \E kind \in Ops : Begin(r, kind)
                                \/ Work(r) \/ RequestFails(r)
      PROVE  Linked'
  BY <1>1, <1>2, <1>5, BeginLinked, GetCachedLinked, FetchLinked, DecideAccessLinked,
     DecideCheckoutLinked, DeleteRowLinked, CreateSessionLinked, WriteLinked, CommitLinked
     DEF Work
<1> QED
  BY <1>3, <1>4, <1>5 DEF Next

\* LinkInv holds in every reachable state.
LEMMA LinkAlways == Spec => []LinkInv
<1>1. LinkInv /\ [Next]_vars => LinkInv'
  BY LinkNext
<1> QED
  BY InitLink, <1>1, PTL DEF Spec

\* While no stale cache entry decided and no late event deleted a newer row,
\* the user has at most one link to pay with or subscription that runs: the
\* comment of createCheckoutSession's transaction, for any number of requests
\* that run side by side, sessions, failures and lost answers.
THEOREM OneLinkAtATime == Spec => []OneLinkIfFresh
<1>1. LinkInv => OneLinkIfFresh
  BY LinkInvImplies
<1> QED
  BY <1>1, LinkAlways, PTL

\* Under the same condition the link that can be paid, and the subscription
\* that runs, are those of the user's row, where later requests look.
THEOREM LinkIsRecorded == Spec => []ShownIsRecorded
<1>1. LinkInv => ShownIsRecorded
  BY LinkInvImplies
<1> QED
  BY <1>1, LinkAlways, PTL

\* Under the same condition the user is one customer of Stripe at a time, since
\* a session that replaces another one hands on its customer.
THEOREM OneCustomerAtATime == Spec => []OneCustomer
<1>1. LinkInv => OneCustomer
  BY LinkInvImplies
<1> QED
  BY <1>1, LinkAlways, PTL

-----------------------------------------------------------------------------
(* The user is known. *)

\* A request is let in only after its user was inserted, and nothing of the
\* user exists before; a draft of the row counts, since it may be committed.
KnownFirst ==
    /\ DOMAIN pc = Request
    /\ userCached => known
    /\ row # NoRow => known
    /\ draft # NoRow => known
    /\ \A r \in Request : pc[r] # "idle" => known

\* At first nothing of the user exists and no request runs.
LEMMA InitKnown == Init => KnownFirst
BY DEF Init, KnownFirst

\* Once the user is known nothing is left to show but the requests' domain.
LEMMA KnownStays ==
    ASSUME known, known' = known, DOMAIN pc' = Request
    PROVE  KnownFirst'
BY DEF KnownFirst

\* A request that ends, or whose next call changes.
LEMMA PcDomain ==
    ASSUME KnownFirst, NEW r \in Request, NEW call, pc' = [pc EXCEPT ![r] = call]
    PROVE  DOMAIN pc' = Request
BY DEF KnownFirst

\* Beginning a request makes the user known.
LEMMA BeginKnows ==
    ASSUME KnownFirst, NEW r \in Request, NEW kind, Begin(r, kind)
    PROVE  KnownFirst'
<1>1. known' = TRUE /\ UNCHANGED <<userCached, row, draft>>
  BY DEF Begin, Authenticate, KnownFirst, db, users
<1>2. DOMAIN pc' = Request
  BY PcDomain DEF Begin
<1> QED
  BY <1>1, <1>2 DEF KnownFirst

\* The steps of a request that was let in.
LEMMA RequestKnows ==
    ASSUME KnownFirst, NEW r \in Request, Work(r) \/ RequestFails(r)
    PROVE  KnownFirst'
<1>1. pc[r] # "idle"
  BY DEF Work, RequestFails, GetCached, Fetch, SetCached, DecideAccess, DecideCheckout,
         DeleteRow, CreateSession, WriteSession, ReadAndCommit
<1>2. known
  BY <1>1 DEF KnownFirst
<1>3. known' = known
  BY DEF Work, RequestFails, GetCached, Fetch, SetCached, DecideAccess, DecideCheckout,
         DeleteRow, CreateSession, WriteSession, ReadAndCommit, users
<1>4. \E call : pc' = [pc EXCEPT ![r] = call]
  BY DEF Work, RequestFails, GetCached, Fetch, SetCached, DecideAccess, DecideCheckout,
         DeleteRow, CreateSession, WriteSession, ReadAndCommit, Ended, Return
<1>5. DOMAIN pc' = Request
  BY <1>4, PcDomain
<1> QED
  BY <1>2, <1>3, <1>5, KnownStays

\* Everybody else can only take something of the user away.
LEMMA OthersKnow ==
    ASSUME KnownFirst, UNCHANGED <<known, draft, pc>>,
           userCached' => userCached, row' # NoRow => row' = row
    PROVE  KnownFirst'
BY DEF KnownFirst

\* Every step, by who takes it.
LEMMA KnownNext == ASSUME KnownFirst, [Next]_vars PROVE KnownFirst'
<1>1. CASE World \/ Events \/ CacheExpires \/ UserExpires \/ Invalidate
           \/ DeleteRowOfCustomer \/ EffectError \/ UNCHANGED vars
  <2>1. UNCHANGED <<known, draft, pc>> /\ (userCached' => userCached)
        /\ (row' # NoRow => row' = row)
    BY <1>1 DEF World, Pay, Expire, ChangeSubscription, DeleteCustomer, Events,
                CacheExpires, UserExpires, Invalidate, DeleteRowOfCustomer,
                EffectError, vars, users, db, request
  <2> QED
    BY <2>1, OthersKnow
<1>2. CASE \E r \in Request : \/ \E kind \in Ops : Begin(r, kind)
                              \/ Work(r) \/ RequestFails(r)
  BY <1>2, BeginKnows, RequestKnows
<1> QED
  BY <1>1, <1>2 DEF Next

\* A cached profile, or a row of the user, means that the user is a row of the
\* table customer, which the row and the webhooks refer to: requireAuth may
\* skip the insertion, whichever requests, events and failures interleave.
THEOREM UserIsKnown == Spec => []CachedIsKnown
<1>1. KnownFirst /\ [Next]_vars => KnownFirst'
  BY KnownNext
<1>2. KnownFirst => CachedIsKnown
  BY DEF KnownFirst, CachedIsKnown
<1> QED
  BY InitKnown, <1>1, <1>2, PTL DEF Spec
=============================================================================
