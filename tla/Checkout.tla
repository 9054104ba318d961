------------------------------ MODULE Checkout ------------------------------
(***************************************************************************)
(* Checkout and access of one user of the dashboard.                       *)
(*                                                                         *)
(* Requests of the user run side by side: createCheckoutSession, which     *)
(* hands out the URL of a Stripe checkout session and records the session  *)
(* in the user's row, and requests behind requireStripeSubscription.  Both *)
(* ask Stripe for the session through a redis cache with one entry per     *)
(* user.  Stripe changes sessions, subscriptions and customers on its own, *)
(* and its events (StripeEvents) invalidate the entry.  A URL and a client *)
(* reference are represented by the session they belong to.                *)
(***************************************************************************)
EXTENDS StripeEvents, FiniteSets

CONSTANTS
    Request,        \* requests that run at the same time
    Ops,            \* what they are: "checkout", "access"
    MaxSessions,    \* bound: sessions ever created
    MaxLapses       \* bound: times a payment of a subscription fails

ASSUME CheckoutAssumption ==
    /\ MaxSessions \in Nat /\ MaxLapses \in Nat /\ 0 \notin Request
    /\ Ops \subseteq {"checkout", "access"}

Session == 1 .. MaxSessions
None    == 0            \* null, for sessions, customers and requests
NoRow   == [id |-> None, sess |-> None]

VARIABLES
    status,     \* status of each session at Stripe
    customer,   \* the session's customer, named for the session that created it
    sub,        \* status of the session's subscription
    gone,       \* customers that were deleted
    lapses,     \* failed payments so far
    row,        \* the user's row: its primary key and its session
    lock,       \* the request whose transaction locks the row
    draft,      \* the row as that transaction has it
    known,      \* is the user a row of the table customer?
    userCached, \* is the user's Clerk profile cached?
    cache,      \* the user's cached session
    pc,         \* each request's next call
    op,         \* what the request is
    saw,        \* the row it read (existingSession, apiSess)
    obj,        \* the session object it got
    want,       \* clientReferenceId and stripeCustomerId it resolved
    new,        \* the session it created
    shown,      \* ghost: sessions whose URL was returned
    stale,      \* ghost: was a cached session taken for another one?
    stray       \* ghost: did an old event delete the row of a new session?

stripe  == <<status, customer, sub, gone, lapses>>
db      == <<row, lock, draft>>
request == <<pc, op, saw, obj, want, new>>
users   == <<known, userCached>>
ghosts  == <<shown, stale, stray>>
vars    == <<events, stripe, db, users, cache, request, ghosts>>

\* A checkout session as sessions.retrieve returns it, with its customer and
\* subscription expanded.
Retrieved(s) == [id |-> s, status |-> status[s], customer |-> customer[s],
                 deleted |-> customer[s] \in gone, sub |-> sub[s]]
NoObj == [id |-> None, status |-> "none", customer |-> None,
          deleted |-> FALSE, sub |-> "none"]
Empty == [ref |-> None, customer |-> None]

Init ==
    /\ EventsInit
    /\ status = [s \in Session |-> "none"]
    /\ customer = [s \in Session |-> None]
    /\ sub = [s \in Session |-> "none"]
    /\ gone = {} /\ lapses = 0
    /\ row = NoRow /\ lock = None /\ draft = NoRow
    /\ known = FALSE /\ userCached = FALSE /\ cache = NoObj
    /\ pc = [r \in Request |-> "idle"] /\ op = [r \in Request |-> "none"]
    /\ saw = [r \in Request |-> NoRow] /\ obj = [r \in Request |-> NoObj]
    /\ want = [r \in Request |-> Empty] /\ new = [r \in Request |-> None]
    /\ shown = {} /\ stale = FALSE /\ stray = FALSE

-----------------------------------------------------------------------------
(* Stripe and its customer. *)

\* The user pays with a URL that was shown: a session without a customer gets
\* a new one.  Stripe has no use for a session whose customer was deleted.
Pay(s) ==
    /\ s \in shown /\ status[s] = "open" /\ customer[s] \notin gone
    /\ status' = [status EXCEPT ![s] = "complete"]
    /\ customer' = [customer EXCEPT ![s] = IF @ = None THEN s ELSE @]
    /\ sub' = [sub EXCEPT ![s] = "active"]
    /\ Emit("session")
    /\ UNCHANGED <<gone, lapses, stream, consumer, faults, db, users, cache,
                   request, ghosts>>

\* An open session expires; no event of it is handled.  Nobody asks for the
\* status of a session that was neither recorded nor shown.
Expire(s) ==
    /\ status[s] = "open" /\ (s \in shown \/ s = row.sess)
    /\ status' = [status EXCEPT ![s] = "expired"]
    /\ UNCHANGED <<events, customer, sub, gone, lapses, db, users, cache,
                   request, ghosts>>

\* A payment fails, or is made up for; the subscription is canceled for good.
ChangeSubscription(s) ==
    /\ \/ /\ sub[s] = "active" /\ lapses < MaxLapses
          /\ lapses' = lapses + 1 /\ sub' = [sub EXCEPT ![s] = "past_due"]
       \/ sub[s] = "past_due" /\ sub' = [sub EXCEPT ![s] = "active"] /\ UNCHANGED lapses
       \/ /\ sub[s] \in {"active", "past_due"}
          /\ sub' = [sub EXCEPT ![s] = "canceled"] /\ UNCHANGED lapses
    /\ Emit("session")
    /\ UNCHANGED <<status, customer, gone, stream, consumer, faults, db,
                   users, cache, request, ghosts>>

\* Deleting a customer cancels its subscriptions.
DeleteCustomer(c) ==
    /\ \E s \in Session : customer[s] = c
    /\ c # None /\ c \notin gone
    /\ gone' = gone \cup {c}
    /\ sub' = [s \in Session |-> IF customer[s] = c /\ sub[s] # "none"
                                 THEN "canceled" ELSE sub[s]]
    /\ Emit("customer")
    /\ UNCHANGED <<status, customer, lapses, stream, consumer, faults,
                   db, users, cache, request, ghosts>>

-----------------------------------------------------------------------------
(* The cached session. *)

\* Mutant: an entry is kept until it is invalidated.
CacheKeeps ==
    /\ cache # NoObj
    /\ UNCHANGED vars

\* PX: an entry lives for a limited time.
CacheExpires ==
    /\ cache # NoObj
    /\ cache' = NoObj
    /\ UNCHANGED <<events, stripe, db, users, request, ghosts>>

\* So does the entry of the user's profile.
UserExpires ==
    /\ userCached
    /\ userCached' = FALSE
    /\ UNCHANGED <<events, stripe, db, known, cache, request, ghosts>>

\* The consumer's handlers: invalidate, and the deletion of the user's row,
\* which waits for a lock on it.
Invalidate ==
    /\ Finish("cache")
    /\ cache' = NoObj
    /\ UNCHANGED <<faults, stripe, db, users, request, ghosts>>

DeleteRowOfCustomer ==
    /\ Finish("row") /\ lock = None
    /\ row' = NoRow
    /\ stray' = (stray \/ (row # NoRow /\ customer[row.sess] \notin gone))
    /\ UNCHANGED <<faults, stripe, lock, draft, users, cache, request, shown, stale>>

\* A call of the handler fails; the other one is not affected.
EffectError ==
    /\ Fault
    /\ \E call \in todo : Finish(call)
    /\ UNCHANGED <<stripe, db, users, cache, request, ghosts>>

-----------------------------------------------------------------------------
(* Steps that both kinds of requests begin with. *)

Elsewhere == <<events, stripe>>

Ended(r) ==
    /\ pc' = [pc EXCEPT ![r] = "idle"] /\ op' = [op EXCEPT ![r] = "none"]
    /\ saw' = [saw EXCEPT ![r] = NoRow] /\ obj' = [obj EXCEPT ![r] = NoObj]
    /\ want' = [want EXCEPT ![r] = Empty] /\ new' = [new EXCEPT ![r] = None]

\* Mutant: the profile is looked up through the cache, which fills it.
AuthenticateThroughCache == UNCHANGED known /\ userCached' = TRUE

\* requireAuth: a valid token's user is inserted, unless the profile is cached,
\* which is taken as a sign that it was before.
Authenticate == known' = (known \/ ~userCached) /\ UNCHANGED userCached

\* The user is known, and the user's row is read.
Begin(r, kind) ==
    /\ pc[r] = "idle"
    /\ Authenticate
    /\ op' = [op EXCEPT ![r] = kind]
    /\ saw' = [saw EXCEPT ![r] = row]
    /\ pc' = [pc EXCEPT ![r] = IF row # NoRow THEN "get"
                               ELSE IF kind = "checkout" THEN "create" ELSE "decide"]
    /\ UNCHANGED <<Elsewhere, db, cache, obj, want, new, ghosts>>

\* getOrSet: the cached session, whichever it is, or else Stripe is asked.
GetCached(r) ==
    /\ pc[r] = "get"
    /\ obj' = [obj EXCEPT ![r] = cache]
    /\ pc' = [pc EXCEPT ![r] = IF cache = NoObj THEN "fetch" ELSE "decide"]
    /\ UNCHANGED <<Elsewhere, db, users, cache, op, saw, want, new, ghosts>>

Fetch(r) ==
    /\ pc[r] = "fetch"
    /\ obj' = [obj EXCEPT ![r] = Retrieved(saw[r].sess)]
    /\ pc' = [pc EXCEPT ![r] = "set"]
    /\ UNCHANGED <<Elsewhere, db, users, cache, op, saw, want, new, ghosts>>

SetCached(r) ==
    /\ pc[r] = "set"
    /\ cache' = obj[r]
    /\ pc' = [pc EXCEPT ![r] = "decide"]
    /\ UNCHANGED <<Elsewhere, db, users, op, saw, obj, want, new, ghosts>>

\* A call fails, or the process dies.  An open transaction is rolled back,
\* unless all that is lost is the answer to its commit; a session created
\* before it stays at Stripe.
RequestFails(r) ==
    /\ pc[r] # "idle" /\ Fault
    /\ Ended(r)
    /\ IF lock = r THEN lock' = None /\ draft' = NoRow /\ row' \in {row, draft}
       ELSE UNCHANGED db
    /\ UNCHANGED <<delivery, consumer, stripe, users, cache, ghosts>>

-----------------------------------------------------------------------------
(* requireStripeSubscription. *)

\* Mutant: the subscription's status is not looked at.
AccessIfComplete(o) ==
    IF o.status # "complete" \/ o.deleted THEN "not_subscribed" ELSE "granted"

\* What the session object, or its absence, means for access.
AccessOf(o) ==
    IF o.status # "complete" \/ o.deleted \/ o.sub = "canceled" THEN "not_subscribed"
    ELSE IF o.sub = "active" THEN "granted" ELSE "invalid"

DecideAccess(r) ==
    /\ pc[r] = "decide" /\ op[r] = "access"
    /\ Ended(r)
    /\ UNCHANGED <<Elsewhere, db, users, cache, ghosts>>

-----------------------------------------------------------------------------
(* createCheckoutSession. *)

\* A URL is returned: the session's, or None for the customer portal's.
Return(r, s) == Ended(r) /\ shown' = shown \cup ({s} \ {None})

\* Mutant: a session that expired is created anew without its customer.
ResolvedCustomerless(o, s) == [ref |-> s, customer |-> None]

\* The reference of the row's session and the customer the object has.
Resolved(o, s) == [ref |-> s, customer |-> o.customer]

\* The sessions that give way to a new one.
Replaceable(o) == o.status = "expired" \/ (o.status = "complete" /\ o.sub = "canceled")

\* resolveCheckoutSession, once it has the session object.
DecideCheckout(r) ==
    /\ pc[r] = "decide" /\ op[r] = "checkout"
    /\ stale' = (stale \/ obj[r].id # saw[r].sess)
    /\ LET o == obj[r]
       IN  \/ /\ o.status = "complete" /\ o.deleted
              /\ pc' = [pc EXCEPT ![r] = "delete"]
              /\ obj' = [obj EXCEPT ![r] = NoObj]
              /\ UNCHANGED <<op, saw, want, new, shown>>
           \/ /\ ~(o.status = "complete" /\ o.deleted) /\ Replaceable(o)
              /\ want' = [want EXCEPT ![r] = Resolved(o, saw[r].sess)]
              /\ saw' = [saw EXCEPT ![r] = NoRow] /\ obj' = [obj EXCEPT ![r] = NoObj]
              /\ pc' = [pc EXCEPT ![r] = "create"]
              /\ UNCHANGED <<op, new, shown>>
           \/ /\ ~(o.status = "complete" /\ o.deleted) /\ ~Replaceable(o)
              /\ Return(r, IF o.status = "open" THEN saw[r].sess ELSE None)
    /\ UNCHANGED <<Elsewhere, db, users, cache, stray>>

\* The customer is gone: so goes the row that was read, by its key.
DeleteRow(r) ==
    /\ pc[r] = "delete" /\ lock = None
    /\ row' = IF row.id = saw[r].id THEN NoRow ELSE row
    /\ saw' = [saw EXCEPT ![r] = NoRow]
    /\ pc' = [pc EXCEPT ![r] = "create"]
    /\ UNCHANGED <<Elsewhere, lock, draft, users, cache, op, obj, want, new, ghosts>>

\* The profile is read through its cache for the address, then sessions.create
\* is called.  Without a customer there is a trial, and Stripe will make
\* the customer; with one that was deleted Stripe refuses, and the request ends
\* in an error.
CreateSession(r) ==
    /\ pc[r] = "create"
    /\ userCached' = TRUE
    /\ IF want[r].customer \in gone
       THEN Ended(r) /\ UNCHANGED <<status, customer>>
       ELSE \E s \in Session :
              /\ \A t \in Session : (status[t] = "none") = (t >= s)
              /\ status' = [status EXCEPT ![s] = "open"]
              /\ customer' = [customer EXCEPT ![s] = want[r].customer]
              /\ new' = [new EXCEPT ![r] = s]
              /\ pc' = [pc EXCEPT ![r] = "write"]
              /\ UNCHANGED <<op, saw, obj, want>>
    /\ UNCHANGED <<events, sub, gone, lapses, db, known, cache, ghosts>>

\* Mutant: INSERT ... ON DUPLICATE KEY UPDATE.
InsertOrUpdate(r) ==
    /\ lock = None
    /\ lock' = r
    /\ draft' = IF row = NoRow THEN [id |-> new[r], sess |-> new[r]]
                ELSE [row EXCEPT !.sess = new[r]]

\* INSERT IGNORE, which waits for a lock on the user's row.  It also ignores
\* that the foreign key to the user is missing.
Insert(r) ==
    /\ lock = None
    /\ lock' = r
    /\ draft' = IF row = NoRow /\ known THEN [id |-> new[r], sess |-> new[r]] ELSE row

\* Mutant: the row is replaced by one without a key.
UpdateWithoutKey(r) ==
    IF lock = None /\ row.sess = want[r].ref
    THEN lock' = r /\ draft' = [sess |-> new[r]]
    ELSE UNCHANGED <<lock, draft>>

\* Mutant: the row is looked up by its user instead of the old reference.
UpdateByUser(r) ==
    IF lock = None /\ row # NoRow
    THEN lock' = r /\ draft' = [row EXCEPT !.sess = new[r]]
    ELSE UNCHANGED <<lock, draft>>

\* SELECT ... FOR UPDATE SKIP LOCKED by the old reference, and the update of
\* the row if it was found.
LockAndUpdate(r) ==
    IF lock = None /\ row.sess = want[r].ref
    THEN lock' = r /\ draft' = [row EXCEPT !.sess = new[r]]
    ELSE UNCHANGED <<lock, draft>>

WriteSession(r) ==
    /\ pc[r] = "write"
    /\ IF want[r].ref = None THEN Insert(r) ELSE LockAndUpdate(r)
    /\ pc' = [pc EXCEPT ![r] = "read"]
    /\ want' = [want EXCEPT ![r] = Empty] /\ new' = [new EXCEPT ![r] = None]
    /\ UNCHANGED <<Elsewhere, row, users, cache, op, saw, obj, ghosts>>

\* The row as the transaction of r reads it: other transactions' writes only
\* once they are committed.
RowSeenBy(r) == IF lock = r THEN draft ELSE row

\* The transaction reads the row, commits and returns its URL; without a row
\* it is rolled back and the request fails.
ReadAndCommit(r) ==
    /\ pc[r] = "read"
    /\ Return(r, RowSeenBy(r).sess)
    /\ IF lock = r THEN row' = draft /\ lock' = None /\ draft' = NoRow
       ELSE UNCHANGED db
    /\ UNCHANGED <<Elsewhere, users, cache, stale, stray>>

-----------------------------------------------------------------------------

World == \E s \in Session :
            Pay(s) \/ Expire(s) \/ ChangeSubscription(s) \/ DeleteCustomer(s)

\* The steps of StripeEvents that touch nothing else.
Events == /\ Endpoint \/ Consume \/ ReadAgain \/ HandleError \/ ConsumerCrash
          /\ UNCHANGED <<stripe, db, users, cache, request, ghosts>>

Consumer == \/ Consume /\ UNCHANGED <<stripe, db, users, cache, request, ghosts>>
            \/ Invalidate \/ DeleteRowOfCustomer

Work(r) == \/ GetCached(r) \/ Fetch(r) \/ SetCached(r)
           \/ DecideAccess(r) \/ DecideCheckout(r) \/ DeleteRow(r)
           \/ CreateSession(r) \/ WriteSession(r) \/ ReadAndCommit(r)

Next == \/ World \/ Events
        \/ CacheExpires \/ UserExpires \/ Invalidate \/ DeleteRowOfCustomer \/ EffectError
        \/ \E r \in Request : \/ \E kind \in Ops : Begin(r, kind)
                              \/ Work(r) \/ RequestFails(r)

Spec == Init /\ [][Next]_vars

\* Stripe repeats its calls until they are answered, the consumer is restarted
\* when it ends, requests are answered and cached sessions expire.
FairSpec ==
    /\ Spec
    /\ WF_vars(CacheExpires) /\ WF_vars(Consumer)
    /\ \A k \in Kind :
          WF_vars(Produce(k) /\ UNCHANGED <<stripe, db, users, cache, request, ghosts>>)
    /\ \A r \in Request : WF_vars(Work(r))

-----------------------------------------------------------------------------
(* Properties *)

Object == [id : Session \cup {None}, status : {"none", "open", "expired", "complete"},
           customer : Session \cup {None}, deleted : BOOLEAN,
           sub : {"none", "active", "past_due", "canceled"}]
Row    == [id : Session \cup {None}, sess : Session \cup {None}]

\* Every variable has its type.
TypeOK ==
    /\ EventsTypeOK
    /\ \A s \in Session : Retrieved(s) \in Object
    /\ gone \subseteq Session /\ lapses \in Nat
    /\ row \in Row /\ draft \in Row /\ lock \in Request \cup {None}
    /\ known \in BOOLEAN /\ userCached \in BOOLEAN /\ cache \in Object
    /\ pc \in [Request -> {"idle", "get", "fetch", "set", "decide", "delete",
                           "create", "write", "read"}]
    /\ op \in [Request -> {"none", "checkout", "access"}]
    /\ saw \in [Request -> Row] /\ obj \in [Request -> Object]
    /\ want \in [Request -> [ref : Session \cup {None}, customer : Session \cup {None}]]
    /\ new \in [Request -> Session \cup {None}]
    /\ shown \subseteq Session /\ stale \in BOOLEAN /\ stray \in BOOLEAN

Payable(s) == status[s] = "open" /\ customer[s] \notin gone
Live(s)    == sub[s] \in {"active", "past_due"}

\* The user never has two links to pay with, nor a link beside a subscription
\* that runs: the comment of the transaction says that one link is visible at
\* a time, until it expires or its subscription is canceled.
OneLink == \A s, t \in shown : (Payable(s) \/ Live(s)) /\ (Payable(t) \/ Live(t)) => s = t

\* No decision was taken from the cached object of an earlier session, and no
\* late customer.deleted deleted the row of a later one.
Fresh == ~stale /\ ~stray

\* Requests that run side by side show one link between them: the unique key,
\* the old reference and the lock, which is not waited for, see to it.
OneLinkIfFresh == Fresh => OneLink

\* A session whose link can be paid, or was, is the one in the user's row, so
\* that later requests find the subscription and make no second one.
ShownIsRecorded ==
    Fresh => \A s \in shown : Payable(s) \/ Live(s) => row.sess = s

\* The user is one customer of Stripe and has one trial, unless the customer
\* is deleted.
OneCustomer ==
    Fresh => \A s, t \in Session \ gone : customer[s] = s /\ customer[t] = t => s = t

\* A cached profile means that the user is a row of the table customer, which
\* a checkout session and a webhook refer to.
CachedIsKnown == userCached \/ row # NoRow => known

\* How requests for access are answered from now on.
Answers(answer) ==
    \A r \in Request :
        pc[r] = "decide" /\ op[r] = "access" => AccessOf(obj[r]) = answer

\* A user whose subscriptions have all ended loses access for good, although
\* the event may be lost and a cached session may be newer than it.
CancelRevokes ==
    <>[](\A s \in Session : sub[s] \in {"none", "canceled"}) =>
        <>[]Answers("not_subscribed")

\* A user who has paid and is recorded gets access, and keeps it.
PaidIsGranted ==
    <>[](row.sess # None /\ status[row.sess] = "complete" /\ sub[row.sess] = "active") =>
        <>[]Answers("granted")
=============================================================================
