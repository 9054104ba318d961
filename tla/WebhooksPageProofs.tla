------------------------ MODULE WebhooksPageProofs ------------------------
(***************************************************************************)
(* Proofs about WebhooksPage, for any webhooks, page size and clicks.      *)
(***************************************************************************)
EXTENDS WebhooksPage, WebhookApiProofs, FiniteSetTheorems, FunctionTheorems,
        SequenceTheorems

\* The types, as sets.
Lists   == { l \in [rows : Seq(ShownRow), next : BOOLEAN, prev : BOOLEAN] :
                Len(l.rows) <= Limit }
Queries == [has : BOOLEAN, param : Param, list : Lists]
Fetches == [at : {"none", "cursor", "page", "answer"}, param : Param,
            cursor : Hook \cup {0}, list : Lists, owed : SUBSET Hook]

Typed ==
    /\ screen \in {"loading", "table", "left"}
    /\ modal \in Hook \cup {NoModal, CreateModal} /\ filter \in Filter
    /\ query \in [Filter -> Queries] /\ fetch \in Fetches
    /\ table \in Seq(ShownRow) /\ owed \subseteq Hook
    /\ checked \subseteq Hook /\ joined \in BOOLEAN /\ asked \in 0 .. MaxAsks

\* The API's invariant and the types.
PageInv == IInv /\ Typed

-----------------------------------------------------------------------------
(* The walk through the pages. *)

\* What is owed of the list that is there.
Ahead(O, x) == \A h \in O : Present(h) => h < x

\* All of it is behind a cursor that is still there.
Behind(O, param) ==
    param.id \in Hook /\ Present(param.id) => Ahead(O, param.id)

\* ... and behind every row of a page that was read, which says that there is
\* a next one.
Shown(q, O) ==
    /\ Behind(O, q.param)
    /\ \A h \in O : Present(h) =>
          q.list.next /\ \A i \in DOMAIN q.list.rows : h < q.list.rows[i].id

\* Cursors and rows are webhooks that were there once, which do not come back.
Named(q) ==
    /\ q.param.id \in Known \cup {0}
    /\ \A i \in DOMAIN q.list.rows : q.list.rows[i].id \in Known

\* What is owed was in the list, and leaves it only when it is removed.
Listed(O) == \A h \in O : h \in Known /\ (Present(h) => Matches(h, filter))

\* What is owed when the page of the current filter is shown.
QueryWalk ==
    /\ \A f \in Filter : Named(query[f]) /\ (~query[f].has => query[f].param.id = 0)
    /\ Listed(owed)
    /\ query[filter].has => Shown(query[filter], owed)

\* What is owed while a page is read: a request may be repeated at any time,
\* and a cursor whose row was found stays a cursor when the row is removed.
FetchWalk ==
    /\ Named(fetch) /\ Listed(fetch.owed)
    /\ Fetching => Behind(owed, fetch.param)
    /\ fetch.at = "page" =>
          IF fetch.cursor = 0 THEN fetch.param.id = 0 \/ ~Present(fetch.param.id)
          ELSE fetch.cursor = fetch.param.id /\ Ahead(owed, fetch.cursor)
    /\ fetch.at = "answer" => Shown(fetch, fetch.owed)

Walk == QueryWalk /\ FetchWalk

-----------------------------------------------------------------------------
(* The table and the database. *)

Calm == \A c \in Client : ~Pending(c)

CursorNow(param) == IF param.id # 0 /\ Present(param.id) THEN param.id ELSE 0

AnswerNow(param) == Answer(filter, CursorNow(param), param)

Current ==
    LET q == query[filter]
    IN  /\ table = AnswerNow(q.param).rows
        /\ q.list.next = AnswerNow(q.param).next /\ q.list.prev = AnswerNow(q.param).prev

\* As long as no mutation is under way, what has been read so far is what is
\* in the database.  A page that was left reads nothing.
View ==
    /\ screen = "left" => ~Fetching
    /\ Calm /\ ~joined =>
          /\ fetch.at = "page" => fetch.cursor = CursorNow(fetch.param)
          /\ fetch.at = "answer" => fetch.list = AnswerNow(fetch.param)
          /\ fetch.at = "none" /\ screen = "table" => Current

-----------------------------------------------------------------------------
(* The order of the list. *)

\* The cursor's order is that of the numbers.
LEMMA LaterIsLarger ==
    ASSUME NEW a \in Hook, NEW b \in Hook
    PROVE  Later(a, b) <=> a > b
<1>1. a \in Nat /\ b \in Nat
  BY PageAssumption
<1>2. CASE a > b
  <2>1. (a + 1) \div 2 >= (b + 1) \div 2
    BY <1>1, <1>2
  <2> QED
    BY <1>1, <1>2, <2>1 DEF Later, CreatedAt
<1>3. CASE ~(a > b)
  <2>1. (a + 1) \div 2 <= (b + 1) \div 2
    BY <1>1, <1>3
  <2> QED
    BY <1>1, <1>3, <2>1 DEF Later, CreatedAt
<1> QED
  BY <1>2, <1>3

Rank(S, h, r) == Cardinality({ g \in S : Before(g, h, r) })

\* Counting what is before an element numbers the elements in their order.
LEMMA RankOrders ==
    ASSUME NEW S \in SUBSET Hook, NEW r \in BOOLEAN
    PROVE  /\ IsFiniteSet(S) /\ Cardinality(S) \in Nat
           /\ \A h \in S : Rank(S, h, r) \in 0 .. Cardinality(S) - 1
           /\ \A g, h \in S : Before(g, h, r) => Rank(S, g, r) < Rank(S, h, r)
           /\ \A g, h \in S : g # h => Before(g, h, r) \/ Before(h, g, r)
<1> DEFINE B(h) == { g \in S : Before(g, h, r) }
<1>1. IsFiniteSet(S) /\ Cardinality(S) \in Nat /\ S \subseteq Nat
  BY PageAssumption, FS_Subset, FS_CardinalityType
<1>2. ASSUME NEW h \in S
      PROVE  /\ IsFiniteSet(B(h)) /\ Cardinality(B(h)) \in Nat /\ Cardinality(B(h)) < Cardinality(S)
             /\ h \notin B(h)
  <2>1. B(h) \in SUBSET S
    OBVIOUS
  <2>2. IsFiniteSet(B(h)) /\ Cardinality(B(h)) \in Nat
    BY <1>1, <2>1, FS_Subset, FS_CardinalityType
  <2>3. h \notin B(h)
    BY <1>1 DEF Before
  <2>4. Cardinality(B(h)) <= Cardinality(S) /\ Cardinality(B(h)) # Cardinality(S)
    BY <1>1, <2>1, <2>3, FS_Subset
  <2> HIDE DEF B
  <2>5. Cardinality(B(h)) < Cardinality(S)
    BY <1>1, <2>2, <2>4
  <2> QED
    BY <2>2, <2>3, <2>5
<1>3. ASSUME NEW g \in S, NEW h \in S, Before(g, h, r)
      PROVE  Cardinality(B(g)) < Cardinality(B(h))
  <2>1. B(g) \in SUBSET B(h)
    <3>1. ASSUME NEW x \in S, Before(x, g, r) PROVE Before(x, h, r)
      BY <1>1, <1>3, <3>1 DEF Before
    <3> QED
      BY <3>1
  <2>2. g \in B(h)
    BY <1>3
  <2> HIDE DEF B
  <2>3. Cardinality(B(g)) <= Cardinality(B(h)) /\ Cardinality(B(g)) # Cardinality(B(h))
    BY <1>2, <2>1, <2>2, FS_Subset
  <2> QED
    BY <1>2, <2>3
<1>4. \A h \in S : Rank(S, h, r) = Cardinality(B(h))
  BY DEF Rank
<1>5. \A g, h \in S : g # h => Before(g, h, r) \/ Before(h, g, r)
  BY <1>1 DEF Before
<1> HIDE DEF B
<1>6. \A h \in S : Rank(S, h, r) \in 0 .. Cardinality(S) - 1
  BY <1>1, <1>2, <1>4
<1> QED
  BY <1>1, <1>3, <1>4, <1>5, <1>6

\* ... without leaving out a number.
LEMMA RankIsOnto ==
    ASSUME NEW S \in SUBSET Hook, NEW r \in BOOLEAN
    PROVE  \A i \in 1 .. Cardinality(S) : \E h \in S : Rank(S, h, r) = i - 1
<1> DEFINE n == Cardinality(S)
           T == 0 .. n - 1
           f == [h \in S |-> Rank(S, h, r)]
<1>1. /\ n \in Nat /\ IsFiniteSet(S)
      /\ \A h \in S : Rank(S, h, r) \in T
      /\ \A g, h \in S : g # h => Rank(S, g, r) # Rank(S, h, r)
  <2> HIDE DEF n
  <2>1. \A h \in S : Rank(S, h, r) \in T
    BY RankOrders DEF n
  <2>2. ASSUME NEW g \in S, NEW h \in S, g # h PROVE Rank(S, g, r) # Rank(S, h, r)
    <3>1. Rank(S, g, r) \in Int /\ Rank(S, h, r) \in Int
      BY <2>1
    <3>2. Rank(S, g, r) < Rank(S, h, r) \/ Rank(S, h, r) < Rank(S, g, r)
      BY <2>2, RankOrders
    <3> QED
      BY <3>1, <3>2
  <2> QED
    BY <2>1, <2>2, RankOrders DEF n
<1> HIDE DEF n
<1>2. IsFiniteSet(T) /\ Cardinality(T) = n
  <2>1. IsFiniteSet(T) /\ Cardinality(T) = IF 0 > n - 1 THEN 0 ELSE (n - 1) - 0 + 1
    BY <1>1, FS_Interval
  <2> QED
    BY <1>1, <2>1
<1>3. f \in Injection(S, T)
  BY <1>1 DEF Injection, IsInjective
<1>4. f \in Surjection(S, T)
  BY <1>1, <1>2, <1>3, FS_Injection DEF n
<1>5. \A i \in T : \E h \in S : f[h] = i
  BY <1>4 DEF Surjection
<1>6. ASSUME NEW i \in 1 .. n PROVE \E h \in S : Rank(S, h, r) = i - 1
  <2>1. i - 1 \in T
    BY <1>1
  <2> QED
    BY <1>5, <2>1
<1> QED
  BY <1>6 DEF n

\* What the query finds: hits in their order, and a hit that is left out comes
\* after all of them, of which there are Limit + 1.
LEMMA FoundIsSorted ==
    ASSUME NEW f, NEW cursor, NEW reverse \in BOOLEAN
    PROVE  LET t == Found(f, cursor, reverse)
               hits == Hits(f, cursor, reverse)
           IN  /\ t \in Seq(Hook) /\ Len(t) \in 0 .. Limit + 1 /\ hits \subseteq Hook
               /\ \A i \in 1 .. Len(t) : t[i] \in hits
               /\ \A i, j \in 1 .. Len(t) : i < j => Before(t[i], t[j], reverse)
               /\ \A h \in hits : \/ \E i \in 1 .. Len(t) : t[i] = h
                                  \/ /\ Len(t) = Limit + 1
                                     /\ \A i \in 1 .. Len(t) : Before(t[i], h, reverse)
<1> DEFINE hits == Hits(f, cursor, reverse)
           n    == Cardinality(hits)
           k    == IF n > Limit THEN Limit + 1 ELSE n
           At(i) == CHOOSE h \in hits : Rank(hits, h, reverse) = i - 1
           t    == [i \in 1 .. k |-> At(i)]
<1>1. hits \in SUBSET Hook
  BY DEF Hits
<1> HIDE DEF hits
<1>2. /\ n \in Nat
      /\ \A h \in hits : Rank(hits, h, reverse) \in 0 .. n - 1
      /\ \A g, h \in hits : Before(g, h, reverse) =>
            Rank(hits, g, reverse) < Rank(hits, h, reverse)
      /\ \A g, h \in hits : g # h => Before(g, h, reverse) \/ Before(h, g, reverse)
  BY <1>1, RankOrders
<1>3. \A i \in 1 .. n : \E h \in hits : Rank(hits, h, reverse) = i - 1
  BY <1>1, RankIsOnto
<1>4. Found(f, cursor, reverse) = t
  <2> DEFINE place == [h \in hits |-> Cardinality({ g \in hits : Before(g, h, reverse) })]
  <2>1. \A h \in hits : place[h] = Rank(hits, h, reverse)
    BY DEF Rank
  <2>2. \A i : (CHOOSE h \in hits : place[h] = i - 1) = At(i)
    BY <2>1
  <2>3. Found(f, cursor, reverse)
          = [i \in 1 .. k |-> CHOOSE h \in hits : place[h] = i - 1]
    BY DEF Found, hits
  <2> QED
    BY <2>2, <2>3
<1>5. Limit \in Nat /\ k \in Nat /\ k <= n /\ k <= Limit + 1 /\ (k < n => k = Limit + 1)
  BY <1>2, PageAssumption
<1>6. ASSUME NEW i \in 1 .. n PROVE At(i) \in hits /\ Rank(hits, At(i), reverse) = i - 1
  <2>1. \E h \in hits : Rank(hits, h, reverse) = i - 1
    BY <1>3
  <2> QED
    BY <2>1
<1> HIDE DEF n, k, At
<1>7. \A i \in 1 .. k : i \in 1 .. n
  BY <1>2, <1>5
<1>8. t \in [1 .. k -> Hook]
  BY <1>1, <1>6, <1>7
<1>9. t \in Seq(Hook) /\ Len(t) = k
  BY <1>5, <1>8
<1>10. \A i \in 1 .. k : t[i] = At(i)
  OBVIOUS
<1> HIDE DEF t
<1>11. ASSUME NEW i \in 1 .. k, NEW h \in hits, i - 1 < Rank(hits, h, reverse)
       PROVE  Before(t[i], h, reverse)
  <2>1. t[i] \in hits /\ Rank(hits, t[i], reverse) = i - 1
    BY <1>6, <1>7, <1>10
  <2>2. t[i] # h
    BY <1>2, <1>11, <2>1
  <2>3. ~Before(h, t[i], reverse)
    <3>1. Rank(hits, h, reverse) \in Int /\ i \in Int
      BY <1>2, <1>5
    <3>2. ~(Rank(hits, h, reverse) < Rank(hits, t[i], reverse))
      BY <1>11, <2>1, <3>1
    <3> QED
      BY <1>2, <2>1, <3>2
  <2> QED
    BY <1>2, <2>1, <2>2, <2>3
<1>12. ASSUME NEW i \in 1 .. k, NEW j \in 1 .. k, i < j
       PROVE  Before(t[i], t[j], reverse)
  <2>1. t[j] \in hits /\ Rank(hits, t[j], reverse) = j - 1
    BY <1>6, <1>7, <1>10
  <2>2. i - 1 < j - 1
    BY <1>5, <1>12
  <2> QED
    BY <1>11, <2>1, <2>2
<1>13. ASSUME NEW h \in hits
       PROVE  \/ \E i \in 1 .. k : t[i] = h
              \/ k = Limit + 1 /\ \A i \in 1 .. k : Before(t[i], h, reverse)
  <2>1. PICK i \in 1 .. n : Rank(hits, h, reverse) = i - 1
    <3>1. Rank(hits, h, reverse) \in 0 .. n - 1
      BY <1>2
    <3>2. Rank(hits, h, reverse) + 1 \in 1 .. n
          /\ Rank(hits, h, reverse) = (Rank(hits, h, reverse) + 1) - 1
      BY <1>2, <3>1
    <3> QED
      BY <3>2
  <2>2. CASE i \in 1 .. k
    <3>1. t[i] \in hits /\ Rank(hits, t[i], reverse) = i - 1
      BY <1>6, <1>10, <2>2
    <3>2. ~Before(t[i], h, reverse) /\ ~Before(h, t[i], reverse)
      <4>1. ~(Rank(hits, h, reverse) < Rank(hits, t[i], reverse))
            /\ ~(Rank(hits, t[i], reverse) < Rank(hits, h, reverse))
        BY <2>1, <3>1
      <4> QED
        BY <1>2, <3>1, <4>1
    <3>3. t[i] = h
      BY <1>2, <3>1, <3>2
    <3> QED
      BY <2>2, <3>3
  <2>3. CASE i \notin 1 .. k
    <3>1. k < n /\ k < i
      BY <1>2, <1>5, <2>3
    <3>2. ASSUME NEW j \in 1 .. k PROVE j - 1 < Rank(hits, h, reverse)
      BY <1>5, <2>1, <3>1
    <3> QED
      BY <1>5, <1>11, <3>1, <3>2
  <2> QED
    BY <2>2, <2>3
<1>14. \A i \in 1 .. k : t[i] \in hits
  BY <1>6, <1>7, <1>10
<1> QED
  BY <1>1, <1>4, <1>5, <1>9, <1>12, <1>13, <1>14 DEF hits

\* An answer is a list of the hits next to the cursor.  Paging forwards, a hit
\* that is not on it comes after its rows, and there is a next page.
LEMMA AnswerIsPage ==
    ASSUME ApiTypeOK, NEW f, NEW cursor \in Hook \cup {0}, NEW p \in Param
    PROVE  LET A    == Answer(f, cursor, p)
               back == cursor # 0 /\ p.reverse
               hits == Hits(f, cursor, back)
           IN  /\ A \in Lists
               /\ \A i \in DOMAIN A.rows : A.rows[i].id \in hits
               /\ back => A.next
               /\ ~back => \A h \in hits :
                     \/ h \in IdsOf(A.rows)
                     \/ A.next /\ \A i \in DOMAIN A.rows : h < A.rows[i].id
<1> DEFINE A     == Answer(f, cursor, p)
           back  == cursor # 0 /\ p.reverse
           hits  == Hits(f, cursor, back)
           t     == Found(f, cursor, back)
           more  == Len(t) > Limit
           cut   == IF more THEN SubSeq(t, 1, Limit) ELSE t
           shown == IF back THEN Reverse(cut) ELSE cut
<1>1. back \in BOOLEAN /\ Limit \in Nat /\ Limit > 0 /\ Hook \subseteq Nat
  BY PageAssumption DEF Param
<1>2. A = [rows |-> [i \in 1 .. Len(shown) |-> AsRow(shown[i])],
           next |-> more \/ back, prev |-> cursor # 0 /\ (more \/ ~back)]
  BY DEF Answer
<1> HIDE DEF A, back
<1>3. /\ t \in Seq(Hook) /\ Len(t) \in 0 .. Limit + 1 /\ hits \subseteq Hook
      /\ \A i \in 1 .. Len(t) : t[i] \in hits
      /\ \A i, j \in 1 .. Len(t) : i < j => Before(t[i], t[j], back)
      /\ \A h \in hits : \/ \E i \in 1 .. Len(t) : t[i] = h
                         \/ /\ Len(t) = Limit + 1
                            /\ \A i \in 1 .. Len(t) : Before(t[i], h, back)
  BY <1>1, FoundIsSorted
<1> HIDE DEF t, hits
<1>4. /\ cut \in Seq(Hook) /\ Len(cut) <= Limit /\ Len(cut) \in Nat
      /\ Len(cut) <= Len(t) /\ \A i \in 1 .. Len(cut) : cut[i] = t[i]
      /\ more => Len(cut) = Limit /\ Len(t) = Limit + 1
      /\ ~more => cut = t
  <2>1. CASE more
    <3>1. Len(t) = Limit + 1
      BY <1>1, <1>3, <2>1
    <3>2. SubSeq(t, 1, Limit) \in Seq(Hook) /\ Len(SubSeq(t, 1, Limit)) = Limit
          /\ \A i \in 1 .. Limit : SubSeq(t, 1, Limit)[i] = t[i]
      BY <1>1, <1>3, <3>1
    <3> QED
      BY <1>1, <2>1, <3>1, <3>2
  <2>2. CASE ~more
    BY <1>1, <1>3, <2>2
  <2> QED
    BY <2>1, <2>2
<1> HIDE DEF cut
<1>5. /\ shown \in Seq(Hook) /\ Len(shown) = Len(cut)
      /\ \A i \in 1 .. Len(shown) : \E j \in 1 .. Len(cut) : shown[i] = cut[j]
      /\ ~back => shown = cut
  <2>1. CASE back
    <3>1. shown = [i \in 1 .. Len(cut) |-> cut[(Len(cut) - i) + 1]]
      BY <2>1 DEF Reverse
    <3>2. \A i \in 1 .. Len(cut) : (Len(cut) - i) + 1 \in 1 .. Len(cut)
      BY <1>4
    <3>3. \A i \in 1 .. Len(cut) : cut[i] \in Hook
      BY <1>4
    <3> HIDE DEF shown
    <3>4. shown \in [1 .. Len(cut) -> Hook]
      BY <3>1, <3>2, <3>3
    <3>5. shown \in Seq(Hook) /\ Len(shown) = Len(cut)
      <4>1. PICK m \in Nat : m = Len(cut)
        BY <1>4
      <4>2. shown \in [1 .. m -> Hook]
        BY <3>4, <4>1
      <4>3. shown \in Seq(Hook) /\ Len(shown) = m
        BY <4>2
      <4> QED
        BY <4>1, <4>3
    <3> QED
      BY <2>1, <3>1, <3>2, <3>5
  <2>2. CASE ~back
    BY <1>4, <2>2
  <2> QED
    BY <2>1, <2>2
<1> HIDE DEF shown
<1>6. /\ DOMAIN A.rows = 1 .. Len(shown) /\ Len(shown) \in Nat
      /\ \A i \in 1 .. Len(shown) : A.rows[i].id = shown[i]
      /\ A.next = (more \/ back)
  BY <1>2, <1>4, <1>5 DEF AsRow
<1>7. A \in Lists
  <2>1. \A i \in 1 .. Len(shown) : shown[i] \in Hook
    BY <1>5
  <2>2. \A h \in Hook : AsRow(h) \in ShownRow
    BY DEF AsRow, ShownRow, ApiTypeOK
  <2>3. A.rows \in [1 .. Len(shown) -> ShownRow]
    BY <1>2, <2>1, <2>2
  <2>4. A.rows \in Seq(ShownRow) /\ Len(A.rows) = Len(shown)
    BY <1>6, <2>3
  <2>5. A \in [rows : Seq(ShownRow), next : BOOLEAN, prev : BOOLEAN]
    BY <1>1, <1>2, <2>4
  <2> QED
    BY <1>4, <1>5, <2>4, <2>5 DEF Lists
<1>8. ASSUME NEW i \in 1 .. Len(shown) PROVE shown[i] \in hits
  <2>1. PICK j \in 1 .. Len(cut) : shown[i] = cut[j]
    BY <1>5
  <2>2. cut[j] = t[j] /\ j \in 1 .. Len(t)
    BY <1>3, <1>4
  <2> QED
    BY <1>3, <2>1, <2>2
<1>9. ASSUME ~back, NEW h \in hits, h \notin IdsOf(A.rows)
      PROVE  more /\ \A i \in 1 .. Len(shown) : h < shown[i]
  <2>1. \A i \in 1 .. Len(cut) : t[i] # h
    BY <1>4, <1>5, <1>6, <1>9 DEF IdsOf
  <2>2. more /\ \A i \in 1 .. Len(cut) : Before(t[i], h, back)
    <3>1. CASE \E i \in 1 .. Len(t) : t[i] = h
      <4>1. PICK k \in 1 .. Len(t) : t[k] = h
        BY <3>1
      <4>2. k \notin 1 .. Len(cut)
        BY <2>1, <4>1
      <4>3. more /\ k = Limit + 1
        BY <1>1, <1>3, <1>4, <4>2
      <4>4. \A i \in 1 .. Len(cut) : i \in 1 .. Len(t) /\ i < k
        BY <1>1, <1>4, <4>3
      <4> QED
        BY <1>3, <4>1, <4>3, <4>4
    <3>2. CASE ~(\E i \in 1 .. Len(t) : t[i] = h)
      <4>1. Len(t) = Limit + 1 /\ \A i \in 1 .. Len(t) : Before(t[i], h, back)
        BY <1>3, <3>2
      <4> QED
        BY <1>1, <1>4, <4>1
    <3> QED
      BY <3>1, <3>2
  <2>3. \A i \in 1 .. Len(shown) : shown[i] = t[i] /\ Before(t[i], h, back)
    BY <1>4, <1>5, <1>9, <2>2
  <2> QED
    BY <1>9, <2>2, <2>3 DEF Before
<1> QED
  <2>1. \A i \in DOMAIN A.rows : A.rows[i].id \in hits
    BY <1>6, <1>8
  <2>2. back => A.next
    BY <1>6
  <2>3. ~back => \A h \in hits :
           \/ h \in IdsOf(A.rows)
           \/ A.next /\ \A i \in DOMAIN A.rows : h < A.rows[i].id
    BY <1>6, <1>9
  <2> QED
    BY <1>7, <2>1, <2>2, <2>3 DEF A, back, hits

\* The hits around a cursor that may be gone.
LEMMA HitsAreNext ==
    ASSUME NEW f, NEW cursor \in Hook \cup {0}, NEW back \in BOOLEAN
    PROVE  \A h \in Hook :
              h \in Hits(f, cursor, back) <=>
                 /\ Matches(h, f)
                 /\ cursor = 0 \/ IF back THEN h > cursor ELSE cursor > h
<1>1. CASE cursor = 0
  BY <1>1 DEF Hits
<1>2. CASE cursor \in Hook
  <2>1. cursor # 0
    BY <1>2, PageAssumption
  <2> QED
    BY <1>2, <2>1, LaterIsLarger DEF Hits
<1> QED
  BY <1>1, <1>2

-----------------------------------------------------------------------------
(* Types. *)

\* The empty page, query and request.
LEMMA NothingTyped ==
    /\ First \in Param /\ First.id = 0 /\ 0 \notin Hook
    /\ NoList \in Lists /\ NoList.rows = <<>> /\ DOMAIN NoList.rows = {}
    /\ NoQuery \in Queries /\ NoQuery = [has |-> FALSE, param |-> First, list |-> NoList]
    /\ NoFetch \in Fetches /\ NoFetch.at = "none" /\ NoFetch.owed = {}
    /\ NoFetch.param = First /\ NoFetch.list = NoList /\ NoFetch.cursor = 0
<1>1. First \in Param /\ First.id = 0 /\ 0 \notin Hook
  BY PageAssumption DEF First, Param
<1>2. NoList \in Lists /\ NoList.rows = <<>> /\ DOMAIN NoList.rows = {}
  <2>1. <<>> \in Seq(ShownRow) /\ Len(<<>>) = 0 /\ Limit \in Nat
    BY EmptySeq, PageAssumption
  <2> QED
    BY <2>1 DEF NoList, Lists
<1> QED
  BY <1>1, <1>2 DEF NoQuery, Queries, NoFetch, Fetches

\* A request for a page.
LEMMA RequestTyped ==
    ASSUME NEW p \in Param
    PROVE  /\ Request(p) \in Fetches /\ Request(p).param = p /\ Request(p).owed = {}
           /\ Request(p).at = (IF p.id = 0 THEN "page" ELSE "cursor")
           /\ Request(p).cursor = 0 /\ Request(p).list = NoList
BY NothingTyped DEF Request, Fetches

\* A list has webhooks as rows.
LEMMA RowsTyped ==
    ASSUME NEW s \in Seq(ShownRow)
    PROVE  /\ IdsOf(s) \subseteq Hook /\ Len(s) \in Nat /\ DOMAIN s = 1 .. Len(s)
           /\ \A i \in DOMAIN s : s[i].id \in Hook
           /\ s # <<>> => 1 \in DOMAIN s /\ Len(s) \in DOMAIN s
<1>1. Len(s) \in Nat /\ DOMAIN s = 1 .. Len(s) /\ \A i \in 1 .. Len(s) : s[i] \in ShownRow
  BY LenProperties, ElementOfSeq
<1>2. s # <<>> => Len(s) # 0
  BY EmptySeq
<1> QED
  BY <1>1, <1>2 DEF IdsOf, ShownRow

\* Leaving the page, and loading it.
LEMMA LeaveTyped == ASSUME Typed, Leave PROVE Typed'
<1>1. <<>> \in Seq(ShownRow) /\ "any" \in Filter
  BY EmptySeq, PageAssumption
<1> QED
  BY <1>1, NothingTyped DEF Typed, Leave

\* The page is loaded anew.
LEMMA NewPageTyped == ASSUME Typed, NewPage PROVE Typed'
<1>1. <<>> \in Seq(ShownRow) /\ "any" \in Filter
  BY EmptySeq, PageAssumption
<1> QED
  BY <1>1, NothingTyped, RequestTyped DEF Typed, NewPage

\* The cursor of the next and of the previous page.
LEMMA TurnTyped ==
    ASSUME Typed, ClickNext \/ ClickPrev
    PROVE  \E p \in Param :
              /\ fetch' = Request(p) /\ joined' = FALSE /\ Clickable /\ ~Fetching
              /\ UNCHANGED <<api, screen, modal, filter, query, table, checked, owed, asked>>
              /\ query[filter].has
              /\ p.id = 0 \/ \E i \in DOMAIN query[filter].list.rows :
                                p.id = query[filter].list.rows[i].id
<1> DEFINE rows == query[filter].list.rows
<1>1. rows \in Seq(ShownRow)
  BY DEF Typed, Queries, Lists
<1>2. ASSUME NEW p, Turn(p), query[filter].has,
             p.reverse \in BOOLEAN, p = [reverse |-> p.reverse, id |-> p.id],
             p.id = 0 \/ \E i \in DOMAIN rows : p.id = rows[i].id
      PROVE  /\ p \in Param
             /\ fetch' = Request(p) /\ joined' = FALSE /\ Clickable /\ ~Fetching
             /\ UNCHANGED <<api, screen, modal, filter, query, table, checked, owed, asked>>
  BY <1>1, <1>2, RowsTyped DEF Turn, Param
<1>3. CASE ClickNext
  <2> DEFINE p == [reverse |-> FALSE, id |-> IF rows = <<>> THEN 0 ELSE rows[Len(rows)].id]
  <2>1. Turn(p) /\ query[filter].has
    BY <1>3 DEF ClickNext
  <2>2. p.id = 0 \/ \E i \in DOMAIN rows : p.id = rows[i].id
    BY <1>1, RowsTyped
  <2>3. p.reverse \in BOOLEAN /\ p = [reverse |-> p.reverse, id |-> p.id]
    OBVIOUS
  <2> HIDE DEF p
  <2>4. /\ p \in Param
        /\ fetch' = Request(p) /\ joined' = FALSE /\ Clickable /\ ~Fetching
        /\ UNCHANGED <<api, screen, modal, filter, query, table, checked, owed, asked>>
    BY <1>2, <2>1, <2>2, <2>3
  <2> QED
    BY <2>1, <2>2, <2>4
<1>4. CASE ClickPrev
  <2> DEFINE p == [reverse |-> TRUE, id |-> IF rows = <<>> THEN 0 ELSE rows[1].id]
  <2>1. Turn(p) /\ query[filter].has
    BY <1>4 DEF ClickPrev
  <2>2. p.id = 0 \/ \E i \in DOMAIN rows : p.id = rows[i].id
    BY <1>1, RowsTyped
  <2>3. p.reverse \in BOOLEAN /\ p = [reverse |-> p.reverse, id |-> p.id]
    OBVIOUS
  <2> HIDE DEF p
  <2>4. /\ p \in Param
        /\ fetch' = Request(p) /\ joined' = FALSE /\ Clickable /\ ~Fetching
        /\ UNCHANGED <<api, screen, modal, filter, query, table, checked, owed, asked>>
    BY <1>2, <2>1, <2>2, <2>3
  <2> QED
    BY <2>1, <2>2, <2>4
<1> QED
  BY <1>3, <1>4

\* The list is asked for again, or the request for it is joined.
LEMMA RefetchTyped ==
    ASSUME Typed, Refetch
    PROVE  /\ fetch' \in Fetches /\ joined' \in BOOLEAN
           /\ query[filter].param \in Param
           /\ \/ joined' = TRUE /\ fetch' = fetch
              \/ joined' = FALSE /\ fetch' = Request(query[filter].param)
<1>1. query[filter].param \in Param /\ fetch \in Fetches
  BY DEF Typed, Queries
<1> QED
  BY <1>1, RequestTyped DEF Refetch

\* The user submits a mutation.
Submits == SubmitCreate \/ SubmitEdit \/ ClickActivate \/ ClickRemove

\* That is a mutation of the API.
LEMMA SubmitAsks ==
    ASSUME Typed, Submits
    PROVE  \E c \in Mutation : \E ids \in SUBSET Hook : Submit(c, ids)
<1>1. {} \in SUBSET Hook /\ checked \in SUBSET Hook
      /\ {"create", "update", "remove", "activate"} = Mutation
  BY DEF Typed, Mutation
<1>2. CASE SubmitEdit
  <2>1. {modal} \in SUBSET Hook /\ Submit("update", {modal})
    BY <1>2 DEF SubmitEdit
  <2> QED
    BY <1>1, <2>1
<1>3. CASE SubmitCreate
  BY <1>1, <1>3 DEF SubmitCreate
<1>4. CASE ClickActivate
  BY <1>1, <1>4 DEF ClickActivate
<1>5. CASE ClickRemove
  BY <1>1, <1>5 DEF ClickRemove
<1> QED
  BY <1>2, <1>3, <1>4, <1>5 DEF Submits

\* The user opens and closes modals and checks boxes.
Clicks ==
    \/ OpenModal(CreateModal) \/ (\E h \in Ids : OpenModal(h)) \/ CloseModal
    \/ \E h \in Ids : Check(IF h \in checked THEN checked \ {h} ELSE checked \cup {h})
    \/ \E boxes \in {{}, Ids} : Check(boxes)

\* They touch nothing else.
LEMMA ClicksTyped ==
    ASSUME Typed, Clicks
    PROVE  /\ Typed'
           /\ UNCHANGED <<api, screen, filter, query, fetch, table, owed, joined>>
<1>1. Ids \subseteq Hook
  BY RowsTyped DEF Typed, Ids
<1>2. CASE OpenModal(CreateModal) \/ (\E h \in Ids : OpenModal(h)) \/ CloseModal
  BY <1>1, <1>2 DEF Typed, OpenModal, CloseModal
<1>3. ASSUME NEW boxes \in SUBSET Hook, Check(boxes)
      PROVE  /\ Typed'
             /\ UNCHANGED <<api, screen, filter, query, fetch, table, owed, joined>>
  BY <1>3 DEF Typed, Check
<1>4. \A h \in Ids : (IF h \in checked THEN checked \ {h} ELSE checked \cup {h}) \in SUBSET Hook
  BY <1>1 DEF Typed
<1>5. {} \in SUBSET Hook /\ Ids \in SUBSET Hook
  BY <1>1
<1> QED
  BY <1>2, <1>3, <1>4, <1>5 DEF Clicks

\* Next, with the user's steps in groups.
LEMMA NextKinds ==
    Next => \/ Server \/ Submits \/ Clicks \/ ClickNext \/ ClickPrev \/ ClickRefresh
            \/ (\E f \in Filter : Search(f))
            \/ ReadCursor \/ ReadPage \/ ShowAnswer \/ QueryFails \/ QueryDenied
            \/ Open \/ Rekey \/ (\E c \in Mutation : Settled(c))
BY DEF Next, User, Submits, Clicks

\* What a step of the page is to the API.
LEMMA ApiMoves ==
    ASSUME Typed, [Next]_vars
    PROVE  [ApiNext]_api
<1>1. Mutation \subseteq Client /\ Mutation \subseteq Ops
  BY PageAssumption
<1>2. CASE Server
  BY <1>2 DEF Server, ApiNext
<1>3. CASE Submits
  <2>1. PICK c \in Mutation, ids \in SUBSET Hook : Submit(c, ids)
    BY <1>3, SubmitAsks
  <2> QED
    BY <1>1, <2>1 DEF Submit, ApiNext
<1>4. CASE \E c \in Mutation : Settled(c)
  BY <1>1, <1>4 DEF Settled, ApiNext
<1>5. CASE Clicks
  BY <1>5, ClicksTyped
<1>6. CASE ClickNext \/ ClickPrev
  BY <1>6, TurnTyped DEF api
<1>7. CASE ClickRefresh \/ (\E f \in Filter : Search(f))
  BY <1>7 DEF ClickRefresh, Search
<1>8. CASE ReadCursor \/ ReadPage \/ ShowAnswer \/ QueryFails \/ QueryDenied \/ Open \/ Rekey
  BY <1>8 DEF ReadCursor, ReadPage, ShowAnswer, QueryFails, QueryDenied, Open, Rekey
<1>9. CASE UNCHANGED vars
  BY <1>9 DEF vars
<1> QED
  BY <1>2, <1>3, <1>4, <1>5, <1>6, <1>7, <1>8, <1>9, NextKinds

\* A page of the list is read.
LEMMA ReadPageTyped == ASSUME PageInv, ReadPage PROVE Typed'
<1> DEFINE list == Answer(filter, fetch.cursor, fetch.param)
<1>1. fetch.param \in Param /\ fetch.cursor \in Hook \cup {0} /\ fetch \in Fetches
  BY DEF PageInv, Typed, Fetches
<1>2. list \in Lists
  BY <1>1, AnswerIsPage DEF PageInv, IInv
<1>3. Owed(filter, fetch.cursor, list) \in SUBSET Hook
  BY DEF Owed, PageInv, Typed
<1>4. /\ fetch' = [fetch EXCEPT !.at = "answer", !.list = list,
                                !.owed = Owed(filter, fetch.cursor, list)]
      /\ UNCHANGED Browser
  BY DEF ReadPage
<1> HIDE DEF list
<1>5. fetch' \in Fetches
  BY <1>1, <1>2, <1>3, <1>4 DEF Fetches
<1> QED
  BY <1>4, <1>5 DEF PageInv, Typed, Browser

\* What is read is shown.
LEMMA ShowAnswerTyped == ASSUME Typed, ShowAnswer PROVE Typed'
<1>1. /\ fetch.param \in Param /\ fetch.list \in Lists /\ fetch.owed \subseteq Hook
      /\ fetch.list.rows \in Seq(ShownRow)
  BY DEF Typed, Fetches, Lists
<1>2. [has |-> TRUE, param |-> fetch.param, list |-> fetch.list] \in Queries
  BY <1>1 DEF Queries
<1>3. query' \in [Filter -> Queries]
  BY <1>2 DEF Typed, ShowAnswer
<1> QED
  BY <1>1, <1>3, NothingTyped DEF Typed, ShowAnswer

\* Every variable of the page keeps its type.
LEMMA TypedStep == ASSUME PageInv, [Next]_vars PROVE Typed'
<1> USE DEF PageInv
<1>1. CASE Server \/ UNCHANGED vars
  BY <1>1 DEF Server, Typed, vars, page
<1>2. CASE Submits
  <2>1. PICK c \in Mutation, ids \in SUBSET Hook : Submit(c, ids)
    BY <1>2, SubmitAsks
  <2>2. asked' \in 0 .. MaxAsks
    BY <2>1, PageAssumption DEF Submit, Typed
  <2> QED
    BY <2>1, <2>2 DEF Submit, Typed
<1>3. ASSUME NEW c \in Mutation, Settled(c) PROVE Typed'
  <2>1. CASE screen = "left"
    BY <1>3, <2>1 DEF Settled, Typed, page
  <2>2. CASE screen # "left" /\ call[c].at = "denied"
    BY <1>3, <2>2, LeaveTyped DEF Settled
  <2>3. CASE screen # "left" /\ call[c].at # "denied"
    <3>1. After(c) /\ UNCHANGED <<screen, filter, query, table, checked, owed, asked>>
      BY <1>3, <2>3 DEF Settled
    <3>2. fetch' \in Fetches /\ joined' \in BOOLEAN
      BY <3>1, RefetchTyped DEF After
    <3>3. modal' \in Hook \cup {NoModal, CreateModal}
      BY <3>1 DEF After, Typed
    <3> QED
      BY <3>1, <3>2, <3>3 DEF Typed
  <2> QED
    BY <2>1, <2>2, <2>3
<1>4. CASE ClickNext \/ ClickPrev
  BY <1>4, TurnTyped, RequestTyped DEF Typed
<1>5. CASE ClickRefresh
  <2>1. fetch' \in Fetches /\ joined' \in BOOLEAN
    BY <1>5, RefetchTyped DEF ClickRefresh
  <2> QED
    BY <1>5, <2>1 DEF ClickRefresh, Typed
<1>6. ASSUME NEW f \in Filter, Search(f) PROVE Typed'
  <2>1. query[f].param \in Param /\ query[f].list.rows \in Seq(ShownRow)
    BY DEF Typed, Queries, Lists
  <2> QED
    BY <1>6, <2>1, RequestTyped DEF Search, Typed
<1>7. CASE ReadCursor
  BY <1>7 DEF ReadCursor, Typed, Browser, Fetches, Param
<1>8. CASE ReadPage
  BY <1>8, ReadPageTyped
<1>9. CASE ShowAnswer
  BY <1>9, ShowAnswerTyped
<1>10. CASE QueryFails
  <2>1. CASE Leave
    BY <2>1, LeaveTyped
  <2>2. CASE fetch' = Request(fetch.param) /\ UNCHANGED Browser
    BY <2>2, RequestTyped DEF Typed, Browser, Fetches
  <2> QED
    BY <1>10, <2>1, <2>2 DEF QueryFails
<1>11. CASE QueryDenied
  BY <1>11, LeaveTyped DEF QueryDenied
<1>12. CASE Open
  BY <1>12, NewPageTyped DEF Open
<1>13. CASE Rekey
  BY <1>13, NothingTyped, RequestTyped DEF Rekey, Typed
<1>14. CASE Clicks
  BY <1>14, ClicksTyped
<1> QED
  BY <1>1, <1>2, <1>3, <1>4, <1>5, <1>6, <1>7, <1>8, <1>9, <1>10, <1>11, <1>12, <1>13,
     <1>14, NextKinds

\* The API's invariant and the types are kept.
LEMMA PageInductive ==
    /\ Init => PageInv
    /\ PageInv /\ [Next]_vars => PageInv'
<1>1. Init => PageInv
  <2> SUFFICES ASSUME Init PROVE PageInv
    OBVIOUS
  <2>1. IInv
    BY InitEstablishes DEF Init
  <2>2. /\ "any" \in Filter /\ 0 \in 0 .. MaxAsks /\ <<>> \in Seq(ShownRow)
    BY EmptySeq, PageAssumption
  <2>3. Typed
    BY <2>2, NothingTyped, RequestTyped DEF Init, Typed
  <2> QED
    BY <2>1, <2>3 DEF PageInv
<1>2. ASSUME PageInv, [Next]_vars PROVE PageInv'
  <2>1. IInv'
    BY <1>2, ApiMoves, StepKeeps DEF PageInv
  <2> QED
    BY <1>2, <2>1, TypedStep DEF PageInv
<1> QED
  BY <1>1, <1>2

\* Every variable of the page has its type, for any number of webhooks, page
\* size and mutations; every page has at most Limit rows.
THEOREM PageTypes == Spec => []TypeOK
<1>1. PageInv => TypeOK
  BY DEF PageInv, IInv, Typed, TypeOK, Queries, Fetches, Lists, List
<1> QED
  BY PageInductive, <1>1, PTL DEF Spec

-----------------------------------------------------------------------------
(* The table is what the database has. *)

\* What the server does for a client is a part of its mutation, and does not
\* end it; nothing else changes a webhook.
LEMMA ServePends ==
    ASSUME IInv, NEW c \in Client, Serve(c)
    PROVE  Pending(c) /\ Pending(c)'
<1>1. call \in [Client -> Call] /\ CallInv(c)
  BY DEF IInv, ApiTypeOK
<1>2. Pending(c)
  BY <1>1 DEF Serve, Pending, CallInv, Deny, Create, Update, RemoveRows, Select, Settle,
              BreakOff, RunScript, RunUpdate, ScriptFails, UpdateFails, Sent
<1>3. CASE Deny(c) \/ Create(c) \/ Update(c) \/ RemoveRows(c) \/ Settle(c)
  <2>1. call'[c].at \in {"denied", "ok", "error"}
    BY <1>1, <1>3 DEF Deny, Create, Update, RemoveRows, Settle, Answered, Call
  <2> QED
    BY <1>2, <2>1 DEF Pending
<1>4. CASE Select(c) \/ BreakOff(c)
  <2>1. call'[c].at \in {"none", "work", "error"}
    <3>1. ASSUME NEW got, NEW script,
                 call' = [call EXCEPT ![c].at = "work", ![c].got = got, ![c].script = script]
          PROVE  call'[c].at = "work"
      BY <1>1, <3>1 DEF Call
    <3>2. CASE Answered(c, "none")
      BY <1>1, <3>2 DEF Answered, Call
    <3>3. CASE BreakOff(c)
      BY <1>1, <3>3 DEF BreakOff, Call
    <3> QED
      BY <1>4, <3>1, <3>2, <3>3 DEF Select
  <2> QED
    BY <1>2, <2>1 DEF Pending
<1>5. ASSUME NEW s \in Shard,
             RunScript(c, s) \/ RunUpdate(c, s) \/ ScriptFails(c, s) \/ UpdateFails(c, s)
      PROVE  call'[c].at = call[c].at
  BY <1>1, <1>5 DEF RunScript, RunUpdate, ScriptFails, UpdateFails, Call
<1> QED
  BY <1>2, <1>3, <1>4, <1>5 DEF Serve, Pending

\* So the server does nothing while no mutation is under way.
LEMMA CalmServer ==
    ASSUME IInv, ApiStep
    PROVE  Calm' => Calm /\ UNCHANGED <<row, url>>
<1>1. ASSUME NEW c \in Client, Serve(c) PROVE ~Calm'
  BY <1>1, ServePends DEF Calm, Pending
<1>2. ASSUME NEW h \in Hook, Drop(h) PROVE UNCHANGED <<row, url, call>>
  BY <1>2 DEF Drop, mysql
<1> QED
  BY <1>1, <1>2 DEF ApiStep, Calm, Pending

\* Without a change of a webhook the list stays what it is.
LEMMA FoundKept ==
    ASSUME UNCHANGED <<row, url>>, NEW f, NEW cursor, NEW reverse
    PROVE  Found(f, cursor, reverse)' = Found(f, cursor, reverse)
<1>1. row' = row /\ url' = url
  OBVIOUS
<1>2. Hits(f, cursor, reverse)' = Hits(f, cursor, reverse)
  BY <1>1 DEF Hits, Matches, Present
<1> QED
  BY <1>2 DEF Found

\* So does an answer.
LEMMA AnswerKept ==
    ASSUME UNCHANGED <<row, url>>, NEW f, NEW cursor, NEW p
    PROVE  Answer(f, cursor, p)' = Answer(f, cursor, p)
<1> DEFINE back == cursor # 0 /\ p.reverse
<1>1. Found(f, cursor, back)' = Found(f, cursor, back)
  BY FoundKept
<1> QED
  BY <1>1 DEF Answer, AsRow

\* So does the page of it that is there.
LEMMA PageKept ==
    ASSUME UNCHANGED <<row, url, filter>>, NEW p
    PROVE  CursorNow(p)' = CursorNow(p) /\ AnswerNow(p)' = AnswerNow(p)
<1>1. PICK c : CursorNow(p)' = c /\ c = CursorNow(p)
  BY DEF CursorNow, Present
<1>2. Answer(filter, c, p)' = Answer(filter, c, p)
  BY AnswerKept
<1> QED
  BY <1>1, <1>2 DEF AnswerNow

\* What was read, is being read or is shown stays what would be read now.
LEMMA ViewKept ==
    ASSUME View, (Calm' => Calm), UNCHANGED <<row, url>>,
           UNCHANGED <<filter, query, fetch, table, joined>>,
           UNCHANGED screen
    PROVE  View'
<1>1. UNCHANGED <<row, url, filter>>
  OBVIOUS
<1>2. PICK p, q : p = fetch.param /\ q = query[filter].param
  OBVIOUS
<1>3. /\ CursorNow(p)' = CursorNow(p) /\ AnswerNow(p)' = AnswerNow(p)
      /\ AnswerNow(q)' = AnswerNow(q)
  BY <1>1, PageKept
<1>4. /\ fetch'.param = p /\ query'[filter'].param = q
  BY <1>2
<1> SUFFICES ASSUME Calm', ~joined'
             PROVE  /\ fetch'.at = "page" => fetch'.cursor = CursorNow(p)'
                    /\ fetch'.at = "answer" => fetch'.list = AnswerNow(p)'
                    /\ fetch'.at = "none" /\ screen' = "table" =>
                          /\ table' = AnswerNow(q)'.rows
                          /\ query'[filter'].list.next = AnswerNow(q)'.next
                          /\ query'[filter'].list.prev = AnswerNow(q)'.prev
  BY <1>4 DEF View, Current, Fetching
<1> QED
  BY <1>2, <1>3 DEF View, Current

\* A new request has read nothing.
LEMMA RequestView ==
    ASSUME NEW p \in Param, fetch' = Request(p), screen' # "left"
    PROVE  View'
<1>1. fetch'.param = p /\ fetch'.cursor = 0 /\ fetch'.at = (IF p.id = 0 THEN "page" ELSE "cursor")
  BY RequestTyped
<1>2. p.id = 0 => CursorNow(p)' = 0
  BY DEF CursorNow
<1>3. fetch'.at = "page" => fetch'.cursor = CursorNow(fetch.param)'
  BY <1>1, <1>2 DEF CursorNow
<1> QED
  BY <1>1, <1>3 DEF View

\* A page that is left, or loaded.
LEMMA LeaveView == ASSUME Leave PROVE View'
BY NothingTyped DEF Leave, View, Fetching

\* A page that is loaded has read nothing.
LEMMA NewPageView == ASSUME NewPage PROVE View'
<1>1. First \in Param /\ fetch' = Request(First) /\ screen' # "left"
  BY NothingTyped DEF NewPage
<1> QED
  BY <1>1, RequestView

\* After a mutation the list is asked for again.
LEMMA RefetchView ==
    ASSUME Typed, View, Refetch, screen # "left", UNCHANGED screen
    PROVE  View'
<1>1. CASE joined' = TRUE
  BY <1>1 DEF View
<1>2. CASE fetch' = Request(query[filter].param)
  BY <1>2, RefetchTyped, RequestView
<1> QED
  BY <1>1, <1>2, RefetchTyped

\* A mutation settles.
LEMMA SettledView ==
    ASSUME Typed, View, NEW c \in Mutation, Settled(c)
    PROVE  View'
<1>1. CASE screen = "left"
  BY <1>1 DEF Settled, page, View, Fetching
<1>2. CASE screen # "left" /\ call[c].at = "denied"
  BY <1>2, LeaveView DEF Settled
<1>3. CASE screen # "left" /\ call[c].at # "denied"
  BY <1>3, RefetchView DEF Settled, After
<1> QED
  BY <1>1, <1>2, <1>3

\* The steps of the query.
LEMMA ReadCursorView == ASSUME Typed, View, ReadCursor PROVE View'
<1>1. PICK p : p = fetch.param
  OBVIOUS
<1>2. /\ UNCHANGED <<row, url, call, screen, joined, filter>>
      /\ fetch \in Fetches /\ Fetching
      /\ fetch' = [fetch EXCEPT !.at = "page", !.cursor = IF Present(p.id) THEN p.id ELSE 0]
  BY <1>1 DEF ReadCursor, Typed, Browser, api, mysql, Fetching
<1>3. /\ fetch'.param = p /\ fetch'.at = "page"
      /\ fetch'.cursor = IF Present(p.id) THEN p.id ELSE 0
  BY <1>1, <1>2 DEF Fetches
<1>4. CursorNow(p)' = CursorNow(p)
  BY <1>2, PageKept
<1>5. fetch'.cursor = CursorNow(p)'
  BY <1>3, <1>4 DEF CursorNow
<1>6. fetch'.cursor = CursorNow(fetch.param)'
  BY <1>3, <1>5 DEF CursorNow
<1>7. screen' # "left"
  BY <1>2 DEF View
<1> QED
  BY <1>3, <1>6, <1>7 DEF View

\* The page behind the cursor is read.
LEMMA ReadPageView == ASSUME Typed, View, ReadPage PROVE View'
<1>1. PICK p, list : p = fetch.param /\ list = Answer(filter, fetch.cursor, fetch.param)
  OBVIOUS
<1>2. /\ UNCHANGED <<row, url, call, screen, joined, filter>>
      /\ fetch \in Fetches /\ Fetching /\ fetch.at = "page"
      /\ fetch' = [fetch EXCEPT !.at = "answer", !.list = list,
                                !.owed = Owed(filter, fetch.cursor, list)]
  BY <1>1 DEF ReadPage, Typed, Browser, api, mysql, Fetching
<1>3. fetch'.param = p /\ fetch'.at = "answer" /\ fetch'.list = list
  BY <1>1, <1>2 DEF Fetches
<1>4. AnswerNow(p)' = AnswerNow(p)
  BY <1>2, PageKept
<1>5. ASSUME Calm', ~joined' PROVE list = AnswerNow(p)
  <2>1. Calm /\ ~joined
    BY <1>2, <1>5 DEF Calm, Pending
  <2> QED
    BY <1>1, <1>2, <2>1 DEF View, AnswerNow
<1>6. Calm' /\ ~joined' => fetch'.list = AnswerNow(fetch.param)'
  <2>1. AnswerNow(fetch.param)' = AnswerNow(p)'
    BY <1>3 DEF AnswerNow, CursorNow
  <2> QED
    BY <1>3, <1>4, <1>5, <2>1
<1>7. screen' # "left"
  BY <1>2 DEF View
<1> QED
  BY <1>3, <1>6, <1>7 DEF View

\* What was read is shown.
LEMMA ShowAnswerView == ASSUME Typed, View, ShowAnswer PROVE View'
<1>1. PICK p, list : p = fetch.param /\ list = fetch.list
  OBVIOUS
<1>2. /\ UNCHANGED <<row, url, call, joined, filter>>
      /\ fetch.at = "answer" /\ fetch' = NoFetch /\ table' = list.rows
      /\ query' = [query EXCEPT ![filter] = [has |-> TRUE, param |-> p, list |-> list]]
      /\ screen' = "table"
  BY <1>1 DEF ShowAnswer, api, mysql
<1>3. query'[filter'].param = p /\ query'[filter'].list = list
  BY <1>2 DEF Typed
<1>4. AnswerNow(p)' = AnswerNow(p)
  BY <1>2, PageKept
<1>5. ASSUME Calm', ~joined' PROVE Current'
  <2>1. Calm /\ ~joined
    BY <1>2, <1>5 DEF Calm, Pending
  <2>2. list = AnswerNow(p)'
    BY <1>1, <1>2, <1>4, <2>1 DEF View
  <2>3. AnswerNow(query[filter].param)' = AnswerNow(p)'
    BY <1>3 DEF AnswerNow, CursorNow
  <2> QED
    BY <1>2, <1>3, <2>2, <2>3 DEF Current
<1> QED
  BY <1>2, <1>5, NothingTyped DEF View

\* Every step keeps what is shown current, by the action it is.
LEMMA ViewStep == ASSUME PageInv, View, [Next]_vars PROVE View'
<1>0. Typed /\ IInv
  BY DEF PageInv
<1>1. CASE Server
  <2>1. UNCHANGED page /\ (Calm' => Calm /\ UNCHANGED <<row, url>>)
    BY <1>0, <1>1, CalmServer DEF Server
  <2>2. CASE Calm'
    BY <2>1, <2>2, ViewKept DEF page
  <2>3. CASE ~Calm'
    BY <2>1, <2>3 DEF View, page, Fetching
  <2> QED
    BY <2>2, <2>3
<1>2. CASE Submits
  <2>1. PICK c \in Mutation, ids \in SUBSET Hook : Submit(c, ids)
    BY <1>0, <1>2, SubmitAsks
  <2>2. c \in Client /\ call' = [call EXCEPT ![c] = [Idle EXCEPT !.op = c, !.at = "sent", !.ids = ids]]
    BY <2>1, PageAssumption DEF Submit, Ask
  <2>3. call'[c].at = "sent"
    BY <1>0, <2>2 DEF IInv, ApiTypeOK, Idle
  <2>4. ~Calm'
    BY <2>2, <2>3 DEF Calm, Pending
  <2> QED
    BY <2>1, <2>4 DEF Submit, View, Fetching
<1>3. CASE \E c \in Mutation : Settled(c)
  BY <1>0, <1>3, SettledView
<1>4. CASE Clicks
  BY <1>0, <1>4, ClicksTyped, ViewKept DEF Calm, Pending, api, mysql
<1>5. CASE ClickNext \/ ClickPrev
  <2>1. screen' # "left"
    BY <1>0, <1>5, TurnTyped DEF Clickable
  <2> QED
    BY <1>0, <1>5, <2>1, TurnTyped, RequestView
<1>6. CASE ClickRefresh
  BY <1>0, <1>6, RefetchView DEF ClickRefresh, Clickable
<1>7. ASSUME NEW f \in Filter, Search(f) PROVE View'
  <2>1. query[f].param \in Param /\ screen' # "left"
    BY <1>0, <1>7 DEF Typed, Queries, Search, Clickable
  <2> QED
    BY <1>7, <2>1, RequestView DEF Search
<1>8. CASE ReadCursor \/ ReadPage \/ ShowAnswer
  BY <1>0, <1>8, ReadCursorView, ReadPageView, ShowAnswerView
<1>9. CASE QueryFails \/ QueryDenied
  <2>1. CASE Leave
    BY <2>1, LeaveView
  <2>2. CASE Fetching /\ fetch' = Request(fetch.param) /\ UNCHANGED Browser
    <3>1. fetch.param \in Param /\ screen' # "left"
      BY <1>0, <2>2 DEF Typed, Fetches, View, Browser
    <3> QED
      BY <2>2, <3>1, RequestView
  <2> QED
    BY <1>9, <2>1, <2>2 DEF QueryFails, QueryDenied
<1>10. CASE Open
  BY <1>10, NewPageView DEF Open
<1>11. CASE Rekey
  BY <1>11, NothingTyped, RequestView DEF Rekey
<1>12. CASE UNCHANGED vars
  BY <1>12, ViewKept DEF vars, page, api, mysql, Calm, Pending
<1> QED
  BY <1>1, <1>2, <1>3, <1>4, <1>5, <1>6, <1>7, <1>8, <1>9, <1>10, <1>11, <1>12, NextKinds

\* When no request and no mutation is under way, the table, its status column
\* and its two buttons are those of the list as the database has it, for any
\* webhooks, page size and mutations, answers that fail, are repeated or are
\* cancelled, and whatever is searched and turned meanwhile; unless a refetch
\* joined the first request for a search.
THEOREM TableIsCurrent == Spec => []ViewIsCurrent
<1>1. Init => PageInv /\ View
  <2> SUFFICES ASSUME Init PROVE View
    BY PageInductive
  <2>1. fetch = Request(First) /\ First \in Param /\ First.id = 0
    BY NothingTyped DEF Init
  <2>2. fetch.at = "page" /\ fetch.cursor = 0 /\ fetch.param.id = 0
    BY <2>1, RequestTyped
  <2> QED
    BY <2>2 DEF View, CursorNow, Init
<1>2. PageInv /\ View /\ [Next]_vars => (PageInv /\ View)'
  BY PageInductive, ViewStep
<1>3. View => ViewIsCurrent
  BY DEF View, ViewIsCurrent, Quiet, Calm, Fetching, Current, AnswerNow, CursorNow
<1> QED
  BY <1>1, <1>2, <1>3, PTL DEF Spec

-----------------------------------------------------------------------------
(* The walk through the pages. *)

\* A webhook that is removed does not come back, and one that a search finds
\* stays one.
GoesOn ==
    \A h \in Known : /\ h \in Known' /\ (Present(h)' => Present(h))
                     /\ url'[h] = url[h] \/ url'[h] = "b"

\* A statement that marks rows as active.
LEMMA SetActiveGoesOn ==
    ASSUME IInv, NEW H, SetActive(H) \/ UNCHANGED row, UNCHANGED url
    PROVE  GoesOn
BY DEF IInv, ApiTypeOK, SetActive, GoesOn, Known, Present

\* The mutations.
LEMMA ServeGoesOn == ASSUME IInv, NEW c \in Client, Serve(c) PROVE GoesOn
<1>1. CASE UNCHANGED <<row, url>>
  BY <1>1 DEF GoesOn, Known, Present
<1>2. CASE Deny(c) \/ Select(c) \/ Settle(c) \/ BreakOff(c)
  BY <1>1, <1>2 DEF Deny, Select, Settle, BreakOff, mysql
<1>3. CASE Create(c)
  BY <1>3 DEF Create, IInv, ApiTypeOK, GoesOn, Known, Present
<1>4. CASE Update(c)
  BY <1>4 DEF Update, IInv, ApiTypeOK, GoesOn, Known, Present
<1>5. CASE RemoveRows(c)
  BY <1>5 DEF RemoveRows, IInv, ApiTypeOK, GoesOn, Known, Present
<1>6. ASSUME NEW s \in Shard, RunScript(c, s) \/ ScriptFails(c, s) PROVE GoesOn
  BY <1>1, <1>6 DEF RunScript, ScriptFails, mysql
<1>7. ASSUME NEW s \in Shard, RunUpdate(c, s) \/ UpdateFails(c, s) PROVE GoesOn
  BY <1>7, SetActiveGoesOn DEF RunUpdate, UpdateFails
<1> QED
  BY <1>2, <1>3, <1>4, <1>5, <1>6, <1>7 DEF Serve

\* Whatever the API does.
LEMMA ApiGoesOn == ASSUME IInv, [ApiNext]_api PROVE GoesOn
<1>1. CASE UNCHANGED <<row, url>>
  BY <1>1 DEF GoesOn, Known, Present
<1>2. ASSUME NEW h \in Hook, Drop(h) PROVE GoesOn
  BY <1>1, <1>2 DEF Drop, mysql
<1>3. ASSUME NEW c \in Client, Receive(c) PROVE GoesOn
  BY <1>1, <1>3 DEF Receive, mysql
<1>4. ASSUME NEW c \in Client, NEW op \in Ops, NEW ids \in SUBSET Hook, Ask(c, op, ids)
      PROVE  GoesOn
  BY <1>1, <1>4 DEF Ask, mysql
<1> QED
  BY <1>1, <1>2, <1>3, <1>4, ServeGoesOn DEF ApiNext, ApiStep, api, mysql

\* So what is owed stays in the list or is removed, and stays behind what was
\* read and behind the cursors.
LEMMA OwedKept ==
    ASSUME GoesOn, UNCHANGED filter, filter \in Filter, NEW O, Listed(O)
    PROVE  Listed(O)'
<1>1. filter = "any" \/ filter = "b"
  BY PageAssumption
<1> QED
  BY <1>1 DEF GoesOn, Listed, Matches

\* Cursors and rows stay webhooks that were there once.
LEMMA NamedKept == ASSUME GoesOn, NEW q, Named(q) PROVE Named(q)'
BY DEF GoesOn, Named

\* What is owed stays behind a place in the list ...
LEMMA AheadKept == ASSUME GoesOn, NEW O, Listed(O), NEW x, Ahead(O, x) PROVE Ahead(O, x)'
BY DEF GoesOn, Listed, Ahead

\* ... behind a cursor ...
LEMMA BehindKept ==
    ASSUME GoesOn, NEW O, Listed(O), NEW p, p.id \in Known \cup {0}, Behind(O, p)
    PROVE  Behind(O, p)'
<1> SUFFICES ASSUME p.id \in Hook, Present(p.id)' PROVE Ahead(O, p.id)'
  BY DEF Behind
<1>1. p.id \in Known
  BY NothingTyped
<1>2. Present(p.id)
  BY <1>1 DEF GoesOn
<1> QED
  BY <1>2, AheadKept DEF Behind

\* ... and behind a page.
LEMMA ShownKept ==
    ASSUME GoesOn, NEW O, Listed(O), NEW q, Named(q), Shown(q, O)
    PROVE  Shown(q, O)'
<1>1. Behind(O, q.param)'
  BY BehindKept DEF Shown, Named
<1>2. \A h \in O : Present(h)' => Present(h)
  BY DEF GoesOn, Listed
<1> QED
  BY <1>1, <1>2 DEF Shown

\* Steps that leave the queries and what is owed alone.
LEMMA QueryWalkKept ==
    ASSUME Typed, QueryWalk, GoesOn, UNCHANGED <<filter, query, owed>>
    PROVE  QueryWalk'
<1>1. PICK O, q : O = owed /\ q = query
  OBVIOUS
<1>2. /\ Listed(O) /\ \A f \in Filter : Named(q[f]) /\ (~q[f].has => q[f].param.id = 0)
      /\ q[filter].has => Shown(q[filter], O)
      /\ filter \in Filter
  BY <1>1 DEF QueryWalk, Typed
<1>3. Listed(O)' /\ \A f \in Filter : Named(q[f])'
  BY <1>2, OwedKept, NamedKept
<1>4. PICK f : f = filter
  OBVIOUS
<1>5. q[f].has => Shown(q[f], O)'
  BY <1>2, <1>4, ShownKept
<1>6. owed' = O /\ query' = q /\ filter' = f
  BY <1>1, <1>4
<1>7. Listed(owed)'
  BY <1>3, <1>6 DEF Listed
<1>8. \A g \in Filter : Named(query[g])'
  BY <1>3, <1>6 DEF Named
<1>9. query'[filter'].has => Shown(query[filter], owed)'
  BY <1>5, <1>6 DEF Shown, Behind, Ahead
<1> QED
  BY <1>2, <1>6, <1>7, <1>8, <1>9 DEF QueryWalk

\* Steps that leave the request and what is owed alone.
LEMMA FetchWalkKept ==
    ASSUME Typed, Listed(owed), FetchWalk, GoesOn, UNCHANGED <<filter, fetch, owed>>
    PROVE  FetchWalk'
<1>1. PICK O, q : O = owed /\ q = fetch
  OBVIOUS
<1>2. filter \in Filter /\ Listed(O) /\ Named(q) /\ Listed(q.owed)
  BY <1>1 DEF FetchWalk, Typed
<1>3. Named(q)' /\ Listed(q.owed)'
  BY <1>2, OwedKept, NamedKept
<1>4. q.param.id \in Known \cup {0} /\ q.at \in {"none", "cursor", "page", "answer"}
  BY <1>1, <1>2 DEF Named, Typed, Fetches
<1>5. q.at # "none" => Behind(O, q.param)'
  BY <1>1, <1>2, <1>4, BehindKept DEF FetchWalk, Fetching
<1>6. q.at = "page" =>
        IF q.cursor = 0 THEN q.param.id = 0 \/ ~Present(q.param.id)'
        ELSE q.cursor = q.param.id /\ Ahead(O, q.cursor)'
  <2>1. ~Present(q.param.id) /\ q.param.id # 0 => ~Present(q.param.id)'
    BY <1>4 DEF GoesOn
  <2>2. Ahead(O, q.cursor) => Ahead(O, q.cursor)'
    BY <1>2, AheadKept
  <2> QED
    BY <1>1, <2>1, <2>2 DEF FetchWalk
<1>7. q.at = "answer" => Shown(q, q.owed)'
  BY <1>1, <1>2, ShownKept DEF FetchWalk
<1>8. owed' = O /\ fetch' = q
  BY <1>1
<1>9. Named(fetch)' /\ Listed(fetch.owed)' /\ (Fetching' => Behind(owed, fetch.param)')
  BY <1>3, <1>5, <1>8 DEF Named, Listed, Fetching, Behind, Ahead
<1>10. fetch'.at = "page" =>
         IF fetch'.cursor = 0 THEN fetch'.param.id = 0 \/ ~Present(fetch.param.id)'
         ELSE fetch'.cursor = fetch'.param.id /\ Ahead(owed, fetch.cursor)'
  BY <1>6, <1>8 DEF Present, Ahead
<1>11. fetch'.at = "answer" => Shown(fetch, fetch.owed)'
  BY <1>7, <1>8 DEF Shown, Behind, Ahead
<1> QED
  BY <1>9, <1>10, <1>11 DEF FetchWalk

\* A request for a page that is in order, and none.
LEMMA RequestWalk ==
    ASSUME NEW p \in Param, fetch' = Request(p), p.id \in Known' \cup {0}, Behind(owed, p)'
    PROVE  FetchWalk'
<1>1. /\ fetch'.param = p /\ fetch'.owed = {} /\ fetch'.cursor = 0 /\ fetch'.list = NoList
      /\ fetch'.at = (IF p.id = 0 THEN "page" ELSE "cursor")
  BY RequestTyped
<1>2. Named(fetch)'
  BY <1>1, NothingTyped DEF Named
<1>3. Listed(fetch.owed)' /\ Behind(owed, fetch.param)'
  BY <1>1 DEF Listed, Behind, Ahead
<1> QED
  BY <1>1, <1>2, <1>3 DEF FetchWalk

\* No request is in order.
LEMMA NoFetchWalk == ASSUME fetch' = NoFetch PROVE FetchWalk'
BY NothingTyped DEF FetchWalk, Named, Listed, Fetching

\* A page that is left or loaded owes nothing.
LEMMA NewQueryWalk ==
    ASSUME query' = [f \in Filter |-> NoQuery], filter' \in Filter, Listed(owed)'
    PROVE  QueryWalk'
<1>1. \A f \in Filter : query'[f] = NoQuery
  OBVIOUS
<1>2. /\ NoQuery.has = FALSE /\ NoQuery.param.id = 0 /\ DOMAIN NoQuery.list.rows = {}
  BY NothingTyped
<1> QED
  BY <1>1, <1>2 DEF QueryWalk, Named

\* The page is left.
LEMMA LeaveWalk == ASSUME Leave PROVE QueryWalk' /\ FetchWalk'
<1>1. "any" \in Filter /\ Listed(owed)'
  BY PageAssumption DEF Leave, Listed
<1> QED
  BY <1>1, NewQueryWalk, NoFetchWalk DEF Leave

\* The page is loaded.
LEMMA NewPageWalk == ASSUME NewPage PROVE QueryWalk' /\ FetchWalk'
<1>1. "any" \in Filter /\ Listed(owed)'
  BY PageAssumption DEF NewPage, Listed
<1>2. QueryWalk'
  BY <1>1, NewQueryWalk DEF NewPage
<1>3. FetchWalk'
  BY NothingTyped, RequestWalk DEF NewPage, Behind
<1> QED
  BY <1>2, <1>3

\* The page that is shown is asked for again, as at its first time: there is
\* none, or its cursor is before what is owed.
LEMMA QueryParam ==
    ASSUME Typed, QueryWalk
    PROVE  /\ query[filter].param \in Param
           /\ query[filter].param.id \in Known \cup {0}
           /\ Behind(owed, query[filter].param)
<1>1. filter \in Filter /\ query[filter].param \in Param
  BY DEF Typed, Queries
<1>2. CASE query[filter].has
  BY <1>1, <1>2 DEF QueryWalk, Shown, Named
<1>3. CASE ~query[filter].has
  BY <1>1, <1>3, NothingTyped DEF QueryWalk, Behind
<1> QED
  BY <1>1, <1>2, <1>3

\* A request that leaves the queries and what is owed alone.
LEMMA AskAgainWalk ==
    ASSUME Typed, QueryWalk, GoesOn, UNCHANGED <<filter, query, owed>>,
           NEW p \in Param, p.id \in Known \cup {0}, Behind(owed, p), fetch' = Request(p)
    PROVE  QueryWalk' /\ FetchWalk'
<1>1. QueryWalk'
  BY QueryWalkKept
<1>2. p.id \in Known' \cup {0}
  BY DEF GoesOn
<1>3. Behind(owed, p)'
  <2>1. PICK O : O = owed
    OBVIOUS
  <2>2. Behind(O, p)'
    BY <2>1, BehindKept DEF QueryWalk
  <2> QED
    BY <2>1, <2>2 DEF Behind, Ahead
<1> QED
  BY <1>1, <1>2, <1>3, RequestWalk

\* A refetch.
LEMMA RefetchWalk ==
    ASSUME Typed, QueryWalk, FetchWalk, GoesOn, Refetch, UNCHANGED <<filter, query, owed>>
    PROVE  QueryWalk' /\ FetchWalk'
<1>1. CASE fetch' = fetch
  BY <1>1, QueryWalkKept, FetchWalkKept DEF QueryWalk
<1>2. CASE fetch' = Request(query[filter].param)
  BY <1>2, QueryParam, AskAgainWalk
<1> QED
  BY <1>1, <1>2, RefetchTyped

\* The next and the previous page start at a row of the page that is shown,
\* which is before all that is owed.
LEMMA TurnWalk ==
    ASSUME Typed, QueryWalk, GoesOn, ClickNext \/ ClickPrev
    PROVE  QueryWalk' /\ FetchWalk'
<1>1. PICK p \in Param :
        /\ fetch' = Request(p)
        /\ UNCHANGED <<filter, query, owed>>
        /\ query[filter].has
        /\ p.id = 0 \/ \E i \in DOMAIN query[filter].list.rows :
                          p.id = query[filter].list.rows[i].id
  BY TurnTyped
<1>2. filter \in Filter
  BY DEF Typed
<1>3. p.id \in Known \cup {0} /\ Behind(owed, p)
  <2>1. CASE p.id = 0
    BY <2>1, NothingTyped DEF Behind
  <2>2. ASSUME NEW i \in DOMAIN query[filter].list.rows, p.id = query[filter].list.rows[i].id
        PROVE  p.id \in Known /\ Behind(owed, p)
    BY <1>1, <1>2, <2>2 DEF QueryWalk, Named, Shown, Behind, Ahead
  <2> QED
    BY <1>1, <2>1, <2>2
<1> QED
  BY <1>1, <1>3, AskAgainWalk

\* Another search owes nothing yet.
LEMMA SearchWalk ==
    ASSUME Typed, QueryWalk, UNCHANGED <<row, url>>, NEW f \in Filter, Search(f)
    PROVE  QueryWalk' /\ FetchWalk'
<1>1. /\ filter' = f /\ query' = query /\ owed' = {} /\ fetch' = Request(query[f].param)
      /\ Known' = Known
  BY DEF Search, Known
<1>2. query[f].param \in Param /\ Named(query[f])
  BY DEF Typed, Queries, QueryWalk
<1>3. FetchWalk'
  <2>1. query[f].param.id \in Known' \cup {0} /\ Behind({}, query[f].param)'
    BY <1>1, <1>2 DEF Named, Behind, Ahead
  <2>2. PICK p : p = query[f].param
    OBVIOUS
  <2>3. Behind(owed, p)'
    BY <1>1 DEF Behind, Ahead
  <2> QED
    BY <1>1, <1>2, <2>1, <2>2, <2>3, RequestWalk
<1>4. Listed(owed)'
  BY <1>1 DEF Listed
<1>5. \A g \in Filter : Named(query[g])' /\ (~query'[g].has => query'[g].param.id = 0)
  BY <1>1 DEF QueryWalk, Named
<1>6. Shown(query[filter], owed)'
  BY <1>1 DEF Shown, Behind, Ahead
<1> QED
  BY <1>3, <1>4, <1>5, <1>6 DEF QueryWalk

\* The cursor's row is looked up.
LEMMA ReadCursorWalk ==
    ASSUME Typed, QueryWalk, FetchWalk, ReadCursor
    PROVE  QueryWalk' /\ FetchWalk'
<1>1. PICK p : p = fetch.param
  OBVIOUS
<1>2. /\ UNCHANGED <<row, url, filter, query, owed>> /\ fetch \in Fetches
      /\ Fetching /\ fetch.param.id \in Known \cup {0}
      /\ fetch' = [fetch EXCEPT !.at = "page", !.cursor = IF Present(p.id) THEN p.id ELSE 0]
  BY <1>1 DEF ReadCursor, Browser, Typed, api, mysql, Fetching, FetchWalk, Named
<1>3. /\ fetch'.at = "page" /\ fetch'.param = p /\ fetch'.list = fetch.list
      /\ fetch'.owed = fetch.owed
      /\ fetch'.cursor = IF Present(p.id) THEN p.id ELSE 0
  BY <1>1, <1>2 DEF Fetches
<1>4. GoesOn
  BY <1>2 DEF GoesOn, Known, Present
<1>5. QueryWalk'
  BY <1>2, <1>4, QueryWalkKept
<1>6. Known' = Known /\ Behind(owed, p)
  BY <1>1, <1>2 DEF Known, FetchWalk
<1>7. Named(fetch)' /\ Listed(fetch.owed)' /\ Behind(owed, fetch.param)'
  BY <1>1, <1>2, <1>3, <1>6
     DEF FetchWalk, Named, Listed, Behind, Ahead, Present, Matches
<1>8. IF fetch'.cursor = 0 THEN fetch'.param.id = 0 \/ ~Present(fetch.param.id)'
      ELSE fetch'.cursor = fetch'.param.id /\ Ahead(owed, fetch.cursor)'
  <2>1. CASE Present(p.id) /\ p.id # 0
    <3>1. p.id \in Hook /\ fetch'.cursor = p.id
      BY <1>1, <1>2, <1>3, <2>1 DEF Known
    <3>2. Ahead(owed, p.id)
      BY <1>6, <2>1, <3>1 DEF Behind
    <3> QED
      BY <1>2, <1>3, <2>1, <3>1, <3>2 DEF Ahead, Present
  <2>2. CASE ~Present(p.id) \/ p.id = 0
    BY <1>2, <1>3, <2>2 DEF Present
  <2> QED
    BY <2>1, <2>2
<1> QED
  BY <1>3, <1>5, <1>7, <1>8 DEF FetchWalk

\* A page is read: what is owed of the list and is not on it comes after it,
\* and after the cursor, and the answer says that there is a next page.
LEMMA OwedAfterPage ==
    ASSUME PageInv, QueryWalk, FetchWalk, fetch.at = "page"
    PROVE  LET list == Answer(filter, fetch.cursor, fetch.param)
               O    == Owed(filter, fetch.cursor, list)
           IN  /\ Listed(O) /\ Behind(O, fetch.param)
               /\ \A i \in DOMAIN list.rows : list.rows[i].id \in Known
               /\ \A h \in O : Present(h) =>
                     list.next /\ \A i \in DOMAIN list.rows : h < list.rows[i].id
<1> DEFINE c    == fetch.cursor
           p    == fetch.param
           list == Answer(filter, c, p)
           O    == Owed(filter, c, list)
           back == c # 0 /\ p.reverse
           hits == Hits(filter, c, back)
<1>1. /\ c \in Hook \cup {0} /\ p \in Param /\ filter \in Filter /\ ApiTypeOK
      /\ Listed(owed) /\ owed \subseteq Hook /\ back \in BOOLEAN
  BY DEF PageInv, IInv, Typed, Fetches, Param, QueryWalk
<1>2. IF c = 0 THEN p.id = 0 \/ ~Present(p.id) ELSE c = p.id /\ Ahead(owed, c)
  BY DEF FetchWalk
<1> HIDE DEF c, p
<1>3. /\ \A i \in DOMAIN list.rows : list.rows[i].id \in hits
      /\ back => list.next
      /\ ~back => \A h \in hits :
            \/ h \in IdsOf(list.rows)
            \/ list.next /\ \A i \in DOMAIN list.rows : h < list.rows[i].id
  BY <1>1, AnswerIsPage
<1>4. \A h \in Hook : h \in hits <=>
        /\ Matches(h, filter)
        /\ c = 0 \/ IF back THEN h > c ELSE c > h
  BY <1>1, HitsAreNext
<1>5. hits \subseteq Known /\ hits \subseteq Hook
  BY DEF Hits, Matches, Present, Known
<1> HIDE DEF list, hits
<1>6. O = (IF c = 0 THEN { h \in Hook : Matches(h, filter) } ELSE owed) \ IdsOf(list.rows)
  BY DEF Owed
<1> HIDE DEF O
<1>7. Listed(O)
  BY <1>1, <1>6 DEF Listed, Matches, Present, Known
<1>8. Behind(O, p)
  <2>1. CASE c = 0
    BY <1>2, <2>1, NothingTyped DEF Behind
  <2>2. CASE c # 0
    BY <1>2, <1>6, <2>2 DEF Behind, Ahead
  <2> QED
    BY <2>1, <2>2
<1>9. ASSUME NEW h \in O, Present(h)
      PROVE  list.next /\ \A i \in DOMAIN list.rows : h < list.rows[i].id
  <2>1. /\ h \in Hook /\ h \notin IdsOf(list.rows) /\ Matches(h, filter)
        /\ c # 0 => h < c
    BY <1>1, <1>2, <1>6, <1>9 DEF Listed, Ahead
  <2>2. CASE ~back
    <3>1. h \in hits
      <4>1. h \in Nat /\ c \in Nat
        BY <1>1, <2>1, PageAssumption
      <4>2. c = 0 \/ c > h
        BY <2>1, <4>1
      <4> QED
        BY <1>4, <2>1, <2>2, <4>2
    <3> QED
      BY <1>3, <2>1, <2>2, <3>1
  <2>3. CASE back
    <3>1. ASSUME NEW i \in DOMAIN list.rows PROVE h < list.rows[i].id
      <4>1. PICK g \in hits : g = list.rows[i].id
        BY <1>3
      <4>2. g \in Hook /\ g > c /\ h < c
        <5>1. c # 0
          BY <2>3
        <5> QED
          BY <1>4, <1>5, <2>1, <2>3, <5>1
      <4>3. h \in Nat /\ c \in Nat /\ g \in Nat
        BY <1>1, <2>1, <4>2, PageAssumption
      <4> QED
        BY <4>1, <4>2, <4>3
    <3> QED
      BY <1>3, <2>3, <3>1
  <2> QED
    BY <2>2, <2>3
<1>10. \A i \in DOMAIN list.rows : list.rows[i].id \in Known
  BY <1>3, <1>5
<1> QED
  BY <1>7, <1>8, <1>9, <1>10 DEF list, O, c, p

\* The page is read.
LEMMA ReadPageWalk ==
    ASSUME PageInv, QueryWalk, FetchWalk, ReadPage
    PROVE  QueryWalk' /\ FetchWalk'
<1>1. PICK p, list, O :
        /\ p = fetch.param /\ list = Answer(filter, fetch.cursor, fetch.param)
        /\ O = Owed(filter, fetch.cursor, list)
  OBVIOUS
<1>2. /\ UNCHANGED <<row, url, filter, query, owed>> /\ fetch \in Fetches
      /\ Fetching /\ fetch.at = "page" /\ p.id \in Known \cup {0} /\ Typed
      /\ fetch' = [fetch EXCEPT !.at = "answer", !.list = list, !.owed = O]
  BY <1>1 DEF ReadPage, PageInv, Browser, Typed, api, mysql, Fetching, FetchWalk, Named
<1>3. /\ fetch'.at = "answer" /\ fetch'.param = p /\ fetch'.list = list /\ fetch'.owed = O
  BY <1>1, <1>2 DEF Fetches
<1>4. GoesOn /\ Known' = Known
  BY <1>2 DEF GoesOn, Known, Present
<1>5. QueryWalk'
  BY <1>2, <1>4, QueryWalkKept
<1>6. /\ Listed(O) /\ Behind(O, p) /\ \A i \in DOMAIN list.rows : list.rows[i].id \in Known
      /\ \A h \in O : Present(h) =>
            list.next /\ \A i \in DOMAIN list.rows : h < list.rows[i].id
  BY <1>1, <1>2, OwedAfterPage
<1>7. Listed(O)' /\ Behind(O, p)' /\ Behind(owed, p)'
  BY <1>1, <1>2, <1>4, <1>6 DEF Listed, Behind, Ahead, Present, Matches, FetchWalk
<1>8. Named(fetch)' /\ Listed(fetch.owed)' /\ Behind(owed, fetch.param)'
  BY <1>2, <1>3, <1>4, <1>6, <1>7 DEF Named, Listed, Behind, Ahead
<1>9. Shown(fetch, fetch.owed)'
  BY <1>2, <1>3, <1>6, <1>7 DEF Shown, Behind, Ahead, Present
<1> QED
  BY <1>3, <1>5, <1>8, <1>9 DEF FetchWalk

\* The page that was read is shown, and what it leaves is owed from then on.
LEMMA ShowAnswerWalk ==
    ASSUME Typed, QueryWalk, FetchWalk, ShowAnswer
    PROVE  QueryWalk' /\ FetchWalk'
<1>1. PICK q, f : q = fetch /\ f = filter
  OBVIOUS
<1>2. /\ UNCHANGED <<row, url>> /\ filter' = f /\ f \in Filter /\ query \in [Filter -> Queries]
      /\ owed' = q.owed /\ fetch' = NoFetch /\ Known' = Known
      /\ query' = [query EXCEPT ![f] = [has |-> TRUE, param |-> q.param, list |-> q.list]]
      /\ Listed(q.owed) /\ Named(q) /\ Shown(q, q.owed) /\ filter = f
  BY <1>1 DEF ShowAnswer, api, mysql, Typed, Known, FetchWalk
<1>3. \A g \in Filter : query'[g] = IF g = f
                           THEN [has |-> TRUE, param |-> q.param, list |-> q.list]
                           ELSE query[g]
  BY <1>2
<1>4. query'[f].param = q.param /\ query'[f].list = q.list /\ query'[f].has
  BY <1>2, <1>3
<1>5. \A g \in Filter : Named(query[g])' /\ (~query'[g].has => query'[g].param.id = 0)
  <2> SUFFICES ASSUME NEW g \in Filter
               PROVE  Named(query[g])' /\ (~query'[g].has => query'[g].param.id = 0)
    OBVIOUS
  <2>1. CASE g = f
    BY <1>2, <1>4, <2>1 DEF Named
  <2>2. CASE g # f
    <3>1. query'[g] = query[g]
      BY <1>3, <2>2
    <3> QED
      BY <1>2, <3>1 DEF QueryWalk, Named
  <2> QED
    BY <2>1, <2>2
<1>6. Listed(owed)'
  BY <1>2 DEF Listed, Matches, Present
<1>7. Shown(query[filter], owed)'
  BY <1>2, <1>4 DEF Shown, Behind, Ahead, Present
<1> QED
  BY <1>2, <1>5, <1>6, <1>7, NoFetchWalk DEF QueryWalk

\* All queries are new ones: the list is read from its start.
LEMMA RekeyWalk ==
    ASSUME Typed, QueryWalk, Rekey
    PROVE  QueryWalk' /\ FetchWalk'
<1>1. /\ UNCHANGED <<row, url, filter, owed>> /\ fetch' = Request(First) /\ filter \in Filter
      /\ query' = [f \in Filter |-> NoQuery]
  BY DEF Rekey, Typed, api, mysql
<1>2. Listed(owed)'
  BY <1>1 DEF QueryWalk, Listed, Known, Matches, Present
<1>3. FetchWalk'
  BY <1>1, NothingTyped, RequestWalk DEF Behind
<1> QED
  BY <1>1, <1>2, <1>3, NewQueryWalk

\* A mutation settles.
LEMMA SettledWalk ==
    ASSUME Typed, QueryWalk, FetchWalk, GoesOn, NEW c \in Mutation, Settled(c)
    PROVE  QueryWalk' /\ FetchWalk'
<1>1. CASE screen = "left"
  BY <1>1, QueryWalkKept, FetchWalkKept DEF Settled, page, QueryWalk
<1>2. CASE screen # "left" /\ call[c].at = "denied"
  BY <1>2, LeaveWalk DEF Settled
<1>3. CASE screen # "left" /\ call[c].at # "denied"
  BY <1>3, RefetchWalk DEF Settled, After
<1> QED
  BY <1>1, <1>2, <1>3

\* Every step keeps what is owed ahead of the page, by the action it is.
LEMMA WalkStep == ASSUME PageInv, Walk, [Next]_vars PROVE Walk'
<1>0. Typed /\ IInv /\ QueryWalk /\ FetchWalk /\ GoesOn /\ Listed(owed)
  BY ApiMoves, ApiGoesOn DEF PageInv, Walk, QueryWalk
<1> SUFFICES QueryWalk' /\ FetchWalk'
  BY DEF Walk
<1>1. ASSUME UNCHANGED <<filter, query, owed, fetch>> PROVE QueryWalk' /\ FetchWalk'
  BY <1>0, <1>1, QueryWalkKept, FetchWalkKept
<1>2. CASE Server \/ UNCHANGED vars
  BY <1>1, <1>2 DEF Server, vars, page
<1>3. CASE Submits
  <2>1. PICK c \in Mutation, ids \in SUBSET Hook : Submit(c, ids)
    BY <1>0, <1>3, SubmitAsks
  <2> QED
    BY <1>1, <2>1 DEF Submit
<1>4. CASE \E c \in Mutation : Settled(c)
  BY <1>0, <1>4, SettledWalk
<1>5. CASE Clicks
  BY <1>0, <1>1, <1>5, ClicksTyped
<1>6. CASE ClickNext \/ ClickPrev
  BY <1>0, <1>6, TurnWalk
<1>7. CASE ClickRefresh
  BY <1>0, <1>7, RefetchWalk DEF ClickRefresh
<1>8. CASE \E f \in Filter : Search(f)
  <2>1. UNCHANGED <<row, url>>
    BY <1>8 DEF Search, api, mysql
  <2> QED
    BY <1>0, <1>8, <2>1, SearchWalk
<1>9. CASE ReadCursor \/ ReadPage \/ ShowAnswer
  BY <1>0, <1>9, ReadCursorWalk, ReadPageWalk, ShowAnswerWalk
<1>10. CASE QueryFails \/ QueryDenied
  <2>1. CASE Leave
    BY <2>1, LeaveWalk
  <2>2. CASE Fetching /\ fetch' = Request(fetch.param) /\ UNCHANGED Browser
    <3>1. /\ fetch.param \in Param /\ fetch.param.id \in Known \cup {0}
          /\ Behind(owed, fetch.param) /\ UNCHANGED <<filter, query, owed>>
      BY <1>0, <2>2 DEF Typed, Fetches, FetchWalk, Named, Browser
    <3> QED
      BY <1>0, <2>2, <3>1, AskAgainWalk
  <2> QED
    BY <1>10, <2>1, <2>2 DEF QueryFails, QueryDenied
<1>11. CASE Open
  BY <1>11, NewPageWalk DEF Open
<1>12. CASE Rekey
  BY <1>0, <1>12, RekeyWalk
<1> QED
  BY <1>2, <1>3, <1>4, <1>5, <1>6, <1>7, <1>8, <1>9, <1>10, <1>11, <1>12, NextKinds

\* Whoever pages to the end of the list has been shown every webhook that was
\* in it all along, for any number of webhooks, page size and searches, and
\* whatever is created, edited, removed, refetched and turned back on the way.
THEOREM WalkIsComplete == Spec => []WalkComplete
<1>1. Init => PageInv /\ Walk
  <2> SUFFICES ASSUME Init PROVE Walk
    BY PageInductive
  <2>1. /\ fetch = Request(First) /\ First \in Param /\ First.id = 0 /\ owed = {}
        /\ \A f \in Filter : query[f] = NoQuery
        /\ filter \in Filter
    BY NothingTyped, PageAssumption DEF Init
  <2>2. /\ fetch.at = "page" /\ fetch.cursor = 0 /\ fetch.param.id = 0 /\ fetch.owed = {}
        /\ fetch.list = NoList
    BY <2>1, RequestTyped
  <2>3. NoQuery.has = FALSE /\ NoQuery.param.id = 0 /\ DOMAIN NoQuery.list.rows = {}
    BY NothingTyped
  <2>4. QueryWalk
    BY <2>1, <2>3 DEF QueryWalk, Named, Listed
  <2>5. FetchWalk
    BY <2>1, <2>2, NothingTyped DEF FetchWalk, Named, Listed, Behind, Ahead
  <2> QED
    BY <2>4, <2>5 DEF Walk
<1>2. PageInv /\ Walk /\ [Next]_vars => (PageInv /\ Walk)'
  BY PageInductive, WalkStep
<1>3. Walk => WalkComplete
  BY DEF Walk, QueryWalk, Shown, WalkComplete
<1> QED
  BY <1>1, <1>2, <1>3, PTL DEF Spec
=============================================================================
