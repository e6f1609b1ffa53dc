--------------------------- MODULE ListCacheProofs ---------------------------
(***************************************************************************)
(* Theorems about ListCache, for any number of concurrent calls, handlers  *)
(* and queries.                                                            *)
(***************************************************************************)
EXTENDS ListCache, TLAPS

\* The keys and templates of requests, and what their types are.
LEMMA KeyFacts ==
  /\ \A a \in Asks : /\ a.list \in Lists
                     /\ Template(a.list) \in Templates
                     /\ Key(a) \in Keys
                     /\ Key(a).template = Template(a.list)
                     /\ a # Nothing
  /\ \A k \in Keys : k.template \in Templates
  /\ \A l \in Lists, n \in Nat : /\ [list |-> l, seen |-> n] \in Values
                                 /\ [list |-> l, seen |-> n] # Nothing
  /\ \A v \in Values : v # Nothing /\ v.list \in Lists /\ v.seen \in Nat
  /\ Invoices \in Templates
  /\ {"invoices", "orders"} \subseteq Lists
  BY CacheAssumption DEF Asks, Lists, Templates, Keys, Key, Invoices, Values

\* Every step keeps the variables in their types.
LEMMA TypeStep ==
  ASSUME TypeOK, ValuesFit, [Next]_vars
  PROVE  TypeOK'
<1> USE KeyFacts DEF TypeOK, ValuesFit
<1>1. ASSUME NEW r \in Readers, NEW a \in Asks, Call(r, a) PROVE TypeOK'
  BY <1>1 DEF Call, reader, handler
<1>2. ASSUME NEW r \in Readers, Get(r) PROVE TypeOK'
  BY <1>2 DEF Get, reader, handler
<1>3. ASSUME NEW r \in Readers, Query(r) PROVE TypeOK'
  BY <1>3 DEF Query, reader, handler
<1>4. ASSUME NEW r \in Readers, Store(r) PROVE TypeOK'
  BY <1>4 DEF Store, reader, handler
<1>5. ASSUME NEW r \in Readers, Track(r) PROVE TypeOK'
  BY <1>5 DEF Track, reader, handler
<1>6. ASSUME NEW r \in Readers, AbandonRead(r) PROVE TypeOK'
  BY <1>6 DEF AbandonRead, reader, handler
<1>7. ASSUME NEW h \in Handlers, Start(h) PROVE TypeOK'
  BY <1>7 DEF Start, reader, handler
<1>8. ASSUME NEW h \in Handlers, SMembers(h) PROVE TypeOK'
  BY <1>8 DEF SMembers, reader, handler
<1>9. ASSUME NEW h \in Handlers, Unlink(h) PROVE TypeOK'
  BY <1>9 DEF Unlink, reader, handler
<1>10. ASSUME NEW h \in Handlers, SaveInvoice(h) PROVE TypeOK'
  BY <1>10 DEF SaveInvoice, reader, handler
<1>11. ASSUME NEW h \in Handlers, AbandonInvoice(h) PROVE TypeOK'
  BY <1>11 DEF AbandonInvoice, reader, handler
<1>12. ASSUME NEW k \in Keys, Expire(k) PROVE TypeOK'
  BY <1>12 DEF Expire, reader, handler
<1>13. ASSUME SaveOrder PROVE TypeOK'
  BY <1>13 DEF SaveOrder, reader, handler
<1>14. CASE UNCHANGED vars
  BY <1>14 DEF vars
<1> QED
  BY <1>1, <1>2, <1>3, <1>4, <1>5, <1>6, <1>7, <1>8, <1>9, <1>10, <1>11,
     <1>12, <1>13, <1>14 DEF Next, Read, Generate

\* A reader that stores a list is the one that records its key next.
LEMMA TrackedStep ==
  ASSUME TypeOK, ValuesFit, CachedIsTracked, [Next]_vars
  PROVE  CachedIsTracked'
<1> USE KeyFacts DEF TypeOK, ValuesFit, CachedIsTracked
<1>1. ASSUME NEW r \in Readers, NEW a \in Asks, Call(r, a) PROVE CachedIsTracked'
  BY <1>1 DEF Call, reader, handler
<1>2. ASSUME NEW r \in Readers, Get(r) PROVE CachedIsTracked'
  BY <1>2 DEF Get, reader, handler
<1>3. ASSUME NEW r \in Readers, Query(r) PROVE CachedIsTracked'
  BY <1>3 DEF Query, reader, handler
<1>4. ASSUME NEW r \in Readers, Store(r) PROVE CachedIsTracked'
  BY <1>4 DEF Store, reader, handler
<1>5. ASSUME NEW r \in Readers, Track(r) PROVE CachedIsTracked'
  BY <1>5 DEF Track, reader, handler
<1>6. ASSUME NEW r \in Readers, AbandonRead(r) PROVE CachedIsTracked'
  BY <1>6 DEF AbandonRead, reader, handler
<1>7. ASSUME NEW h \in Handlers, Start(h) PROVE CachedIsTracked'
  BY <1>7 DEF Start, reader, handler
<1>8. ASSUME NEW h \in Handlers, SMembers(h) PROVE CachedIsTracked'
  BY <1>8 DEF SMembers, reader, handler
<1>9. ASSUME NEW h \in Handlers, Unlink(h) PROVE CachedIsTracked'
  BY <1>9 DEF Unlink, reader, handler
<1>10. ASSUME NEW h \in Handlers, SaveInvoice(h) PROVE CachedIsTracked'
  BY <1>10 DEF SaveInvoice, reader, handler
<1>11. ASSUME NEW h \in Handlers, AbandonInvoice(h) PROVE CachedIsTracked'
  BY <1>11 DEF AbandonInvoice, reader, handler
<1>12. ASSUME NEW k \in Keys, Expire(k) PROVE CachedIsTracked'
  BY <1>12 DEF Expire, reader, handler
<1>13. ASSUME SaveOrder PROVE CachedIsTracked'
  BY <1>13 DEF SaveOrder, reader, handler
<1>14. CASE UNCHANGED vars
  BY <1>14 DEF vars
<1> QED
  BY <1>1, <1>2, <1>3, <1>4, <1>5, <1>6, <1>7, <1>8, <1>9, <1>10, <1>11,
     <1>12, <1>13, <1>14 DEF Next, Read, Generate

\* Lists are stored under keys of their own template.
LEMMA FitStep ==
  ASSUME TypeOK, ValuesFit, [Next]_vars
  PROVE  ValuesFit'
<1> USE KeyFacts DEF TypeOK, ValuesFit
<1>1. ASSUME NEW r \in Readers, NEW a \in Asks, Call(r, a) PROVE ValuesFit'
  BY <1>1 DEF Call, reader, handler
<1>2. ASSUME NEW r \in Readers, Get(r) PROVE ValuesFit'
  BY <1>2 DEF Get, reader, handler
<1>3. ASSUME NEW r \in Readers, Query(r) PROVE ValuesFit'
  BY <1>3 DEF Query, reader, handler
<1>4. ASSUME NEW r \in Readers, Store(r) PROVE ValuesFit'
  BY <1>4 DEF Store, reader, handler
<1>5. ASSUME NEW r \in Readers, Track(r) PROVE ValuesFit'
  BY <1>5 DEF Track, reader, handler
<1>6. ASSUME NEW r \in Readers, AbandonRead(r) PROVE ValuesFit'
  BY <1>6 DEF AbandonRead, reader, handler
<1>7. ASSUME NEW h \in Handlers, Start(h) PROVE ValuesFit'
  BY <1>7 DEF Start, reader, handler
<1>8. ASSUME NEW h \in Handlers, SMembers(h) PROVE ValuesFit'
  BY <1>8 DEF SMembers, reader, handler
<1>9. ASSUME NEW h \in Handlers, Unlink(h) PROVE ValuesFit'
  BY <1>9 DEF Unlink, reader, handler
<1>10. ASSUME NEW h \in Handlers, SaveInvoice(h) PROVE ValuesFit'
  BY <1>10 DEF SaveInvoice, reader, handler
<1>11. ASSUME NEW h \in Handlers, AbandonInvoice(h) PROVE ValuesFit'
  BY <1>11 DEF AbandonInvoice, reader, handler
<1>12. ASSUME NEW k \in Keys, Expire(k) PROVE ValuesFit'
  BY <1>12 DEF Expire, reader, handler
<1>13. ASSUME SaveOrder PROVE ValuesFit'
  BY <1>13 DEF SaveOrder, reader, handler
<1>14. CASE UNCHANGED vars
  BY <1>14 DEF vars
<1> QED
  BY <1>1, <1>2, <1>3, <1>4, <1>5, <1>6, <1>7, <1>8, <1>9, <1>10, <1>11,
     <1>12, <1>13, <1>14 DEF Next, Read, Generate

\* While no reader is under way the tag set names every cached list, and so
\* does the copy a handler fetches.
LEMMA AheadStep ==
  ASSUME TypeOK, CachedIsTracked, HandlersAhead, [Next]_vars
  PROVE  HandlersAhead'
<1> USE KeyFacts DEF TypeOK, CachedIsTracked, HandlersAhead, Tracked
<1>1. ASSUME NEW r \in Readers, NEW a \in Asks, Call(r, a) PROVE HandlersAhead'
  BY <1>1 DEF Call, reader, handler
<1>2. ASSUME NEW r \in Readers, Get(r) PROVE HandlersAhead'
  BY <1>2 DEF Get, reader, handler
<1>3. ASSUME NEW r \in Readers, Query(r) PROVE HandlersAhead'
  BY <1>3 DEF Query, reader, handler
<1>4. ASSUME NEW r \in Readers, Store(r) PROVE HandlersAhead'
  BY <1>4 DEF Store, reader, handler
<1>5. ASSUME NEW r \in Readers, Track(r) PROVE HandlersAhead'
  BY <1>5 DEF Track, reader, handler
<1>6. ASSUME NEW r \in Readers, AbandonRead(r) PROVE HandlersAhead'
  BY <1>6 DEF AbandonRead, reader, handler
<1>7. ASSUME NEW h \in Handlers, Start(h) PROVE HandlersAhead'
  BY <1>7 DEF Start, reader, handler
<1>8. ASSUME NEW h \in Handlers, SMembers(h) PROVE HandlersAhead'
  BY <1>8 DEF SMembers, reader, handler
<1>9. ASSUME NEW h \in Handlers, Unlink(h) PROVE HandlersAhead'
  BY <1>9 DEF Unlink, reader, handler
<1>10. ASSUME NEW h \in Handlers, SaveInvoice(h) PROVE HandlersAhead'
  BY <1>10 DEF SaveInvoice, reader, handler
<1>11. ASSUME NEW h \in Handlers, AbandonInvoice(h) PROVE HandlersAhead'
  BY <1>11 DEF AbandonInvoice, reader, handler
<1>12. ASSUME NEW k \in Keys, Expire(k) PROVE HandlersAhead'
  BY <1>12 DEF Expire, reader, handler
<1>13. ASSUME SaveOrder PROVE HandlersAhead'
  BY <1>13 DEF SaveOrder, reader, handler
<1>14. CASE UNCHANGED vars
  BY <1>14 DEF vars
<1> QED
  BY <1>1, <1>2, <1>3, <1>4, <1>5, <1>6, <1>7, <1>8, <1>9, <1>10, <1>11,
     <1>12, <1>13, <1>14 DEF Next, Read, Generate

\* Unlinking them leaves none, and nothing is stored before the insertion.
LEMMA QuietStep ==
  ASSUME TypeOK, CachedIsTracked, HandlersAhead, QuietInvalidationWorks, [Next]_vars
  PROVE  QuietInvalidationWorks'
<1> USE KeyFacts DEF TypeOK, CachedIsTracked, HandlersAhead,
           QuietInvalidationWorks, Tracked
<1>1. ASSUME NEW r \in Readers, NEW a \in Asks, Call(r, a)
      PROVE QuietInvalidationWorks'
  BY <1>1 DEF Call, reader, handler
<1>2. ASSUME NEW r \in Readers, Get(r) PROVE QuietInvalidationWorks'
  BY <1>2 DEF Get, reader, handler
<1>3. ASSUME NEW r \in Readers, Query(r) PROVE QuietInvalidationWorks'
  BY <1>3 DEF Query, reader, handler
<1>4. ASSUME NEW r \in Readers, Store(r) PROVE QuietInvalidationWorks'
  BY <1>4 DEF Store, reader, handler
<1>5. ASSUME NEW r \in Readers, Track(r) PROVE QuietInvalidationWorks'
  BY <1>5 DEF Track, reader, handler
<1>6. ASSUME NEW r \in Readers, AbandonRead(r) PROVE QuietInvalidationWorks'
  BY <1>6 DEF AbandonRead, reader, handler
<1>7. ASSUME NEW h \in Handlers, Start(h) PROVE QuietInvalidationWorks'
  BY <1>7 DEF Start, reader, handler
<1>8. ASSUME NEW h \in Handlers, SMembers(h) PROVE QuietInvalidationWorks'
  BY <1>8 DEF SMembers, reader, handler
<1>9. ASSUME NEW h \in Handlers, Unlink(h) PROVE QuietInvalidationWorks'
  BY <1>9 DEF Unlink, reader, handler
<1>10. ASSUME NEW h \in Handlers, SaveInvoice(h) PROVE QuietInvalidationWorks'
  BY <1>10 DEF SaveInvoice, reader, handler
<1>11. ASSUME NEW h \in Handlers, AbandonInvoice(h) PROVE QuietInvalidationWorks'
  BY <1>11 DEF AbandonInvoice, reader, handler
<1>12. ASSUME NEW k \in Keys, Expire(k) PROVE QuietInvalidationWorks'
  BY <1>12 DEF Expire, reader, handler
<1>13. ASSUME SaveOrder PROVE QuietInvalidationWorks'
  BY <1>13 DEF SaveOrder, reader, handler
<1>14. CASE UNCHANGED vars
  BY <1>14 DEF vars
<1> QED
  BY <1>1, <1>2, <1>3, <1>4, <1>5, <1>6, <1>7, <1>8, <1>9, <1>10, <1>11,
     <1>12, <1>13, <1>14 DEF Next, Read, Generate

\* Nothing is cached and no call is under way: every part holds.
LEMMA CacheInit ==
  ASSUME Init
  PROVE  CacheInvariant
<1> USE KeyFacts DEF Init
<1>1. TypeOK
  BY DEF TypeOK
<1>2. CachedIsTracked /\ ValuesFit
  BY DEF CachedIsTracked, ValuesFit
<1>3. HandlersAhead /\ QuietInvalidationWorks
  BY DEF HandlersAhead, QuietInvalidationWorks
<1> QED
  BY <1>1, <1>2, <1>3 DEF CacheInvariant

\* The parts are inductive together.
LEMMA CacheStep ==
  ASSUME CacheInvariant, [Next]_vars
  PROVE  CacheInvariant'
<1> USE DEF CacheInvariant
<1>1. TypeOK'
  BY TypeStep
<1>2. CachedIsTracked'
  BY TrackedStep
<1>3. ValuesFit'
  BY FitStep
<1>4. HandlersAhead'
  BY AheadStep
<1>5. QuietInvalidationWorks'
  BY QuietStep
<1> QED
  BY <1>1, <1>2, <1>3, <1>4, <1>5

\* Every cached list is tracked, typed and of its template, in every
\* reachable state.
THEOREM CacheInvariantHolds == Spec => []CacheInvariant
  BY CacheInit, CacheStep, PTL DEF Spec

\* An invalidation that meets no list call leaves none of the lists cached
\* until its invoice is in.
THEOREM QuietInvalidationIsEffective == Spec => []QuietInvalidationWorks
<1>1. CacheInvariant => QuietInvalidationWorks
  BY DEF CacheInvariant
<1> QED
  BY <1>1, CacheInvariantHolds, PTL

\* Role and user lists are never answered from another service's cache.
THEOREM OwnListIsServed == Spec => []OwnListServed
<1>1. CacheInvariant => OwnListServed
  BY DEF CacheInvariant, TypeOK, ValuesFit, OwnListServed, Template, Values, Asks,
         Lists
<1> QED
  BY <1>1, CacheInvariantHolds, PTL
\* A list enters circulation with the version its table has at that moment,
\* and answers come from what circulates.
THEOREM OldListsGoForGood == Spec => OldListsDieOut
<1> DEFINE Fresh == /\ \A v \in Circulating' : OutOfDate(v) => v \in Circulating
                    /\ \A r \in Readers :
                         OutOfDate(answer'[r]) => answer'[r] \in Circulating \cup {answer[r]}
<1>1. ASSUME TypeOK, ValuesFit, [Next]_vars
      PROVE  Fresh
  <2> USE <1>1, KeyFacts DEF TypeOK, ValuesFit, Circulating, OutOfDate
  <2>1. ASSUME \A k \in Keys : cache'[k] \in {cache[k], Nothing},
               \A r \in Readers : held'[r] \in {held[r], Nothing},
               \A r \in Readers : answer'[r] \in {answer[r], Nothing} \cup Circulating
        PROVE  Fresh
    BY <2>1
  <2>2. ASSUME NEW r \in Readers, NEW a \in Asks, Call(r, a) PROVE Fresh
    BY <2>1, <2>2 DEF Call, reader, handler
  <2>3. ASSUME NEW r \in Readers, Get(r) PROVE Fresh
    BY <2>1, <2>3 DEF Get, reader, handler
  <2>4. ASSUME NEW r \in Readers, Query(r) PROVE Fresh
    <3> DEFINE v == [list |-> ask[r].list, seen |-> rows[ask[r].list]]
    <3>1. v.seen = rows[v.list] /\ rows[v.list] \in Nat
      BY <2>4 DEF Query
    <3>2. ~OutOfDate(v)
      BY <3>1
    <3>3. /\ cache' = cache
          /\ answer' = answer
          /\ \A q \in Readers : held'[q] \in {held[q], v}
      BY <2>4 DEF Query
    <3> HIDE DEF v
    <3> QED
      BY <3>2, <3>3
  <2>5. ASSUME NEW r \in Readers, Store(r) PROVE Fresh
    <3>1. /\ held' = held
          /\ answer' = answer
          /\ \A k \in Keys : cache'[k] \in {cache[k], held[r]}
      BY <2>5 DEF Store
    <3> QED
      BY <3>1
  <2>6. ASSUME NEW r \in Readers, Track(r) PROVE Fresh
    BY <2>1, <2>6 DEF Track, reader, handler
  <2>7. ASSUME NEW r \in Readers, AbandonRead(r) PROVE Fresh
    BY <2>1, <2>7 DEF AbandonRead, reader, handler
  <2>8. ASSUME NEW h \in Handlers, Start(h) \/ Generate(h) \/ AbandonInvoice(h)
        PROVE  Fresh
    BY <2>1, <2>8 DEF Start, Generate, SMembers, Unlink, SaveInvoice, AbandonInvoice,
                      reader, handler
  <2>9. ASSUME NEW k \in Keys, Expire(k) PROVE Fresh
    BY <2>1, <2>9 DEF Expire, reader, handler
  <2>10. CASE SaveOrder
    BY <2>1, <2>10 DEF SaveOrder, reader, handler
  <2>11. CASE UNCHANGED vars
    BY <2>1, <2>11 DEF vars
  <2> QED
    BY <1>1, <2>2, <2>3, <2>4, <2>5, <2>6, <2>7, <2>8, <2>9, <2>10, <2>11 DEF Next, Read
<1>2. CacheInvariant => TypeOK /\ ValuesFit
  BY DEF CacheInvariant
<1> QED
  BY <1>1, <1>2, CacheInvariantHolds, PTL DEF Spec, OldListsDieOut

\* Nothing cut short, and an invalidation that meets no list call: no order
\* list and no invoice list at all is cached when the invoice is inserted.
InvalidationComplete ==
  abandons = 0 =>
    \A h \in quiet : step[h] = "save" =>
      \A k \in Keys : k.template = Invoices => cache[k] = Nothing

\* Only calls cut short leave lists that no invalidation finds.
THEOREM UncutInvalidationIsComplete == Spec => []InvalidationComplete
<1> DEFINE NoOrphans == abandons = 0 => orphans = {}
<1>1. Init => NoOrphans
  BY DEF Init
<1>2. TypeOK /\ NoOrphans /\ [Next]_vars => NoOrphans'
  BY DEF TypeOK, Next, vars, Read, Generate, Call, Get, Query, Store, Track, AbandonRead,
         Start, SMembers, Unlink, SaveInvoice, AbandonInvoice, Expire, SaveOrder
<1>3. CacheInvariant /\ NoOrphans => InvalidationComplete
  BY DEF CacheInvariant, QuietInvalidationWorks, Tracked, InvalidationComplete
<1>4. CacheInvariant => TypeOK
  BY DEF CacheInvariant
<1> QED
  BY <1>1, <1>2, <1>3, <1>4, CacheInvariantHolds, PTL DEF Spec

=============================================================================
