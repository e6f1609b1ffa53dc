------------------------------ MODULE ListCache ------------------------------
(***************************************************************************)
(* The Redis cache in front of the list endpoints.  RedisDecorator wraps   *)
(* the get of the order, invoice, role and user services; before it        *)
(* inserts, generateInvoice drops the lists of its key template            *)
(* (RedisCacheInvalidateDecorator).  Each step is one Redis command or one *)
(* statement on the database; calls run concurrently, in any process.      *)
(*                                                                         *)
(* What a list holds is abstracted to how many writes to its table it has  *)
(* seen.  The md5 of the arguments is taken to be injective.               *)
(***************************************************************************)
EXTENDS Naturals

CONSTANTS
  Readers,      \* concurrent GET calls
  Handlers,     \* concurrent generateInvoice calls
  Queries,      \* page, limit, filter and order arguments
  Asked,        \* the lists that clients ask for
  Nothing,      \* a Redis miss
  MaxWrites,    \* bound on the writes to each table
  MaxAbandons   \* bound on the calls cut short

Lists == {"orders", "invoices", "roles", "users"}

VARIABLES
  rows,      \* rows[l]: writes so far to the table behind list l
  cache,     \* cache[k]: the list stored under key k, or Nothing
  tags,      \* tags[t]: the Redis set of the cache keys of template t
  doing,     \* doing[r]: the command reader r is about to issue
  ask,       \* ask[r]: the list and the query the client wants, Nothing at first
  held,      \* held[r]: the result reader r has queried but not returned
  answer,    \* answer[r]: the response to the last call, Nothing before it
  step,      \* step[h]: the command handler h is about to issue
  keys,      \* keys[h]: the members handler h has fetched
  quiet,     \* history: handlers during whose call no reader has been under way
  orphans,   \* history: keys a reader has stored and then not recorded
  abandons   \* number of calls cut short

vars == <<rows, cache, tags, doing, ask, held, answer, step, keys, quiet,
          orphans, abandons>>

\* Mutant: one key template for every service.
OneTemplate(l) == "list"

\* REDIS_INVOICE_LIST and REDIS_ORDER_LIST name the same key template.
Template(l) == IF l \in {"orders", "invoices"} THEN "order:invoice" ELSE l

Templates == {Template(l) : l \in Lists}

\* The template that generateInvoice invalidates.
Invoices == Template("invoices")

Asks == [list : Asked, query : Queries]

Keys == [template : Templates, query : Queries]

Key(a) == [template |-> Template(a.list), query |-> a.query]

Values == [list : Lists, seen : Nat]

\* No list and no request is mistaken for a miss.
ASSUME CacheAssumption ==
  /\ Asked \subseteq Lists
  /\ Nothing \notin Values \cup Asks
  /\ MaxWrites \in Nat
  /\ MaxAbandons \in Nat

TypeOK ==
  /\ rows \in [Lists -> Nat]
  /\ cache \in [Keys -> Values \cup {Nothing}]
  /\ tags \in [Templates -> SUBSET Keys]
  /\ doing \in [Readers -> {"idle", "get", "query", "setEx", "sAdd"}]
  /\ ask \in [Readers -> Asks \cup {Nothing}]
  /\ held \in [Readers -> Values \cup {Nothing}]
  /\ answer \in [Readers -> Values \cup {Nothing}]
  /\ step \in [Handlers -> {"idle", "sMembers", "unlink", "save"}]
  /\ keys \in [Handlers -> SUBSET Keys]
  /\ quiet \in SUBSET Handlers
  /\ orphans \in SUBSET Keys
  /\ abandons \in Nat

Init ==
  /\ rows = [l \in Lists |-> 0]
  /\ cache = [k \in Keys |-> Nothing]
  /\ tags = [t \in Templates |-> {}]
  /\ doing = [r \in Readers |-> "idle"]
  /\ ask = [r \in Readers |-> Nothing]
  /\ held = [r \in Readers |-> Nothing]
  /\ answer = [r \in Readers |-> Nothing]
  /\ step = [h \in Handlers |-> "idle"]
  /\ keys = [h \in Handlers |-> {}]
  /\ quiet = {}
  /\ orphans = {}
  /\ abandons = 0

reader == <<doing, ask, held, answer>>
handler == <<step, keys>>

-----------------------------------------------------------------------------
(* RedisDecorator around a service's get *)

Call(r, a) ==
  /\ doing[r] = "idle"
  /\ doing' = [doing EXCEPT ![r] = "get"]
  /\ ask' = [ask EXCEPT ![r] = a]
  /\ answer' = [answer EXCEPT ![r] = Nothing]
  /\ quiet' = {}
  /\ UNCHANGED <<rows, cache, tags, held, handler, orphans, abandons>>

\* A hit is returned as it is, whatever list it was stored for.
Get(r) ==
  /\ doing[r] = "get"
  /\ \/ /\ cache[Key(ask[r])] # Nothing
        /\ answer' = [answer EXCEPT ![r] = cache[Key(ask[r])]]
        /\ doing' = [doing EXCEPT ![r] = "idle"]
     \/ /\ cache[Key(ask[r])] = Nothing
        /\ doing' = [doing EXCEPT ![r] = "query"]
        /\ UNCHANGED answer
  /\ UNCHANGED <<rows, cache, tags, ask, held, handler, quiet, orphans, abandons>>

\* Mutant: the query runs on a replica of the database that lags behind.
QueryReplica(r) ==
  /\ doing[r] = "query"
  /\ \E n \in 0..rows[ask[r].list] :
       held' = [held EXCEPT ![r] = [list |-> ask[r].list, seen |-> n]]
  /\ doing' = [doing EXCEPT ![r] = "setEx"]
  /\ UNCHANGED <<rows, cache, tags, ask, answer, handler, quiet, orphans, abandons>>

\* queryResults on the service's own repository.
Query(r) ==
  /\ doing[r] = "query"
  /\ held' = [held EXCEPT ![r] = [list |-> ask[r].list, seen |-> rows[ask[r].list]]]
  /\ doing' = [doing EXCEPT ![r] = "setEx"]
  /\ UNCHANGED <<rows, cache, tags, ask, answer, handler, quiet, orphans, abandons>>

\* Mutant: the decorator stores the result and never records its key.
StoreUntracked(r) ==
  /\ doing[r] = "setEx"
  /\ cache' = [cache EXCEPT ![Key(ask[r])] = held[r]]
  /\ answer' = [answer EXCEPT ![r] = held[r]]
  /\ held' = [held EXCEPT ![r] = Nothing]
  /\ doing' = [doing EXCEPT ![r] = "idle"]
  /\ UNCHANGED <<rows, tags, ask, handler, quiet, orphans, abandons>>

\* setEx overwrites what another reader may have stored in the meantime.
Store(r) ==
  /\ doing[r] = "setEx"
  /\ cache' = [cache EXCEPT ![Key(ask[r])] = held[r]]
  /\ doing' = [doing EXCEPT ![r] = "sAdd"]
  /\ UNCHANGED <<rows, tags, ask, held, answer, handler, quiet, orphans, abandons>>

Track(r) ==
  /\ doing[r] = "sAdd"
  /\ tags' = [tags EXCEPT ![Template(ask[r].list)] = @ \cup {Key(ask[r])}]
  /\ answer' = [answer EXCEPT ![r] = held[r]]
  /\ held' = [held EXCEPT ![r] = Nothing]
  /\ doing' = [doing EXCEPT ![r] = "idle"]
  /\ UNCHANGED <<rows, cache, ask, handler, quiet, orphans, abandons>>

\* Mutant: the entry is set without a time to live.
NeverExpire(k) ==
  /\ cache[k] # Nothing
  /\ UNCHANGED vars

\* The time to live of an entry runs out; its key stays in the set.
Expire(k) ==
  /\ cache[k] # Nothing
  /\ cache' = [cache EXCEPT ![k] = Nothing]
  /\ UNCHANGED <<rows, tags, reader, handler, quiet, orphans, abandons>>

-----------------------------------------------------------------------------
(* RedisCacheInvalidateDecorator around generateInvoice *)

Start(h) ==
  /\ step[h] = "idle"
  /\ step' = [step EXCEPT ![h] = "sMembers"]
  /\ quiet' = IF \A r \in Readers : doing[r] = "idle"
              THEN quiet \cup {h} ELSE quiet \ {h}
  /\ UNCHANGED <<rows, cache, tags, reader, keys, orphans, abandons>>

\* Mutant: the decorator is given the key template of another service.
SMembersOfUsers(h) ==
  /\ step[h] = "sMembers"
  /\ keys' = [keys EXCEPT ![h] = tags[Template("users")]]
  /\ step' = [step EXCEPT ![h] =
                IF tags[Template("users")] = {} THEN "save" ELSE "unlink"]
  /\ UNCHANGED <<rows, cache, tags, reader, quiet, orphans, abandons>>

\* unlink is not called with an empty list.
SMembers(h) ==
  /\ step[h] = "sMembers"
  /\ keys' = [keys EXCEPT ![h] = tags[Invoices]]
  /\ step' = [step EXCEPT ![h] =
                IF tags[Invoices] = {} THEN "save" ELSE "unlink"]
  /\ UNCHANGED <<rows, cache, tags, reader, quiet, orphans, abandons>>

\* The lists go, the set that names them stays.
Unlink(h) ==
  /\ step[h] = "unlink"
  /\ cache' = [k \in Keys |-> IF k \in keys[h] THEN Nothing ELSE cache[k]]
  /\ step' = [step EXCEPT ![h] = "save"]
  /\ UNCHANGED <<rows, tags, reader, keys, quiet, orphans, abandons>>

\* Only now is the invoice inserted.
SaveInvoice(h) ==
  /\ step[h] = "save"
  /\ rows["invoices"] < MaxWrites
  /\ rows' = [rows EXCEPT !["invoices"] = @ + 1]
  /\ step' = [step EXCEPT ![h] = "idle"]
  /\ keys' = [keys EXCEPT ![h] = {}]
  /\ quiet' = quiet \ {h}
  /\ UNCHANGED <<cache, tags, reader, orphans, abandons>>

-----------------------------------------------------------------------------
\* createOrder saves twice and invalidates nothing.
SaveOrder ==
  /\ rows["orders"] < MaxWrites
  /\ rows' = [rows EXCEPT !["orders"] = @ + 1]
  /\ UNCHANGED <<cache, tags, reader, handler, quiet, orphans, abandons>>

\* A command fails or the process dies: the call goes no further.
AbandonRead(r) ==
  /\ doing[r] # "idle"
  /\ abandons < MaxAbandons
  /\ abandons' = abandons + 1
  /\ doing' = [doing EXCEPT ![r] = "idle"]
  /\ held' = [held EXCEPT ![r] = Nothing]
  /\ orphans' = orphans \cup (IF doing[r] = "sAdd" THEN {Key(ask[r])} ELSE {})
  /\ UNCHANGED <<rows, cache, tags, ask, answer, handler, quiet>>

AbandonInvoice(h) ==
  /\ step[h] # "idle"
  /\ abandons < MaxAbandons
  /\ abandons' = abandons + 1
  /\ step' = [step EXCEPT ![h] = "idle"]
  /\ keys' = [keys EXCEPT ![h] = {}]
  /\ quiet' = quiet \ {h}
  /\ UNCHANGED <<rows, cache, tags, reader, orphans>>

-----------------------------------------------------------------------------
Read(r) == Get(r) \/ Query(r) \/ Store(r) \/ Track(r)

Generate(h) == SMembers(h) \/ Unlink(h) \/ SaveInvoice(h)

Next ==
  \/ \E r \in Readers, a \in Asks : Call(r, a)
  \/ \E r \in Readers : Read(r) \/ AbandonRead(r)
  \/ \E h \in Handlers : Start(h) \/ Generate(h) \/ AbandonInvoice(h)
  \/ \E k \in Keys : Expire(k)
  \/ SaveOrder

Spec == Init /\ [][Next]_vars

\* Redis and the database answer, and Redis expires entries.
Fairness ==
  /\ \A r \in Readers : WF_vars(Read(r))
  /\ \A h \in Handlers : WF_vars(Generate(h))
  /\ \A k \in Keys : WF_vars(Expire(k))

FairSpec == Spec /\ Fairness

-----------------------------------------------------------------------------
(* Properties *)

\* A cached list is in the set that invalidation goes by, or the call that
\* stored it is about to add it, or has been cut short before it could.
CachedIsTracked ==
  \A k \in Keys : cache[k] # Nothing =>
    \/ k \in tags[k.template] \cup orphans
    \/ \E r \in Readers : doing[r] = "sAdd" /\ Key(ask[r]) = k

\* A reader past its query holds the list it asked for, a key holds a list of
\* its own template, and so does an answer; none is newer than its table.
ValuesFit ==
  /\ \A k \in Keys : cache[k] # Nothing =>
       Template(cache[k].list) = k.template /\ cache[k].seen <= rows[cache[k].list]
  /\ \A r \in Readers : doing[r] # "idle" \/ answer[r] # Nothing => ask[r] # Nothing
  /\ \A r \in Readers : doing[r] \in {"setEx", "sAdd"} =>
       /\ held[r] # Nothing
       /\ held[r].list = ask[r].list
       /\ held[r].seen <= rows[held[r].list]
  /\ \A r \in Readers : answer[r] # Nothing =>
       Template(answer[r].list) = Template(ask[r].list)

Tracked(k) == cache[k] # Nothing /\ k.template = Invoices /\ k \notin orphans

\* While no list call is under way, a handler that has fetched the tag set
\* has every cached list in it.
HandlersAhead ==
  \A h \in quiet :
    /\ step[h] # "idle"
    /\ \A r \in Readers : doing[r] = "idle"
    /\ step[h] = "unlink" => \A k \in Keys : Tracked(k) => k \in keys[h]

\* An invalidation during which no list call is under way works: until its
\* invoice is inserted no order or invoice list is cached, so the next call
\* sees the invoice.  It takes the tag set to name every cached list, and only
\* the lists of calls cut short between setEx and sAdd escape it.
QuietInvalidationWorks ==
  \A h \in quiet : step[h] = "save" => \A k \in Keys : ~Tracked(k)

\* Inductive: what the theorems of ListCacheProofs rest on.
CacheInvariant ==
  /\ TypeOK
  /\ CachedIsTracked
  /\ ValuesFit
  /\ HandlersAhead
  /\ QuietInvalidationWorks

\* Role and user lists are answered with role and user lists, however the
\* calls of the other services interleave.
OwnListServed ==
  \A r \in Readers :
    answer[r] # Nothing /\ ask[r].list \in {"roles", "users"} =>
      answer[r].list = ask[r].list

\* What a later call may still be answered with.
Circulating == {cache[k] : k \in Keys} \cup {held[r] : r \in Readers}

OutOfDate(v) == v # Nothing /\ v.seen < rows[v.list]

\* A list that is out of date dies out: once no key and no reader under way
\* holds it, it is never stored and no call is answered with it again, however
\* slow readers, overwriting setEx commands and invalidations interleave.
OldListsDieOut ==
  [][/\ \A v \in Circulating' : OutOfDate(v) => v \in Circulating
     /\ \A r \in Readers :
          OutOfDate(answer'[r]) => answer'[r] \in Circulating \cup {answer[r]}]_vars

\* Once writes have stopped no cached list stays out of date: what slow
\* readers and unlucky invalidations have left behind expires.
EventuallyFresh ==
  <>[](\A k \in Keys : cache[k] # Nothing => cache[k].seen = rows[cache[k].list])

\* The order endpoint "Returns a list of orders" (swagger-schemas.helper.ts),
\* the invoice endpoint a list of invoices.
AskedListServed ==
  \A r \in Readers : answer[r] # Nothing => answer[r].list = ask[r].list
=============================================================================
