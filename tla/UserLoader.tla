----------------------------- MODULE UserLoader -----------------------------
(***************************************************************************)
(* Authorized requests in one HTTP worker.  A user signs in for a token    *)
(* that carries the role; each request with a token loads its user through *)
(* the DataLoader of the process before its role is checked, and requests  *)
(* for a user (GET /users/:id, and createOrder for its own) load another.  *)
(* A load joins the batch under way, a batch is one query, and a promise   *)
(* stays in the loader's cache as long as the process lives, unless it is  *)
(* rejected.  One step is the code between two awaits.  Users are written  *)
(* from outside: the program has no operation that does.                   *)
(***************************************************************************)
EXTENDS Integers

CONSTANTS
  Ids,          \* ids of users
  Roles,        \* role names
  Admins,       \* the roles that the controllers' @Authorized names
  Standard,     \* the role that createOrder's @Authorized adds to them
  Nobody,       \* no row, no promise, no load to wait for
  Pending,      \* a promise that is not settled
  Requests,     \* requests to authorized routes
  MaxChanges,   \* bound on the writes to the users table
  MaxFaults     \* bound on failing queries and restarts of the process

ASSUME LoaderAssumption ==
  /\ Admins \subseteq Roles
  /\ Standard \in Roles
  /\ Nobody \notin Roles \cup Ids
  /\ Pending \notin Roles \cup {Nobody}
  /\ MaxChanges \in Nat
  /\ MaxFaults \in Nat

VARIABLES
  users,    \* users[u]: the role of the row, or Nobody
  tokens,   \* the tokens that have been issued and are valid
  cache,    \* cache[u]: the loader's promise for u
  batch,    \* the ids of the batch that is collecting
  flights,  \* the batches whose query is under way
  stage,    \* stage[r]: how far the request has come
  ask,      \* ask[r]: its route, its token, the user the route will load
  waits,    \* waits[r]: the id whose promise it awaits
  held,     \* history: held[u] are the roles u has had
  since,    \* history: those it has had since the process started
  changes,  \* number of writes to the users table
  faults    \* number of failures and restarts

vars == <<users, tokens, cache, batch, flights, stage, ask, waits,
          held, since, changes, faults>>

Token == [id : Ids, role : Roles]

Routes == {"list", "user", "order"}

\* GET /users/:id loads the user asked for, createOrder its own once more.
Asks == {a \in [route : Routes, token : Token, target : Ids \cup {Nobody}] :
           /\ a.route = "list" <=> a.target = Nobody
           /\ a.route = "order" => a.target = a.token.id}

ASSUME NobodyAssumption == Nobody \notin Asks

\* The controller's @Authorized and the method's count together.
Allowed == [k \in Routes |->
              IF k = "order" THEN Admins \cup {Standard} ELSE Admins]

Stages == {"new", "authorizing", "serving",
           "served", "refused", "notFound", "failed", "lost"}

Settled(u) == cache[u] \notin {Nobody, Pending}

TypeOK ==
  /\ users \in [Ids -> Roles \cup {Nobody}]
  /\ tokens \in SUBSET Token
  /\ cache \in [Ids -> Roles \cup {Nobody, Pending}]
  /\ batch \in SUBSET Ids
  /\ flights \in SUBSET SUBSET Ids
  /\ stage \in [Requests -> Stages]
  /\ ask \in [Requests -> Asks \cup {Nobody}]
  /\ waits \in [Requests -> Ids \cup {Nobody}]
  /\ held \in [Ids -> SUBSET Roles]
  /\ since \in [Ids -> SUBSET Roles]
  /\ changes \in Nat
  /\ faults \in Nat

\* The roles the rows have, as sets.
Current == [u \in Ids |-> {users[u]} \ {Nobody}]

Init ==
  /\ users \in [Ids -> Roles \cup {Nobody}]
  /\ tokens = {}
  /\ cache = [u \in Ids |-> Nobody]
  /\ batch = {}
  /\ flights = {}
  /\ stage = [r \in Requests |-> "new"]
  /\ ask = [r \in Requests |-> Nobody]
  /\ waits = [r \in Requests |-> Nobody]
  /\ held = Current
  /\ since = Current
  /\ changes = 0
  /\ faults = 0

table == <<users, held, since, changes>>
sent == <<tokens, ask>>

-----------------------------------------------------------------------------
(* AuthService, DataLoaderInfrastructure *)

\* signin: the token tells the role of this moment.
SignIn(u) ==
  /\ users[u] # Nobody
  /\ tokens' = tokens \cup {[id |-> u, role |-> users[u]]}
  /\ UNCHANGED <<table, cache, batch, flights, stage, ask, waits, faults>>

\* Mutant: only settled promises are found in the cache.
LoadAgain(u) ==
  IF Settled(u)
  THEN UNCHANGED <<cache, batch>>
  ELSE /\ cache' = [cache EXCEPT ![u] = Pending]
       /\ batch' = batch \cup {u}

\* DataLoader.load: the promise in the cache, or a new one in the batch.
Load(u) ==
  IF cache[u] # Nobody
  THEN UNCHANGED <<cache, batch>>
  ELSE /\ cache' = [cache EXCEPT ![u] = Pending]
       /\ batch' = batch \cup {u}

\* Mutant: a batch waits until it is full.
DispatchFull ==
  /\ \E u, v \in batch : u # v
  /\ flights' = flights \cup {batch}
  /\ batch' = {}
  /\ UNCHANGED <<table, sent, cache, stage, waits, faults>>

\* The batch is sent off at the end of the tick.
Dispatch ==
  /\ batch # {}
  /\ flights' = flights \cup {batch}
  /\ batch' = {}
  /\ UNCHANGED <<table, sent, cache, stage, waits, faults>>

\* The whole batch is rejected and forgotten, and so is who awaits it.
RejectBatch(b, s) ==
  /\ cache' = [u \in Ids |-> IF u \in b THEN Nobody ELSE cache[u]]
  /\ stage' = [r \in Requests |-> IF waits[r] \in b THEN s ELSE stage[r]]
  /\ waits' = [r \in Requests |-> IF waits[r] \in b THEN Nobody ELSE waits[r]]

\* The query of the batch: one id without a row is an error for every id.
Find(b) ==
  /\ b \in flights
  /\ flights' = flights \ {b}
  /\ \/ /\ \A u \in b : users[u] # Nobody
        /\ cache' = [u \in Ids |-> IF u \in b THEN users[u] ELSE cache[u]]
        /\ UNCHANGED <<stage, waits>>
     \/ /\ \E u \in b : users[u] = Nobody
        /\ RejectBatch(b, "notFound")
  /\ UNCHANGED <<table, sent, batch, faults>>

\* The query fails.
FindFails(b) ==
  /\ b \in flights
  /\ faults < MaxFaults
  /\ faults' = faults + 1
  /\ flights' = flights \ {b}
  /\ RejectBatch(b, "failed")
  /\ UNCHANGED <<table, sent, batch>>

-----------------------------------------------------------------------------
(* authorizationChecker, currentUserChecker, the controllers *)

\* A request whose token is missing, forged or expired.
Refuse(r) ==
  /\ stage[r] = "new"
  /\ stage' = [stage EXCEPT ![r] = "refused"]
  /\ UNCHANGED <<table, sent, cache, batch, flights, waits, faults>>

\* generateExpressContext loads the user of the token.
Receive(r, a) ==
  /\ stage[r] = "new"
  /\ a.token \in tokens
  /\ stage' = [stage EXCEPT ![r] = "authorizing"]
  /\ ask' = [ask EXCEPT ![r] = a]
  /\ waits' = [waits EXCEPT ![r] = a.token.id]
  /\ Load(a.token.id)
  /\ UNCHANGED <<table, tokens, flights, faults>>

\* Mutant: any user that can be loaded will do.
AuthorizeAnyone(r) ==
  /\ stage[r] = "authorizing"
  /\ Settled(waits[r])
  /\ stage' = [stage EXCEPT ![r] = "served"]
  /\ waits' = [waits EXCEPT ![r] = Nobody]
  /\ UNCHANGED <<table, sent, cache, batch, flights, faults>>

\* authorizationChecker: the role that counts is the token's, whatever the
\* role that has been loaded.
Authorize(r) ==
  /\ stage[r] = "authorizing"
  /\ Settled(waits[r])
  /\ LET permitted == ask[r].token.role \in Allowed[ask[r].route]
     IN  \/ /\ ~permitted
            /\ stage' = [stage EXCEPT ![r] = "refused"]
            /\ waits' = [waits EXCEPT ![r] = Nobody]
            /\ UNCHANGED <<cache, batch>>
         \/ /\ permitted
            /\ ask[r].target = Nobody
            /\ stage' = [stage EXCEPT ![r] = "served"]
            /\ waits' = [waits EXCEPT ![r] = Nobody]
            /\ UNCHANGED <<cache, batch>>
         \/ /\ permitted
            /\ ask[r].target # Nobody
            /\ stage' = [stage EXCEPT ![r] = "serving"]
            /\ waits' = [waits EXCEPT ![r] = ask[r].target]
            /\ Load(ask[r].target)
  /\ UNCHANGED <<table, sent, flights, faults>>

Serve(r) ==
  /\ stage[r] = "serving"
  /\ Settled(waits[r])
  /\ stage' = [stage EXCEPT ![r] = "served"]
  /\ waits' = [waits EXCEPT ![r] = Nobody]
  /\ UNCHANGED <<table, sent, cache, batch, flights, faults>>

-----------------------------------------------------------------------------
\* A row is inserted, deleted, or given another role.
ChangeUser(u, k) ==
  /\ changes < MaxChanges
  /\ users[u] # k
  /\ users' = [users EXCEPT ![u] = k]
  /\ held' = [held EXCEPT ![u] = @ \cup ({k} \ {Nobody})]
  /\ since' = [since EXCEPT ![u] = @ \cup ({k} \ {Nobody})]
  /\ changes' = changes + 1
  /\ UNCHANGED <<sent, cache, batch, flights, stage, waits, faults>>

\* Mutant: what has been loaded is kept outside of the process.
RestartKeepingCache ==
  /\ faults < MaxFaults
  /\ faults' = faults + 1
  /\ cache' = [u \in Ids |-> IF cache[u] = Pending THEN Nobody ELSE cache[u]]
  /\ batch' = {}
  /\ flights' = {}
  /\ stage' = [r \in Requests |-> IF waits[r] # Nobody THEN "lost" ELSE stage[r]]
  /\ waits' = [r \in Requests |-> Nobody]
  /\ since' = Current
  /\ UNCHANGED <<sent, users, held, changes>>

\* The process dies with its loader and its requests, another takes its place.
Restart ==
  /\ faults < MaxFaults
  /\ faults' = faults + 1
  /\ cache' = [u \in Ids |-> Nobody]
  /\ batch' = {}
  /\ flights' = {}
  /\ stage' = [r \in Requests |-> IF waits[r] # Nobody THEN "lost" ELSE stage[r]]
  /\ waits' = [r \in Requests |-> Nobody]
  /\ since' = Current
  /\ UNCHANGED <<sent, users, held, changes>>

-----------------------------------------------------------------------------
Proceed(r) == Authorize(r) \/ Serve(r)

Next ==
  \/ \E u \in Ids : SignIn(u)
  \/ \E r \in Requests : \/ Refuse(r) \/ Proceed(r)
                         \/ \E a \in Asks : Receive(r, a)
  \/ Dispatch
  \/ \E b \in SUBSET Ids : Find(b) \/ FindFails(b)
  \/ \E u \in Ids, k \in Roles \cup {Nobody} : ChangeUser(u, k)
  \/ Restart

Spec == Init /\ [][Next]_vars

\* Ticks end, queries are answered, and what is awaited is gone on with.
FairSpec ==
  /\ Spec
  /\ WF_vars(Dispatch)
  /\ \A b \in SUBSET Ids : WF_vars(Find(b))
  /\ \A r \in Requests : WF_vars(Proceed(r))

-----------------------------------------------------------------------------
(* Properties *)

\* README.md: the loader is "batching and caching requests": a user is not
\* queried again while a query for it is under way or its promise is kept.
UsersQueriedOnce ==
  /\ \A b \in flights \cup {batch} : \A u \in b : cache[u] = Pending
  /\ \A b \in flights : b \cap batch = {}
  /\ \A b, c \in flights : b # c => b \cap c = {}

\* No request awaits a promise that is not there: one that is pending will be
\* settled by the batch its id is in, and a batch that is rejected lets go of
\* everybody who waits for it.
PromisesKept ==
  /\ \A u \in Ids : cache[u] = Pending => u \in batch \cup UNION flights
  /\ \A r \in Requests : waits[r] # Nobody => cache[waits[r]] # Nobody
  /\ \A r \in Requests : waits[r] # Nobody <=> stage[r] \in {"authorizing", "serving"}

\* Roles are those a user has had: what a token tells is as old as the token,
\* what is loaded no older than the process.
RolesFromTable ==
  /\ \A u \in Ids : Current[u] \subseteq since[u] /\ since[u] \subseteq held[u]
  /\ \A t \in tokens : t.role \in held[t.id]
  /\ \A r \in Requests : ask[r] # Nobody => ask[r].token \in tokens

\* A user that the loader hands out was in the table, with that role, at some
\* time since the process started: a restart is what it takes to see a change.
LoadedSinceStart ==
  \A u \in Ids : Settled(u) => cache[u] \in since[u]

\* A request goes beyond authorization only if its user has had a role, at some
\* time, that the route permits.
ServedWereEntitled ==
  \A r \in Requests : stage[r] \in {"serving", "served"} =>
    /\ ask[r] # Nobody
    /\ held[ask[r].token.id] \cap Allowed[ask[r].route] # {}

\* Inductive: what the theorems of UserLoaderProofs rest on.
LoaderInvariant ==
  /\ TypeOK
  /\ UsersQueriedOnce
  /\ PromisesKept
  /\ RolesFromTable
  /\ LoadedSinceStart
  /\ ServedWereEntitled
  /\ \A r \in Requests : stage[r] = "authorizing" => ask[r] # Nobody

\* Every request is answered or lost with its process: no batch is forgotten
\* and no promise is awaited for ever.
RequestsAnswered ==
  \A r \in Requests : waits[r] # Nobody ~> waits[r] = Nobody
=============================================================================
