-------------------------- MODULE UserLoaderProofs --------------------------
(***************************************************************************)
(* LoaderInvariant is an invariant of UserLoader for any number of users,  *)
(* roles and requests, and so are the properties it is made of.            *)
(***************************************************************************)
EXTENDS UserLoader, TLAPS

USE LoaderAssumption, NobodyAssumption

\* The fields of a request, once it has been received.
LEMMA AskFields ==
  ASSUME NEW a \in Asks
  PROVE  /\ a # Nobody
         /\ a.token \in Token
         /\ a.token.id \in Ids
         /\ a.token.role \in Roles
         /\ a.target \in Ids \cup {Nobody}
         /\ a.route \in Routes
BY DEF Asks, Token, Routes

\* DataLoader.load (src/src/infrastructure/database/data-loader.infrastructure.ts:26)
\* leaves a promise for the id behind, touches no other, and asks for the id
\* only if there was none.
LEMMA LoadKeeps ==
  ASSUME TypeOK, UsersQueriedOnce, PromisesKept, LoadedSinceStart,
         NEW u \in Ids, Load(u), flights' = flights, since' = since
  PROVE  /\ cache' \in [Ids -> Roles \cup {Nobody, Pending}]
         /\ batch' \in SUBSET Ids
         /\ UsersQueriedOnce'
         /\ LoadedSinceStart'
         /\ cache'[u] # Nobody
         /\ \A v \in Ids : cache[v] # Nobody => cache'[v] # Nobody
         /\ \A v \in Ids : cache'[v] = Pending => v \in batch' \cup UNION flights'
<1>1. CASE cache[u] # Nobody
  <2>1. cache' = cache /\ batch' = batch
    BY <1>1 DEF Load
  <2> QED
    BY <1>1, <2>1 DEF TypeOK, UsersQueriedOnce, PromisesKept, LoadedSinceStart, Settled
<1>2. CASE cache[u] = Nobody
  <2>1. cache' = [cache EXCEPT ![u] = Pending] /\ batch' = batch \cup {u}
    BY <1>2 DEF Load
  <2>2. \A b \in flights \cup {batch} : u \notin b
    BY <1>2 DEF UsersQueriedOnce
  <2>3. UsersQueriedOnce'
    BY <1>2, <2>1, <2>2 DEF TypeOK, UsersQueriedOnce
  <2>4. LoadedSinceStart'
    BY <2>1 DEF TypeOK, LoadedSinceStart, Settled
  <2>5. \A v \in Ids : cache'[v] = Pending => v \in batch' \cup UNION flights'
    BY <2>1 DEF TypeOK, PromisesKept
  <2> QED
    BY <2>1, <2>3, <2>4, <2>5 DEF TypeOK
<1> QED
  BY <1>1, <1>2

\* A batch that is rejected takes its promises and who awaits them along.
LEMMA RejectKeeps ==
  ASSUME TypeOK, UsersQueriedOnce, PromisesKept, LoadedSinceStart, ServedWereEntitled,
         NEW b \in flights, NEW s \in {"notFound", "failed"}, RejectBatch(b, s),
         flights' = flights \ {b}, batch' = batch,
         UNCHANGED <<since, held, ask>>
  PROVE  /\ cache' \in [Ids -> Roles \cup {Nobody, Pending}]
         /\ stage' \in [Requests -> Stages]
         /\ waits' \in [Requests -> Ids \cup {Nobody}]
         /\ UsersQueriedOnce'
         /\ PromisesKept'
         /\ LoadedSinceStart'
         /\ ServedWereEntitled'
         /\ \A r \in Requests : stage'[r] = "authorizing" => stage[r] = "authorizing"
<1>1. b \in SUBSET Ids /\ Nobody \notin b
  BY DEF TypeOK
<1>2. /\ cache' \in [Ids -> Roles \cup {Nobody, Pending}]
      /\ stage' \in [Requests -> Stages]
      /\ waits' \in [Requests -> Ids \cup {Nobody}]
  BY DEF RejectBatch, TypeOK, Stages
<1>3. UsersQueriedOnce'
  <2>1. \A c \in flights' \cup {batch'} : c \cap b = {}
    <3>1. \A c \in flights' : c \cap b = {}
      BY DEF UsersQueriedOnce
    <3>2. batch' \cap b = {}
      BY DEF UsersQueriedOnce
    <3> QED
      BY <3>1, <3>2
  <2>2. flights' \subseteq flights /\ batch' = batch
    OBVIOUS
  <2>3. \A c \in flights' \cup {batch'} : c \subseteq Ids
    BY <2>2 DEF TypeOK
  <2>4. \A c \in flights' \cup {batch'} : \A u \in c : cache'[u] = Pending
    <3> SUFFICES ASSUME NEW c \in flights' \cup {batch'}, NEW u \in c
                 PROVE  cache'[u] = Pending
      OBVIOUS
    <3>1. u \in Ids /\ u \notin b
      BY <2>1, <2>3
    <3>2. cache[u] = Pending
      BY <2>2 DEF UsersQueriedOnce
    <3> QED
      BY <3>1, <3>2 DEF RejectBatch
  <2> QED
    BY <2>2, <2>4 DEF UsersQueriedOnce
<1>4. PromisesKept'
  <2>1. \A u \in Ids : cache'[u] = Pending => u \in batch' \cup UNION flights'
    BY DEF RejectBatch, PromisesKept
  <2>2. \A r \in Requests : waits'[r] # Nobody => cache'[waits'[r]] # Nobody
    BY <1>1 DEF RejectBatch, PromisesKept, TypeOK
  <2>3. \A r \in Requests : waits'[r] # Nobody <=> stage'[r] \in {"authorizing", "serving"}
    BY <1>1 DEF RejectBatch, PromisesKept
  <2> QED
    BY <2>1, <2>2, <2>3 DEF PromisesKept
<1>5. LoadedSinceStart'
  BY DEF RejectBatch, LoadedSinceStart, Settled
<1>6. ServedWereEntitled'
  BY DEF RejectBatch, ServedWereEntitled
<1>7. \A r \in Requests : stage'[r] = "authorizing" => stage[r] = "authorizing"
  BY DEF RejectBatch
<1> QED
  BY <1>2, <1>3, <1>4, <1>5, <1>6, <1>7

-----------------------------------------------------------------------------
LEMMA InitInvariant == Init => LoaderInvariant
<1> SUFFICES ASSUME Init PROVE LoaderInvariant
  OBVIOUS
<1>1. TypeOK
  BY DEF Init, TypeOK, Stages, Current
<1>2. UsersQueriedOnce /\ PromisesKept
  BY DEF Init, UsersQueriedOnce, PromisesKept
<1>3. RolesFromTable /\ LoadedSinceStart /\ ServedWereEntitled
  BY DEF Init, RolesFromTable, LoadedSinceStart, ServedWereEntitled, Settled
<1> QED
  BY <1>1, <1>2, <1>3 DEF LoaderInvariant, Init

\* signin adds a token with the role of the row.
LEMMA SignInPreserves ==
  ASSUME LoaderInvariant, NEW u \in Ids, SignIn(u)
  PROVE  LoaderInvariant'
<1>1. users[u] \in held[u] /\ users[u] \in Roles
  BY DEF LoaderInvariant, TypeOK, RolesFromTable, Current, SignIn
<1>2. TypeOK'
  BY <1>1 DEF LoaderInvariant, TypeOK, SignIn, Token, table
<1>3. UsersQueriedOnce' /\ PromisesKept' /\ LoadedSinceStart' /\ ServedWereEntitled'
  BY DEF LoaderInvariant, SignIn, table, UsersQueriedOnce, PromisesKept,
         LoadedSinceStart, ServedWereEntitled, Settled
<1>4. RolesFromTable'
  BY <1>1 DEF LoaderInvariant, SignIn, table, RolesFromTable, Current
<1> QED
  BY <1>2, <1>3, <1>4 DEF LoaderInvariant, SignIn

LEMMA DispatchPreserves ==
  ASSUME LoaderInvariant, Dispatch
  PROVE  LoaderInvariant'
<1>1. TypeOK'
  BY DEF LoaderInvariant, TypeOK, Dispatch, table, sent
<1>2. UsersQueriedOnce'
  BY DEF LoaderInvariant, TypeOK, UsersQueriedOnce, Dispatch
<1>3. PromisesKept'
  BY DEF LoaderInvariant, PromisesKept, Dispatch
<1>4. RolesFromTable' /\ LoadedSinceStart' /\ ServedWereEntitled'
  BY DEF LoaderInvariant, Dispatch, table, sent, RolesFromTable, Current,
         LoadedSinceStart, ServedWereEntitled, Settled
<1> QED
  BY <1>1, <1>2, <1>3, <1>4 DEF LoaderInvariant, Dispatch, sent

\* A batch that is rejected, whatever the reason.
LEMMA RejectionPreserves ==
  ASSUME LoaderInvariant, NEW b \in flights, NEW s \in {"notFound", "failed"},
         RejectBatch(b, s), flights' = flights \ {b}, faults' \in Nat,
         UNCHANGED <<table, sent, batch>>
  PROVE  LoaderInvariant'
<1>1. UNCHANGED <<users, held, since, changes, tokens, ask, batch>>
  BY DEF table, sent
<1>2. /\ cache' \in [Ids -> Roles \cup {Nobody, Pending}]
      /\ stage' \in [Requests -> Stages]
      /\ waits' \in [Requests -> Ids \cup {Nobody}]
      /\ UsersQueriedOnce' /\ PromisesKept' /\ LoadedSinceStart' /\ ServedWereEntitled'
      /\ \A r \in Requests : stage'[r] = "authorizing" => stage[r] = "authorizing"
  BY <1>1, RejectKeeps DEF LoaderInvariant
<1>3. TypeOK'
  BY <1>1, <1>2 DEF LoaderInvariant, TypeOK
<1>4. RolesFromTable'
  BY <1>1 DEF LoaderInvariant, RolesFromTable, Current
<1> QED
  BY <1>1, <1>2, <1>3, <1>4 DEF LoaderInvariant

\* The promises of a batch that finds its users are settled with their roles.
LEMMA FindPreserves ==
  ASSUME LoaderInvariant, NEW b, Find(b)
  PROVE  LoaderInvariant'
<1>1. b \in flights /\ flights' = flights \ {b}
  BY DEF Find
<1>2. UNCHANGED <<users, held, since, changes, tokens, ask, batch, faults>>
  BY DEF Find, table, sent
<1>3. CASE \E u \in b : users[u] = Nobody
  <2>1. RejectBatch(b, "notFound")
    BY <1>3 DEF Find
  <2> QED
    BY <1>1, <1>2, <2>1, RejectionPreserves DEF LoaderInvariant, TypeOK, table, sent
<1>4. CASE ~ \E u \in b : users[u] = Nobody
  <2>1. /\ cache' = [u \in Ids |-> IF u \in b THEN users[u] ELSE cache[u]]
        /\ UNCHANGED <<stage, waits>>
    BY <1>4 DEF Find
  <2>2. b \in SUBSET Ids /\ \A u \in b : users[u] \in Roles
    BY <1>1, <1>4 DEF LoaderInvariant, TypeOK
  <2>3. TypeOK'
    BY <1>1, <1>2, <2>1, <2>2 DEF LoaderInvariant, TypeOK
  <2>4. UsersQueriedOnce'
    <3>1. \A c \in flights' \cup {batch'} : c \cap b = {}
      BY <1>1, <1>2 DEF LoaderInvariant, UsersQueriedOnce
    <3>2. \A c \in flights' \cup {batch'} : \A u \in c : cache'[u] = cache[u]
      <4> SUFFICES ASSUME NEW c \in flights' \cup {batch'}, NEW u \in c
                   PROVE  cache'[u] = cache[u]
        OBVIOUS
      <4>1. u \in Ids
        BY <1>1, <1>2 DEF LoaderInvariant, TypeOK
      <4>2. u \notin b
        BY <3>1
      <4> QED
        BY <2>1, <4>1, <4>2
    <3>3. \A c \in flights' \cup {batch'} : \A u \in c : cache'[u] = Pending
      BY <1>1, <1>2, <3>2 DEF LoaderInvariant, UsersQueriedOnce
    <3>4. /\ \A c \in flights' : c \cap batch' = {}
          /\ \A c, d \in flights' : c # d => c \cap d = {}
      BY <1>1, <1>2 DEF LoaderInvariant, UsersQueriedOnce
    <3> QED
      BY <3>3, <3>4 DEF UsersQueriedOnce
  <2>5. PromisesKept'
    BY <1>1, <1>2, <2>1, <2>2 DEF LoaderInvariant, TypeOK, PromisesKept
  <2>6. LoadedSinceStart'
    BY <1>2, <2>1, <2>2
    DEF LoaderInvariant, RolesFromTable, Current, LoadedSinceStart, Settled
  <2>7. RolesFromTable' /\ ServedWereEntitled'
    BY <1>2, <2>1 DEF LoaderInvariant, RolesFromTable, Current, ServedWereEntitled
  <2> QED
    BY <1>2, <2>1, <2>3, <2>4, <2>5, <2>6, <2>7 DEF LoaderInvariant
<1> QED
  BY <1>3, <1>4

LEMMA FindFailsPreserves ==
  ASSUME LoaderInvariant, NEW b, FindFails(b)
  PROVE  LoaderInvariant'
<1>1. b \in flights /\ RejectBatch(b, "failed") /\ flights' = flights \ {b}
      /\ UNCHANGED <<table, sent, batch>>
  BY DEF FindFails
<1>2. faults' \in Nat
  BY DEF FindFails, LoaderInvariant, TypeOK
<1> QED
  BY <1>1, <1>2, RejectionPreserves

LEMMA RefusePreserves ==
  ASSUME LoaderInvariant, NEW r \in Requests, Refuse(r)
  PROVE  LoaderInvariant'
<1>1. UNCHANGED <<users, held, since, changes, tokens, ask, cache, batch, flights, waits, faults>>
  BY DEF Refuse, table, sent
<1>2. stage[r] = "new" /\ stage' = [stage EXCEPT ![r] = "refused"]
  BY DEF Refuse
<1>3. TypeOK'
  BY <1>1, <1>2 DEF LoaderInvariant, TypeOK, Stages
<1>4. UsersQueriedOnce' /\ RolesFromTable' /\ LoadedSinceStart'
  BY <1>1 DEF LoaderInvariant, UsersQueriedOnce, RolesFromTable, Current,
              LoadedSinceStart, Settled
<1>5. PromisesKept' /\ ServedWereEntitled'
  BY <1>1, <1>2 DEF LoaderInvariant, TypeOK, PromisesKept, ServedWereEntitled
<1> QED
  BY <1>1, <1>2, <1>3, <1>4, <1>5 DEF LoaderInvariant, TypeOK

\* generateExpressContext: the load of the token's user.
LEMMA ReceivePreserves ==
  ASSUME LoaderInvariant, NEW r \in Requests, NEW a \in Asks, Receive(r, a)
  PROVE  LoaderInvariant'
<1>1. UNCHANGED <<users, held, since, changes, tokens, flights, faults>>
  BY DEF Receive, table
<1> DEFINE u == a.token.id
<1>2. u \in Ids /\ u # Nobody /\ a # Nobody
  BY AskFields
<1>3. /\ stage[r] = "new"
      /\ a.token \in tokens
      /\ stage' = [stage EXCEPT ![r] = "authorizing"]
      /\ ask' = [ask EXCEPT ![r] = a]
      /\ waits' = [waits EXCEPT ![r] = u]
      /\ Load(u)
  BY DEF Receive
<1> HIDE DEF u
<1>4. /\ cache' \in [Ids -> Roles \cup {Nobody, Pending}]
      /\ batch' \in SUBSET Ids
      /\ UsersQueriedOnce' /\ LoadedSinceStart'
      /\ cache'[u] # Nobody
      /\ \A v \in Ids : cache[v] # Nobody => cache'[v] # Nobody
      /\ \A v \in Ids : cache'[v] = Pending => v \in batch' \cup UNION flights'
  BY <1>1, <1>2, <1>3, LoadKeeps DEF LoaderInvariant
<1>5. TypeOK'
  BY <1>1, <1>2, <1>3, <1>4 DEF LoaderInvariant, TypeOK, Stages
<1>6. PromisesKept'
  BY <1>2, <1>3, <1>4 DEF LoaderInvariant, TypeOK, PromisesKept
<1>7. RolesFromTable'
  BY <1>1, <1>3 DEF LoaderInvariant, TypeOK, RolesFromTable, Current
<1>8. ServedWereEntitled'
  BY <1>1, <1>3 DEF LoaderInvariant, TypeOK, ServedWereEntitled
<1> QED
  BY <1>2, <1>3, <1>4, <1>5, <1>6, <1>7, <1>8 DEF LoaderInvariant, TypeOK

\* authorizationChecker: a request goes on only with a token whose role its
\* route permits, and that role was the user's when the token was issued.
LEMMA AuthorizePreserves ==
  ASSUME LoaderInvariant, NEW r \in Requests, Authorize(r)
  PROVE  LoaderInvariant'
<1>1. UNCHANGED <<users, held, since, changes, tokens, ask, flights, faults>>
  BY DEF Authorize, table, sent
<1>2. stage[r] = "authorizing" /\ ask[r] \in Asks /\ ask[r] # Nobody
  BY DEF Authorize, LoaderInvariant, TypeOK
<1>3. RolesFromTable'
  BY <1>1 DEF LoaderInvariant, RolesFromTable, Current
<1> DEFINE permitted == ask[r].token.role \in Allowed[ask[r].route]
<1>4. permitted => held[ask[r].token.id] \cap Allowed[ask[r].route] # {}
  BY <1>2 DEF LoaderInvariant, RolesFromTable
<1>5. CASE permitted /\ ask[r].target # Nobody
  <2> DEFINE u == ask[r].target
  <2>1. /\ stage' = [stage EXCEPT ![r] = "serving"]
        /\ waits' = [waits EXCEPT ![r] = u]
        /\ Load(u)
    BY <1>5 DEF Authorize
  <2>2. u \in Ids /\ u # Nobody
    BY <1>2, <1>5, AskFields
  <2> HIDE DEF u
  <2>3. /\ cache' \in [Ids -> Roles \cup {Nobody, Pending}]
        /\ batch' \in SUBSET Ids
        /\ UsersQueriedOnce' /\ LoadedSinceStart'
        /\ cache'[u] # Nobody
        /\ \A v \in Ids : cache[v] # Nobody => cache'[v] # Nobody
        /\ \A v \in Ids : cache'[v] = Pending => v \in batch' \cup UNION flights'
    BY <1>1, <2>1, <2>2, LoadKeeps DEF LoaderInvariant
  <2>4. TypeOK'
    BY <1>1, <2>1, <2>2, <2>3 DEF LoaderInvariant, TypeOK, Stages
  <2>5. PromisesKept'
    BY <2>1, <2>2, <2>3 DEF LoaderInvariant, TypeOK, PromisesKept
  <2>6. ServedWereEntitled'
    BY <1>1, <1>2, <1>4, <1>5, <2>1 DEF LoaderInvariant, TypeOK, ServedWereEntitled
  <2> QED
    BY <1>1, <1>3, <2>1, <2>3, <2>4, <2>5, <2>6 DEF LoaderInvariant, TypeOK
<1>6. CASE ~ permitted \/ ask[r].target = Nobody
  <2>1. /\ stage' \in {[stage EXCEPT ![r] = "refused"], [stage EXCEPT ![r] = "served"]}
        /\ permitted \/ stage' = [stage EXCEPT ![r] = "refused"]
        /\ waits' = [waits EXCEPT ![r] = Nobody]
        /\ UNCHANGED <<cache, batch>>
    BY <1>6 DEF Authorize
  <2>2. TypeOK'
    BY <1>1, <2>1 DEF LoaderInvariant, TypeOK, Stages
  <2>3. UsersQueriedOnce' /\ LoadedSinceStart'
    BY <1>1, <2>1 DEF LoaderInvariant, UsersQueriedOnce, LoadedSinceStart, Settled
  <2>4. PromisesKept'
    BY <1>1, <2>1 DEF LoaderInvariant, TypeOK, PromisesKept
  <2>5. ServedWereEntitled'
    BY <1>1, <1>2, <1>4, <2>1 DEF LoaderInvariant, TypeOK, ServedWereEntitled
  <2> QED
    BY <1>1, <1>3, <2>1, <2>2, <2>3, <2>4, <2>5 DEF LoaderInvariant, TypeOK
<1> QED
  BY <1>5, <1>6

LEMMA ServePreserves ==
  ASSUME LoaderInvariant, NEW r \in Requests, Serve(r)
  PROVE  LoaderInvariant'
<1>1. UNCHANGED <<users, held, since, changes, tokens, ask, cache, batch, flights, faults>>
  BY DEF Serve, table, sent
<1>2. /\ stage[r] = "serving"
      /\ stage' = [stage EXCEPT ![r] = "served"]
      /\ waits' = [waits EXCEPT ![r] = Nobody]
  BY DEF Serve
<1>3. TypeOK'
  BY <1>1, <1>2 DEF LoaderInvariant, TypeOK, Stages
<1>4. UsersQueriedOnce' /\ RolesFromTable' /\ LoadedSinceStart'
  BY <1>1 DEF LoaderInvariant, UsersQueriedOnce, RolesFromTable, Current,
              LoadedSinceStart, Settled
<1>5. PromisesKept' /\ ServedWereEntitled'
  BY <1>1, <1>2 DEF LoaderInvariant, TypeOK, PromisesKept, ServedWereEntitled
<1> QED
  BY <1>1, <1>2, <1>3, <1>4, <1>5 DEF LoaderInvariant, TypeOK

LEMMA ChangeUserPreserves ==
  ASSUME LoaderInvariant, NEW u \in Ids, NEW k \in Roles \cup {Nobody}, ChangeUser(u, k)
  PROVE  LoaderInvariant'
<1>1. UNCHANGED <<tokens, ask, cache, batch, flights, stage, waits, faults>>
  BY DEF ChangeUser, sent
<1>2. /\ users' = [users EXCEPT ![u] = k]
      /\ held' = [held EXCEPT ![u] = @ \cup ({k} \ {Nobody})]
      /\ since' = [since EXCEPT ![u] = @ \cup ({k} \ {Nobody})]
      /\ changes' = changes + 1
  BY DEF ChangeUser
<1>3. TypeOK'
  BY <1>1, <1>2 DEF LoaderInvariant, TypeOK
<1>4. \A v \in Ids : held[v] \subseteq held'[v] /\ since[v] \subseteq since'[v]
  BY <1>2 DEF LoaderInvariant, TypeOK
<1>5. UsersQueriedOnce' /\ PromisesKept'
  BY <1>1 DEF LoaderInvariant, UsersQueriedOnce, PromisesKept
<1>6. RolesFromTable'
  <2>1. \A v \in Ids : Current'[v] \subseteq since'[v] /\ since'[v] \subseteq held'[v]
    BY <1>2 DEF LoaderInvariant, TypeOK, RolesFromTable, Current
  <2>2. \A t \in tokens' : t.role \in held'[t.id]
    BY <1>1, <1>4 DEF LoaderInvariant, TypeOK, Token, RolesFromTable
  <2> QED
    BY <1>1, <2>1, <2>2 DEF LoaderInvariant, RolesFromTable
<1>7. LoadedSinceStart'
  BY <1>1, <1>4 DEF LoaderInvariant, LoadedSinceStart, Settled
<1>8. ServedWereEntitled'
  <2> SUFFICES ASSUME NEW r \in Requests, stage'[r] \in {"serving", "served"}
               PROVE  /\ ask'[r] # Nobody
                      /\ held'[ask'[r].token.id] \cap Allowed[ask'[r].route] # {}
    BY DEF ServedWereEntitled
  <2>1. /\ ask[r] # Nobody
        /\ held[ask[r].token.id] \cap Allowed[ask[r].route] # {}
    BY <1>1 DEF LoaderInvariant, ServedWereEntitled
  <2>2. ask[r].token.id \in Ids
    BY <2>1, AskFields DEF LoaderInvariant, TypeOK
  <2> QED
    BY <1>1, <1>4, <2>1, <2>2
<1> QED
  BY <1>1, <1>3, <1>5, <1>6, <1>7, <1>8 DEF LoaderInvariant

LEMMA RestartPreserves ==
  ASSUME LoaderInvariant, Restart
  PROVE  LoaderInvariant'
<1>1. UNCHANGED <<users, held, changes, tokens, ask>>
  BY DEF Restart, sent
<1>2. /\ faults' = faults + 1
      /\ cache' = [u \in Ids |-> Nobody]
      /\ batch' = {} /\ flights' = {}
      /\ stage' = [r \in Requests |-> IF waits[r] # Nobody THEN "lost" ELSE stage[r]]
      /\ waits' = [r \in Requests |-> Nobody]
      /\ since' = Current
  BY DEF Restart
<1>3. TypeOK'
  BY <1>1, <1>2 DEF LoaderInvariant, TypeOK, Stages, Current
<1>4. UsersQueriedOnce' /\ LoadedSinceStart'
  BY <1>2 DEF UsersQueriedOnce, LoadedSinceStart, Settled
<1>5. PromisesKept'
  BY <1>2 DEF LoaderInvariant, PromisesKept
<1>6. RolesFromTable'
  BY <1>1, <1>2 DEF LoaderInvariant, RolesFromTable, Current
<1>7. ServedWereEntitled'
  BY <1>1, <1>2 DEF LoaderInvariant, ServedWereEntitled
<1> QED
  BY <1>1, <1>2, <1>3, <1>4, <1>5, <1>6, <1>7 DEF LoaderInvariant

-----------------------------------------------------------------------------
\* LoaderInvariant holds in every state: the loader is consistent, nothing that
\* is awaited gets lost, and nobody without an entitled past is served.
THEOREM LoaderInvariantHolds == Spec => []LoaderInvariant
<1>1. ASSUME LoaderInvariant, [Next]_vars
      PROVE  LoaderInvariant'
  <2>1. CASE \E u \in Ids : SignIn(u)
    BY <1>1, <2>1, SignInPreserves
  <2>2. CASE \E r \in Requests : Refuse(r)
    BY <1>1, <2>2, RefusePreserves
  <2>3. CASE \E r \in Requests : Proceed(r)
    BY <1>1, <2>3, AuthorizePreserves, ServePreserves DEF Proceed
  <2>4. CASE \E r \in Requests : \E a \in Asks : Receive(r, a)
    BY <1>1, <2>4, ReceivePreserves
  <2>5. CASE Dispatch
    BY <1>1, <2>5, DispatchPreserves
  <2>6. CASE \E b \in SUBSET Ids : Find(b) \/ FindFails(b)
    BY <1>1, <2>6, FindPreserves, FindFailsPreserves
  <2>7. CASE \E u \in Ids, k \in Roles \cup {Nobody} : ChangeUser(u, k)
    BY <1>1, <2>7, ChangeUserPreserves
  <2>8. CASE Restart
    BY <1>1, <2>8, RestartPreserves
  <2>9. CASE UNCHANGED vars
    BY <1>1, <2>9
    DEF vars, LoaderInvariant, TypeOK, UsersQueriedOnce, PromisesKept, RolesFromTable,
        Current, LoadedSinceStart, Settled, ServedWereEntitled
  <2> QED
    BY <1>1, <2>1, <2>2, <2>3, <2>4, <2>5, <2>6, <2>7, <2>8, <2>9 DEF Next
<1> QED
  BY InitInvariant, <1>1, PTL DEF Spec

\* The loader never has two queries for one user under way, nor one for a user
\* whose promise it has settled.
THEOREM UsersAreQueriedOnce == Spec => []UsersQueriedOnce
<1>1. LoaderInvariant => UsersQueriedOnce
  BY DEF LoaderInvariant
<1> QED
  BY LoaderInvariantHolds, <1>1, PTL

\* However old, what the loader hands out is no older than its process.
THEOREM LoadedSinceTheStart == Spec => []LoadedSinceStart
<1>1. LoaderInvariant => LoadedSinceStart
  BY DEF LoaderInvariant
<1> QED
  BY LoaderInvariantHolds, <1>1, PTL

\* A promise that has been settled stays as it is, whatever is written to the
\* table and whichever query fails, until the process and all of its promises go.
SettledForGood ==
  [][\/ \A u \in Ids : Settled(u) => cache'[u] = cache[u]
     \/ cache' = [u \in Ids |-> Nobody] /\ faults' = faults + 1]_vars

\* All requests that one process serves are given the same version of a user.
THEOREM LoadedUsersStay == Spec => SettledForGood
<1> DEFINE Kept == \A u \in Ids : Settled(u) => cache'[u] = cache[u]
<1>1. ASSUME LoaderInvariant, NEW v, Load(v)
      PROVE  Kept
  BY <1>1 DEF Load, Settled, LoaderInvariant, TypeOK
<1>2. ASSUME LoaderInvariant, NEW b \in SUBSET Ids, Find(b) \/ FindFails(b)
      PROVE  Kept
  <2>1. \A u \in b : ~Settled(u)
    BY <1>2 DEF LoaderInvariant, UsersQueriedOnce, Find, FindFails, Settled
  <2> QED
    BY <1>2, <2>1 DEF Find, FindFails, RejectBatch, LoaderInvariant, TypeOK
<1>3. ASSUME LoaderInvariant, [Next]_vars
      PROVE  \/ Kept
             \/ cache' = [u \in Ids |-> Nobody] /\ faults' = faults + 1
  <2>1. CASE \E r \in Requests : Authorize(r) \/ \E a \in Asks : Receive(r, a)
    BY <1>1, <1>3, <2>1 DEF Authorize, Receive
  <2>2. CASE \E b \in SUBSET Ids : Find(b) \/ FindFails(b)
    BY <1>2, <1>3, <2>2
  <2>3. CASE Restart
    BY <2>3 DEF Restart
  <2>4. CASE UNCHANGED cache
    BY <2>4
  <2> QED
    BY <1>3, <2>1, <2>2, <2>3, <2>4
       DEF Next, vars, SignIn, Refuse, Proceed, Serve, Dispatch, ChangeUser
<1> QED
  BY <1>3, LoaderInvariantHolds, PTL DEF Spec, SettledForGood

=============================================================================
