------------------------------ MODULE PagedList ------------------------------
(***************************************************************************)
(* Walks through a list endpoint, page after page, by page and limit.      *)
(* queryResults (utility-functions.helper.ts) reads a page by its offset   *)
(* and the total by a statement of its own; RedisDecorator keeps each page *)
(* under a key of its own, so that the pages of a list age apart.  Rows    *)
(* come into the list at any place, as ids are given out before they are   *)
(* committed, leave it when an update makes them fail its filter, and are  *)
(* moved in it when an update changes what the client has it ordered by.   *)
(*                                                                         *)
(* The order is taken to be strict, as that by id is.  Which keys expire   *)
(* or are invalidated together is ListCache's; here it is any set of them. *)
(***************************************************************************)
EXTENDS Naturals, Sequences, SequencesExt

CONSTANTS
  Clients,     \* clients that walk through the list, one page at a time
  Rows,        \* rows that may come into the list
  Limit,       \* the parameter limit of every call
  MaxPage,     \* bound on the pages a client asks for
  MaxUpdates,  \* bound on the listed rows that are updated
  MaxFails,    \* bound on the calls that fail
  Nothing      \* a Redis miss

VARIABLES
  table,   \* the rows of the list, first row first
  updated, \* the rows that have been updated while they were listed
  cache,   \* cache[p]: the response stored for page p, or Nothing
  doing,   \* doing[c]: the command or statement that c's call is about to issue
  held,    \* held[c]: the response c's call is putting together
  walk,    \* walk[c]: what c has of its walk so far
  steady,  \* history: walks of which no row has moved up from page to page
  hit,     \* history: walks with a page from the cache
  shifted, \* history: walks during which a row has left the list, or its place
  fails    \* number of calls that have failed

vars == <<table, updated, cache, doing, held, walk, steady, hit, shifted, fails>>

Pages == 1 .. MaxPage

\* at is the list that the page was read from; grown, whether each of its rows
\* was still there, and not further up, when the total was counted.
Response == [rows : Seq(Rows), total : Nat, at : Seq(Rows), grown : BOOLEAN]

\* start and last are the lists that the first and the last page were read from.
Walk == [pages : Nat, rows : Nat, seen : SUBSET Rows,
         start : Seq(Rows), last : Seq(Rows)]

ASSUME PagingAssumption ==
  /\ Limit \in Nat \ {0}
  /\ MaxPage \in Nat \ {0}
  /\ MaxUpdates \in Nat
  /\ MaxFails \in Nat
  /\ Nothing \notin Response
  /\ IsFiniteSet(Rows)

NoWalk == [pages |-> 0, rows |-> 0, seen |-> {}, start |-> <<>>, last |-> <<>>]

TypeOK ==
  /\ table \in Seq(Rows)
  /\ updated \in SUBSET Rows
  /\ cache \in [Pages -> Response \cup {Nothing}]
  /\ doing \in [Clients -> {"idle", "get", "page", "count", "setEx", "done"}]
  /\ held \in [Clients -> Response \cup {Nothing}]
  /\ walk \in [Clients -> Walk]
  /\ steady \in SUBSET Clients
  /\ hit \in SUBSET Clients
  /\ shifted \in SUBSET Clients
  /\ fails \in Nat

Init ==
  /\ table = <<>>
  /\ updated = {}
  /\ cache = [p \in Pages |-> Nothing]
  /\ doing = [c \in Clients |-> "idle"]
  /\ held = [c \in Clients |-> Nothing]
  /\ walk = [c \in Clients |-> NoWalk]
  /\ steady = {}
  /\ hit = {}
  /\ shifted = {}
  /\ fails = 0

Listed == ToSet(table)

\* No row of s has left by t, or moved up.
OnlyDown(s, t) == \A i \in 1 .. Len(s) : \E j \in i .. Len(t) : t[j] = s[i]

-----------------------------------------------------------------------------
(* The table *)

\* An insertion, or an update after which x passes the filter of the list.
ComeIn(x) ==
  /\ x \in Rows \ (Listed \cup updated)
  /\ \E i \in 1 .. Len(table) + 1 : table' = InsertAt(table, i, x)
  /\ UNCHANGED <<updated, cache, doing, held, walk, steady, hit, shifted, fails>>

\* The second save of createOrder changes status and updatedAt of x, once; s is
\* the list as it is then.
Update(x, s) ==
  /\ x \in Listed \ updated
  /\ Cardinality(updated) < MaxUpdates
  /\ table' = s
  /\ updated' = updated \cup {x}
  /\ shifted' = shifted \cup {c \in Clients : doing[c] \notin {"idle", "done"}}
  /\ UNCHANGED <<cache, doing, held, walk, steady, hit, fails>>

\* x fails the filter of the list from now on.
Leave(x) ==
  \E i \in 1 .. Len(table) : table[i] = x /\ Update(x, RemoveAt(table, i))

\* x goes to another place, as the list is ordered by a column that has changed.
\* Up or down, a row moves up by it.
Move(x) ==
  \E i, j \in 1 .. Len(table) :
    /\ table[i] = x
    /\ i # j
    /\ Update(x, InsertAt(RemoveAt(table, i), j, x))

-----------------------------------------------------------------------------
(* queryResults behind RedisDecorator *)

\* Mutant: pages are counted from 0.
OffsetFromZero(p) == p * Limit

\* Mutant: each page begins with the last row of the one before.
OffsetOverlapping(p) == (p - 1) * (Limit - 1)

Offset(p) == (p - 1) * Limit

\* take and skip.
Page(s, p) ==
  LET end == Offset(p) + Limit
  IN  SubSeq(s, Offset(p) + 1, IF end < Len(s) THEN end ELSE Len(s))

\* The page that the client asks for.
Asked(c) == walk[c].pages + 1

\* Mutant: a full page is taken for the last one.
DerivedFromAny(p, rows) == rows # <<>> \/ p = 1

\* getManyAndCount needs no statement to count what a short page has shown.
Derived(p, rows) == Len(rows) < Limit /\ (rows # <<>> \/ p = 1)

\* A client that has a page asks for the next one unless total says that there
\* is none.
Answered(c, e) ==
  LET w == walk[c]
      p == Asked(c)
  IN  /\ walk' = [walk EXCEPT ![c] =
           [pages |-> p,
            rows  |-> w.rows + Len(e.rows),
            seen  |-> w.seen \cup ToSet(e.rows),
            start |-> IF p = 1 THEN e.at ELSE w.start,
            last  |-> e.at]]
      /\ steady' = IF e.grown /\ (p = 1 \/ OnlyDown(w.last, e.at))
                   THEN steady ELSE steady \ {c}
      /\ doing' = [doing EXCEPT ![c] = CASE p * Limit >= e.total -> "done"
                                         [] p * Limit < e.total /\ p < MaxPage -> "get"
                                         [] OTHER -> "idle"]

\* The client begins a walk, perhaps not its first.
Begin(c) ==
  /\ doing[c] \in {"idle", "done"}
  /\ doing' = [doing EXCEPT ![c] = "get"]
  /\ walk' = [walk EXCEPT ![c] = NoWalk]
  /\ steady' = steady \cup {c}
  /\ hit' = hit \ {c}
  /\ shifted' = shifted \ {c}
  /\ UNCHANGED <<table, updated, cache, held, fails>>

Get(c) ==
  /\ doing[c] = "get"
  /\ \/ /\ cache[Asked(c)] = Nothing
        /\ doing' = [doing EXCEPT ![c] = "page"]
        /\ UNCHANGED <<walk, steady, hit>>
     \/ /\ cache[Asked(c)] # Nothing
        /\ Answered(c, cache[Asked(c)])
        /\ hit' = hit \cup {c}
  /\ UNCHANGED <<table, updated, cache, held, shifted, fails>>

\* Mutant: the statement has no ORDER BY.
ReadPageUnordered(c) ==
  /\ doing[c] = "page"
  /\ \E s \in {t \in [1 .. Len(table) -> Listed] : IsInjective(t)} :
       LET rows == Page(s, Asked(c))
       IN  /\ held' = [held EXCEPT ![c] =
                [rows |-> rows, total |-> Offset(Asked(c)) + Len(rows),
                 at |-> s, grown |-> TRUE]]
           /\ doing' = [doing EXCEPT ![c] =
                IF Derived(Asked(c), rows) THEN "setEx" ELSE "count"]
  /\ UNCHANGED <<table, updated, cache, walk, steady, hit, shifted, fails>>

ReadPage(c) ==
  /\ doing[c] = "page"
  /\ LET rows == Page(table, Asked(c))
     IN  /\ held' = [held EXCEPT ![c] =
              [rows |-> rows, total |-> Offset(Asked(c)) + Len(rows),
               at |-> table, grown |-> TRUE]]
         /\ doing' = [doing EXCEPT ![c] =
              IF Derived(Asked(c), rows) THEN "setEx" ELSE "count"]
  /\ UNCHANGED <<table, updated, cache, walk, steady, hit, shifted, fails>>

Count(c) ==
  /\ doing[c] = "count"
  /\ held' = [held EXCEPT ![c].total = Len(table),
                          ![c].grown = OnlyDown(held[c].at, table)]
  /\ doing' = [doing EXCEPT ![c] = "setEx"]
  /\ UNCHANGED <<table, updated, cache, walk, steady, hit, shifted, fails>>

\* Whatever another call has stored for the page in the meantime.
Store(c) ==
  /\ doing[c] = "setEx"
  /\ cache' = [cache EXCEPT ![Asked(c)] = held[c]]
  /\ Answered(c, held[c])
  /\ held' = [held EXCEPT ![c] = Nothing]
  /\ UNCHANGED <<table, updated, hit, shifted, fails>>

\* A statement or a command fails, sAdd once setEx is done among them: the
\* client asks again, or no more.
Fail(c) ==
  /\ fails < MaxFails
  /\ doing[c] \notin {"idle", "done"}
  /\ \E d \in {"get", "idle"} : doing' = [doing EXCEPT ![c] = d]
  /\ \/ UNCHANGED cache
     \/ doing[c] = "setEx" /\ cache' = [cache EXCEPT ![Asked(c)] = held[c]]
  /\ held' = [held EXCEPT ![c] = Nothing]
  /\ fails' = fails + 1
  /\ UNCHANGED <<table, updated, walk, steady, hit, shifted>>

\* Pages expire or are invalidated.
Forget(P) ==
  /\ \A p \in P : cache[p] # Nothing
  /\ P # {}
  /\ cache' = [p \in Pages |-> IF p \in P THEN Nothing ELSE cache[p]]
  /\ UNCHANGED <<table, updated, doing, held, walk, steady, hit, shifted, fails>>

-----------------------------------------------------------------------------
Next ==
  \/ \E x \in Rows : ComeIn(x) \/ Leave(x) \/ Move(x)
  \/ \E c \in Clients : \/ Begin(c) \/ Get(c) \/ ReadPage(c) \/ Count(c)
                        \/ Store(c) \/ Fail(c)
  \/ \E P \in SUBSET Pages : Forget(P)

Spec == Init /\ [][Next]_vars

-----------------------------------------------------------------------------
(* Properties *)

\* A response holds the page of the list it was read from; if every row was
\* still there when total was counted, total is not too small for it.
Fits(e, p) ==
  /\ IsInjective(e.at)
  /\ e.rows = Page(e.at, p)

ResponsesFit ==
  /\ IsInjective(table)
  /\ \A p \in Pages : cache[p] # Nothing =>
       Fits(cache[p], p) /\ (cache[p].grown => cache[p].total >= Len(cache[p].at))
  /\ \A c \in Clients : doing[c] \in {"count", "setEx"} =>
       held[c] # Nothing /\ Fits(held[c], Asked(c))
  /\ \A c \in Clients : doing[c] = "setEx" /\ held[c].grown =>
       held[c].total >= Len(held[c].at)

\* The rows of the first page's list that a steady walk has not shown are in
\* the last page's list below that page; and it has shown no more rows than
\* there are on its pages, and in that list.
Shown(w) ==
  /\ \A i \in 1 .. Len(w.start) :
       \/ w.start[i] \in w.seen
       \/ \E j \in w.pages * Limit + 1 .. Len(w.last) : w.last[j] = w.start[i]
  /\ w.rows <= w.pages * Limit
  /\ w.rows <= Len(w.last)

WalksFollow ==
  \A c \in Clients :
    /\ IsInjective(walk[c].last)
    /\ doing[c] \notin {"idle", "done"} => walk[c].pages < MaxPage
    /\ c \in steady => Shown(walk[c])
    /\ c \in steady /\ doing[c] = "done" =>
         walk[c].pages * Limit >= Len(walk[c].last)

\* As long as every page is queried, and no row leaves nor is moved by an update,
\* none moves up from one statement of the walk to the next.
QueriesFollow ==
  \A c \in Clients \ (hit \cup shifted) :
    /\ doing[c] # "idle" => c \in steady
    /\ doing[c] \notin {"idle", "done"} => OnlyDown(walk[c].last, table)
    /\ doing[c] \in {"count", "setEx"} =>
         OnlyDown(walk[c].last, held[c].at) /\ OnlyDown(held[c].at, table)
    /\ doing[c] = "setEx" => held[c].grown

\* What a response says fits the list it was read from, and what a walk has
\* shown fits its responses: the inductive invariant.
PagingInvariant == TypeOK /\ ResponsesFit /\ WalksFollow /\ QueriesFollow

\* A steady walk that has come to its end has shown every row that was listed
\* when its first page was read: rows that come in move others down, to where
\* they are shown again, never up past the client.
NothingSkipped ==
  \A c \in steady : doing[c] = "done" => ToSet(walk[c].start) \subseteq walk[c].seen

\* A walk is steady, whatever comes in and whatever other clients store, unless
\* it has a page from the cache, or a row has left the list or been moved in it by
\* an update meanwhile.
QueriedWalksAreSteady ==
  \A c \in Clients : doing[c] # "idle" => c \in steady \cup hit \cup shifted

\* A steady walk shows rows again no more often than rows have come in since
\* its first page.
RepeatsBounded ==
  \A c \in steady :
    walk[c].rows <= Cardinality(walk[c].seen)
                     + Cardinality(ToSet(walk[c].last) \ ToSet(walk[c].start))
=============================================================================
