------------------------------ MODULE Migration ------------------------------
(***************************************************************************)
(* The migration that makes the four tables, run and reverted by TypeORM's *)
(* command line.  Containers run `yarn mup && yarn start` and are started  *)
(* again when that fails; operators run `yarn mdn` once.  They all share   *)
(* one database and know nothing of each other.  Each runs up or down in   *)
(* one transaction, and a statement waits for the tables that another      *)
(* transaction has touched.  An object of the schema is a triple: its      *)
(* kind, its table, its column.                                            *)
(***************************************************************************)
EXTENDS Integers, Sequences

CONSTANTS
  Containers,  \* processes that run the migration until they can start
  Operators,   \* processes that revert it
  MaxFaults    \* bound on processes that die

ASSUME MigrationAssumption ==
  /\ Containers \cap Operators = {}
  /\ MaxFaults \in Nat

VARIABLES
  db,       \* the objects that are committed
  journal,  \* whether TypeORM's own table of executed migrations exists
  records,  \* the number of records in it
  stage,    \* stage[c]: how far the process has come
  at,       \* at[c]: the place in up or down of an open transaction
  mine,     \* mine[c]: what the transaction has created or dropped
  faults,   \* number of processes that have died
  crowded   \* history: processes that have run beside another

vars == <<db, journal, records, stage, at, mine, faults, crowded>>
-----------------------------------------------------------------------------
(* The schema *)

Table(t) == <<"table", t, "id">>
Fk(t, c) == <<"fk", t, c>>
Index(t, c) == <<"index", t, c>>
Seed(t) == <<"rows", t, "id">>
Links == <<"links", "invoices", "order_id">>

\* The order of up.
Up == <<
  Table("roles"), Table("users"), Table("invoices"), Table("orders"),
  Fk("users", "role_id"), Fk("invoices", "user_id"),
  Fk("invoices", "approved_by_role"), Fk("invoices", "order_id"),
  Fk("orders", "user_id"),
  Index("invoices", "user_id"), Index("invoices", "status"),
  Index("invoices", "approved_by_role"),
  Index("orders", "user_id"), Index("orders", "status"),
  Seed("roles"), Seed("users"), Seed("invoices"), Seed("orders"), Links>>

Schema == {Up[i] : i \in 1 .. Len(Up)}

Indexes == <<
  Index("invoices", "user_id"), Index("invoices", "status"),
  Index("invoices", "approved_by_role"),
  Index("orders", "user_id"), Index("orders", "status")>>

\* invoices.order_id is not among them: its table goes first.
ForeignKeys == <<
  Fk("users", "role_id"), Fk("invoices", "user_id"),
  Fk("invoices", "approved_by_role"), Fk("orders", "user_id")>>

\* Mutant: the roles are kept.
DownKeepingRoles ==
  Indexes \o ForeignKeys \o <<Table("invoices"), Table("orders"), Table("users")>>

\* Mutant: the order that the comment in down tells, the reverse of up's.
DownInReverse ==
  Indexes \o ForeignKeys \o
    <<Table("orders"), Table("invoices"), Table("users"), Table("roles")>>

\* The order of down.
Down ==
  Indexes \o ForeignKeys \o
    <<Table("invoices"), Table("orders"), Table("users"), Table("roles")>>

\* The table that a column of a foreign key refers to.
Target(c) == IF c = "user_id" THEN "users"
             ELSE IF c = "order_id" THEN "orders" ELSE "roles"

\* What has to be there: tables of keys, indexes and rows, and the rows that
\* columns which are not nullable refer to.
Needs(o) ==
  CASE o[1] = "table" -> {}
    [] o[1] = "fk" -> {Table(o[2]), Table(Target(o[3]))}
    [] o[1] = "rows" /\ o[2] = "users" -> {Table("users"), Seed("roles")}
    [] o[1] = "rows" /\ o[2] \in {"invoices", "orders"} -> {Table(o[2]), Seed("users")}
    [] o[1] = "links" -> {Table("invoices"), Table("orders")}
    [] OTHER -> {Table(o[2])}

\* What goes with an object that is dropped.
Takes(o) == IF o[1] = "table" THEN {p \in Schema : p[2] = o[2]} ELSE {o}

\* A table that another one refers to is not dropped.
Referenced(o, view) ==
  /\ o[1] = "table"
  /\ \E p \in view : p[1] = "fk" /\ p[2] # o[2] /\ Target(p[3]) = o[2]

-----------------------------------------------------------------------------
Clis == Containers \cup Operators

Busy == {"creating", "loading", "open"}
Stages == Busy \cup {"new", "done", "refused", "dead"}

Plan(c) == IF c \in Containers THEN Up ELSE Down

TypeOK ==
  /\ db \in SUBSET Schema
  /\ journal \in BOOLEAN
  /\ records \in Nat
  /\ stage \in [Clis -> Stages]
  /\ at \in [Clis -> 1 .. Len(Up) + 1]
  /\ mine \in [Clis -> SUBSET Schema]
  /\ faults \in Nat
  /\ crowded \in SUBSET Clis

Init ==
  /\ db = {}
  /\ journal = FALSE
  /\ records = 0
  /\ stage = [c \in Clis |-> "new"]
  /\ at = [c \in Clis |-> 1]
  /\ mine = [c \in Clis |-> {}]
  /\ faults = 0
  /\ crowded = {}

View(c) == IF c \in Containers THEN db \cup mine[c] ELSE db \ mine[c]

\* Another transaction has touched the table.
Locked(c, o) == \E d \in Clis \ {c} : \E p \in mine[d] : p[2] = o[2]

\* A statement that drops something looks for it first, without waiting.
Waits(c, o) == Locked(c, o) /\ (c \in Operators => o \in View(c))

\* A foreign key that is not there need not be dropped.
Accepted(c, o) ==
  IF c \in Containers
  THEN o \notin View(c) /\ Needs(o) \subseteq View(c)
  ELSE o[1] = "fk" \/ (o \in View(c) /\ ~Referenced(o, View(c)))

-----------------------------------------------------------------------------
(* MigrationExecutor *)

\* Does the table of executed migrations exist?
Connect(c) ==
  /\ stage[c] = "new"
  /\ stage' = [stage EXCEPT ![c] = IF journal THEN "loading" ELSE "creating"]
  /\ LET others == {d \in Clis \ {c} : stage[d] \in Busy}
     IN  crowded' = IF others = {} THEN crowded \ {c}
                                   ELSE crowded \cup others \cup {c}
  /\ UNCHANGED <<db, journal, records, at, mine, faults>>

\* It is created outside of the transaction, and refused to whoever comes late.
CreateJournal(c) ==
  /\ stage[c] = "creating"
  /\ stage' = [stage EXCEPT ![c] = IF journal THEN "refused" ELSE "loading"]
  /\ journal' = TRUE
  /\ UNCHANGED <<db, records, at, mine, faults, crowded>>

\* Mutant: what has been run is not looked at.
LoadAll(c) ==
  /\ stage[c] = "loading"
  /\ stage' = [stage EXCEPT ![c] = "open"]
  /\ UNCHANGED <<db, journal, records, at, mine, faults, crowded>>

\* Is there a migration to run, or to revert?
LoadExecuted(c) ==
  /\ stage[c] = "loading"
  /\ LET pending == IF c \in Containers THEN records = 0 ELSE records > 0
     IN  stage' = [stage EXCEPT ![c] = IF pending THEN "open" ELSE "done"]
  /\ UNCHANGED <<db, journal, records, at, mine, faults, crowded>>

\* Mutant: without a transaction.
ExecuteAtOnce(c) ==
  /\ stage[c] = "open"
  /\ at[c] <= Len(Plan(c))
  /\ LET o == Plan(c)[at[c]]
     IN  /\ ~Waits(c, o)
         /\ Accepted(c, o)
         /\ db' = IF c \in Containers THEN db \cup {o} ELSE db \ Takes(o)
  /\ at' = [at EXCEPT ![c] = @ + 1]
  /\ UNCHANGED <<journal, records, stage, mine, faults, crowded>>

\* The next statement of up or down.
Execute(c) ==
  /\ stage[c] = "open"
  /\ at[c] <= Len(Plan(c))
  /\ LET o == Plan(c)[at[c]]
     IN  /\ ~Waits(c, o)
         /\ Accepted(c, o)
         /\ mine' = [mine EXCEPT ![c] =
                       @ \cup IF c \in Containers THEN {o} ELSE Takes(o)]
  /\ at' = [at EXCEPT ![c] = @ + 1]
  /\ UNCHANGED <<db, journal, records, stage, faults, crowded>>

\* A statement that fails rolls the transaction back and ends the command.
Refuse(c) ==
  /\ stage[c] = "open"
  /\ at[c] <= Len(Plan(c))
  /\ LET o == Plan(c)[at[c]] IN ~Waits(c, o) /\ ~Accepted(c, o)
  /\ stage' = [stage EXCEPT ![c] = "refused"]
  /\ mine' = [mine EXCEPT ![c] = {}]
  /\ at' = [at EXCEPT ![c] = 1]
  /\ UNCHANGED <<db, journal, records, faults, crowded>>

\* The record of the migration is part of the transaction.
Commit(c) ==
  /\ stage[c] = "open"
  /\ at[c] > Len(Plan(c))
  /\ db' = View(c)
  /\ records' = IF c \in Containers THEN records + 1 ELSE 0
  /\ stage' = [stage EXCEPT ![c] = "done"]
  /\ mine' = [mine EXCEPT ![c] = {}]
  /\ at' = [at EXCEPT ![c] = 1]
  /\ UNCHANGED <<journal, faults, crowded>>

\* The process dies, and the database rolls its transaction back.  A container
\* may also die later: when `yarn test` fails, which comes before `yarn start`, or
\* when the program crashes.
Die(c) ==
  /\ stage[c] \in Busy \/ (stage[c] = "done" /\ c \in Containers)
  /\ faults < MaxFaults
  /\ faults' = faults + 1
  /\ stage' = [stage EXCEPT ![c] = "dead"]
  /\ mine' = [mine EXCEPT ![c] = {}]
  /\ at' = [at EXCEPT ![c] = 1]
  /\ UNCHANGED <<db, journal, records, crowded>>

\* A container is started again (restart: always) and migrates again.
Restart(c) ==
  /\ c \in Containers
  /\ stage[c] \in {"refused", "dead"}
  /\ stage' = [stage EXCEPT ![c] = "new"]
  /\ UNCHANGED <<db, journal, records, at, mine, faults, crowded>>

-----------------------------------------------------------------------------
Proceed(c) ==
  \/ Connect(c) \/ CreateJournal(c) \/ LoadExecuted(c)
  \/ Execute(c) \/ Refuse(c) \/ Commit(c) \/ Restart(c)

Next == \E c \in Clis : Proceed(c) \/ Die(c)

Spec == Init /\ [][Next]_vars

\* Statements are answered and containers restarted; nobody has to revert.
FairSpec ==
  /\ Spec
  /\ \A c \in Containers : WF_vars(Proceed(c))
  /\ \A o \in Operators : WF_vars(stage[o] # "new" /\ Proceed(o))

-----------------------------------------------------------------------------
(* Properties *)

\* The schema that requests see is all of it or nothing, and recorded once or
\* not at all, however many processes run and revert the migration at once.
AllOrNothing ==
  \/ db = {} /\ records = 0
  \/ db = Schema /\ records = 1

\* A process whose transaction has done something is where it should be, and it
\* is the only one.
Holds(c) ==
  /\ stage[c] # "open" => at[c] = 1
  /\ at[c] = 1 => mine[c] = {}
  /\ at[c] > 1 =>
       IF c \in Containers
       THEN db = {} /\ mine[c] = {Up[i] : i \in 1 .. at[c] - 1}
       ELSE /\ db = Schema
            /\ at[c] <= Len(Down) + 1
            /\ \A i \in 1 .. at[c] - 1 : Takes(Down[i]) \subseteq mine[c]

OneAtWork == \A c, d \in Clis : mine[c] # {} /\ mine[d] # {} => c = d

\* Inductive: what the theorems of MigrationProofs rest on.
MigrationInvariant ==
  /\ TypeOK
  /\ AllOrNothing
  /\ \A c \in Clis : Holds(c)
  /\ OneAtWork

\* No statement of up or down is refused to a process that runs alone: each
\* finds what it needs, and no table is dropped that another refers to
\* ("to avoid foreign key violations", as down's comment has it).
AloneSucceeds ==
  \A c \in Clis : stage[c] = "refused" => c \in crowded

\* Every container gets past its migration, to its tests and its start, whoever it
\* meets at the database.
ContainersStart ==
  \A c \in Containers : <>(stage[c] = "done")
=============================================================================
