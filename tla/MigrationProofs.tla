--------------------------- MODULE MigrationProofs ---------------------------
(***************************************************************************)
(* MigrationInvariant is an invariant of Migration for any number of       *)
(* containers, operators and faults, and so is that the schema is all of   *)
(* it or nothing.                                                          *)
(***************************************************************************)
EXTENDS Migration, TLAPS

USE MigrationAssumption

\* The facts about up and down that the argument rests on.
LEMMA UpFacts ==
  /\ Len(Up) = 19
  /\ Up[1] = Table("roles")
  /\ \A i \in 1 .. 19 : Up[i] \in Schema
  /\ Schema = {Up[i] : i \in 1 .. 19}
<1>1. Len(Up) = 19
  BY DEF Up
<1>2. Up[1] = Table("roles")
  BY DEF Up
<1> QED
  BY <1>1, <1>2 DEF Schema

LEMMA DownFacts ==
  /\ Len(Down) = 13
  /\ Down[1] = Index("invoices", "user_id")
  /\ Down[10] = Table("invoices")
  /\ Down[11] = Table("orders")
  /\ Down[12] = Table("users")
  /\ Down[13] = Table("roles")
BY DEF Down, Indexes, ForeignKeys

\* Every object is on one of the tables that down drops.
LEMMA FourTables ==
  \A o \in Schema : o[2] \in {"roles", "users", "invoices", "orders"}
<1> SUFFICES ASSUME NEW i \in 1 .. 19
             PROVE  Up[i][2] \in {"roles", "users", "invoices", "orders"}
  BY UpFacts
<1>1. CASE i \in 1 .. 9
  BY <1>1 DEF Up, Table, Fk
<1>2. CASE i \in 10 .. 19
  BY <1>2 DEF Up, Index, Seed, Links
<1> QED
  BY <1>1, <1>2

\* Once down has gone through its steps, nothing is left.
LEMMA DownCovers ==
  ASSUME NEW S, \A i \in 1 .. 13 : Takes(Down[i]) \subseteq S
  PROVE  Schema \subseteq S
<1> SUFFICES ASSUME NEW o \in Schema PROVE o \in S
  OBVIOUS
<1>1. /\ o \in Takes(Table("roles")) \/ o \in Takes(Table("users"))
         \/ o \in Takes(Table("invoices")) \/ o \in Takes(Table("orders"))
  BY FourTables DEF Takes, Table
<1>2. /\ Takes(Down[10]) \subseteq S
      /\ Takes(Down[11]) \subseteq S
      /\ Takes(Down[12]) \subseteq S
      /\ Takes(Down[13]) \subseteq S
  OBVIOUS
<1> QED
  BY <1>1, <1>2, DownFacts

\* The first statement of down is about the invoices, and finds its index only
\* in a schema that is there.
LEMMA FirstOfDown ==
  /\ Takes(Down[1]) = {Down[1]}
  /\ Down[1][1] = "index"
  /\ Down[1][2] = "invoices"
BY DownFacts DEF Takes, Index

LEMMA DownInSchema ==
  \A i \in 1 .. 13 : Down[i] \in Schema
<1> SUFFICES ASSUME NEW i \in 1 .. 13 PROVE Down[i] \in Schema
  OBVIOUS
<1>1. /\ Up[1] \in Schema /\ Up[2] \in Schema /\ Up[3] \in Schema /\ Up[4] \in Schema
      /\ Up[5] \in Schema /\ Up[6] \in Schema /\ Up[7] \in Schema /\ Up[9] \in Schema
      /\ Up[10] \in Schema /\ Up[11] \in Schema /\ Up[12] \in Schema
      /\ Up[13] \in Schema /\ Up[14] \in Schema
  BY UpFacts
<1>2. Down[i] \in {Up[1], Up[2], Up[3], Up[4], Up[5], Up[6], Up[7], Up[9],
                   Up[10], Up[11], Up[12], Up[13], Up[14]}
  BY DEF Down, Indexes, ForeignKeys, Up
<1> QED
  BY <1>1, <1>2

LEMMA TakesInSchema ==
  ASSUME NEW o \in Schema
  PROVE  Takes(o) \subseteq Schema
BY DEF Takes

-----------------------------------------------------------------------------
LEMMA InitInvariant == Init => MigrationInvariant
<1> SUFFICES ASSUME Init PROVE MigrationInvariant
  OBVIOUS
<1>1. TypeOK
  <2>1. 1 \in 1 .. Len(Up) + 1
    BY UpFacts
  <2>2. at \in [Clis -> 1 .. Len(Up) + 1]
    BY <2>1 DEF Init
  <2> QED
    BY <2>2 DEF Init, TypeOK, Stages
<1> QED
  BY <1>1 DEF Init, Clis, MigrationInvariant, AllOrNothing, Holds, OneAtWork

\* A process without a transaction, before or after.
LEMMA OutsidePreserves ==
  ASSUME MigrationInvariant, TypeOK', NEW c \in Clis,
         UNCHANGED <<db, records, at, mine>>,
         \A d \in Clis : stage'[d] # stage[d] => at[d] = 1
  PROVE  MigrationInvariant'
<1>1. AllOrNothing' /\ OneAtWork'
  BY DEF MigrationInvariant, AllOrNothing, OneAtWork
<1>2. ASSUME NEW d \in Clis PROVE Holds(d)'
  <2>1. CASE stage'[d] = stage[d]
    BY <2>1 DEF MigrationInvariant, Holds
  <2>2. CASE stage'[d] # stage[d]
    BY <2>2 DEF MigrationInvariant, Holds
  <2> QED
    BY <2>1, <2>2
<1> QED
  BY <1>1, <1>2 DEF MigrationInvariant

\* A process whose transaction comes to its end, and what it leaves behind.
LEMMA EndPreserves ==
  ASSUME MigrationInvariant, TypeOK', NEW c \in Clis,
         at' = [at EXCEPT ![c] = 1], mine' = [mine EXCEPT ![c] = {}],
         \A d \in Clis \ {c} : stage'[d] = stage[d],
         AllOrNothing',
         UNCHANGED <<db, records>> \/ \A d \in Clis \ {c} : at[d] = 1
  PROVE  MigrationInvariant'
<1>1. OneAtWork'
  BY DEF MigrationInvariant, TypeOK, OneAtWork
<1>2. ASSUME NEW d \in Clis PROVE Holds(d)'
  <2>1. CASE d = c
    BY <2>1 DEF MigrationInvariant, TypeOK, Holds
  <2>2. CASE d # c /\ at[d] = 1
    BY <2>2 DEF MigrationInvariant, TypeOK, Holds
  <2>3. CASE d # c /\ at[d] # 1
    <3>1. db' = db /\ at'[d] = at[d] /\ mine'[d] = mine[d] /\ stage'[d] = stage[d]
      BY <2>3 DEF MigrationInvariant, TypeOK
    <3> QED
      BY <2>3, <3>1 DEF MigrationInvariant, Holds
  <2> QED
    BY <2>1, <2>2, <2>3
<1> QED
  BY <1>1, <1>2 DEF MigrationInvariant

\* Whoever has begun has touched a table that everybody begins with.
LEMMA BegunHasTouched ==
  ASSUME MigrationInvariant, NEW d \in Clis, at[d] # 1
  PROVE  /\ d \in Containers => db = {} /\ Up[1] \in mine[d]
         /\ d \notin Containers => db = Schema /\ Down[1] \in mine[d]
<1>1. at[d] \in 1 .. 20
  BY UpFacts DEF MigrationInvariant, TypeOK
<1>2. at[d] > 1 /\ 1 \in 1 .. at[d] - 1
  BY <1>1
<1>3. CASE d \in Containers
  <2>1. db = {} /\ mine[d] = {Up[i] : i \in 1 .. at[d] - 1}
    BY <1>2, <1>3 DEF MigrationInvariant, Holds
  <2> QED
    BY <1>2, <1>3, <2>1
<1>4. CASE d \notin Containers
  <2>1. db = Schema /\ \A i \in 1 .. at[d] - 1 : Takes(Down[i]) \subseteq mine[d]
    BY <1>2, <1>4 DEF MigrationInvariant, Holds
  <2>2. Takes(Down[1]) \subseteq mine[d]
    BY <1>2, <2>1
  <2> QED
    BY <1>4, <2>1, <2>2, FirstOfDown
<1> QED
  BY <1>3, <1>4

\* Those who have not begun hold nothing, and the others hold something.
LEMMA BegunOrNot ==
  ASSUME MigrationInvariant, NEW d \in Clis
  PROVE  at[d] = 1 <=> mine[d] = {}
<1>1. at[d] = 1 => mine[d] = {}
  BY DEF MigrationInvariant, Holds
<1>2. at[d] # 1 => mine[d] # {}
  BY BegunHasTouched
<1> QED
  BY <1>1, <1>2

LEMMA OnTheFirstTables ==
  /\ Up[1][2] = "roles"
  /\ Up[1] \in Schema /\ Down[1] \in Schema
BY UpFacts, DownFacts, DownInSchema DEF Table

LEMMA PlanLength ==
  ASSUME NEW c
  PROVE  /\ c \in Containers => Plan(c) = Up /\ Len(Plan(c)) = 19
         /\ c \notin Containers => Plan(c) = Down /\ Len(Plan(c)) = 13
<1>1. c \in Containers => Plan(c) = Up
  BY DEF Plan
<1>2. c \notin Containers => Plan(c) = Down
  BY DEF Plan
<1>3. Len(Up) = 19 /\ Len(Down) = 13
  BY UpFacts, DownFacts
<1> QED
  BY <1>1, <1>2, <1>3

LEMMA AtRange ==
  ASSUME MigrationInvariant, NEW c \in Clis
  PROVE  at[c] \in 1 .. 20
<1>1. Len(Up) + 1 = 20
  BY UpFacts
<1> QED
  BY <1>1 DEF MigrationInvariant, TypeOK

LEMMA PlanEnds ==
  ASSUME MigrationInvariant, NEW c \in Clis
  PROVE  /\ at[c] <= Len(Plan(c)) =>
              at[c] \in IF c \in Containers THEN 1 .. 19 ELSE 1 .. 13
         /\ at[c] > Len(Plan(c)) =>
              at[c] = IF c \in Containers THEN 20 ELSE 14
<1>1. at[c] \in 1 .. 20
  BY AtRange
<1>2. CASE c \in Containers
  <2>1. Len(Plan(c)) = 19
    BY <1>2, PlanLength
  <2> QED
    BY <1>1, <1>2, <2>1
<1>3. CASE c \notin Containers
  <2>1. Len(Plan(c)) = 13
    BY <1>3, PlanLength
  <2>2. at[c] <= 14
    <3>1. Len(Down) = 13
      BY DownFacts
    <3>2. at[c] > 1 => at[c] <= Len(Down) + 1
      BY <1>3 DEF MigrationInvariant, Holds
    <3> QED
      BY <1>1, <3>1, <3>2
  <2> QED
    BY <1>1, <1>3, <2>1, <2>2
<1> QED
  BY <1>2, <1>3

\* A statement is carried out only if no other transaction has begun.
LEMMA AloneInside ==
  ASSUME MigrationInvariant, NEW c \in Clis, Execute(c), NEW d \in Clis \ {c}
  PROVE  mine[d] = {} /\ at[d] = 1
<1> SUFFICES ASSUME at[d] # 1 PROVE FALSE
  BY BegunOrNot
<1>1. mine[d] # {} /\ mine[c] = {}
  BY BegunOrNot DEF MigrationInvariant, OneAtWork
<1>2. at[c] = 1
  BY <1>1, BegunOrNot
<1>3. CASE c \in Containers
  <2>1. ~Locked(c, Up[1]) /\ Up[1] \notin db
    BY <1>1, <1>2, <1>3 DEF Execute, Plan, Waits, Accepted, View, Clis, MigrationAssumption
  <2>2. db # Schema
    BY <2>1, OnTheFirstTables
  <2>3. d \in Containers /\ Up[1] \in mine[d]
    BY <2>2, BegunHasTouched
  <2> QED
    BY <2>1, <2>3 DEF Locked
<1>4. CASE c \notin Containers
  <2>1. c \in Operators /\ Plan(c) = Down
    BY <1>4 DEF Clis, Plan
  <2>2. View(c) = db
    BY <1>1, <1>4 DEF View
  <2>3. ~Waits(c, Down[1]) /\ Accepted(c, Down[1])
    BY <1>2, <2>1 DEF Execute
  <2>4. Down[1] \in db
    BY <1>4, <2>2, <2>3, FirstOfDown DEF Accepted
  <2>5. ~Locked(c, Down[1])
    BY <2>1, <2>2, <2>3, <2>4 DEF Waits
  <2>6. d \notin Containers /\ Down[1] \in mine[d]
    BY <2>4, BegunHasTouched
  <2> QED
    BY <2>5, <2>6 DEF Locked
<1> QED
  BY <1>3, <1>4

LEMMA ExecutePreserves ==
  ASSUME MigrationInvariant, NEW c \in Clis, Execute(c)
  PROVE  MigrationInvariant'
<1> DEFINE o == Plan(c)[at[c]]
<1>1. /\ stage[c] = "open"
      /\ at[c] <= Len(Plan(c))
      /\ Accepted(c, o)
      /\ mine' = [mine EXCEPT ![c] = @ \cup IF c \in Containers THEN {o} ELSE Takes(o)]
      /\ at' = [at EXCEPT ![c] = @ + 1]
      /\ UNCHANGED <<db, journal, records, stage, faults, crowded>>
  BY DEF Execute
<1>2. at[c] \in IF c \in Containers THEN 1 .. 19 ELSE 1 .. 13
  BY <1>1, PlanEnds
<1>3. \A d \in Clis \ {c} : mine[d] = {} /\ at[d] = 1 /\ mine'[d] = {} /\ at'[d] = 1
  BY <1>1, AloneInside DEF MigrationInvariant, TypeOK
<1>4. o \in Schema
  <2>1. CASE c \in Containers
    <3>1. at[c] \in 1 .. 19 /\ o = Up[at[c]]
      BY <1>2, <2>1, PlanLength
    <3> QED
      BY <3>1, UpFacts
  <2>2. CASE c \notin Containers
    <3>1. at[c] \in 1 .. 13 /\ o = Down[at[c]]
      BY <1>2, <2>2, PlanLength
    <3> QED
      BY <3>1, DownInSchema
  <2> QED
    BY <2>1, <2>2
<1> HIDE DEF o
<1>5. at[c] \in 1 .. 19 /\ at'[c] = at[c] + 1 /\ at[c] \in Nat
  <2>1. at[c] \in 1 .. 20 /\ at[c] <= 19
    BY <1>2
  <2>2. at'[c] = at[c] + 1
    BY <1>1 DEF MigrationInvariant, TypeOK
  <2> QED
    BY <2>1, <2>2
<1>6. TypeOK'
  <2>1. mine' \in [Clis -> SUBSET Schema]
    BY <1>1, <1>4, TakesInSchema DEF MigrationInvariant, TypeOK
  <2>2. at' \in [Clis -> 1 .. Len(Up) + 1]
    <3>1. at[c] + 1 \in 1 .. Len(Up) + 1
      BY <1>5, UpFacts
    <3> QED
      BY <1>1, <3>1 DEF MigrationInvariant, TypeOK
  <2> QED
    BY <1>1, <2>1, <2>2 DEF MigrationInvariant, TypeOK
<1>7. AllOrNothing'
  BY <1>1 DEF MigrationInvariant, AllOrNothing
<1>8. OneAtWork'
  BY <1>3 DEF OneAtWork
<1>9. Holds(c)'
  <2>1. stage'[c] = "open" /\ at'[c] > 1
    BY <1>1, <1>5
  <2>2. CASE c \in Containers
    <3>1. mine'[c] = mine[c] \cup {Up[at[c]]}
      BY <1>1, <2>2 DEF o, Plan, MigrationInvariant, TypeOK
    <3>2. mine[c] = {Up[i] : i \in 1 .. at[c] - 1}
      <4>1. CASE at[c] = 1
        BY <4>1 DEF MigrationInvariant, Holds
      <4>2. CASE at[c] > 1
        BY <2>2, <4>2 DEF MigrationInvariant, Holds
      <4> QED
        BY <1>5, <4>1, <4>2
    <3>3. mine'[c] = {Up[i] : i \in 1 .. at'[c] - 1}
      BY <1>5, <3>1, <3>2
    <3>4. db' = {}
      <4>1. CASE at[c] = 1
        <5>1. Up[1] \notin db
          BY <1>1, <2>2, <4>1 DEF o, Plan, Accepted, View
        <5> QED
          BY <1>1, <5>1, UpFacts DEF MigrationInvariant, AllOrNothing
      <4>2. CASE at[c] > 1
        BY <1>1, <2>2, <4>2 DEF MigrationInvariant, Holds
      <4> QED
        BY <1>5, <4>1, <4>2
    <3> QED
      BY <2>1, <2>2, <3>3, <3>4 DEF Holds
  <2>3. CASE c \notin Containers
    <3>1. mine'[c] = mine[c] \cup Takes(Down[at[c]])
      BY <1>1, <2>3 DEF o, Plan, MigrationInvariant, TypeOK
    <3>2. \A i \in 1 .. at[c] - 1 : Takes(Down[i]) \subseteq mine[c]
      BY <1>5, <2>3 DEF MigrationInvariant, Holds
    <3>3. \A i \in 1 .. at'[c] - 1 : Takes(Down[i]) \subseteq mine'[c]
      BY <1>5, <3>1, <3>2
    <3>4. db' = Schema
      <4>1. CASE at[c] = 1
        <5>1. mine[c] = {}
          BY <4>1, BegunOrNot
        <5>2. Accepted(c, Down[1]) /\ View(c) = db
          BY <1>1, <2>3, <4>1, <5>1 DEF o, Plan, View
        <5>3. Down[1] \in db
          BY <2>3, <5>2, FirstOfDown DEF Accepted
        <5> QED
          BY <1>1, <5>3 DEF MigrationInvariant, AllOrNothing
      <4>2. CASE at[c] > 1
        BY <1>1, <2>3, <4>2 DEF MigrationInvariant, Holds
      <4> QED
        BY <1>5, <4>1, <4>2
    <3>5. at'[c] <= Len(Down) + 1
      <4>1. at[c] \in 1 .. 13 /\ at'[c] = at[c] + 1 /\ Len(Down) = 13
        BY <1>2, <1>5, <2>3, DownFacts
      <4> QED
        BY <4>1
    <3> QED
      BY <2>1, <2>3, <3>3, <3>4, <3>5 DEF Holds
  <2> QED
    BY <2>2, <2>3
<1>10. ASSUME NEW d \in Clis \ {c} PROVE Holds(d)'
  BY <1>3 DEF Holds
<1> QED
  BY <1>6, <1>7, <1>8, <1>9, <1>10 DEF MigrationInvariant

\* What a process that has gone through its plan leaves is all or nothing.
LEMMA CommitPreserves ==
  ASSUME MigrationInvariant, NEW c \in Clis, Commit(c)
  PROVE  MigrationInvariant'
<1>1. /\ at[c] > Len(Plan(c))
      /\ db' = View(c)
      /\ records' = IF c \in Containers THEN records + 1 ELSE 0
      /\ stage' = [stage EXCEPT ![c] = "done"]
      /\ mine' = [mine EXCEPT ![c] = {}]
      /\ at' = [at EXCEPT ![c] = 1]
      /\ UNCHANGED <<journal, faults, crowded>>
  BY DEF Commit
<1>2. at[c] = (IF c \in Containers THEN 20 ELSE 14) /\ at[c] > 1
  <2>1. at[c] = IF c \in Containers THEN 20 ELSE 14
    BY <1>1, PlanEnds
  <2> QED
    BY <2>1
<1>3. \A d \in Clis \ {c} : at[d] = 1
  <2>1. mine[c] # {}
    BY <1>2, BegunOrNot
  <2> QED
    BY <2>1, BegunOrNot DEF MigrationInvariant, OneAtWork
<1>4. ASSUME c \in Containers PROVE AllOrNothing'
  <2>1. at[c] = 20
    BY <1>2, <1>4
  <2>2. db = {} /\ mine[c] = {Up[i] : i \in 1 .. at[c] - 1}
    BY <1>2, <1>4 DEF MigrationInvariant, Holds
  <2>3. db' = Schema
    <3>1. at[c] - 1 = 19
      BY <2>1
    <3>2. mine[c] = Schema
      BY <2>2, <3>1, UpFacts
    <3> QED
      BY <1>1, <1>4, <2>2, <3>2 DEF View
  <2>4. records = 0
    BY <2>2, OnTheFirstTables DEF MigrationInvariant, AllOrNothing
  <2> QED
    BY <1>1, <1>4, <2>3, <2>4 DEF AllOrNothing
<1>5. ASSUME c \notin Containers PROVE AllOrNothing'
  <2>1. at[c] = 14
    BY <1>2, <1>5
  <2>2. db = Schema /\ \A i \in 1 .. 13 : Takes(Down[i]) \subseteq mine[c]
    <3>1. db = Schema /\ \A i \in 1 .. at[c] - 1 : Takes(Down[i]) \subseteq mine[c]
      BY <1>2, <1>5 DEF MigrationInvariant, Holds
    <3>2. at[c] - 1 = 13
      BY <2>1
    <3> QED
      BY <3>1, <3>2
  <2>3. Schema \subseteq mine[c]
    BY <2>2, DownCovers
  <2>4. db' = {}
    <3>1. db' = db \ mine[c]
      BY <1>1, <1>5 DEF View
    <3> QED
      BY <2>2, <2>3, <3>1
  <2> QED
    BY <1>1, <1>5, <2>4 DEF AllOrNothing
<1>6. AllOrNothing'
  BY <1>4, <1>5
<1>7. TypeOK'
  <2>1. at' \in [Clis -> 1 .. Len(Up) + 1]
    BY <1>1, UpFacts DEF MigrationInvariant, TypeOK
  <2>2. db' \in SUBSET Schema /\ records' \in Nat
    BY <1>6 DEF AllOrNothing
  <2>3. stage' \in [Clis -> Stages] /\ mine' \in [Clis -> SUBSET Schema]
    BY <1>1 DEF MigrationInvariant, TypeOK, Stages
  <2> QED
    BY <1>1, <2>1, <2>2, <2>3 DEF MigrationInvariant, TypeOK
<1>8. \A d \in Clis \ {c} : stage'[d] = stage[d]
  BY <1>1 DEF MigrationInvariant, TypeOK
<1> QED
  BY <1>1, <1>3, <1>6, <1>7, <1>8, EndPreserves

\* A statement that fails and a process that dies leave the database alone.
LEMMA RollBackPreserves ==
  ASSUME MigrationInvariant, NEW c \in Clis, Refuse(c) \/ Die(c)
  PROVE  MigrationInvariant'
<1>1. /\ stage' = [stage EXCEPT ![c] = "refused"] \/ stage' = [stage EXCEPT ![c] = "dead"]
      /\ mine' = [mine EXCEPT ![c] = {}]
      /\ at' = [at EXCEPT ![c] = 1]
      /\ faults' = faults \/ faults' = faults + 1
      /\ UNCHANGED <<db, journal, records, crowded>>
  BY DEF Refuse, Die
<1>2. AllOrNothing'
  BY <1>1 DEF MigrationInvariant, AllOrNothing
<1>3. TypeOK'
  <2>1. at' \in [Clis -> 1 .. Len(Up) + 1]
    BY <1>1, UpFacts DEF MigrationInvariant, TypeOK
  <2>2. stage' \in [Clis -> Stages] /\ mine' \in [Clis -> SUBSET Schema]
    BY <1>1 DEF MigrationInvariant, TypeOK, Stages
  <2>3. faults' \in Nat
    BY <1>1 DEF MigrationInvariant, TypeOK
  <2> QED
    BY <1>1, <2>1, <2>2, <2>3 DEF MigrationInvariant, TypeOK
<1>4. \A d \in Clis \ {c} : stage'[d] = stage[d]
  BY <1>1 DEF MigrationInvariant, TypeOK
<1> QED
  BY <1>1, <1>2, <1>3, <1>4, EndPreserves

\* The steps outside of a transaction.
LEMMA OtherStepsPreserve ==
  ASSUME MigrationInvariant, NEW c \in Clis,
         Connect(c) \/ CreateJournal(c) \/ LoadExecuted(c) \/ Restart(c)
  PROVE  MigrationInvariant'
<1>1. /\ stage[c] # "open"
      /\ UNCHANGED <<db, records, at, mine, faults>>
      /\ \E s \in Stages : stage' = [stage EXCEPT ![c] = s]
  BY DEF Connect, CreateJournal, LoadExecuted, Restart, Stages, Busy
<1>2. journal' \in BOOLEAN /\ crowded' \in SUBSET Clis
  BY DEF Connect, CreateJournal, LoadExecuted, Restart, MigrationInvariant, TypeOK
<1>3. TypeOK'
  BY <1>1, <1>2 DEF MigrationInvariant, TypeOK
<1>4. ASSUME NEW d \in Clis, stage'[d] # stage[d] PROVE at[d] = 1
  <2>1. d = c
    BY <1>1, <1>4 DEF MigrationInvariant, TypeOK
  <2> QED
    BY <1>1, <2>1 DEF MigrationInvariant, Holds
<1> QED
  BY <1>1, <1>3, <1>4, OutsidePreserves

-----------------------------------------------------------------------------
\* Migration's inductive invariant, for any number of processes and faults: of
\* the runs of up and down that are open one at most has touched anything, from
\* the state of the database that it was written for (MigrationExecutor).
THEOREM MigrationInvariantHolds == Spec => []MigrationInvariant
<1>1. Init => MigrationInvariant
  BY InitInvariant
<1>2. MigrationInvariant /\ [Next]_vars => MigrationInvariant'
  <2> SUFFICES ASSUME MigrationInvariant, [Next]_vars PROVE MigrationInvariant'
    OBVIOUS
  <2>1. CASE UNCHANGED vars
    BY <2>1 DEF vars, MigrationInvariant, TypeOK, AllOrNothing, Holds, OneAtWork, View
  <2>2. CASE Next
    <3>1. PICK c \in Clis : Proceed(c) \/ Die(c)
      BY <2>2 DEF Next
    <3>2. CASE Connect(c) \/ CreateJournal(c) \/ LoadExecuted(c) \/ Restart(c)
      BY <3>2, OtherStepsPreserve
    <3>3. CASE Execute(c)
      BY <3>3, ExecutePreserves
    <3>4. CASE Refuse(c) \/ Die(c)
      BY <3>4, RollBackPreserves
    <3>5. CASE Commit(c)
      BY <3>5, CommitPreserves
    <3> QED
      BY <3>1, <3>2, <3>3, <3>4, <3>5 DEF Proceed
  <2> QED
    BY <2>1, <2>2
<1> QED
  BY <1>1, <1>2, PTL DEF Spec

\* The schema that requests see is all of it or nothing and is recorded once or
\* not at all, however many containers and operators migrate at once.
THEOREM SchemaIsAllOrNothing == Spec => []AllOrNothing
<1>1. MigrationInvariant => AllOrNothing
  BY DEF MigrationInvariant
<1> QED
  BY <1>1, MigrationInvariantHolds, PTL

-----------------------------------------------------------------------------
(* Who runs alone is not refused *)

\* Two processes at work have met, and one that has met nobody finds what it
\* was written for: no table of migrations that it has not seen, and a database
\* that is empty for up and whole for down, less what it has dropped itself.
Apart ==
  /\ \A c, d \in Clis :
       c # d /\ stage[c] \in Busy /\ stage[d] \in Busy => c \in crowded
  /\ \A c \in Clis \ crowded :
       /\ stage[c] # "refused"
       /\ stage[c] = "creating" => ~journal
       /\ stage[c] = "open" => db = IF c \in Containers THEN {} ELSE Schema
  /\ \A c \in Operators : \A p \in mine[c] :
       \E i \in 1 .. at[c] - 1 : p \in Takes(Down[i])

\* The nineteen objects, as triples.
LEMMA UpIs ==
  /\ Up[1] = <<"table", "roles", "id">> /\ Up[2] = <<"table", "users", "id">>
  /\ Up[3] = <<"table", "invoices", "id">> /\ Up[4] = <<"table", "orders", "id">>
  /\ Up[5] = <<"fk", "users", "role_id">> /\ Up[6] = <<"fk", "invoices", "user_id">>
  /\ Up[7] = <<"fk", "invoices", "approved_by_role">>
  /\ Up[8] = <<"fk", "invoices", "order_id">> /\ Up[9] = <<"fk", "orders", "user_id">>
  /\ Up[10] = <<"index", "invoices", "user_id">>
  /\ Up[11] = <<"index", "invoices", "status">>
  /\ Up[12] = <<"index", "invoices", "approved_by_role">>
  /\ Up[13] = <<"index", "orders", "user_id">>
  /\ Up[14] = <<"index", "orders", "status">>
  /\ Up[15] = <<"rows", "roles", "id">> /\ Up[16] = <<"rows", "users", "id">>
  /\ Up[17] = <<"rows", "invoices", "id">> /\ Up[18] = <<"rows", "orders", "id">>
  /\ Up[19] = <<"links", "invoices", "order_id">>
BY DEF Up, Table, Fk, Index, Seed, Links

\* No object is created twice.
LEMMA UpIsInjective ==
  \A i, k \in 1 .. 19 : Up[i] = Up[k] => i = k
<1> SUFFICES ASSUME NEW i \in 1 .. 19, NEW k \in 1 .. 19, Up[i] = Up[k]
             PROVE  i = k
  OBVIOUS
<1>1. CASE i \in 1 .. 4
  BY <1>1, UpIs
<1>2. CASE i \in 5 .. 9
  BY <1>2, UpIs
<1>3. CASE i \in 10 .. 14
  BY <1>3, UpIs
<1>4. CASE i \in 15 .. 19
  BY <1>4, UpIs
<1> QED
  BY <1>1, <1>2, <1>3, <1>4

LEMMA UpIsNew ==
  ASSUME NEW k \in 1 .. 19
  PROVE  Up[k] \notin {Up[i] : i \in 1 .. k - 1}
<1> SUFFICES ASSUME NEW i \in 1 .. k - 1 PROVE Up[k] # Up[i]
  OBVIOUS
<1>1. i \in 1 .. 19 /\ i # k
  OBVIOUS
<1> QED
  BY <1>1, UpIsInjective

\* What a statement of up needs has been created by those before it.
LEMMA UpIsReady ==
  ASSUME NEW k \in 1 .. 19
  PROVE  Needs(Up[k]) \subseteq {Up[i] : i \in 1 .. k - 1}
<1> DEFINE B == {Up[i] : i \in 1 .. k - 1}
<1>1. CASE k \in 1 .. 4
  <2>1. Up[k][1] = "table"
    BY <1>1, UpIs
  <2> QED
    BY <2>1 DEF Needs
<1>2. CASE k \in 5 .. 9
  <2>1. Up[k][1] = "fk"
    BY <1>2, UpIs
  <2>2. Up[1] \in B /\ Up[2] \in B /\ Up[3] \in B /\ Up[4] \in B
    BY <1>2
  <2>3. Needs(Up[k]) = {Table(Up[k][2]), Table(Target(Up[k][3]))}
    BY <2>1 DEF Needs
  <2>4. \A t \in {"roles", "users", "invoices", "orders"} : Table(t) \in B
    BY <2>2, UpIs DEF Table
  <2>5. Up[k][2] \in {"roles", "users", "invoices", "orders"}
    BY FourTables, UpFacts
  <2> QED
    BY <2>3, <2>4, <2>5 DEF Target
<1>3. CASE k \in 10 .. 14
  <2>1. Up[k][1] = "index" /\ Up[k][2] \in {"invoices", "orders"}
    BY <1>3, UpIs
  <2>2. Up[3] \in B /\ Up[4] \in B
    BY <1>3
  <2>3. Needs(Up[k]) = {Table(Up[k][2])}
    BY <2>1 DEF Needs
  <2> QED
    BY <2>1, <2>2, <2>3, UpIs DEF Table
<1>4. CASE k \in 15 .. 19
  <2>1. Up[1] \in B /\ Up[2] \in B /\ Up[3] \in B /\ Up[4] \in B
    BY <1>4
  <2>2. /\ k > 15 => Up[15] \in B
        /\ k > 16 => Up[16] \in B
    BY <1>4
  <2>3. CASE k = 15
    <3>1. Needs(Up[k]) = {Table("roles")}
      BY <2>3, UpIs DEF Needs
    <3> QED
      BY <2>1, <3>1, UpIs DEF Table
  <2>4. CASE k = 16
    <3>1. Needs(Up[k]) = {Table("users"), Seed("roles")}
      BY <2>4, UpIs DEF Needs
    <3> QED
      BY <2>1, <2>2, <2>4, <3>1, UpIs DEF Table, Seed
  <2>5. CASE k \in 17 .. 18
    <3>1. /\ Needs(Up[k]) = {Table(Up[k][2]), Seed("users")}
          /\ Up[k][2] \in {"invoices", "orders"}
      BY <2>5, UpIs DEF Needs
    <3> QED
      BY <2>1, <2>2, <2>5, <3>1, UpIs DEF Table, Seed
  <2>6. CASE k = 19
    <3>1. Needs(Up[k]) = {Table("invoices"), Table("orders")}
      BY <2>6, UpIs DEF Needs
    <3> QED
      BY <2>1, <3>1, UpIs DEF Table
  <2> QED
    BY <1>4, <2>3, <2>4, <2>5, <2>6
<1> QED
  BY <1>1, <1>2, <1>3, <1>4

LEMMA DownIs ==
  /\ Down[1] = <<"index", "invoices", "user_id">>
  /\ Down[2] = <<"index", "invoices", "status">>
  /\ Down[3] = <<"index", "invoices", "approved_by_role">>
  /\ Down[4] = <<"index", "orders", "user_id">>
  /\ Down[5] = <<"index", "orders", "status">>
  /\ Down[6] = <<"fk", "users", "role_id">>
  /\ Down[7] = <<"fk", "invoices", "user_id">>
  /\ Down[8] = <<"fk", "invoices", "approved_by_role">>
  /\ Down[9] = <<"fk", "orders", "user_id">>
  /\ Down[10] = <<"table", "invoices", "id">>
  /\ Down[11] = <<"table", "orders", "id">>
  /\ Down[12] = <<"table", "users", "id">>
  /\ Down[13] = <<"table", "roles", "id">>
BY DEF Down, Indexes, ForeignKeys, Table, Fk, Index

\* Nothing that down drops has gone with something before it.
LEMMA DownIsReady ==
  ASSUME NEW k \in 1 .. 13, NEW i \in 1 .. k - 1
  PROVE  Down[k] \notin Takes(Down[i])
<1>1. CASE i \in 1 .. 9
  <2>1. Takes(Down[i]) = {Down[i]}
    BY <1>1, DownIs DEF Takes
  <2>2. Down[k] # Down[i]
    <3>1. CASE i \in 1 .. 5
      BY <3>1, DownIs
    <3>2. CASE i \in 6 .. 9
      BY <3>2, DownIs
    <3> QED
      BY <1>1, <3>1, <3>2
  <2> QED
    BY <2>1, <2>2
<1>2. CASE i \in 10 .. 12
  <2>1. k \in i + 1 .. 13
    BY <1>2
  <2>2. Down[k][2] # Down[i][2]
    BY <1>2, <2>1, DownIs
  <2>3. Takes(Down[i]) = {p \in Schema : p[2] = Down[i][2]}
    BY <1>2, DownIs DEF Takes
  <2> QED
    BY <2>2, <2>3
<1> QED
  BY <1>1, <1>2

\* The foreign keys of the schema.
LEMMA FkIs ==
  ASSUME NEW p \in Schema, p[1] = "fk"
  PROVE  \/ p[2] = "users" /\ Target(p[3]) = "roles"
         \/ p[2] = "invoices"
         \/ p[2] = "orders" /\ Target(p[3]) = "users"
<1>1. PICK i \in 1 .. 19 : p = Up[i]
  BY UpFacts
<1>2. i \in 5 .. 9
  BY <1>1, UpIs
<1> QED
  BY <1>1, <1>2, UpIs DEF Target

\* A table is dropped when those that refer to it are gone: the invoices first,
\* to which nothing refers.
LEMMA DownIsFree ==
  ASSUME NEW k \in 1 .. 13, NEW V \in SUBSET Schema,
         \A i \in 1 .. k - 1 : Takes(Down[i]) \cap V = {}
  PROVE  ~Referenced(Down[k], V)
<1> SUFFICES ASSUME Down[k][1] = "table",
                    NEW p \in V, p[1] = "fk", p[2] # Down[k][2],
                    Target(p[3]) = Down[k][2]
             PROVE  FALSE
  BY DEF Referenced
<1>1. k \in 10 .. 13
  BY DownIs
<1>2. \A i \in 10 .. 13 : Takes(Down[i]) = {o \in Schema : o[2] = Down[i][2]}
  BY DownIs DEF Takes
<1>3. \A i \in 10 .. 13 : i < k => p[2] # Down[i][2]
  BY <1>1, <1>2
<1>4. Target(p[3]) \in {"users", "orders", "roles"}
  BY DEF Target
<1>5. p[2] \in {"users", "invoices", "orders"}
  BY FkIs
<1>6. CASE k = 10
  BY <1>4, <1>6, DownIs
<1>7. CASE k = 11
  BY <1>3, <1>7, FkIs, DownIs
<1>8. CASE k = 12
  BY <1>3, <1>5, <1>8, DownIs
<1>9. CASE k = 13
  BY <1>3, <1>5, <1>9, DownIs
<1> QED
  BY <1>1, <1>6, <1>7, <1>8, <1>9

\* Where the database is what the plan was written for, the next statement of
\* up or down finds what it needs.
LEMMA PlanIsAccepted ==
  ASSUME MigrationInvariant, Apart, NEW c \in Clis, at[c] <= Len(Plan(c)),
         db = IF c \in Containers THEN {} ELSE Schema
  PROVE  Accepted(c, Plan(c)[at[c]])
<1> DEFINE k == at[c]
<1>1. db = IF c \in Containers THEN {} ELSE Schema
  OBVIOUS
<1>2. CASE c \in Containers
  <2>1. k \in 1 .. 19 /\ Plan(c) = Up
    BY <1>2, PlanEnds, PlanLength
  <2>2. View(c) = {Up[i] : i \in 1 .. k - 1}
    <3>1. mine[c] = {Up[i] : i \in 1 .. k - 1}
      <4>1. CASE k = 1
        <5>1. 1 .. k - 1 = {}
          BY <4>1
        <5> QED
          BY <4>1, <5>1 DEF MigrationInvariant, Holds
      <4>2. CASE k > 1
        BY <1>2, <4>2 DEF MigrationInvariant, Holds
      <4>3. k = 1 \/ k > 1
        BY <2>1
      <4> QED
        BY <4>1, <4>2, <4>3
    <3> QED
      BY <1>1, <1>2, <3>1 DEF View
  <2>3. Up[k] \notin {Up[i] : i \in 1 .. k - 1}
    BY <2>1, UpIsNew
  <2>4. Needs(Up[k]) \subseteq {Up[i] : i \in 1 .. k - 1}
    BY <2>1, UpIsReady
  <2> QED
    BY <1>2, <2>1, <2>2, <2>3, <2>4 DEF Accepted
<1>3. CASE c \notin Containers
  <2>1. k \in 1 .. 13 /\ Plan(c) = Down /\ c \in Operators
    BY <1>3, PlanEnds, PlanLength DEF Clis
  <2>2. View(c) = Schema \ mine[c]
    BY <1>1, <1>3 DEF View
  <2>3. \A i \in 1 .. k - 1 : Takes(Down[i]) \subseteq mine[c]
    <3>1. CASE k = 1
      BY <3>1
    <3>2. CASE k > 1
      BY <1>3, <3>2 DEF MigrationInvariant, Holds
    <3> QED
      BY <2>1, <3>1, <3>2
  <2>4. Down[k] \in View(c)
    <3>1. Down[k] \in Schema
      BY <2>1, DownInSchema
    <3>2. \A i \in 1 .. k - 1 : Down[k] \notin Takes(Down[i])
      BY <2>1, DownIsReady
    <3> QED
      BY <2>1, <2>2, <3>1, <3>2 DEF Apart
  <2>5. ~Referenced(Down[k], View(c))
    BY <2>1, <2>2, <2>3, DownIsFree
  <2> QED
    BY <1>3, <2>1, <2>4, <2>5 DEF Accepted
<1> QED
  BY <1>2, <1>3

\* Whoever has met nobody finds the database like that.
LEMMA AloneIsAccepted ==
  ASSUME MigrationInvariant, Apart, NEW c \in Clis \ crowded,
         stage[c] = "open", at[c] <= Len(Plan(c))
  PROVE  Accepted(c, Plan(c)[at[c]])
  BY PlanIsAccepted DEF Apart

LEMMA InitApart == Init => Apart
  BY DEF Init, Apart, Busy, Clis

\* One conjunct of Apart after the other, each with the steps that disturb it.
LEMMA StepApart ==
  ASSUME MigrationInvariant, Apart, NEW c \in Clis, Proceed(c) \/ Die(c)
  PROVE  Apart'
<1>1. /\ \E s \in Stages : stage' = [stage EXCEPT ![c] = s]
      /\ stage \in [Clis -> Stages]
      /\ \A d \in Clis \ {c} : stage'[d] = stage[d]
  BY DEF Proceed, Connect, CreateJournal, LoadExecuted, Execute, Refuse, Commit,
         Restart, Die, Stages, Busy, MigrationInvariant, TypeOK
<1>2. \A d, e \in Clis :
        d # e /\ stage'[d] \in Busy /\ stage'[e] \in Busy => d \in crowded'
  <2>1. CASE Connect(c)
    BY <1>1, <2>1 DEF Connect, Apart, Busy
  <2>2. CASE ~Connect(c)
    <3>1. crowded' = crowded /\ (stage'[c] \in Busy => stage[c] \in Busy)
      BY <1>1, <2>2 DEF Proceed, CreateJournal, LoadExecuted, Execute, Refuse,
                        Commit, Restart, Die, Busy
    <3> QED
      BY <1>1, <3>1 DEF Apart
  <2> QED
    BY <2>1, <2>2
<1>3. ASSUME NEW d \in Clis \ crowded'
      PROVE  /\ stage'[d] # "refused"
             /\ stage'[d] = "creating" => ~journal'
             /\ stage'[d] = "open" => db' = IF d \in Containers THEN {} ELSE Schema
  <2>1. CASE d # c
    <3>1. stage'[d] = stage[d] /\ d \notin crowded
      BY <1>1, <1>3, <2>1 DEF Proceed, Connect, CreateJournal, LoadExecuted,
                              Execute, Refuse, Commit, Restart, Die
    <3>2. stage[d] \in Busy => ~CreateJournal(c) /\ ~Commit(c)
      BY <2>1, <3>1 DEF CreateJournal, Commit, Apart, Busy
    <3>3. stage[d] \in Busy => UNCHANGED <<db, journal>>
      BY <3>2 DEF Proceed, Connect, LoadExecuted, Execute, Refuse, Restart, Die
    <3> QED
      BY <3>1, <3>3 DEF Apart, Busy
  <2>2. CASE d = c
    <3>1. CASE Connect(c)
      BY <1>1, <2>2, <3>1 DEF Connect, MigrationInvariant, TypeOK
    <3>2. CASE ~Connect(c)
      <4>1. c \notin crowded
        BY <1>3, <2>2, <3>2 DEF Proceed, CreateJournal, LoadExecuted, Execute,
                                Refuse, Commit, Restart, Die
      <4>2. CASE CreateJournal(c)
        BY <1>1, <2>2, <4>1, <4>2 DEF CreateJournal, Apart
      <4>3. CASE LoadExecuted(c)
        <5>1. c \in Containers /\ records = 0 => db = {}
          BY OnTheFirstTables DEF MigrationInvariant, AllOrNothing
        <5>2. c \notin Containers /\ records > 0 => db = Schema
          BY DEF MigrationInvariant, AllOrNothing
        <5> QED
          BY <1>1, <2>2, <4>3, <5>1, <5>2 DEF LoadExecuted
      <4>4. CASE Execute(c)
        BY <2>2, <4>1, <4>4 DEF Execute, Apart
      <4>5. CASE Refuse(c)
        BY <4>1, <4>5, AloneIsAccepted DEF Refuse
      <4>6. CASE Commit(c) \/ Restart(c) \/ Die(c)
        BY <1>1, <2>2, <4>6 DEF Commit, Restart, Die
      <4> QED
        BY <3>2, <4>2, <4>3, <4>4, <4>5, <4>6 DEF Proceed
    <3> QED
      BY <3>1, <3>2
  <2> QED
    BY <2>1, <2>2
<1>4. ASSUME NEW d \in Operators, NEW p \in mine'[d]
      PROVE  \E i \in 1 .. at'[d] - 1 : p \in Takes(Down[i])
  <2>1. d \in Clis /\ d \notin Containers
    BY DEF Clis
  <2>2. CASE d = c /\ Execute(c)
    <3>1. /\ at'[c] = at[c] + 1
          /\ mine'[c] = mine[c] \cup Takes(Down[at[c]])
      BY <2>1, <2>2, PlanLength DEF Execute, MigrationInvariant, TypeOK
    <3>2. at[c] \in 1 .. 20
      BY AtRange
    <3>3. CASE p \in mine[c]
      <4>1. PICK i \in 1 .. at[c] - 1 : p \in Takes(Down[i])
        BY <2>2, <3>3 DEF Apart
      <4> QED
        BY <2>2, <3>1, <3>2, <4>1
    <3>4. CASE p \in Takes(Down[at[c]])
      <4>1. at[c] \in 1 .. at'[c] - 1
        BY <3>1, <3>2
      <4> QED
        BY <2>2, <3>4, <4>1
    <3> QED
      BY <1>4, <2>2, <3>1, <3>3, <3>4
  <2>3. CASE ~(d = c /\ Execute(c))
    <3>1. \/ mine'[d] = {}
          \/ mine'[d] = mine[d] /\ at'[d] = at[d]
      BY <2>1, <2>3 DEF Proceed, Connect, CreateJournal, LoadExecuted, Execute,
                        Refuse, Commit, Restart, Die, MigrationInvariant, TypeOK
    <3> QED
      BY <1>4, <3>1 DEF Apart
  <2> QED
    BY <2>2, <2>3
<1> QED
  BY <1>2, <1>3, <1>4 DEF Apart

\* Apart is kept with the invariant.
LEMMA ApartHolds == Spec => []Apart
<1>1. MigrationInvariant /\ Apart /\ [Next]_vars => Apart'
  <2> SUFFICES ASSUME MigrationInvariant, Apart, [Next]_vars PROVE Apart'
    OBVIOUS
  <2>1. CASE UNCHANGED vars
    BY <2>1 DEF vars, Apart
  <2>2. CASE Next
    BY <2>2, StepApart DEF Next
  <2> QED
    BY <2>1, <2>2
<1> QED
  BY InitApart, MigrationInvariantHolds, <1>1, PTL DEF Spec

\* No statement of up or down, and no creation of the table of migrations, is
\* refused to a process that has met no other, however many there are and
\* whatever those before it have left.
THEOREM AloneIsNotRefused == Spec => []AloneSucceeds
<1>1. Apart => AloneSucceeds
  BY DEF Apart, AloneSucceeds
<1> QED
  BY ApartHolds, <1>1, PTL

\* A transaction that has touched a table neither waits for another one nor is
\* refused a statement: only its process can end it before it commits.
BegunGoesThrough ==
  \A c \in Clis : at[c] > 1 /\ at[c] <= Len(Plan(c)) =>
    ~Waits(c, Plan(c)[at[c]]) /\ Accepted(c, Plan(c)[at[c]])

\* Processes that migrate and revert at once cannot deadlock on the tables, in
\* whatever order up and down touch them: whoever holds one waits for nobody.
THEOREM HoldersNeverWait == Spec => []BegunGoesThrough
<1>1. ASSUME MigrationInvariant, Apart, NEW c \in Clis, at[c] > 1, at[c] <= Len(Plan(c))
      PROVE  ~Waits(c, Plan(c)[at[c]]) /\ Accepted(c, Plan(c)[at[c]])
  <2>1. mine[c] # {}
    BY <1>1, BegunOrNot, AtRange
  <2>2. \A d \in Clis \ {c} : mine[d] = {}
    BY <1>1, <2>1 DEF MigrationInvariant, OneAtWork
  <2>3. ~Waits(c, Plan(c)[at[c]])
    BY <2>2 DEF Waits, Locked
  <2>4. db = IF c \in Containers THEN {} ELSE Schema
    BY <1>1 DEF MigrationInvariant, Holds
  <2> QED
    BY <1>1, <2>3, <2>4, PlanIsAccepted
<1>2. MigrationInvariant /\ Apart => BegunGoesThrough
  BY <1>1 DEF BegunGoesThrough
<1> QED
  BY <1>2, MigrationInvariantHolds, ApartHolds, PTL
=============================================================================
