-------------------------- MODULE PagedListProofs --------------------------
(***************************************************************************)
(* Proofs about PagedList, for any number of clients, rows and pages.      *)
(***************************************************************************)
EXTENDS PagedList, FiniteSetTheorems, SequenceTheorems, TLAPS

-----------------------------------------------------------------------------
(* Lists *)

\* A row is inserted between the rows before it and those it moves down.
LEMMA InsertAtFacts ==
  ASSUME NEW S, NEW s \in Seq(S), NEW i \in 1 .. Len(s) + 1, NEW x \in S
  PROVE  /\ InsertAt(s, i, x) \in Seq(S)
         /\ Len(InsertAt(s, i, x)) = Len(s) + 1
         /\ \A k \in 1 .. Len(s) + 1 :
              InsertAt(s, i, x)[k] = IF k < i THEN s[k]
                                     ELSE IF k = i THEN x ELSE s[k - 1]
<1> DEFINE a == SubSeq(s, 1, i - 1)
           b == SubSeq(s, i, Len(s))
<1>1. /\ a \in Seq(S) /\ Len(a) = i - 1
      /\ \A k \in 1 .. i - 1 : a[k] = s[k]
  OBVIOUS
<1>2. /\ b \in Seq(S) /\ Len(b) = Len(s) - i + 1
      /\ \A k \in 1 .. Len(s) - i + 1 : b[k] = s[i + k - 1]
  OBVIOUS
<1>3. InsertAt(s, i, x) = a \o <<x>> \o b
  BY DEF InsertAt
<1> HIDE DEF a, b
<1> DEFINE c == a \o <<x>>
<1>4. /\ c \in Seq(S) /\ Len(c) = i /\ c[i] = x
      /\ \A k \in 1 .. i - 1 : c[k] = a[k]
  BY <1>1
<1> HIDE DEF c
<1>5. /\ c \o b \in Seq(S) /\ Len(c \o b) = Len(s) + 1
      /\ \A k \in 1 .. i : (c \o b)[k] = c[k]
      /\ \A k \in i + 1 .. Len(s) + 1 : (c \o b)[k] = b[k - i]
  BY <1>2, <1>4
<1>6. ASSUME NEW k \in i + 1 .. Len(s) + 1
      PROVE  b[k - i] = s[k - 1]
  <2>1. k - i \in 1 .. Len(s) - i + 1 /\ i + (k - i) - 1 = k - 1
    OBVIOUS
  <2>2. QED
    BY <1>2, <2>1
<1>7. ASSUME NEW k \in 1 .. Len(s) + 1
      PROVE  (c \o b)[k] = IF k < i THEN s[k] ELSE IF k = i THEN x ELSE s[k - 1]
  <2>1. CASE k < i
    BY <1>1, <1>4, <1>5, <2>1
  <2>2. CASE k = i
    BY <1>4, <1>5, <2>2
  <2>3. CASE k > i
    BY <1>5, <1>6, <2>3
  <2>4. k < i \/ k = i \/ k > i
    OBVIOUS
  <2>5. QED
    BY <2>1, <2>2, <2>3, <2>4
<1>8. InsertAt(s, i, x) = c \o b
  BY <1>3 DEF c
<1>9. QED
  BY <1>5, <1>7, <1>8

\* A row that is removed moves up the rows behind it.
LEMMA RemoveAtFacts ==
  ASSUME NEW S, NEW s \in Seq(S), NEW i \in 1 .. Len(s)
  PROVE  /\ RemoveAt(s, i) \in Seq(S)
         /\ Len(RemoveAt(s, i)) = Len(s) - 1
         /\ \A k \in 1 .. Len(s) - 1 :
              RemoveAt(s, i)[k] = IF k < i THEN s[k] ELSE s[k + 1]
<1> DEFINE a == SubSeq(s, 1, i - 1)
           b == SubSeq(s, i + 1, Len(s))
<1>0. i \in Nat /\ Len(s) \in Nat
  OBVIOUS
<1>1. /\ a \in Seq(S) /\ Len(a) = i - 1
      /\ \A k \in 1 .. i - 1 : a[k] = s[k]
  OBVIOUS
<1>2. /\ b \in Seq(S) /\ Len(b) = Len(s) - i
      /\ \A k \in 1 .. Len(s) - i : b[k] = s[i + k]
  OBVIOUS
<1>3. RemoveAt(s, i) = a \o b
  BY DEF RemoveAt
<1> HIDE DEF a, b
<1>4. /\ a \o b \in Seq(S) /\ Len(a \o b) = Len(s) - 1
      /\ \A k \in 1 .. i - 1 : (a \o b)[k] = a[k]
      /\ \A k \in i .. Len(s) - 1 : (a \o b)[k] = b[k - (i - 1)]
  <2>1. Len(a) + Len(b) = Len(s) - 1
    BY <1>0, <1>1, <1>2
  <2>2. /\ a \o b \in Seq(S) /\ Len(a \o b) = Len(a) + Len(b)
        /\ \A k \in 1 .. Len(a) + Len(b) :
             (a \o b)[k] = IF k <= Len(a) THEN a[k] ELSE b[k - Len(a)]
    BY <1>1, <1>2, ConcatProperties, Zenon
  <2>3. QED
    BY <1>0, <1>1, <2>1, <2>2
<1>5. ASSUME NEW k \in i .. Len(s) - 1
      PROVE  b[k - (i - 1)] = s[k + 1]
  <2>1. k - (i - 1) \in 1 .. Len(s) - i /\ i + (k - (i - 1)) = k + 1
    OBVIOUS
  <2>2. QED
    BY <1>2, <2>1
<1>6. QED
  BY <1>1, <1>3, <1>4, <1>5

\* The pages up to p end Limit rows behind those up to p - 1.
LEMMA OffsetFacts ==
  ASSUME NEW p \in Nat \ {0}
  PROVE  Offset(p) \in Nat /\ p * Limit = Offset(p) + Limit /\ p * Limit \in Nat
  BY PagingAssumption DEF Offset

\* A page is the rows behind its offset, as far as there are any.
LEMMA PageFacts ==
  ASSUME NEW S, NEW s \in Seq(S), NEW p \in Nat \ {0}
  PROVE  /\ Page(s, p) \in Seq(S)
         /\ Len(Page(s, p)) = IF Len(s) <= Offset(p) THEN 0
                              ELSE IF Offset(p) + Limit < Len(s) THEN Limit
                              ELSE Len(s) - Offset(p)
         /\ \A k \in 1 .. Len(Page(s, p)) : Page(s, p)[k] = s[Offset(p) + k]
<1> DEFINE o == Offset(p)
           end == IF o + Limit < Len(s) THEN o + Limit ELSE Len(s)
<1>0. Len(s) \in Nat
  OBVIOUS
<1>1. o \in Nat /\ Limit \in Nat \ {0} /\ Len(s) \in Nat
  BY <1>0, OffsetFacts, PagingAssumption
<1>2. Page(s, p) = SubSeq(s, o + 1, end)
  BY DEF Page
<1>3. end \in Nat /\ end <= Len(s)
  BY <1>1
<1>4. end = IF o + Limit < Len(s) THEN o + Limit ELSE Len(s)
  OBVIOUS
<1> HIDE DEF o, end
<1>5. CASE o + 1 <= end
  <2>1. /\ SubSeq(s, o + 1, end) \in Seq(S)
        /\ Len(SubSeq(s, o + 1, end)) = end - o
        /\ \A k \in 1 .. end - o : SubSeq(s, o + 1, end)[k] = s[o + k]
    BY <1>1, <1>3, <1>5
  <2>2. end - o = IF Len(s) <= o THEN 0
                  ELSE IF o + Limit < Len(s) THEN Limit ELSE Len(s) - o
    BY <1>1, <1>4, <1>5
  <2>3. \A k \in 1 .. Len(Page(s, p)) : Page(s, p)[k] = s[o + k]
    BY <1>2, <2>1
  <2>4. QED
    BY <1>2, <2>1, <2>2, <2>3 DEF o
<1>6. CASE ~(o + 1 <= end)
  <2>1. SubSeq(s, o + 1, end) = <<>>
    BY <1>1, <1>3, <1>6
  <2>2. QED
    BY <1>1, <1>2, <1>4, <1>6, <2>1 DEF o
<1>7. QED
  BY <1>5, <1>6

\* What can be found on a page.
LEMMA OnPage ==
  ASSUME NEW S, NEW s \in Seq(S), NEW p \in Nat \ {0},
         NEW j \in 1 .. Len(s), Offset(p) < j, j <= p * Limit
  PROVE  s[j] \in ToSet(Page(s, p))
<1> DEFINE o == Offset(p)
           t == Page(s, p)
           k == j - o
<1>1. o \in Nat /\ Limit \in Nat \ {0} /\ p * Limit = o + Limit
  BY OffsetFacts, PagingAssumption
<1>2. /\ t \in Seq(S)
      /\ Len(t) = IF Len(s) <= o THEN 0
                  ELSE IF o + Limit < Len(s) THEN Limit ELSE Len(s) - o
      /\ \A a \in 1 .. Len(t) : t[a] = s[o + a]
  BY PageFacts
<1>3. o < j /\ j <= o + Limit
  BY <1>1
<1> HIDE DEF o, t
<1>4. k \in 1 .. Len(t) /\ o + k = j
  BY <1>1, <1>2, <1>3
<1>5. t[k] = s[j]
  BY <1>2, <1>4
<1>6. QED
  BY <1>2, <1>4, <1>5 DEF ToSet, t

\* A list in which rows only move down stays as long as it is.
LEMMA OnlyDownLength ==
  ASSUME NEW S, NEW s \in Seq(S), NEW t \in Seq(S), OnlyDown(s, t)
  PROVE  Len(s) <= Len(t)
  BY DEF OnlyDown

\* Nothing moves up by nothing happening.
LEMMA OnlyDownReflexive ==
  ASSUME NEW S, NEW s \in Seq(S)
  PROVE  OnlyDown(s, s)
  BY DEF OnlyDown

\* Rows that come in move others down only.
LEMMA OnlyDownInsert ==
  ASSUME NEW S, NEW s \in Seq(S), NEW t \in Seq(S), OnlyDown(s, t),
         NEW i \in 1 .. Len(t) + 1, NEW x \in S
  PROVE  OnlyDown(s, InsertAt(t, i, x))
<1> DEFINE u == InsertAt(t, i, x)
<1>1. Len(u) = Len(t) + 1
  BY InsertAtFacts
<1>2. \A k \in 1 .. Len(t) + 1 :
        u[k] = IF k < i THEN t[k] ELSE IF k = i THEN x ELSE t[k - 1]
  BY InsertAtFacts
<1> HIDE DEF u
<1>3. SUFFICES ASSUME NEW a \in 1 .. Len(s)
               PROVE  \E j \in a .. Len(u) : u[j] = s[a]
  BY DEF OnlyDown, u
<1>4. PICK j \in a .. Len(t) : t[j] = s[a]
  BY DEF OnlyDown
<1>5. CASE j < i
  <2>1. j \in 1 .. Len(t) + 1 /\ j \in a .. Len(u)
    BY <1>1, <1>4
  <2>2. u[j] = t[j]
    BY <1>2, <1>5, <2>1
  <2>3. QED
    BY <1>4, <2>1, <2>2
<1>6. CASE j >= i
  <2>1. j + 1 \in 1 .. Len(t) + 1 /\ j + 1 \in a .. Len(u)
    BY <1>1, <1>4
  <2>2. u[j + 1] = t[j]
    BY <1>2, <1>6, <2>1
  <2>3. QED
    BY <1>4, <2>1, <2>2
<1>7. QED
  BY <1>4, <1>5, <1>6

\* A list without repetitions stays one when a new row comes in.
LEMMA InsertInjective ==
  ASSUME NEW S, NEW s \in Seq(S), IsInjective(s),
         NEW i \in 1 .. Len(s) + 1, NEW x \in S, x \notin ToSet(s)
  PROVE  IsInjective(InsertAt(s, i, x))
<1> DEFINE t == InsertAt(s, i, x)
<1>1. DOMAIN s = 1 .. Len(s) /\ DOMAIN t = 1 .. Len(s) + 1
  BY InsertAtFacts
<1>2. \A k \in 1 .. Len(s) : s[k] # x
  BY <1>1 DEF ToSet
<1>3. \A k \in 1 .. Len(s) + 1 :
        t[k] = IF k < i THEN s[k] ELSE IF k = i THEN x ELSE s[k - 1]
  BY InsertAtFacts
<1> HIDE DEF t
<1>4. \A a, b \in 1 .. Len(s) : s[a] = s[b] => a = b
  BY <1>1 DEF IsInjective
<1>5. ASSUME NEW a \in 1 .. Len(s) + 1, NEW b \in 1 .. Len(s) + 1, t[a] = t[b]
      PROVE  a = b
  BY <1>2, <1>3, <1>4, <1>5
<1>6. QED
  BY <1>1, <1>5 DEF IsInjective, t

\* And when a row leaves.
LEMMA RemoveInjective ==
  ASSUME NEW S, NEW s \in Seq(S), IsInjective(s), NEW i \in 1 .. Len(s)
  PROVE  IsInjective(RemoveAt(s, i))
<1> DEFINE t == RemoveAt(s, i)
<1>1. DOMAIN s = 1 .. Len(s) /\ DOMAIN t = 1 .. Len(s) - 1
  BY RemoveAtFacts
<1>2. \A k \in 1 .. Len(s) - 1 : t[k] = IF k < i THEN s[k] ELSE s[k + 1]
  BY RemoveAtFacts
<1> HIDE DEF t
<1>3. \A a, b \in 1 .. Len(s) : s[a] = s[b] => a = b
  BY <1>1 DEF IsInjective
<1>4. ASSUME NEW a \in 1 .. Len(s) - 1, NEW b \in 1 .. Len(s) - 1, t[a] = t[b]
      PROVE  a = b
  BY <1>2, <1>3, <1>4
<1>5. QED
  BY <1>1, <1>4 DEF IsInjective, t

\* And when a row goes to another place of it.
LEMMA MoveInjective ==
  ASSUME NEW S, NEW s \in Seq(S), IsInjective(s),
         NEW i \in 1 .. Len(s), NEW j \in 1 .. Len(s)
  PROVE  /\ InsertAt(RemoveAt(s, i), j, s[i]) \in Seq(S)
         /\ IsInjective(InsertAt(RemoveAt(s, i), j, s[i]))
<1> DEFINE t == RemoveAt(s, i)
<1>1. /\ t \in Seq(S) /\ Len(t) = Len(s) - 1 /\ DOMAIN t = 1 .. Len(s) - 1
      /\ \A k \in 1 .. Len(s) - 1 : t[k] = IF k < i THEN s[k] ELSE s[k + 1]
  BY RemoveAtFacts
<1>2. IsInjective(t)
  BY RemoveInjective
<1> HIDE DEF t
<1>3. \A a, b \in 1 .. Len(s) : s[a] = s[b] => a = b
  BY DEF IsInjective
<1>4. s[i] \notin ToSet(t)
  <2>1. ASSUME NEW k \in 1 .. Len(s) - 1 PROVE t[k] # s[i]
    BY <1>1, <1>3
  <2>2. QED
    BY <1>1, <2>1 DEF ToSet
<1>5. s[i] \in S /\ j \in 1 .. Len(t) + 1
  BY <1>1
<1>6. InsertAt(t, j, s[i]) \in Seq(S) /\ IsInjective(InsertAt(t, j, s[i]))
  BY <1>1, <1>2, <1>4, <1>5, InsertAtFacts, InsertInjective
<1>7. QED
  BY <1>6 DEF t

-----------------------------------------------------------------------------
(* Walks *)

\* A page adds to a walk no more rows than are left of its list, and fills the
\* page only if the list goes that far.
LEMMA PageLength ==
  ASSUME NEW S, NEW s \in Seq(S), NEW p \in Nat \ {0}
  PROVE  /\ Len(Page(s, p)) \in 0 .. Limit
         /\ Len(Page(s, p)) = 0 \/ Offset(p) + Len(Page(s, p)) <= Len(s)
         /\ Derived(p, Page(s, p)) => Offset(p) + Len(Page(s, p)) >= Len(s)
<1> DEFINE o == Offset(p)
           t == Page(s, p)
<1>1. o \in Nat /\ Limit \in Nat \ {0} /\ (p = 1 => o = 0)
  BY OffsetFacts, PagingAssumption DEF Offset
<1>2. /\ t \in Seq(S)
      /\ Len(t) = IF Len(s) <= o THEN 0
                  ELSE IF o + Limit < Len(s) THEN Limit ELSE Len(s) - o
  BY PageFacts
<1>3. Len(s) \in Nat /\ Len(t) \in Nat /\ (t # <<>> => Len(t) > 0)
  BY <1>2
<1>4. Derived(p, t) => Len(t) < Limit /\ (t # <<>> \/ p = 1)
  BY DEF Derived
<1> HIDE DEF o, t
<1>5. Len(t) \in 0 .. Limit /\ (Len(t) = 0 \/ o + Len(t) <= Len(s))
  BY <1>1, <1>2, <1>3
<1>6. Derived(p, t) => o + Len(t) >= Len(s)
  BY <1>1, <1>2, <1>3, <1>4
<1>7. QED
  BY <1>5, <1>6 DEF o, t

\* The walk that has been answered one page more.
Further(w, e) ==
  [pages |-> w.pages + 1,
   rows  |-> w.rows + Len(e.rows),
   seen  |-> w.seen \cup ToSet(e.rows),
   start |-> IF w.pages + 1 = 1 THEN e.at ELSE w.start,
   last  |-> e.at]

\* A page keeps the rows that have not been shown in front of the client, if
\* none has moved up since the page before.
LEMMA ShownFurther ==
  ASSUME NEW w \in Walk, NEW e \in Response, Fits(e, w.pages + 1), Shown(w),
         w.pages = 0 \/ OnlyDown(w.last, e.at)
  PROVE  Shown(Further(w, e))
<1> DEFINE p == w.pages + 1
           n == Further(w, e)
           o == w.pages * Limit
           m == p * Limit
<1>1. /\ p \in Nat \ {0} /\ w.pages \in Nat /\ w.rows \in Nat
      /\ e.at \in Seq(Rows) /\ w.start \in Seq(Rows) /\ w.last \in Seq(Rows)
  BY DEF Walk, Response
<1>2. o = Offset(p) /\ o \in Nat /\ m = o + Limit /\ Limit \in Nat \ {0}
      /\ (w.pages = 0 => o = 0)
  <2>1. p - 1 = w.pages /\ Limit \in Nat \ {0}
    BY <1>1, PagingAssumption
  <2>2. o = Offset(p)
    BY <2>1, Zenon DEF Offset
  <2>3. o \in Nat /\ m = o + Limit
    BY <1>1, <2>2, OffsetFacts
  <2>4. w.pages = 0 => o = 0
    BY <2>1
  <2>5. QED
    BY <2>1, <2>2, <2>3, <2>4
<1>3. e.rows = Page(e.at, p)
  BY DEF Fits
<1>4. /\ n.pages = p /\ n.rows = w.rows + Len(e.rows)
      /\ n.seen = w.seen \cup ToSet(e.rows) /\ n.last = e.at
      /\ n.start = IF w.pages = 0 THEN e.at ELSE w.start
  BY <1>1 DEF Further
<1>5. \A k \in 1 .. Len(e.at) : o < k => e.at[k] \in n.seen \/ k > m
  BY <1>1, <1>2, <1>3, <1>4, OnPage
<1>6. /\ Len(e.rows) \in 0 .. Limit
      /\ Len(e.rows) = 0 \/ o + Len(e.rows) <= Len(e.at)
  BY <1>1, <1>2, <1>3, PageLength
<1>7. /\ \A i \in 1 .. Len(w.start) :
           \/ w.start[i] \in w.seen
           \/ \E j \in o + 1 .. Len(w.last) : w.last[j] = w.start[i]
      /\ w.rows <= o /\ w.rows <= Len(w.last)
  BY DEF Shown
<1>8. w.pages # 0 => Len(w.last) <= Len(e.at)
  BY <1>1, OnlyDownLength
<1>9. Len(e.at) \in Nat /\ Len(w.start) \in Nat /\ Len(w.last) \in Nat
  BY <1>1
<1> HIDE DEF p, n, o, m
<1>10. ASSUME NEW i \in 1 .. Len(n.start)
       PROVE  \/ n.start[i] \in n.seen
              \/ \E j \in m + 1 .. Len(e.at) : e.at[j] = n.start[i]
  <2>1. CASE w.pages = 0
    <3>1. n.start = e.at /\ i \in 1 .. Len(e.at) /\ o < i
      BY <1>2, <1>4, <1>10, <2>1
    <3>2. QED
      BY <1>2, <1>5, <1>9, <3>1
  <2>2. CASE w.pages # 0
    <3>1. n.start = w.start
      BY <1>4, <2>2
    <3>2. CASE w.start[i] \in w.seen
      BY <1>4, <3>1, <3>2
    <3>3. CASE \E j \in o + 1 .. Len(w.last) : w.last[j] = w.start[i]
      <4>1. PICK j \in o + 1 .. Len(w.last) : w.last[j] = w.start[i]
        BY <3>3
      <4>2. j \in 1 .. Len(w.last)
        BY <1>2, <1>9, <4>1
      <4>3. PICK k \in j .. Len(e.at) : e.at[k] = w.last[j]
        BY <2>2, <4>2 DEF OnlyDown
      <4>4. k \in 1 .. Len(e.at) /\ o < k
        BY <1>2, <1>9, <4>1, <4>3
      <4>5. QED
        BY <1>2, <1>5, <1>9, <3>1, <4>1, <4>3, <4>4
    <3>4. QED
      BY <1>7, <1>10, <3>1, <3>2, <3>3
  <2>3. QED
    BY <2>1, <2>2
<1>11. n.rows <= m /\ n.rows <= Len(e.at)
  <2>1. w.rows \in Nat /\ w.rows <= o /\ w.rows <= Len(w.last) /\ o \in Nat
        /\ Limit \in Nat /\ m = o + Limit
    BY <1>1, <1>2, <1>7
  <2>2. w.rows <= Len(e.at)
    BY <1>2, <1>8, <1>9, <2>1
  <2>3. CASE Len(e.rows) = 0
    BY <1>4, <2>1, <2>2, <2>3
  <2>4. CASE Len(e.rows) # 0
    BY <1>4, <1>6, <1>9, <2>1, <2>4
  <2>5. QED
    BY <2>3, <2>4
<1>12. QED
  BY <1>4, <1>10, <1>11 DEF Shown, m, n

-----------------------------------------------------------------------------
(* Steps *)

\* A response that fits keeps what is known of the walks.
LEMMA AnsweredFollows ==
  ASSUME PagingInvariant, NEW c \in Clients, NEW e \in Response,
         Fits(e, Asked(c)), e.grown => e.total >= Len(e.at),
         walk[c].pages < MaxPage, Answered(c, e)
  PROVE  /\ walk' \in [Clients -> Walk] /\ steady' \in SUBSET Clients
         /\ doing' \in [Clients -> {"idle", "get", "page", "count", "setEx", "done"}]
         /\ doing'[c] \in {"idle", "get", "done"}
         /\ \A d \in Clients \ {c} : doing'[d] = doing[d] /\ walk'[d] = walk[d]
         /\ WalksFollow'
<1> DEFINE w == walk[c]
           p == w.pages + 1
<1> USE DEF PagingInvariant
<1>1. /\ w \in Walk /\ w.pages \in Nat /\ w.rows \in Nat /\ w.seen \in SUBSET Rows
      /\ w.start \in Seq(Rows) /\ w.last \in Seq(Rows)
      /\ p \in Nat /\ p <= MaxPage /\ Asked(c) = p
  BY PagingAssumption DEF TypeOK, Walk, Asked
<1>2. /\ e.at \in Seq(Rows) /\ e.rows \in Seq(Rows) /\ e.total \in Nat
      /\ ToSet(e.rows) \in SUBSET Rows /\ Len(e.rows) \in Nat
  BY DEF Response, ToSet
<1>3. walk' = [walk EXCEPT ![c] = Further(w, e)]
  BY <1>1 DEF Answered, Further
<1>4. Further(w, e) \in Walk
  BY <1>1, <1>2 DEF Further, Walk
<1>5. walk' \in [Clients -> Walk] /\ walk'[c] = Further(w, e)
      /\ \A d \in Clients \ {c} : walk'[d] = walk[d]
  BY <1>3, <1>4 DEF TypeOK
<1>6. /\ steady' \in SUBSET Clients /\ steady' \subseteq steady
      /\ c \in steady' => e.grown /\ (w.pages = 0 \/ OnlyDown(w.last, e.at))
      /\ \A d \in Clients \ {c} : d \in steady' => d \in steady
  BY <1>1 DEF Answered, TypeOK
<1>7. /\ doing' \in [Clients -> {"idle", "get", "page", "count", "setEx", "done"}]
      /\ doing'[c] \in {"idle", "get", "done"}
      /\ doing'[c] = "done" => p * Limit >= e.total
      /\ doing'[c] = "get" => p < MaxPage
      /\ \A d \in Clients \ {c} : doing'[d] = doing[d]
  <2>1. p * Limit \in Nat /\ MaxPage \in Nat
    BY <1>1, PagingAssumption
  <2>2. PICK v \in {"idle", "get", "done"} :
          /\ doing' = [doing EXCEPT ![c] = v]
          /\ v = "done" => p * Limit >= e.total
          /\ v = "get" => p < MaxPage
    <3>1. doing' = [doing EXCEPT ![c] = CASE p * Limit >= e.total -> "done"
                                          [] p * Limit < e.total /\ p < MaxPage -> "get"
                                          [] OTHER -> "idle"]
      BY <1>1, Zenon DEF Answered
    <3>2. CASE p * Limit >= e.total
      <4>1. ~(p * Limit < e.total /\ p < MaxPage)
        BY <1>2, <2>1, <3>2
      <4>2. doing' = [doing EXCEPT ![c] = "done"]
        BY <3>1, <3>2, <4>1, Zenon
      <4>3. QED
        BY <3>2, <4>2
    <3>3. CASE p * Limit < e.total /\ p < MaxPage
      <4>1. ~(p * Limit >= e.total)
        BY <1>2, <2>1, <3>3
      <4>2. doing' = [doing EXCEPT ![c] = "get"]
        BY <3>1, <3>3, <4>1, Zenon
      <4>3. QED
        BY <3>3, <4>2
    <3>4. CASE ~(p * Limit >= e.total) /\ ~(p * Limit < e.total /\ p < MaxPage)
      <4>1. doing' = [doing EXCEPT ![c] = "idle"]
        BY <3>1, <3>4
      <4>2. QED
        BY <4>1
    <3>5. QED
      BY <3>2, <3>3, <3>4
  <2>3. QED
    BY <2>2 DEF TypeOK
<1>8. /\ Further(w, e).last = e.at /\ Further(w, e).pages = p
  BY DEF Further
<1>9. c \in steady' => Shown(Further(w, e))
  <2>1. c \in steady' => Shown(w)
    BY <1>6 DEF WalksFollow
  <2>2. QED
    BY <1>1, <1>6, <2>1, ShownFurther
<1>10. ASSUME NEW d \in Clients
       PROVE  /\ IsInjective(walk'[d].last)
              /\ doing'[d] \notin {"idle", "done"} => walk'[d].pages < MaxPage
              /\ d \in steady' => Shown(walk'[d])
              /\ d \in steady' /\ doing'[d] = "done" =>
                   walk'[d].pages * Limit >= Len(walk'[d].last)
  <2>1. CASE d = c
    <3>1. IsInjective(e.at)
      BY DEF Fits
    <3>2. c \in steady' /\ doing'[c] = "done" => p * Limit >= Len(e.at)
      <4> DEFINE n == p * Limit
      <4>1. n \in Nat /\ e.total \in Nat /\ Len(e.at) \in Nat
        BY <1>1, <1>2, PagingAssumption
      <4>2. SUFFICES ASSUME c \in steady', doing'[c] = "done" PROVE n >= Len(e.at)
        OBVIOUS
      <4>3. n >= e.total
        BY <1>7, <4>2
      <4>4. e.total >= Len(e.at)
        BY <1>6, <4>2
      <4> HIDE DEF n
      <4>5. QED
        BY <4>1, <4>3, <4>4
    <3>3. QED
      BY <1>5, <1>7, <1>8, <1>9, <2>1, <3>1, <3>2
  <2>2. CASE d # c
    BY <1>5, <1>6, <1>7, <2>2 DEF WalksFollow
  <2>3. QED
    BY <2>1, <2>2
<1>11. WalksFollow'
  BY <1>10 DEF WalksFollow, Shown
<1>12. QED
  BY <1>5, <1>6, <1>7, <1>11

\* A list that nobody has asked for.
LEMMA InitPaging == Init => PagingInvariant
<1> SUFFICES ASSUME Init PROVE PagingInvariant
  OBVIOUS
<1>1. NoWalk \in Walk /\ IsInjective(NoWalk.last) /\ IsInjective(<<>>)
  BY DEF NoWalk, Walk, IsInjective
<1>2. TypeOK
  BY <1>1 DEF Init, TypeOK
<1>3. ResponsesFit
  BY <1>1 DEF Init, ResponsesFit
<1>4. WalksFollow
  BY <1>1 DEF Init, WalksFollow
<1>5. QueriesFollow
  BY DEF Init, QueriesFollow
<1>6. QED
  BY <1>2, <1>3, <1>4, <1>5 DEF PagingInvariant

\* A row that comes in moves none up.
LEMMA ComeInPreserves ==
  ASSUME PagingInvariant, NEW x \in Rows, ComeIn(x)
  PROVE  PagingInvariant'
<1> USE DEF PagingInvariant
<1>1. PICK i \in 1 .. Len(table) + 1 : table' = InsertAt(table, i, x)
  BY DEF ComeIn
<1>2. table \in Seq(Rows) /\ x \notin ToSet(table)
  BY DEF ComeIn, TypeOK, Listed
<1>3. table' \in Seq(Rows)
  BY <1>1, <1>2, InsertAtFacts
<1>4. IsInjective(table')
  BY <1>1, <1>2, InsertInjective DEF ResponsesFit
<1>5. \A s \in Seq(Rows) : OnlyDown(s, table) => OnlyDown(s, table')
  BY <1>1, <1>2, OnlyDownInsert
<1>6. TypeOK'
  BY <1>3 DEF ComeIn, TypeOK
<1>7. ResponsesFit'
  BY <1>4 DEF ComeIn, ResponsesFit, Fits, Asked
<1>8. WalksFollow'
  BY DEF ComeIn, WalksFollow, Shown
<1>9. QueriesFollow'
  <2> SUFFICES ASSUME NEW c \in Clients \ (hit \cup shifted)
               PROVE  /\ doing[c] # "idle" => c \in steady
                      /\ doing[c] \notin {"idle", "done"} => OnlyDown(walk[c].last, table')
                      /\ doing[c] \in {"count", "setEx"} =>
                           /\ OnlyDown(walk[c].last, held[c].at)
                           /\ OnlyDown(held[c].at, table')
                      /\ doing[c] = "setEx" => held[c].grown
    BY DEF ComeIn, QueriesFollow, OnlyDown
  <2>1. walk[c].last \in Seq(Rows)
    BY DEF TypeOK, Walk
  <2>2. doing[c] \in {"count", "setEx"} => held[c].at \in Seq(Rows)
    BY DEF TypeOK, ResponsesFit, Response
  <2>3. QED
    BY <1>5, <2>1, <2>2 DEF QueriesFollow
<1>10. QED
  BY <1>6, <1>7, <1>8, <1>9

\* An update ends what is known of the walks it might move rows under.
LEMMA UpdatePreserves ==
  ASSUME PagingInvariant, NEW x \in Rows, NEW s \in Seq(Rows), IsInjective(s),
         Update(x, s)
  PROVE  PagingInvariant'
<1> USE DEF PagingInvariant, Update
<1>1. TypeOK'
  BY DEF TypeOK
<1>2. ResponsesFit'
  BY DEF ResponsesFit, Fits, Asked
<1>3. WalksFollow'
  BY DEF WalksFollow, Shown
<1>4. QueriesFollow'
  BY DEF QueriesFollow
<1>5. QED
  BY <1>1, <1>2, <1>3, <1>4

\* Without the row that leaves the list is still one of rows, each of them once.
LEMMA LeavePreserves ==
  ASSUME PagingInvariant, NEW x \in Rows, Leave(x)
  PROVE  PagingInvariant'
<1>1. PICK i \in 1 .. Len(table) : Update(x, RemoveAt(table, i))
  BY DEF Leave
<1>2. table \in Seq(Rows) /\ IsInjective(table)
  BY DEF PagingInvariant, TypeOK, ResponsesFit
<1>3. RemoveAt(table, i) \in Seq(Rows) /\ IsInjective(RemoveAt(table, i))
  BY <1>2, RemoveAtFacts, RemoveInjective
<1>4. QED
  BY <1>1, <1>3, UpdatePreserves

\* And so it is when a row has gone to another place.
LEMMA MovePreserves ==
  ASSUME PagingInvariant, NEW x \in Rows, Move(x)
  PROVE  PagingInvariant'
<1>1. PICK i, j \in 1 .. Len(table) :
        table[i] = x /\ Update(x, InsertAt(RemoveAt(table, i), j, x))
  BY DEF Move
<1> DEFINE s == InsertAt(RemoveAt(table, i), j, x)
<1>2. table \in Seq(Rows) /\ IsInjective(table)
  BY DEF PagingInvariant, TypeOK, ResponsesFit
<1>3. s \in Seq(Rows) /\ IsInjective(s)
  BY <1>1, <1>2, MoveInjective
<1>4. QED
  BY <1>1, <1>3, UpdatePreserves

\* A walk that begins has shown nothing.
LEMMA BeginPreserves ==
  ASSUME PagingInvariant, NEW c \in Clients, Begin(c)
  PROVE  PagingInvariant'
<1> USE DEF PagingInvariant, Begin
<1>1. /\ NoWalk \in Walk /\ IsInjective(NoWalk.last) /\ NoWalk.pages = 0
      /\ NoWalk.last = <<>> /\ Shown(NoWalk)
  BY PagingAssumption DEF NoWalk, Walk, IsInjective, Shown
<1>2. TypeOK'
  BY <1>1 DEF TypeOK
<1>3. ResponsesFit'
  BY DEF ResponsesFit, Fits, Asked, TypeOK
<1>4. WalksFollow'
  <2> SUFFICES ASSUME NEW d \in Clients
               PROVE  /\ IsInjective(walk'[d].last)
                      /\ doing'[d] \notin {"idle", "done"} => walk'[d].pages < MaxPage
                      /\ d \in steady' => Shown(walk'[d])
                      /\ d \in steady' /\ doing'[d] = "done" =>
                           walk'[d].pages * Limit >= Len(walk'[d].last)
    BY DEF WalksFollow, Shown
  <2>1. CASE d = c
    BY <1>1, <2>1, PagingAssumption DEF TypeOK
  <2>2. CASE d # c
    BY <2>2 DEF WalksFollow, TypeOK
  <2>3. QED
    BY <2>1, <2>2
<1>5. QueriesFollow'
  <2>1. OnlyDown(<<>>, table)
    BY DEF OnlyDown
  <2> SUFFICES ASSUME NEW d \in Clients \ (hit' \cup shifted')
               PROVE  /\ doing'[d] # "idle" => d \in steady'
                      /\ doing'[d] \notin {"idle", "done"} => OnlyDown(walk'[d].last, table)
                      /\ doing'[d] \in {"count", "setEx"} =>
                           /\ OnlyDown(walk'[d].last, held[d].at)
                           /\ OnlyDown(held[d].at, table)
                      /\ doing'[d] = "setEx" => held[d].grown
    BY DEF QueriesFollow, OnlyDown
  <2>2. CASE d = c
    BY <1>1, <2>1, <2>2 DEF TypeOK
  <2>3. CASE d # c
    BY <2>3 DEF QueriesFollow, TypeOK
  <2>4. QED
    BY <2>2, <2>3
<1>6. QED
  BY <1>2, <1>3, <1>4, <1>5

\* A hit is a response that fits, from before.
LEMMA GetPreserves ==
  ASSUME PagingInvariant, NEW c \in Clients, Get(c)
  PROVE  PagingInvariant'
<1> USE DEF PagingInvariant
<1>1. CASE cache[Asked(c)] = Nothing
  <2>1. /\ doing' = [doing EXCEPT ![c] = "page"] /\ doing[c] = "get"
        /\ UNCHANGED <<table, updated, cache, held, walk, steady, hit, shifted, fails>>
    BY <1>1 DEF Get
  <2>2. TypeOK'
    BY <2>1 DEF TypeOK
  <2>3. ResponsesFit'
    BY <2>1 DEF ResponsesFit, Fits, Asked, TypeOK
  <2>4. WalksFollow'
    BY <2>1 DEF WalksFollow, Shown, TypeOK
  <2>5. QueriesFollow'
    BY <2>1 DEF QueriesFollow, OnlyDown, TypeOK
  <2>6. QED
    BY <2>2, <2>3, <2>4, <2>5
<1>2. CASE cache[Asked(c)] # Nothing
  <2> DEFINE e == cache[Asked(c)]
  <2>1. /\ doing[c] = "get" /\ Answered(c, e) /\ hit' = hit \cup {c}
        /\ UNCHANGED <<table, updated, cache, held, shifted, fails>>
    BY <1>2 DEF Get
  <2>2. walk[c].pages < MaxPage /\ Asked(c) \in Pages
    <3>1. walk[c].pages < MaxPage
      BY <2>1 DEF WalksFollow
    <3>2. walk[c].pages \in Nat
      BY DEF TypeOK, Walk
    <3>3. QED
      BY <3>1, <3>2, PagingAssumption DEF Asked, Pages
  <2>3. e \in Response /\ Fits(e, Asked(c)) /\ (e.grown => e.total >= Len(e.at))
    BY <1>2, <2>2 DEF TypeOK, ResponsesFit
  <2> HIDE DEF e
  <2>4. /\ walk' \in [Clients -> Walk] /\ steady' \in SUBSET Clients
        /\ doing' \in [Clients -> {"idle", "get", "page", "count", "setEx", "done"}]
        /\ doing'[c] \in {"idle", "get", "done"}
        /\ \A d \in Clients \ {c} : doing'[d] = doing[d] /\ walk'[d] = walk[d]
        /\ WalksFollow'
    BY <2>1, <2>2, <2>3, AnsweredFollows
  <2>5. TypeOK'
    BY <2>1, <2>4 DEF TypeOK
  <2>6. ResponsesFit'
    BY <2>1, <2>4 DEF ResponsesFit, Fits, Asked
  <2>7. QueriesFollow'
    <3>1. \A d \in Clients \ {c} : d \in steady' <=> d \in steady
      BY <2>1 DEF Answered
    <3>2. QED
      BY <2>1, <2>4, <3>1 DEF QueriesFollow, OnlyDown
  <2>8. QED
    BY <2>4, <2>5, <2>6, <2>7
<1>3. QED
  BY <1>1, <1>2

\* A page is read from the list as it is, and so is a total derived from it.
LEMMA ReadPagePreserves ==
  ASSUME PagingInvariant, NEW c \in Clients, ReadPage(c)
  PROVE  PagingInvariant'
<1> USE DEF PagingInvariant
<1> DEFINE p == Asked(c)
           rows == Page(table, p)
           e == [rows |-> rows, total |-> Offset(p) + Len(rows),
                 at |-> table, grown |-> TRUE]
<1>1. /\ doing[c] = "page" /\ held' = [held EXCEPT ![c] = e]
      /\ doing' = [doing EXCEPT ![c] = IF Derived(p, rows) THEN "setEx" ELSE "count"]
      /\ UNCHANGED <<table, updated, cache, walk, steady, hit, shifted, fails>>
  BY DEF ReadPage
<1>2. table \in Seq(Rows) /\ p \in Nat \ {0} /\ IsInjective(table)
  BY DEF TypeOK, Walk, Asked, ResponsesFit
<1>3. /\ rows \in Seq(Rows) /\ Offset(p) + Len(rows) \in Nat
      /\ Derived(p, rows) => Offset(p) + Len(rows) >= Len(table)
  <2>1. rows \in Seq(Rows)
    BY <1>2, PageFacts
  <2>2. Derived(p, rows) => Offset(p) + Len(rows) >= Len(table)
    BY <1>2, PageLength
  <2>3. Offset(p) \in Nat
    BY <1>2, OffsetFacts
  <2>4. Len(rows) \in Nat
    BY <2>1
  <2>5. QED
    BY <2>1, <2>2, <2>3, <2>4
<1> HIDE DEF p, rows
<1>4. e \in Response /\ e.at = table /\ e.grown /\ e.rows = rows
      /\ e.total = Offset(p) + Len(rows)
  BY <1>2, <1>3 DEF Response
<1> HIDE DEF e
<1>5. Fits(e, p)
  BY <1>2, <1>4 DEF Fits, rows
<1>6. PICK v \in {"count", "setEx"} :
        /\ doing' = [doing EXCEPT ![c] = v]
        /\ v = "setEx" => e.total >= Len(e.at)
  BY <1>1, <1>3, <1>4
<1>7. e # Nothing
  BY <1>4, PagingAssumption
<1>8. /\ held'[c] = e /\ doing'[c] = v
      /\ \A d \in Clients \ {c} : held'[d] = held[d] /\ doing'[d] = doing[d]
  BY <1>1, <1>6 DEF TypeOK
<1>9. TypeOK'
  BY <1>1, <1>4, <1>6 DEF TypeOK
<1>10. ResponsesFit'
  <2>1. \A d \in Clients : Asked(d)' = Asked(d)
    BY <1>1 DEF Asked
  <2>2. IsInjective(table') /\ \A q \in Pages : cache'[q] # Nothing =>
          Fits(cache'[q], q) /\ (cache'[q].grown => cache'[q].total >= Len(cache'[q].at))
    BY <1>1 DEF ResponsesFit
  <2>3. ASSUME NEW d \in Clients
        PROVE  /\ doing'[d] \in {"count", "setEx"} =>
                    held'[d] # Nothing /\ Fits(held'[d], Asked(d))
               /\ doing'[d] = "setEx" /\ held'[d].grown =>
                    held'[d].total >= Len(held'[d].at)
    <3>1. CASE d = c
      BY <1>5, <1>6, <1>7, <1>8, <3>1 DEF p
    <3>2. CASE d # c
      BY <1>8, <3>2 DEF ResponsesFit
    <3>3. QED
      BY <3>1, <3>2
  <2>4. QED
    BY <2>1, <2>2, <2>3 DEF ResponsesFit, Fits
<1>11. WalksFollow'
  BY <1>1, <1>6 DEF WalksFollow, Shown, TypeOK
<1>12. QueriesFollow'
  <2> SUFFICES ASSUME NEW d \in Clients \ (hit \cup shifted)
               PROVE  /\ doing'[d] # "idle" => d \in steady
                      /\ doing'[d] \notin {"idle", "done"} => OnlyDown(walk[d].last, table)
                      /\ doing'[d] \in {"count", "setEx"} =>
                           /\ OnlyDown(walk[d].last, held'[d].at)
                           /\ OnlyDown(held'[d].at, table)
                      /\ doing'[d] = "setEx" => held'[d].grown
    BY <1>1 DEF QueriesFollow, OnlyDown
  <2>1. OnlyDown(table, table)
    BY <1>2, OnlyDownReflexive
  <2>2. CASE d = c
    BY <1>1, <1>4, <1>8, <2>1, <2>2 DEF QueriesFollow
  <2>3. CASE d # c
    BY <1>8, <2>3 DEF QueriesFollow
  <2>4. QED
    BY <2>2, <2>3
<1>13. QED
  BY <1>9, <1>10, <1>11, <1>12

\* A total that is counted when no row has left or moved up is not too small.
LEMMA CountPreserves ==
  ASSUME PagingInvariant, NEW c \in Clients, Count(c)
  PROVE  PagingInvariant'
<1> USE DEF PagingInvariant
<1> DEFINE g == OnlyDown(held[c].at, table)
           e == [held[c] EXCEPT !.total = Len(table), !.grown = g]
<1>1. /\ doing[c] = "count" /\ held' = [held EXCEPT ![c] = e]
      /\ doing' = [doing EXCEPT ![c] = "setEx"]
      /\ UNCHANGED <<table, updated, cache, walk, steady, hit, shifted, fails>>
  BY DEF Count, TypeOK
<1>2. held[c] \in Response /\ Fits(held[c], Asked(c))
  BY <1>1 DEF ResponsesFit, TypeOK
<1>3. table \in Seq(Rows) /\ held[c].at \in Seq(Rows) /\ Len(table) \in Nat
  BY <1>2 DEF Response, TypeOK
<1>4. g \in BOOLEAN /\ (g => Len(held[c].at) <= Len(table))
  BY <1>3, OnlyDownLength DEF OnlyDown
<1> HIDE DEF g
<1>5. /\ e \in Response /\ e.at = held[c].at /\ e.rows = held[c].rows
      /\ e.total = Len(table) /\ e.grown = g
  BY <1>2, <1>3, <1>4 DEF Response
<1> HIDE DEF e
<1>6. Fits(e, Asked(c)) /\ e # Nothing /\ (e.grown => e.total >= Len(e.at))
  BY <1>2, <1>3, <1>4, <1>5, PagingAssumption DEF Fits
<1>7. /\ held'[c] = e /\ doing'[c] = "setEx"
      /\ \A d \in Clients \ {c} : held'[d] = held[d] /\ doing'[d] = doing[d]
  BY <1>1 DEF TypeOK
<1>8. TypeOK'
  BY <1>1, <1>5 DEF TypeOK
<1>9. ResponsesFit'
  <2>1. \A d \in Clients : Asked(d)' = Asked(d)
    BY <1>1 DEF Asked
  <2>2. IsInjective(table') /\ \A q \in Pages : cache'[q] # Nothing =>
          Fits(cache'[q], q) /\ (cache'[q].grown => cache'[q].total >= Len(cache'[q].at))
    BY <1>1 DEF ResponsesFit
  <2>3. ASSUME NEW d \in Clients
        PROVE  /\ doing'[d] \in {"count", "setEx"} =>
                    held'[d] # Nothing /\ Fits(held'[d], Asked(d))
               /\ doing'[d] = "setEx" /\ held'[d].grown =>
                    held'[d].total >= Len(held'[d].at)
    <3>1. CASE d = c
      BY <1>6, <1>7, <3>1
    <3>2. CASE d # c
      BY <1>7, <3>2 DEF ResponsesFit
    <3>3. QED
      BY <3>1, <3>2
  <2>4. QED
    BY <2>1, <2>2, <2>3 DEF ResponsesFit, Fits
<1>10. WalksFollow'
  BY <1>1 DEF WalksFollow, Shown, TypeOK
<1>11. QueriesFollow'
  <2> SUFFICES ASSUME NEW d \in Clients \ (hit \cup shifted)
               PROVE  /\ doing'[d] # "idle" => d \in steady
                      /\ doing'[d] \notin {"idle", "done"} => OnlyDown(walk[d].last, table)
                      /\ doing'[d] \in {"count", "setEx"} =>
                           /\ OnlyDown(walk[d].last, held'[d].at)
                           /\ OnlyDown(held'[d].at, table)
                      /\ doing'[d] = "setEx" => held'[d].grown
    BY <1>1 DEF QueriesFollow, OnlyDown
  <2>1. CASE d = c
    BY <1>1, <1>5, <1>7, <2>1 DEF QueriesFollow, g
  <2>2. CASE d # c
    BY <1>7, <2>2 DEF QueriesFollow
  <2>3. QED
    BY <2>1, <2>2
<1>12. QED
  BY <1>8, <1>9, <1>10, <1>11

\* What is stored is what is answered, and fits.
LEMMA StorePreserves ==
  ASSUME PagingInvariant, NEW c \in Clients, Store(c)
  PROVE  PagingInvariant'
<1> USE DEF PagingInvariant
<1> DEFINE e == held[c]
<1>1. /\ doing[c] = "setEx" /\ Answered(c, e)
      /\ cache' = [cache EXCEPT ![Asked(c)] = e]
      /\ held' = [held EXCEPT ![c] = Nothing]
      /\ UNCHANGED <<table, updated, hit, shifted, fails>>
  BY DEF Store
<1>2. walk[c].pages < MaxPage /\ Asked(c) \in Pages
  <2>1. walk[c].pages < MaxPage
    BY <1>1 DEF WalksFollow
  <2>2. walk[c].pages \in Nat
    BY DEF TypeOK, Walk
  <2>3. QED
    BY <2>1, <2>2, PagingAssumption DEF Asked, Pages
<1>3. e \in Response /\ Fits(e, Asked(c)) /\ (e.grown => e.total >= Len(e.at))
  BY <1>1 DEF TypeOK, ResponsesFit
<1>4. c \notin hit \cup shifted =>
        c \in steady /\ e.grown /\ OnlyDown(walk[c].last, e.at) /\ OnlyDown(e.at, table)
  BY <1>1 DEF QueriesFollow
<1>5. held'[c] = Nothing /\ \A d \in Clients \ {c} : held'[d] = held[d]
  BY <1>1 DEF TypeOK
<1> HIDE DEF e
<1>6. /\ walk' \in [Clients -> Walk] /\ steady' \in SUBSET Clients
      /\ doing' \in [Clients -> {"idle", "get", "page", "count", "setEx", "done"}]
      /\ doing'[c] \in {"idle", "get", "done"}
      /\ \A d \in Clients \ {c} : doing'[d] = doing[d] /\ walk'[d] = walk[d]
      /\ WalksFollow'
  BY <1>1, <1>2, <1>3, AnsweredFollows
<1>7. TypeOK'
  BY <1>1, <1>3, <1>6 DEF TypeOK
<1>8. ResponsesFit'
  <2>1. IsInjective(table') /\ \A q \in Pages : cache'[q] # Nothing =>
          Fits(cache'[q], q) /\ (cache'[q].grown => cache'[q].total >= Len(cache'[q].at))
    BY <1>1, <1>3 DEF ResponsesFit, TypeOK
  <2>2. ASSUME NEW d \in Clients
        PROVE  /\ doing'[d] \in {"count", "setEx"} =>
                    held'[d] # Nothing /\ Fits(held'[d], walk'[d].pages + 1)
               /\ doing'[d] = "setEx" /\ held'[d].grown =>
                    held'[d].total >= Len(held'[d].at)
    <3>1. CASE d = c
      BY <1>6, <3>1
    <3>2. CASE d # c
      BY <1>5, <1>6, <3>2 DEF ResponsesFit, Asked
    <3>3. QED
      BY <3>1, <3>2
  <2>3. QED
    BY <2>1, <2>2 DEF ResponsesFit, Fits, Asked
<1>9. QueriesFollow'
  <2> SUFFICES ASSUME NEW d \in Clients \ (hit \cup shifted)
               PROVE  /\ doing'[d] # "idle" => d \in steady'
                      /\ doing'[d] \notin {"idle", "done"} => OnlyDown(walk'[d].last, table)
                      /\ doing'[d] \in {"count", "setEx"} =>
                           /\ OnlyDown(walk'[d].last, held'[d].at)
                           /\ OnlyDown(held'[d].at, table)
                      /\ doing'[d] = "setEx" => held'[d].grown
    BY <1>1 DEF QueriesFollow, OnlyDown
  <2>1. CASE d = c
    <3>1. c \in steady' /\ walk'[c].last = e.at
      BY <1>1, <1>4, <2>1 DEF Answered, TypeOK
    <3>2. QED
      BY <1>4, <1>6, <2>1, <3>1
  <2>2. CASE d # c
    <3>1. d \in steady => d \in steady'
      BY <1>1, <2>2 DEF Answered
    <3>2. QED
      BY <1>5, <1>6, <2>2, <3>1 DEF QueriesFollow
  <2>3. QED
    BY <2>1, <2>2
<1>10. QED
  BY <1>6, <1>7, <1>8, <1>9

\* A call that fails leaves at most a response that fits.
LEMMA FailPreserves ==
  ASSUME PagingInvariant, NEW c \in Clients, Fail(c)
  PROVE  PagingInvariant'
<1> USE DEF PagingInvariant
<1>1. PICK v \in {"get", "idle"} : doing' = [doing EXCEPT ![c] = v]
  BY DEF Fail
<1>2. /\ doing[c] \notin {"idle", "done"} /\ fails' = fails + 1
      /\ held' = [held EXCEPT ![c] = Nothing]
      /\ UNCHANGED <<table, updated, walk, steady, hit, shifted>>
      /\ \/ cache' = cache
         \/ doing[c] = "setEx" /\ cache' = [cache EXCEPT ![Asked(c)] = held[c]]
  BY DEF Fail
<1>3. /\ held'[c] = Nothing /\ doing'[c] = v
      /\ \A d \in Clients \ {c} : held'[d] = held[d] /\ doing'[d] = doing[d]
  BY <1>1, <1>2 DEF TypeOK
<1>4. /\ cache' \in [Pages -> Response \cup {Nothing}]
      /\ \A q \in Pages : cache'[q] # Nothing =>
           Fits(cache'[q], q) /\ (cache'[q].grown => cache'[q].total >= Len(cache'[q].at))
  <2>1. CASE cache' = cache
    BY <2>1 DEF TypeOK, ResponsesFit
  <2>2. CASE doing[c] = "setEx" /\ cache' = [cache EXCEPT ![Asked(c)] = held[c]]
    BY <2>2 DEF TypeOK, ResponsesFit
  <2>3. QED
    BY <1>2, <2>1, <2>2
<1>5. TypeOK'
  BY <1>1, <1>2, <1>4 DEF TypeOK
<1>6. ResponsesFit'
  BY <1>1, <1>2, <1>3, <1>4 DEF ResponsesFit, Fits, Asked
<1>7. WalksFollow'
  BY <1>2, <1>3 DEF WalksFollow, Shown
<1>8. QueriesFollow'
  <2> SUFFICES ASSUME NEW d \in Clients \ (hit \cup shifted)
               PROVE  /\ doing'[d] # "idle" => d \in steady
                      /\ doing'[d] \notin {"idle", "done"} => OnlyDown(walk[d].last, table)
                      /\ doing'[d] \in {"count", "setEx"} =>
                           /\ OnlyDown(walk[d].last, held'[d].at)
                           /\ OnlyDown(held'[d].at, table)
                      /\ doing'[d] = "setEx" => held'[d].grown
    BY <1>2 DEF QueriesFollow, OnlyDown
  <2>1. CASE d = c
    BY <1>2, <1>3, <2>1 DEF QueriesFollow
  <2>2. CASE d # c
    BY <1>3, <2>2 DEF QueriesFollow
  <2>3. QED
    BY <2>1, <2>2
<1>9. QED
  BY <1>5, <1>6, <1>7, <1>8

\* No walk relies on a page in the cache.
LEMMA ForgetPreserves ==
  ASSUME PagingInvariant, NEW P \in SUBSET Pages, Forget(P)
  PROVE  PagingInvariant'
<1> USE DEF PagingInvariant, Forget
<1>1. TypeOK'
  BY DEF TypeOK
<1>2. ResponsesFit'
  BY DEF ResponsesFit, Fits, Asked
<1>3. WalksFollow'
  BY DEF WalksFollow, Shown
<1>4. QueriesFollow'
  BY DEF QueriesFollow, OnlyDown
<1>5. QED
  BY <1>1, <1>2, <1>3, <1>4

\* Every step keeps the invariant.
LEMMA StepPaging == PagingInvariant /\ [Next]_vars => PagingInvariant'
<1> SUFFICES ASSUME PagingInvariant, [Next]_vars PROVE PagingInvariant'
  OBVIOUS
<1>1. ASSUME NEW x \in Rows, ComeIn(x) \/ Leave(x) \/ Move(x)
      PROVE  PagingInvariant'
  BY <1>1, ComeInPreserves, LeavePreserves, MovePreserves
<1>2. ASSUME NEW c \in Clients,
             \/ Begin(c) \/ Get(c) \/ ReadPage(c) \/ Count(c)
             \/ Store(c) \/ Fail(c)
      PROVE  PagingInvariant'
  BY <1>2, BeginPreserves, GetPreserves, ReadPagePreserves, CountPreserves,
     StorePreserves, FailPreserves
<1>3. ASSUME NEW P \in SUBSET Pages, Forget(P) PROVE PagingInvariant'
  BY <1>3, ForgetPreserves
<1>4. CASE UNCHANGED vars
  BY <1>4 DEF vars, PagingInvariant, TypeOK, ResponsesFit, WalksFollow,
              QueriesFollow, Fits, Asked, Shown, OnlyDown
<1>5. QED
  BY <1>1, <1>2, <1>3, <1>4 DEF Next

-----------------------------------------------------------------------------
(* Theorems *)

\* Responses fit the lists they were read from, and walks their responses,
\* whatever the interleaving, for any number of clients, rows and pages.
THEOREM PagingInvariantHolds == Spec => []PagingInvariant
  BY InitPaging, StepPaging, PTL DEF Spec

\* Rows not shown by a steady walk would have to be below the last page of it.
LEMMA NothingIsSkipped == PagingInvariant => NothingSkipped
<1> SUFFICES ASSUME PagingInvariant, NEW c \in steady, doing[c] = "done",
                    NEW x \in ToSet(walk[c].start)
             PROVE  x \in walk[c].seen
  BY DEF NothingSkipped
<1> DEFINE w == walk[c]
<1>1. c \in Clients
  BY DEF PagingInvariant, TypeOK
<1>2. PICK i \in 1 .. Len(w.start) : w.start[i] = x
  <2>1. w.start \in Seq(Rows)
    BY <1>1 DEF PagingInvariant, TypeOK, Walk
  <2>2. QED
    BY <2>1 DEF ToSet
<1>3. Shown(w) /\ w.pages * Limit >= Len(w.last)
  BY <1>1 DEF PagingInvariant, WalksFollow
<1>4. w.pages \in Nat /\ Len(w.last) \in Nat
  BY <1>1 DEF PagingInvariant, TypeOK, Walk
<1>5. w.pages * Limit \in Nat
  BY <1>4, PagingAssumption
<1>6. ~ \E j \in w.pages * Limit + 1 .. Len(w.last) : w.last[j] = w.start[i]
  BY <1>3, <1>4, <1>5
<1>7. QED
  BY <1>2, <1>3, <1>6 DEF Shown

\* A walk that nothing moves up under skips no row, however many come in.
THEOREM SteadyWalksSkipNothing == Spec => []NothingSkipped
  BY PagingInvariantHolds, NothingIsSkipped, PTL

\* Only pages from the cache, and rows that leave the list or are moved in it by an
\* update, let a row move up under a walk.
THEOREM QueriedWalksSteady == Spec => []QueriedWalksAreSteady
<1>1. PagingInvariant => QueriedWalksAreSteady
  BY DEF PagingInvariant, QueriesFollow, QueriedWalksAreSteady
<1>2. QED
  BY <1>1, PagingInvariantHolds, PTL

\* The rows on the pages so far are those that have been shown or have come in.
LEMMA RepeatsAreBounded == PagingInvariant => RepeatsBounded
<1> SUFFICES ASSUME PagingInvariant, NEW c \in steady
             PROVE  walk[c].rows <= Cardinality(walk[c].seen)
                      + Cardinality(ToSet(walk[c].last) \ ToSet(walk[c].start))
  BY DEF RepeatsBounded
<1> DEFINE w == walk[c]
           n == w.rows
           in == ToSet(w.last) \ ToSet(w.start)
           f == [i \in 1 .. n |-> w.last[i]]
<1>1. /\ w.seen \in SUBSET Rows /\ w.start \in Seq(Rows) /\ w.last \in Seq(Rows)
      /\ w.pages \in Nat /\ n \in Nat
  BY DEF PagingInvariant, TypeOK, Walk
<1>2. IsInjective(w.last) /\ Shown(w)
  BY DEF PagingInvariant, TypeOK, WalksFollow
<1>3. n <= w.pages * Limit /\ n <= Len(w.last)
  BY <1>2 DEF Shown
<1>4. w.pages * Limit \in Nat /\ Len(w.last) \in Nat /\ DOMAIN w.last = 1 .. Len(w.last)
      /\ DOMAIN w.start = 1 .. Len(w.start)
  BY <1>1, PagingAssumption
<1>5. \A i, j \in 1 .. Len(w.last) : w.last[i] = w.last[j] => i = j
  BY <1>2, <1>4 DEF IsInjective
<1>6. ASSUME NEW i \in 1 .. n PROVE w.last[i] \in w.seen \cup in
  <2>1. i \in 1 .. Len(w.last) /\ w.last[i] \in ToSet(w.last)
    BY <1>1, <1>3, <1>4 DEF ToSet
  <2>2. CASE w.last[i] \in ToSet(w.start)
    <3>1. PICK a \in 1 .. Len(w.start) : w.start[a] = w.last[i]
      BY <1>4, <2>2 DEF ToSet
    <3>2. ASSUME NEW j \in w.pages * Limit + 1 .. Len(w.last), w.last[j] = w.start[a]
          PROVE  FALSE
      <4>1. j \in 1 .. Len(w.last) /\ i < j
        BY <1>1, <1>3, <1>4, <3>2
      <4>2. QED
        BY <1>5, <2>1, <3>1, <3>2, <4>1
    <3>3. QED
      BY <1>2, <3>1, <3>2 DEF Shown
  <2>3. QED
    BY <2>1, <2>2
<1>7. IsFiniteSet(w.seen) /\ IsFiniteSet(in)
  <2>1. in \in SUBSET Rows
    BY <1>1, <1>4 DEF ToSet
  <2>2. QED
    BY <1>1, <2>1, FS_Subset, PagingAssumption
<1>8. /\ IsFiniteSet(w.seen \cup in)
      /\ Cardinality(w.seen \cup in) <= Cardinality(w.seen) + Cardinality(in)
      /\ Cardinality(w.seen \cup in) \in Nat
      /\ Cardinality(w.seen) + Cardinality(in) \in Nat
  <2>1. /\ IsFiniteSet(w.seen \cup in)
        /\ Cardinality(w.seen \cup in) = Cardinality(w.seen) + Cardinality(in)
                                            - Cardinality(w.seen \cap in)
    BY <1>7, FS_Union
  <2>2. IsFiniteSet(w.seen \cap in)
    BY <1>7, FS_Subset
  <2> HIDE DEF in
  <2>3. /\ Cardinality(w.seen) \in Nat /\ Cardinality(in) \in Nat
        /\ Cardinality(w.seen \cup in) \in Nat /\ Cardinality(w.seen \cap in) \in Nat
    BY <1>7, <2>1, <2>2, FS_CardinalityType
  <2>4. QED
    BY <2>1, <2>3
<1>9. n <= Cardinality(w.seen \cup in)
  <2>1. f \in [1 .. n -> w.seen \cup in]
    BY <1>6
  <2>2. \A i, j \in 1 .. n : f[i] = f[j] => i = j
    BY <1>1, <1>3, <1>4, <1>5
  <2> HIDE DEF f
  <2>3. f \in Injection(1 .. n, w.seen \cup in)
    BY <2>1, <2>2 DEF Injection, IsInjective
  <2>4. Cardinality(1 .. n) = n
    <3>1. 1 \in Int /\ n \in Int /\ n >= 0
      BY <1>1
    <3>2. Cardinality(1 .. n) = IF 1 > n THEN 0 ELSE n - 1 + 1
      BY <3>1, FS_Interval
    <3>3. QED
      BY <3>1, <3>2
  <2>5. QED
    BY <1>8, <2>3, <2>4, FS_Injection
<1>10. QED
  BY <1>1, <1>8, <1>9

\* A row is shown again only for a row that has come in.
THEOREM RepeatsStayBounded == Spec => []RepeatsBounded
  BY PagingInvariantHolds, RepeatsAreBounded, PTL
=============================================================================
