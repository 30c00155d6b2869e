--------------------------- MODULE Outreach_proofs ---------------------------
(***************************************************************************)
(* Proofs about UmailExport, UmailFeedback and ProspectAnalysis for any    *)
(* companies, contacts, addresses, files and facts, and any number of      *)
(* requests and approvers.                                                 *)
(*                                                                         *)
(* EInv says that the rows of a batch are those its hash stands for, on    *)
(* the list as it is now: entries are added and taken off, but never lose  *)
(* their targets.  FInv adds that the matched rows of an import were sent  *)
(* and report different events, what a request that applies an import may  *)
(* rely on until it commits (the import is its own, the events it leaves   *)
(* out are stored), and the counters.                                      *)
(*                                                                         *)
(* AInv says what every aggregate of an analysis is, in the tables and in  *)
(* the memory of a request or an approver: its keys, its writers, and that *)
(* it holds no approval nobody asked for.  A save mixes three of them (the *)
(* rows, those merge loaded, those in memory), and the invariant says      *)
(* nothing of the second: FlushedWithin and FlushedUnique hold whatever    *)
(* was loaded, which is why no interleaving of the requests can break      *)
(* them.  For the answers it adds what each stage of a request may rely on *)
(* until it is answered.  Rows are numbered by requests that have assessed *)
(* (Numbered): so their numbers stay within the bound on the requests.     *)
(***************************************************************************)
EXTENDS UmailFeedback, ProspectAnalysis, Order_proofs

------------------------------------------------------------------------------
(***************************************************************************)
(* The rows of a batch                                                     *)
(***************************************************************************)

PairSet(companies) == UNION {PairsOf(c) : c \in companies}
PairOrder(S) == {p \in S \X S : PairBefore(p[1], p[2])}

\* Contacts of a row are contacts.
LEMMA SelectedAre ==
  ASSUME NEW c
  PROVE  Selected(c) \subseteq Contacts
  BY DEF Selected, ContactsOf

\* The pairs of a batch are finitely many, and any two are ordered.
LEMMA PairSetOK ==
  ASSUME NEW companies \in SUBSET Companies
  PROVE  /\ PairSet(companies) \subseteq Companies \X (Contacts \union {None})
         /\ IsFiniteSet(PairSet(companies))
         /\ Total2(PairSet(companies), PairOrder(PairSet(companies)))
<1> DEFINE S == PairSet(companies)
<1>1. \A p \in S : \E c \in companies : p \in PairsOf(c)
  BY DEF PairSet
<1>2. \A c \in companies : PairsOf(c) \subseteq Companies \X (Contacts \union {None})
  BY SelectedAre DEF PairsOf
<1>3. S \subseteq Companies \X (Contacts \union {None})
  BY <1>1, <1>2
<1>4. IsFiniteSet(S)
  <2>1. IsFiniteSet(Companies) /\ IsFiniteSet(Contacts)
    BY ExportAssumption, FS_Interval DEF Companies, Contacts
  <2>2. IsFiniteSet(Contacts \union {None})
    BY <2>1, FS_AddElement
  <2>3. IsFiniteSet(Companies \X (Contacts \union {None}))
    BY <2>1, <2>2, FS_Product
  <2>  QED
    BY <2>3, <1>3, FS_Subset
<1>5. \A p, q \in S : p[1] = q[1] /\ p # q => p[2] \in Contacts /\ q[2] \in Contacts /\ p[2] # q[2]
  <2> SUFFICES ASSUME NEW p \in S, NEW q \in S, p[1] = q[1], p # q
               PROVE  p[2] \in Contacts /\ q[2] \in Contacts /\ p[2] # q[2]
    OBVIOUS
  <2>1. PICK c \in companies : p \in PairsOf(c)
    BY <1>1
  <2>2. PICK d \in companies : q \in PairsOf(d)
    BY <1>1
  <2>3. c = d /\ p[1] = c /\ q[1] = c
    BY <2>1, <2>2 DEF PairsOf
  <2>4. p = <<p[1], p[2]>> /\ q = <<q[1], q[2]>>
    BY <2>1, <2>2 DEF PairsOf
  <2>5. p[2] # q[2]
    BY <2>4
  <2>6. Selected(c) # {}
    BY <2>1, <2>2, <2>3, <2>5 DEF PairsOf
  <2>  QED
    BY <2>1, <2>2, <2>3, <2>5, <2>6, SelectedAre DEF PairsOf
<1>6. \A p \in S : p[1] \in Nat
  BY <1>3, ExportAssumption DEF Companies
<1>7. \A x \in Contacts : x \in Nat /\ Rank[x] \in Nat
  BY ExportAssumption DEF Contacts
<1>8. \A p, q \in S : <<p, q>> \in PairOrder(S) <=> PairBefore(p, q)
  BY DEF PairOrder
<1> HIDE DEF S
<1>9. \A p \in S : ~PairBefore(p, p)
  BY <1>6 DEF PairBefore
<1>10. \A p, q \in S : p # q => PairBefore(p, q) \/ PairBefore(q, p)
  BY <1>5, <1>6, <1>7 DEF PairBefore, Before
<1>11. \A p, q, r \in S : PairBefore(p, q) /\ PairBefore(q, r) => PairBefore(p, r)
  <2> SUFFICES ASSUME NEW p \in S, NEW q \in S, NEW r \in S, PairBefore(p, q), PairBefore(q, r)
               PROVE  PairBefore(p, r)
    OBVIOUS
  <2>1. CASE p[1] = q[1] /\ q[1] = r[1]
    <3>1. Before(p[2], q[2]) /\ Before(q[2], r[2]) /\ p # q /\ q # r
      BY <2>1, <1>6 DEF PairBefore
    <3>2. /\ p[2] \in Nat /\ Rank[p[2]] \in Nat /\ q[2] \in Nat /\ Rank[q[2]] \in Nat
          /\ r[2] \in Nat /\ Rank[r[2]] \in Nat
      BY <3>1, <2>1, <1>5, <1>7
    <3>3. Before(p[2], r[2]) /\ p[2] # r[2]
      BY <3>1, <3>2 DEF Before
    <3>  QED
      BY <3>3, <2>1 DEF PairBefore
  <2>2. CASE ~(p[1] = q[1] /\ q[1] = r[1])
    BY <2>2, <1>6 DEF PairBefore
  <2>  QED
    BY <2>1, <2>2
<1>12. Total2(S, PairOrder(S))
  <2> DEFINE R == PairOrder(S)
  <2>1. \A p, q \in S : <<p, q>> \in R <=> PairBefore(p, q)
    BY <1>8
  <2> HIDE DEF R
  <2>2. Total2(S, R)
    BY <2>1, <1>9, <1>10, <1>11 DEF Total2
  <2>  QED
    BY <2>2 DEF R
<1>  QED
  BY <1>3, <1>4, <1>12 DEF S

\* Pairs lists them as a sequence.
LEMMA PairsOK ==
  ASSUME NEW companies \in SUBSET Companies
  PROVE  /\ \E n \in Nat : DOMAIN Pairs(companies) = 1 .. n
         /\ Pairs(companies) \in Seq(Companies \X (Contacts \union {None}))
<1> DEFINE S == PairSet(companies)
           R == PairOrder(S)
           n == Cardinality(S)
<1>1. /\ S \subseteq Companies \X (Contacts \union {None})
      /\ IsFiniteSet(S) /\ Total2(S, R)
  BY PairSetOK
<1>2. n \in Nat
  BY <1>1, FS_CardinalityType
<1>3. \A x \in S : RankIn(S, R, x) = Cardinality({y \in S : PairBefore(y, x)})
  <2> SUFFICES ASSUME NEW x \in S
               PROVE  {y \in S : <<y, x>> \in R} = {y \in S : PairBefore(y, x)}
    BY DEF RankIn
  <2>  QED
    BY DEF PairOrder
<1>4. Pairs(companies)
        = [i \in 1 .. n |-> CHOOSE x \in S : Cardinality({y \in S : PairBefore(y, x)}) = i - 1]
  BY DEF Pairs, InOrder, PairSet
<1> HIDE DEF S, R
<1>5. \A i \in 1 .. n : \E x \in S : Cardinality({y \in S : PairBefore(y, x)}) = i - 1
  BY <1>1, <1>3, RankIsBijective
<1>6. \A i \in 1 .. n : Pairs(companies)[i] \in S
  <2> SUFFICES ASSUME NEW i \in 1 .. n
               PROVE  Pairs(companies)[i] \in S
    OBVIOUS
  <2> DEFINE Q(x) == Cardinality({y \in S : PairBefore(y, x)}) = i - 1
  <2>1. Pairs(companies)[i] = CHOOSE x \in S : Q(x)
    BY <1>4
  <2>2. \E x \in S : Q(x)
    BY <1>5
  <2>3. (CHOOSE x \in S : Q(x)) \in S
    <3> HIDE DEF Q
    <3>  QED
      BY <2>2
  <2>  QED
    BY <2>1, <2>3
<1> DEFINE T == Companies \X (Contacts \union {None})
<1>7. Pairs(companies) = [i \in 1 .. n |-> Pairs(companies)[i]]
  BY <1>4
<1>8. \A i \in 1 .. n : Pairs(companies)[i] \in T
  BY <1>1, <1>6
<1> HIDE DEF n, T
<1>9. Pairs(companies) \in [1 .. n -> T]
  BY <1>7, <1>8
<1>10. Pairs(companies) \in Seq(T) /\ DOMAIN Pairs(companies) = 1 .. n
  BY <1>2, <1>9
<1>  QED
  BY <1>2, <1>10 DEF T

\* A contact with addresses has a best one.
LEMMA ChosenIn ==
  ASSUME NEW x \in Contacts, Book[x] # {}
  PROVE  Chosen(x) \in Book[x]
<1>1. Book[x] \subseteq [address : Addresses, verification : Verifications]
  BY ExportAssumption
<1> DEFINE V == {e.verification : e \in Book[x]}
<1>2. V \subseteq Nat /\ V # {}
  BY <1>1 DEF Verifications
<1>3. PICK v \in V : \A w \in V : v <= w
  BY <1>2, Least
<1> DEFINE A == {e.address : e \in {e \in Book[x] : e.verification = v}}
<1>4. A \subseteq Nat /\ A # {}
  <2>1. \A e \in Book[x] : e.address \in Nat
    BY <1>1, ExportAssumption
  <2>2. \E e \in Book[x] : e.verification = v
    OBVIOUS
  <2>  QED
    BY <2>1, <2>2
<1>5. PICK a \in A : \A b \in A : a <= b
  BY <1>4, Least
<1>6. PICK e \in Book[x] : e.verification = v /\ e.address = a
  BY <1>5
<1>7. \A f \in Book[x] : Better(e, f)
  <2> SUFFICES ASSUME NEW f \in Book[x]
               PROVE  Better(e, f)
    OBVIOUS
  <2>1. v \in Nat /\ f.verification \in Nat /\ v <= f.verification
    BY <1>2, <1>3
  <2>2. CASE f.verification = v
    <3>1. f.address \in A
      BY <2>2
    <3>  QED
      BY <1>5, <1>6, <2>2, <3>1 DEF Better
  <2>3. CASE f.verification # v
    BY <1>6, <2>1, <2>3 DEF Better
  <2>  QED
    BY <2>2, <2>3
<1>  QED
  BY <1>6, <1>7 DEF Chosen

\* The address of a row is one of the book, or none.
LEMMA AddressesAre ==
  ASSUME NEW x \in Contacts \union {None}
  PROVE  AddressOf(x) \in Addresses \union {None}
<1>1. None \notin Contacts
  BY ExportAssumption DEF None, Contacts
<1>2. CASE x = None \/ Book[x] = {}
  BY <1>2 DEF AddressOf
<1>3. CASE x # None /\ Book[x] # {}
  <2>1. Chosen(x) \in Book[x] /\ x \in Contacts
    BY <1>3, ChosenIn
  <2>  QED
    BY <2>1, <1>3, ExportAssumption DEF AddressOf
<1>  QED
  BY <1>2, <1>3

Single(rows) ==
  \A p, q \in DOMAIN rows :
    /\ rows[p].status = "ready" /\ rows[q].status = "ready"
    /\ rows[p].email = rows[q].email
    => p = q

\* What is ready may be sent to, and is sent to once.
LEMMA BuiltRows ==
  ASSUME NEW companies \in SUBSET Companies, NEW targets,
         NEW rows, rows = BuildRows(companies, targets)
  PROVE  /\ rows \in Seq(Rows)
         /\ \A p \in DOMAIN rows : rows[p].status = "ready" =>
              /\ {Email(rows[p].email), Domain(rows[p].email), Company(rows[p].company)}
                   \intersect targets = {}
              /\ rows[p].email \in Addresses
         /\ Single(rows)
<1> DEFINE pairs == Pairs(companies)
           standing(i) == Standing(pairs[i][1], pairs[i][2], targets)
           seen(i) == {AddressOf(pairs[j][2]) : j \in {j \in 1 .. i - 1 : standing(j) = "ready"}}
           twice(i) == standing(i) = "ready" /\ AddressOf(pairs[i][2]) \in seen(i)
<1>1. PICK n \in Nat : DOMAIN pairs = 1 .. n
  BY PairsOK
<1>2. \A i \in 1 .. n : /\ pairs[i][1] \in Companies
                        /\ pairs[i][2] \in Contacts \union {None}
  BY <1>1, PairsOK
<1>3. rows = [i \in 1 .. n |-> NewRow(pairs[i][1], pairs[i][2],
                                      IF twice(i) THEN "duplicate" ELSE standing(i))]
  BY <1>1 DEF BuildRows
<1>4. \A c, x : Standing(c, x, targets) \in {"ready", "suppressed", "invalid"}
  BY DEF Standing
<1>5. \A c, x : Standing(c, x, targets) = "ready" =>
        /\ Company(c) \notin targets /\ Mailable(x)
        /\ Email(AddressOf(x)) \notin targets /\ Domain(AddressOf(x)) \notin targets
  BY DEF Standing
<1>6. rows \in Seq(Rows)
  <2>1. \A i \in 1 .. n : rows[i] \in Rows
    BY <1>2, <1>3, <1>4, AddressesAre DEF Rows, NewRow, RowStatuses
  <2>  QED
    BY <2>1, <1>3
<1>7. \A p \in DOMAIN rows : rows[p].status = "ready" =>
         /\ p \in 1 .. n /\ standing(p) = "ready" /\ ~twice(p)
         /\ rows[p].email = AddressOf(pairs[p][2]) /\ rows[p].company = pairs[p][1]
  BY <1>3, <1>4 DEF NewRow
<1>8. \A p \in DOMAIN rows : rows[p].status = "ready" =>
        /\ {Email(rows[p].email), Domain(rows[p].email), Company(rows[p].company)}
             \intersect targets = {}
        /\ rows[p].email \in Addresses
  <2> SUFFICES ASSUME NEW p \in DOMAIN rows, rows[p].status = "ready"
               PROVE  /\ {Email(rows[p].email), Domain(rows[p].email), Company(rows[p].company)}
                           \intersect targets = {}
                      /\ rows[p].email \in Addresses
    OBVIOUS
  <2>1. /\ Company(rows[p].company) \notin targets /\ Mailable(pairs[p][2])
        /\ Email(rows[p].email) \notin targets /\ Domain(rows[p].email) \notin targets
    BY <1>5, <1>7
  <2>2. rows[p].email \in Addresses \union {None}
    BY <1>2, <1>7, AddressesAre
  <2>3. rows[p].email # None
    BY <1>7, <2>1, ExportAssumption DEF Mailable
  <2>  QED
    BY <2>1, <2>2, <2>3
<1>9. \A p, q \in DOMAIN rows :
        /\ rows[p].status = "ready" /\ rows[q].status = "ready"
        /\ rows[p].email = rows[q].email
        => ~(p < q)
  <2> SUFFICES ASSUME NEW p \in DOMAIN rows, NEW q \in DOMAIN rows,
                      rows[p].status = "ready", rows[q].status = "ready",
                      rows[p].email = rows[q].email, p < q
               PROVE  FALSE
    OBVIOUS
  <2>1. p \in 1 .. q - 1 /\ standing(p) = "ready"
    BY <1>7
  <2>2. AddressOf(pairs[q][2]) = AddressOf(pairs[p][2])
    BY <1>7
  <2>3. twice(q)
    BY <1>7, <2>1, <2>2
  <2>  QED
    BY <2>3, <1>7
<1>10. \A p \in DOMAIN rows : p \in Nat
  BY <1>3
<1>11. Single(rows)
  BY <1>9, <1>10 DEF Single
<1>  QED
  BY <1>6, <1>8, <1>11

------------------------------------------------------------------------------
(***************************************************************************)
(* Sums                                                                    *)
(***************************************************************************)

\* f holds the sums of the first numbers of counts, up to the m-th.
SumsUpto(counts, m, f) ==
  f = [n \in 0 .. m |-> IF n = 0 THEN 0 ELSE f[n - 1] + counts[n]]

\* There are such sums, of any sequence.
LEMMA SumsExist ==
  ASSUME NEW counts, NEW m \in Nat
  PROVE  \E f : SumsUpto(counts, m, f)
<1> DEFINE T == {n \in Nat : ~\E f : SumsUpto(counts, n, f)}
<1> SUFFICES T = {}
  OBVIOUS
<1> SUFFICES ASSUME T # {}
             PROVE  FALSE
  OBVIOUS
<1>1. PICK x \in T : \A y \in T : x <= y
  BY Least
<1>2. CASE x = 0
  <2> DEFINE f == [n \in 0 .. 0 |-> 0]
  <2>1. SumsUpto(counts, 0, f)
    BY DEF SumsUpto
  <2>  QED
    BY <1>1, <1>2, <2>1
<1>3. CASE x # 0
  <2>1. x - 1 \in Nat /\ x - 1 \notin T
    BY <1>1, <1>3
  <2>2. PICK g : SumsUpto(counts, x - 1, g)
    BY <2>1
  <2> DEFINE f == [n \in 0 .. x |-> IF n = x THEN g[x - 1] + counts[x] ELSE g[n]]
  <2>3. x \in Nat
    BY <1>1
  <2>4. g = [n \in 0 .. (x - 1) |-> IF n = 0 THEN 0 ELSE g[n - 1] + counts[n]]
    BY <2>2 DEF SumsUpto
  <2>5. \A n \in 0 .. x : f[n] = IF n = 0 THEN 0 ELSE f[n - 1] + counts[n]
    <3> SUFFICES ASSUME NEW n \in 0 .. x
                 PROVE  f[n] = IF n = 0 THEN 0 ELSE f[n - 1] + counts[n]
      OBVIOUS
    <3>1. CASE n = x
      BY <3>1, <1>3, <2>3
    <3>2. CASE n # x /\ n = 0
      <4>1. g[0] = 0
        BY <2>3, <2>4, <1>3
      <4>  QED
        BY <3>2, <4>1, <2>3
    <3>3. CASE n # x /\ n # 0
      <4>1. n \in 0 .. (x - 1) /\ n - 1 \in 0 .. x /\ n - 1 # x
        BY <3>3, <2>3
      <4>2. g[n] = g[n - 1] + counts[n]
        BY <4>1, <2>4, <3>3
      <4>  QED
        BY <4>1, <4>2, <3>3
    <3>  QED
      BY <3>1, <3>2, <3>3
  <2>6. f = [n \in 0 .. x |-> f[n]]
    OBVIOUS
  <2> HIDE DEF f
  <2>7. SumsUpto(counts, x, f)
    BY <2>5, <2>6 DEF SumsUpto
  <2>  QED
    BY <1>1, <2>7
<1>  QED
  BY <1>2, <1>3

\* One step of a sum.
LEMMA SumsStep ==
  ASSUME NEW counts, NEW m \in Nat, NEW f, SumsUpto(counts, m, f), NEW n \in 0 .. m
  PROVE  f[n] = IF n = 0 THEN 0 ELSE f[n - 1] + counts[n]
<1> DEFINE next(i) == IF i = 0 THEN 0 ELSE f[i - 1] + counts[i]
           h == [i \in 0 .. m |-> next(i)]
<1>1. f = h
  BY DEF SumsUpto
<1>2. h[n] = next(n)
  <2> HIDE DEF next
  <2>  QED
    OBVIOUS
<1>3. f[n] = h[n]
  <2> HIDE DEF h
  <2>  QED
    BY <1>1
<1>  QED
  BY <1>2, <1>3

\* Total is the last of the sums.
LEMMA TotalIs ==
  ASSUME NEW counts, Len(counts) \in Nat
  PROVE  \E f : SumsUpto(counts, Len(counts), f) /\ Total(counts) = f[Len(counts)]
<1> DEFINE f == CHOOSE f : SumsUpto(counts, Len(counts), f)
<1>1. SumsUpto(counts, Len(counts), f)
  BY SumsExist
<1>2. Total(counts) = f[Len(counts)]
  BY DEF Total, SumsUpto
<1>  QED
  BY <1>1, <1>2

\* d counts what c counts, and k more in the n-th place (if there is one).
DiffersBy(c, d, n, k) == \A i \in 1 .. Len(c) : d[i] = c[i] + (IF i = n THEN k ELSE 0)

\* Sums of numbers that differ in one place, at most, differ by as much.
SumDiffersBy(f, g, i, n, k) == f[i] \in Nat /\ g[i] = f[i] + (IF n \in 1 .. i THEN k ELSE 0)

\* What sequences that differ in one place say of their sums.
LEMMA SumsDiffer ==
  ASSUME NEW c \in Seq(Nat), NEW d \in Seq(Nat), Len(c) <= Len(d),
         NEW f, SumsUpto(c, Len(c), f), NEW g, SumsUpto(d, Len(d), g),
         NEW n \in Nat, NEW k \in Nat, DiffersBy(c, d, n, k)
  PROVE  \A i \in 0 .. Len(c) : SumDiffersBy(f, g, i, n, k)
<1> DEFINE Same(i) == SumDiffersBy(f, g, i, n, k)
           T == {i \in 0 .. Len(c) : ~Same(i)}
<1> SUFFICES ASSUME T # {}
             PROVE  FALSE
  OBVIOUS
<1>1. PICK x \in T : \A y \in T : x <= y
  <2>1. T \subseteq Nat
    OBVIOUS
  <2> HIDE DEF T
  <2>  QED
    BY <2>1, Least
<1>2. Len(c) \in Nat /\ Len(d) \in Nat
  OBVIOUS
<1>3. x \in 0 .. Len(c) /\ ~Same(x)
  BY <1>1
<1>4. CASE x = 0
  <2>1. f[0] = 0 /\ g[0] = 0
    BY <1>2, SumsStep
  <2>2. Same(0)
    BY <2>1 DEF SumDiffersBy
  <2>  QED
    BY <1>3, <1>4, <2>2
<1>5. CASE x # 0
  <2>1. x \in 1 .. Len(c) /\ x \in 1 .. Len(d)
    BY <1>3, <1>2, <1>5
  <2>2. x - 1 \in 0 .. Len(c) /\ ~(x <= x - 1)
    BY <1>2, <2>1
  <2>3. SumDiffersBy(f, g, x - 1, n, k)
    <3>1. x - 1 \notin T
      <4> HIDE DEF T
      <4>  QED
        BY <1>1, <2>2
    <3>  QED
      BY <2>2, <3>1
  <2> HIDE DEF T, Same
  <2>4. f[x] = f[x - 1] + c[x]
    <3>1. x \in 0 .. Len(c) /\ x # 0
      BY <2>1
    <3>  QED
      BY <3>1, <1>2, SumsStep
  <2>5. g[x] = g[x - 1] + d[x]
    <3>1. x \in 0 .. Len(d) /\ x # 0
      BY <2>1, <1>2
    <3>  QED
      BY <3>1, <1>2, SumsStep
  <2>6. c[x] \in Nat /\ d[x] = c[x] + (IF x = n THEN k ELSE 0)
    BY <2>1 DEF DiffersBy
  <2>7. f[x - 1] \in Nat /\ g[x - 1] = f[x - 1] + (IF n \in 1 .. (x - 1) THEN k ELSE 0)
    BY <2>3 DEF SumDiffersBy
  <2>10. f[x] \in Nat
    <3>1. f[x - 1] \in Nat /\ c[x] \in Nat
      BY <2>6, <2>7
    <3>2. \A i, j \in Nat : i + j \in Nat
      OBVIOUS
    <3>  QED
      BY <3>1, <3>2, <2>4
  <2>8. CASE x = n
    <3>1. n \in 1 .. x /\ n \notin 1 .. (x - 1)
      BY <2>1, <2>8
    <3>  QED
      <4>1. f[x] \in Nat
        BY <2>10
      <4>2. g[x] = f[x] + k
        BY <3>1, <2>8, <2>4, <2>5, <2>6, <2>7
      <4>3. SumDiffersBy(f, g, x, n, k)
        BY <4>1, <4>2, <3>1 DEF SumDiffersBy
      <4>  QED
        BY <4>3, <1>3 DEF Same
  <2>9. CASE x # n
    <3>1. n \in 1 .. x <=> n \in 1 .. (x - 1)
      BY <2>1, <2>9
    <3>2. f[x] \in Nat
      BY <2>10
    <3> DEFINE more == IF n \in 1 .. (x - 1) THEN k ELSE 0
    <3>3. g[x] = f[x] + more
      <4>1. more \in Nat /\ g[x - 1] = f[x - 1] + more
        BY <2>7
      <4>2. d[x] = c[x] /\ c[x] \in Nat
        BY <2>9, <2>6
      <4> HIDE DEF more
      <4>  QED
        BY <4>1, <4>2, <2>4, <2>5, <2>7
    <3>4. SumDiffersBy(f, g, x, n, k)
      BY <3>1, <3>2, <3>3 DEF SumDiffersBy
    <3>  QED
      BY <3>4, <1>3 DEF Same
  <2>  QED
    BY <2>8, <2>9
<1>  QED
  BY <1>4, <1>5

\* The same of their totals.
LEMMA TotalDiffers ==
  ASSUME NEW c \in Seq(Nat), NEW d \in Seq(Nat), Len(c) = Len(d),
         NEW n \in 1 .. Len(c), NEW k \in Nat, DiffersBy(c, d, n, k)
  PROVE  Total(c) \in Nat /\ Total(d) = Total(c) + k
<1>1. Len(c) \in Nat /\ Len(d) \in Nat /\ n \in Nat /\ Len(c) <= Len(d)
  OBVIOUS
<1>2. PICK f : SumsUpto(c, Len(c), f) /\ Total(c) = f[Len(c)]
  BY <1>1, TotalIs
<1>3. PICK g : SumsUpto(d, Len(d), g) /\ Total(d) = g[Len(d)]
  BY <1>1, TotalIs
<1>4. \A i \in 0 .. Len(c) : SumDiffersBy(f, g, i, n, k)
  BY <1>1, <1>2, <1>3, SumsDiffer
<1>5. SumDiffersBy(f, g, Len(c), n, k)
  BY <1>1, <1>4
<1>6. f[Len(c)] \in Nat /\ g[Len(c)] = f[Len(c)] + k
  BY <1>1, <1>5 DEF SumDiffersBy
<1>  QED
  BY <1>2, <1>3, <1>6

\* What counts nothing adds nothing.
LEMMA TotalAppends ==
  ASSUME NEW c \in Seq(Nat)
  PROVE  Total(Append(c, 0)) = Total(c)
<1> DEFINE d == Append(c, 0)
           m == Len(c)
<1>1. /\ d \in Seq(Nat) /\ m \in Nat /\ Len(d) = m + 1 /\ d[m + 1] = 0
      /\ \A i \in 1 .. m : d[i] = c[i] /\ c[i] \in Nat
  OBVIOUS
<1> HIDE DEF d
<1>2. PICK f : SumsUpto(c, Len(c), f) /\ Total(c) = f[Len(c)]
  BY <1>1, TotalIs
<1>3. PICK g : SumsUpto(d, Len(d), g) /\ Total(d) = g[Len(d)]
  BY <1>1, TotalIs
<1>4. DiffersBy(c, d, 0, 0) /\ Len(c) <= Len(d) /\ 0 \in Nat
  BY <1>1 DEF DiffersBy
<1>5. \A i \in 0 .. Len(c) : SumDiffersBy(f, g, i, 0, 0)
  BY <1>1, <1>2, <1>3, <1>4, SumsDiffer
<1>6. g[m] = f[m] /\ f[m] \in Nat
  BY <1>1, <1>5 DEF SumDiffersBy
<1>7. m + 1 \in 0 .. Len(d) /\ m + 1 # 0 /\ (m + 1) - 1 = m /\ Len(d) \in Nat
  BY <1>1
<1>8. g[m + 1] = g[m] + d[m + 1]
  BY <1>3, <1>7, SumsStep
<1>  QED
  BY <1>1, <1>2, <1>3, <1>6, <1>8 DEF d

------------------------------------------------------------------------------
(***************************************************************************)
(* The inductive invariant                                                 *)
(***************************************************************************)

\* Entries of the suppression list; one active one per target.
Listed(entries) == entries \subseteq DOMAIN suppressions
Reached(a) == \E n \in DOMAIN suppressions : suppressions[n].target = Email(a)
EntriesOK ==
  \A m, n \in ActiveEntries : suppressions[m].target = suppressions[n].target => m = n

\* The rows of a batch are those that its hash stands for, on the list as it
\* is now: entries are added and taken off, but stay and keep their targets.
BatchesOK ==
  /\ \A b \in DOMAIN exports :
       /\ Listed(exports[b].hash.entries)
       /\ exports[b].rows = BuildRows(exports[b].hash.companies,
                                      TargetsOf(exports[b].hash.entries))
  /\ \A b, c \in DOMAIN exports : exports[b].hash = exports[c].hash => b = c

RequestsOK ==
  \A k \in Clients :
    /\ request[k].step \in {"read", "answered"} => Listed(request[k].selection.entries)
    /\ request[k].step = "answered" =>
         /\ request[k].batch \in DOMAIN exports
         /\ exports[request[k].batch].hash = request[k].selection

\* What the rows of an import are matched to was sent, and no two of them
\* report one event.
MatchedOf(rows) == {i \in DOMAIN rows : rows[i].status = "matched"}
RowsFit(file, rows, mailed) ==
  /\ file \in Files /\ rows \in Seq(Results) /\ DOMAIN rows = DOMAIN LinesOf[file]
  /\ \A i \in MatchedOf(rows) : /\ rows[i].row \in mailed
                                /\ EventOf(file, i, rows[i].row) \in Fingerprints
  /\ \A i, j \in MatchedOf(rows) :
       EventOf(file, i, rows[i].row) = EventOf(file, j, rows[j].row) => i = j

Unapplied(import) ==
  import.status = "ready_for_review" => import.applied = 0 /\ import.suppressed = 0

ImportsOK ==
  \A n \in DOMAIN imports : RowsFit(imports[n].file, imports[n].rows, Snapshots) /\ Unapplied(imports[n])

\* What a reviewer's request has read, and what has since become of it.
MatchingOK(v) ==
  LET import == review[v].import IN
  /\ import \in Imports /\ import.file = review[v].file /\ import.status = "ready_for_review"
  /\ RowsFit(import.file, import.rows, Snapshots) /\ Unapplied(import)

ApplyingOK(v) ==
  LET n == review[v].import IN
  /\ n \in DOMAIN imports /\ imports[n].status = "ready_for_review"
  /\ review[v].lines \subseteq MatchedLines(n)
  /\ \A i \in MatchedLines(n) \ review[v].lines : LineEvent(n, i) \in events
  /\ \A a \in review[v].suppress : \E i \in review[v].lines : a = Addressee(n, i)
  /\ \A i \in review[v].lines : LineEvent(n, i).type \in Suppressing =>
       Addressee(n, i) \in review[v].suppress \/ Reached(Addressee(n, i))

ReviewsOK ==
  /\ \A v \in Reviewers :
       /\ review[v].step = "looked" => review[v].file \in Files
       /\ review[v].step = "matched" => MatchingOK(v)
       /\ review[v].step = "applying" => ApplyingOK(v)
  /\ \A v, w \in Reviewers :
       /\ review[v].step = "applying" /\ review[w].step = "applying"
       /\ review[v].import = review[w].import
       => v = w

EventsOK == IsFiniteSet(events) /\ \A event \in events : event.row \in Snapshots

EInv == ExportTypeOK /\ EntriesOK /\ BatchesOK /\ RequestsOK

FInv ==
  /\ EInv /\ FeedbackTypeOK /\ ImportsOK /\ ReviewsOK /\ EventsOK
  /\ ComplaintsReachTheList /\ AppliedIsWhole /\ FeedbackIsCounted

------------------------------------------------------------------------------
(***************************************************************************)
(* The list and the batches only grow                                      *)
(***************************************************************************)

ListGrows ==
  /\ DOMAIN suppressions \subseteq DOMAIN suppressions'
  /\ \A n \in DOMAIN suppressions : suppressions'[n].target = suppressions[n].target

BatchesGrow ==
  /\ DOMAIN exports \subseteq DOMAIN exports'
  /\ \A b \in DOMAIN exports : /\ exports'[b].hash = exports[b].hash
                               /\ exports'[b].rows = exports[b].rows

FeedbackEntries == {n \in DOMAIN suppressions : suppressions[n].source = "umail_feedback"}

\* What a set of entries stands for stays.
LEMMA TargetsStay ==
  ASSUME ListGrows, NEW entries, Listed(entries)
  PROVE  /\ entries \subseteq DOMAIN suppressions'
         /\ {suppressions'[n].target : n \in entries} = TargetsOf(entries)
  BY DEF ListGrows, Listed, TargetsOf

\* What batches and requests rest on is kept by whatever leaves them alone.
LEMMA ListFrame ==
  ASSUME EInv, ListGrows, UNCHANGED exports
  PROVE  BatchesOK' /\ (UNCHANGED request => RequestsOK')
<1>1. BatchesOK'
  <2>1. ASSUME NEW b \in DOMAIN exports
        PROVE  /\ exports[b].hash.entries \subseteq DOMAIN suppressions'
               /\ exports[b].rows =
                    BuildRows(exports[b].hash.companies,
                              {suppressions'[n].target : n \in exports[b].hash.entries})
    <3>1. Listed(exports[b].hash.entries)
      BY DEF EInv, BatchesOK
    <3>2. /\ exports[b].hash.entries \subseteq DOMAIN suppressions'
          /\ {suppressions'[n].target : n \in exports[b].hash.entries}
               = TargetsOf(exports[b].hash.entries)
      BY <3>1, TargetsStay
    <3>  QED
      BY <3>2 DEF EInv, BatchesOK
  <2>2. \A b, c \in DOMAIN exports : exports[b].hash = exports[c].hash => b = c
    BY DEF EInv, BatchesOK
  <2>  QED
    BY <2>1, <2>2 DEF BatchesOK, Listed, TargetsOf
<1>2. UNCHANGED request => RequestsOK'
  BY DEF EInv, RequestsOK, ListGrows, Listed
<1>  QED
  BY <1>1, <1>2

------------------------------------------------------------------------------
(***************************************************************************)
(* Exports and the list                                                    *)
(***************************************************************************)

\* What a step of an export or of the list does, for the feedback.
Grows == ListGrows /\ BatchesGrow /\ FeedbackEntries' = FeedbackEntries

\* What a request reads is a selection of entries that are listed.
LEMMA SelectionIs ==
  ASSUME ExportTypeOK, NEW companies \in Asked, NEW campaign \in Campaigns,
         NEW selection,
         selection = [generation |-> route.generation, campaign |-> campaign,
                      companies |-> companies, entries |-> ActiveEntries]
  PROVE  selection \in Selections /\ Listed(selection.entries)
<1>1. route.generation \in 1 .. MaxGeneration
  BY DEF ExportTypeOK, Routes
<1>2. companies \in SUBSET Companies
  BY ExportAssumption
<1>3. ActiveEntries \in SUBSET Nat /\ ActiveEntries \subseteq DOMAIN suppressions
  BY DEF ActiveEntries, ExportTypeOK
<1>  QED
  BY <1>1, <1>2, <1>3 DEF Selections, Listed

\* prepare reads a selection, or is answered with a batch of its hash.
LEMMA PrepareOK ==
  ASSUME EInv, NEW k \in Clients, Prepare(k)
  PROVE  EInv' /\ Grows
<1>1. PICK companies \in Asked : \E campaign \in Campaigns :
        LET selection == [generation |-> route.generation, campaign |-> campaign,
                          companies |-> companies, entries |-> ActiveEntries]
        IN /\ \/ \E b \in HavingHash(SelectionHash(selection)) :
                   request' = [request EXCEPT ![k] = Answer(selection, b)]
              \/ request' = [request EXCEPT ![k] = Reading(selection)]
  BY DEF Prepare
<1>2. PICK campaign \in Campaigns :
        LET selection == [generation |-> route.generation, campaign |-> campaign,
                          companies |-> companies, entries |-> ActiveEntries]
        IN /\ \/ \E b \in HavingHash(SelectionHash(selection)) :
                   request' = [request EXCEPT ![k] = Answer(selection, b)]
              \/ request' = [request EXCEPT ![k] = Reading(selection)]
  BY <1>1
<1> DEFINE selection == [generation |-> route.generation, campaign |-> campaign,
                         companies |-> companies, entries |-> ActiveEntries]
<1>3. \/ \E b \in HavingHash(SelectionHash(selection)) :
            request' = [request EXCEPT ![k] = Answer(selection, b)]
      \/ request' = [request EXCEPT ![k] = Reading(selection)]
  BY <1>2
<1>4. selection \in Selections /\ Listed(selection.entries)
  BY SelectionIs DEF EInv
<1> HIDE DEF selection
<1>5. UNCHANGED <<suppressions, route, exports, today>>
  BY DEF Prepare
<1>6. request \in [Clients -> Requests]
  BY DEF EInv, ExportTypeOK
<1>7. ASSUME NEW b \in HavingHash(SelectionHash(selection)),
             request' = [request EXCEPT ![k] = Answer(selection, b)]
      PROVE  request' \in [Clients -> Requests] /\ RequestsOK'
  <2>1. b \in DOMAIN exports /\ exports[b].hash = selection
    BY <1>7 DEF HavingHash, SelectionHash
  <2>2. b \in 1 .. MaxExports
    BY <2>1, ExportAssumption DEF EInv, ExportTypeOK
  <2>3. Answer(selection, b) \in Requests
    BY <1>4, <2>2 DEF Answer, Requests
  <2>4. request' \in [Clients -> Requests]
    BY <1>6, <1>7, <2>3
  <2>5. \A j \in Clients : request'[j] = IF j = k THEN Answer(selection, b) ELSE request[j]
    BY <1>6, <1>7
  <2>6. RequestsOK'
    BY <1>4, <1>5, <2>1, <2>5 DEF EInv, RequestsOK, Answer, Listed
  <2>  QED
    BY <2>4, <2>6
<1>8. ASSUME request' = [request EXCEPT ![k] = Reading(selection)]
      PROVE  request' \in [Clients -> Requests] /\ RequestsOK'
  <2>1. Reading(selection) \in Requests
    BY <1>4 DEF Reading, Requests
  <2>2. request' \in [Clients -> Requests]
    BY <1>6, <1>8, <2>1
  <2>3. \A j \in Clients : request'[j] = IF j = k THEN Reading(selection) ELSE request[j]
    BY <1>6, <1>8
  <2>4. RequestsOK'
    BY <1>4, <1>5, <2>3 DEF EInv, RequestsOK, Reading, Listed
  <2>  QED
    BY <2>2, <2>4
<1>9. request' \in [Clients -> Requests] /\ RequestsOK'
  BY <1>3, <1>7, <1>8
<1>10. ExportTypeOK'
  BY <1>5, <1>9 DEF EInv, ExportTypeOK
<1>11. Grows
  BY <1>5 DEF Grows, ListGrows, BatchesGrow, FeedbackEntries
<1>12. EntriesOK' /\ BatchesOK'
  BY <1>5, <1>11, ListFrame DEF EInv, EntriesOK, ActiveEntries, Grows
<1>  QED
  BY <1>9, <1>10, <1>11, <1>12 DEF EInv

\* A batch is added with the rows its hash stands for, on the list as it
\* is when it is added, and only if its hash is new.
LEMMA AddBatchOK ==
  ASSUME EInv, NEW k \in Clients, AddBatch(k)
  PROVE  EInv' /\ Grows
<1> DEFINE selection == request[k].selection
           existing == HavingHash(SelectionHash(selection))
<1>1. request[k].step = "read" /\ UNCHANGED <<suppressions, route, today>>
  BY DEF AddBatch
<1>2. request \in [Clients -> Requests] /\ exports \in Seq(Exports) /\ Len(exports) <= MaxExports
  BY DEF EInv, ExportTypeOK
<1>3. selection \in Selections /\ Listed(selection.entries)
  <2>1. request[k] \in Requests
    BY <1>2
  <2>2. selection \in Selections
    BY <1>1, <2>1 DEF Requests, Idle
  <2>  QED
    BY <1>1, <2>2 DEF EInv, RequestsOK
<1>4. CASE /\ existing = {} /\ Len(exports) < MaxExports
           /\ exports' = Append(exports, NewBatch(selection))
           /\ request' = [request EXCEPT ![k] = Answer(selection, Len(exports) + 1)]
  <2> DEFINE n == Len(exports)
             batch == NewBatch(selection)
  <2>1. n \in Nat /\ DOMAIN exports = 1 .. n
    BY <1>2
  <2>2. selection.companies \in SUBSET Companies
    BY <1>3 DEF Selections
  <2>3. /\ batch.hash = selection
        /\ batch.rows = BuildRows(selection.companies, TargetsOf(selection.entries))
    BY DEF NewBatch, SelectionHash
  <2>4. batch \in Exports
    <3>1. BuildRows(selection.companies, TargetsOf(selection.entries)) \in Seq(Rows)
      <4>1. \A companies \in SUBSET Companies : \A targets :
              BuildRows(companies, targets) \in Seq(Rows)
        BY BuiltRows
      <4>  QED
        BY <2>2, <4>1
    <3>2. today \in 0 .. MaxDay
      BY DEF EInv, ExportTypeOK
    <3>  QED
      BY <1>3, <3>1, <3>2 DEF NewBatch, SelectionHash, Exports
  <2> HIDE DEF selection, batch
  <2>5. /\ exports' \in Seq(Exports) /\ Len(exports') = n + 1 /\ DOMAIN exports' = 1 .. n + 1
        /\ exports'[n + 1] = batch /\ \A b \in 1 .. n : exports'[b] = exports[b]
    BY <1>2, <1>4, <2>4 DEF batch
  <2>6. n + 1 \in 1 .. MaxExports /\ Len(exports') <= MaxExports
    BY <1>4, <2>1, <2>5, ExportAssumption
  <2>7. Answer(selection, n + 1) \in Requests
    BY <1>3, <2>6 DEF Answer, Requests
  <2>8. /\ request' \in [Clients -> Requests]
        /\ \A j \in Clients : request'[j] = IF j = k THEN Answer(selection, n + 1) ELSE request[j]
    BY <1>2, <1>4, <2>7
  <2>9. ExportTypeOK'
    BY <1>1, <2>5, <2>6, <2>8 DEF EInv, ExportTypeOK
  <2>10. \A b \in DOMAIN exports : exports[b].hash # selection
    BY <1>4 DEF HavingHash, SelectionHash
  <2>11. \A b \in DOMAIN exports' : b \in DOMAIN exports \/ b = n + 1
    BY <2>1, <2>5
  <2>12. \A b \in DOMAIN exports : b \in DOMAIN exports' /\ exports'[b] = exports[b] /\ b # n + 1
    BY <2>1, <2>5
  <2>13. BatchesOK'
    <3>1. \A b \in DOMAIN exports' :
            /\ exports'[b].hash.entries \subseteq DOMAIN suppressions
            /\ exports'[b].rows = BuildRows(exports'[b].hash.companies,
                                            TargetsOf(exports'[b].hash.entries))
      <4> SUFFICES ASSUME NEW b \in DOMAIN exports'
                   PROVE  /\ exports'[b].hash.entries \subseteq DOMAIN suppressions
                          /\ exports'[b].rows = BuildRows(exports'[b].hash.companies,
                                                          TargetsOf(exports'[b].hash.entries))
        OBVIOUS
      <4>1. CASE b = n + 1
        BY <4>1, <1>3, <2>3, <2>5 DEF Listed
      <4>2. CASE b \in DOMAIN exports
        BY <4>2, <2>12 DEF EInv, BatchesOK, Listed
      <4>  QED
        BY <4>1, <4>2, <2>11
    <3>2. \A b, c \in DOMAIN exports' : exports'[b].hash = exports'[c].hash => b = c
      BY <2>3, <2>5, <2>10, <2>11, <2>12 DEF EInv, BatchesOK
    <3>3. \A entries : {suppressions'[m].target : m \in entries} = TargetsOf(entries)
      BY <1>1 DEF TargetsOf
    <3>  QED
      BY <3>1, <3>2, <1>1 DEF BatchesOK, Listed, TargetsOf
  <2>14. RequestsOK'
    BY <1>1, <1>3, <2>3, <2>5, <2>8, <2>12, <2>1 DEF EInv, RequestsOK, Listed, Answer
  <2>15. EntriesOK'
    BY <1>1 DEF EInv, EntriesOK, ActiveEntries
  <2>16. Grows
    BY <1>1, <2>12 DEF Grows, ListGrows, BatchesGrow, FeedbackEntries
  <2>  QED
    BY <2>9, <2>13, <2>14, <2>15, <2>16 DEF EInv
<1>5. ASSUME NEW b \in existing, request' = [request EXCEPT ![k] = Answer(selection, b)],
             UNCHANGED exports
      PROVE  EInv' /\ Grows
  <2>1. b \in DOMAIN exports /\ exports[b].hash = selection
    BY <1>5 DEF HavingHash, SelectionHash
  <2>2. b \in 1 .. MaxExports
    BY <2>1, ExportAssumption DEF EInv, ExportTypeOK
  <2> HIDE DEF selection
  <2>3. Answer(selection, b) \in Requests
    BY <1>3, <2>2 DEF Answer, Requests
  <2>4. /\ request' \in [Clients -> Requests]
        /\ \A j \in Clients : request'[j] = IF j = k THEN Answer(selection, b) ELSE request[j]
    BY <1>2, <1>5, <2>3
  <2>5. RequestsOK'
    BY <1>1, <1>3, <1>5, <2>1, <2>4 DEF EInv, RequestsOK, Answer, Listed
  <2>6. ExportTypeOK'
    BY <1>1, <1>5, <2>4 DEF EInv, ExportTypeOK
  <2>7. Grows
    BY <1>1, <1>5 DEF Grows, ListGrows, BatchesGrow, FeedbackEntries
  <2>8. EntriesOK' /\ BatchesOK'
    BY <1>1, <1>5, <2>7, ListFrame DEF EInv, EntriesOK, ActiveEntries, Grows
  <2>  QED
    BY <2>5, <2>6, <2>7, <2>8 DEF EInv
<1>  QED
  BY <1>4, <1>5 DEF AddBatch

\* download changes no rows.
LEMMA DownloadOK ==
  ASSUME EInv, NEW b \in 1 .. MaxExports, Download(b)
  PROVE  EInv' /\ Grows
<1>1. /\ b \in DOMAIN exports /\ UNCHANGED <<suppressions, route, request, today>>
      /\ exports' = [exports EXCEPT ![b] = Downloaded(exports[b])]
  BY DEF Download
<1>2. exports \in Seq(Exports) /\ Len(exports) <= MaxExports
  BY DEF EInv, ExportTypeOK
<1> DEFINE batch == Downloaded(exports[b])
<1>3. exports[b] \in Exports
  BY <1>1, <1>2
<1>4. batch \in Exports /\ batch.hash = exports[b].hash /\ batch.rows = exports[b].rows
  BY <1>3 DEF Downloaded, Exports
<1> HIDE DEF batch
<1>5. exports' = [exports EXCEPT ![b] = batch]
  BY <1>1 DEF batch
<1>6. /\ exports' \in Seq(Exports) /\ Len(exports') = Len(exports)
      /\ DOMAIN exports' = DOMAIN exports
      /\ \A c \in DOMAIN exports : exports'[c] = IF c = b THEN batch ELSE exports[c]
  BY <1>1, <1>2, <1>4, <1>5
<1>7. \A c \in DOMAIN exports :
        exports'[c].hash = exports[c].hash /\ exports'[c].rows = exports[c].rows
  BY <1>4, <1>6
<1>8. ExportTypeOK' /\ EntriesOK'
  BY <1>1, <1>2, <1>6 DEF EInv, ExportTypeOK, EntriesOK, ActiveEntries
<1>9. Grows
  BY <1>1, <1>6, <1>7 DEF Grows, ListGrows, BatchesGrow, FeedbackEntries
<1>10. BatchesOK'
  <2>1. \A entries : {suppressions'[m].target : m \in entries} = TargetsOf(entries)
    BY <1>1 DEF TargetsOf
  <2>2. \A c \in DOMAIN exports :
          /\ exports[c].hash.entries \subseteq DOMAIN suppressions
          /\ exports[c].rows = BuildRows(exports[c].hash.companies,
                                         TargetsOf(exports[c].hash.entries))
    BY DEF EInv, BatchesOK, Listed
  <2>3. \A c, d \in DOMAIN exports' : exports'[c].hash = exports'[d].hash => c = d
    BY <1>6, <1>7 DEF EInv, BatchesOK
  <2>4. \A c \in DOMAIN exports' :
          /\ exports'[c].hash.entries \subseteq DOMAIN suppressions'
          /\ exports'[c].rows = BuildRows(exports'[c].hash.companies,
                                          TargetsOf(exports'[c].hash.entries))
    BY <1>1, <1>6, <1>7, <2>2
  <2>  QED
    BY <2>1, <2>3, <2>4 DEF BatchesOK, Listed, TargetsOf
<1>11. RequestsOK'
  BY <1>1, <1>6, <1>7 DEF EInv, RequestsOK, Listed
<1>  QED
  BY <1>8, <1>9, <1>10, <1>11 DEF EInv

\* An entry that people add is the only active one of its target.
LEMMA SuppressOK ==
  ASSUME EInv, NEW target \in ManualTargets, Suppress(target)
  PROVE  EInv' /\ Grows
<1> DEFINE entry == EntryFor(target, "manual")
           n == Len(suppressions)
<1>1. /\ target \notin Active(suppressions) /\ suppressions' = Append(suppressions, entry)
      /\ UNCHANGED <<route, exports, request, today>>
  BY DEF Suppress
<1>2. suppressions \in Seq(Entries)
  BY DEF EInv, ExportTypeOK
<1>3. /\ entry \in Entries /\ entry.target = target /\ entry.active /\ entry.source = "manual"
  BY ExportAssumption DEF EntryFor, Entries
<1> HIDE DEF entry
<1>4. n \in Nat /\ DOMAIN suppressions = 1 .. n
  BY <1>2
<1>5. /\ suppressions' \in Seq(Entries) /\ DOMAIN suppressions' = 1 .. n + 1
      /\ suppressions'[n + 1] = entry
      /\ \A m \in 1 .. n : suppressions'[m] = suppressions[m]
  BY <1>1, <1>2, <1>3
<1>6. 1 .. n + 1 = (1 .. n) \union {n + 1} /\ n + 1 \notin 1 .. n
  BY <1>4
<1>7. ExportTypeOK'
  BY <1>1, <1>5 DEF EInv, ExportTypeOK
<1>8. EntriesOK'
  <2>1. ActiveEntries' = {m \in DOMAIN suppressions' : suppressions'[m].active}
    BY DEF ActiveEntries
  <2>2. \A m \in ActiveEntries : suppressions[m].target # target
    BY <1>1 DEF Active, ActiveEntries
  <2>3. \A m \in ActiveEntries' : m = n + 1 \/ m \in ActiveEntries
    BY <2>1, <1>4, <1>5, <1>6 DEF ActiveEntries
  <2>4. \A m \in ActiveEntries : suppressions'[m] = suppressions[m] /\ m # n + 1
    BY <1>4, <1>5, <1>6 DEF ActiveEntries
  <2>5. suppressions'[n + 1].target = target
    BY <1>3, <1>5
  <2>6. \A l, m \in ActiveEntries' : suppressions'[l].target = suppressions'[m].target => l = m
    BY <2>2, <2>3, <2>4, <2>5 DEF EInv, EntriesOK
  <2>  QED
    BY <2>6 DEF EntriesOK
<1>9. Grows
  <2>1. FeedbackEntries' = FeedbackEntries
    BY <1>3, <1>4, <1>5, <1>6 DEF FeedbackEntries
  <2>  QED
    BY <2>1, <1>1, <1>4, <1>5, <1>6 DEF Grows, ListGrows, BatchesGrow
<1>  QED
  BY <1>1, <1>7, <1>8, <1>9, ListFrame DEF EInv, Grows

\* An entry that is taken off stays, with its target.
LEMMA DeactivateOK ==
  ASSUME EInv, NEW n \in DOMAIN suppressions, Deactivate(n)
  PROVE  EInv' /\ Grows
<1> DEFINE entry == Deactivated(suppressions[n])
<1>1. /\ suppressions' = [suppressions EXCEPT ![n] = entry]
      /\ UNCHANGED <<route, exports, request, today>>
  BY DEF Deactivate
<1>2. suppressions \in Seq(Entries) /\ suppressions[n] \in Entries
  BY DEF EInv, ExportTypeOK
<1>3. /\ entry \in Entries /\ entry.target = suppressions[n].target /\ ~entry.active
      /\ entry.source = suppressions[n].source
  BY <1>2 DEF Deactivated, Entries
<1> HIDE DEF entry
<1>4. /\ suppressions' \in Seq(Entries) /\ DOMAIN suppressions' = DOMAIN suppressions
      /\ \A m \in DOMAIN suppressions :
           suppressions'[m] = IF m = n THEN entry ELSE suppressions[m]
  BY <1>1, <1>2, <1>3
<1>5. ExportTypeOK'
  BY <1>1, <1>4 DEF EInv, ExportTypeOK
<1>6. EntriesOK'
  <2>1. \A m \in ActiveEntries' : m \in ActiveEntries /\ suppressions'[m] = suppressions[m]
    BY <1>3, <1>4 DEF ActiveEntries
  <2>2. \A l, m \in ActiveEntries' : suppressions'[l].target = suppressions'[m].target => l = m
    BY <2>1 DEF EInv, EntriesOK
  <2>  QED
    BY <2>2 DEF EntriesOK
<1>7. Grows
  BY <1>1, <1>3, <1>4 DEF Grows, ListGrows, BatchesGrow, FeedbackEntries
<1>  QED
  BY <1>1, <1>5, <1>6, <1>7, ListFrame DEF EInv, Grows

\* The routing run is left to change.
LEMMA RerouteOK ==
  ASSUME EInv, Reroute
  PROVE  EInv' /\ Grows
<1>1. UNCHANGED <<suppressions, exports, request, today>>
  BY DEF Reroute
<1>2. route' \in Routes
  <2>1. route \in Routes
    BY DEF EInv, ExportTypeOK
  <2>2. MaxGeneration \in Nat
    BY ExportAssumption
  <2>3. CASE /\ route.status = "completed" /\ route.generation < MaxGeneration
             /\ route' = [route EXCEPT !.status = "running", !.generation = @ + 1]
    <3>1. route' = [status |-> "running", generation |-> route.generation + 1,
                    exportable |-> route.exportable]
      BY <2>1, <2>3 DEF Routes
    <3>2. route.generation + 1 \in 1 .. MaxGeneration /\ route.exportable \in SUBSET Companies
      BY <2>1, <2>2, <2>3 DEF Routes
    <3>  QED
      BY <3>1, <3>2 DEF Routes
  <2>4. CASE \E exportable \in SUBSET Companies :
               route' = [route EXCEPT !.status = "completed", !.exportable = exportable]
    BY <2>1, <2>4 DEF Routes
  <2>  QED
    BY <2>3, <2>4 DEF Reroute
<1>3. Grows
  BY <1>1 DEF Grows, ListGrows, BatchesGrow, FeedbackEntries
<1>4. ExportTypeOK' /\ EntriesOK'
  BY <1>1, <1>2 DEF EInv, ExportTypeOK, EntriesOK, ActiveEntries
<1>  QED
  BY <1>1, <1>3, <1>4, ListFrame DEF EInv, Grows

\* So is the clock.
LEMMA TickOK ==
  ASSUME EInv, Tick
  PROVE  EInv' /\ Grows
<1>1. UNCHANGED <<suppressions, route, exports, request>>
  BY DEF Tick
<1>2. today' \in 0 .. MaxDay
  BY ExportAssumption DEF Tick, EInv, ExportTypeOK
<1>3. Grows
  BY <1>1 DEF Grows, ListGrows, BatchesGrow, FeedbackEntries
<1>4. ExportTypeOK' /\ EntriesOK'
  BY <1>1, <1>2 DEF EInv, ExportTypeOK, EntriesOK, ActiveEntries
<1>  QED
  BY <1>1, <1>3, <1>4, ListFrame DEF EInv, Grows

\* Steps of exports and of the list.
LEMMA ExportStepOK ==
  ASSUME EInv, ExportNext
  PROVE  EInv' /\ Grows
  BY PrepareOK, AddBatchOK, DownloadOK, SuppressOK, DeactivateOK, RerouteOK, TickOK
     DEF ExportNext

------------------------------------------------------------------------------
(***************************************************************************)
(* What the feedback keeps while the list and the batches grow             *)
(***************************************************************************)

\* What was sent stays sent, to the same address.
LEMMA SentStay ==
  ASSUME BatchesGrow
  PROVE  /\ Snapshots \subseteq Snapshots'
         /\ \A row \in Snapshots : EmailOf(row)' = EmailOf(row)
<1>1. \A b \in DOMAIN exports : b \in DOMAIN exports' /\ exports'[b].rows = exports[b].rows
  BY DEF BatchesGrow
<1>2. \A b \in DOMAIN exports :
        {p \in DOMAIN exports'[b].rows : exports'[b].rows[p].status = "ready"} = ReadyRows(b)
  BY <1>1 DEF ReadyRows
<1>3. Snapshots \subseteq Snapshots'
  BY <1>1, <1>2 DEF Snapshots, ReadyRows
<1>4. ASSUME NEW row \in Snapshots
      PROVE  exports'[row[1]].rows[row[2]].email = exports[row[1]].rows[row[2]].email
  <2>1. row[1] \in DOMAIN exports
    BY DEF Snapshots
  <2>  QED
    BY <2>1, <1>1
<1>  QED
  BY <1>3, <1>4 DEF EmailOf

\* Rows that fit what was sent still fit when more is.
LEMMA FitsMore ==
  ASSUME NEW file, NEW rows, NEW mailed, NEW more, mailed \subseteq more,
         RowsFit(file, rows, mailed)
  PROVE  RowsFit(file, rows, more)
  BY DEF RowsFit

Kept(n) ==
  /\ n \in DOMAIN imports' /\ imports'[n].file = imports[n].file
  /\ imports'[n].rows = imports[n].rows /\ imports'[n].status = imports[n].status

\* A matched file stays matched.
LEMMA MatchingStays ==
  ASSUME ReviewsOK, BatchesGrow, NEW v \in Reviewers, review[v].step = "matched",
         review'[v] = review[v]
  PROVE  MatchingOK(v)'
<1>1. MatchingOK(v) /\ Snapshots \subseteq Snapshots'
  BY SentStay DEF ReviewsOK
<1>  QED
  BY <1>1, FitsMore DEF MatchingOK

\* What a request that applies an import has read stays true.
LEMMA ApplyingStays ==
  ASSUME ReviewsOK, ImportsOK, ListGrows, BatchesGrow, NEW v \in Reviewers,
         review[v].step = "applying", review'[v] = review[v],
         Kept(review[v].import), events \subseteq events'
  PROVE  ApplyingOK(v)'
<1> DEFINE n == review[v].import
<1>1. ApplyingOK(v)
  BY DEF ReviewsOK
<1>2. n \in DOMAIN imports /\ review[v].lines \subseteq MatchedLines(n)
  BY <1>1 DEF ApplyingOK
<1>3. \A i \in MatchedLines(n) : imports[n].rows[i].row \in Snapshots
  BY <1>2 DEF ImportsOK, RowsFit, MatchedLines, MatchedOf
<1>4. {i \in DOMAIN imports'[n].rows : imports'[n].rows[i].status = "matched"} = MatchedLines(n)
  BY DEF Kept, MatchedLines
<1>5. \A i : EventOf(imports'[n].file, i, imports'[n].rows[i].row) = LineEvent(n, i)
  BY DEF Kept, LineEvent
<1>6. \A i \in MatchedLines(n) :
        exports'[imports'[n].rows[i].row[1]].rows[imports'[n].rows[i].row[2]].email
          = Addressee(n, i)
  BY <1>3, SentStay DEF Kept, Addressee, EmailOf
<1>7. \A a : Reached(a) => \E m \in DOMAIN suppressions' : suppressions'[m].target = Email(a)
  BY DEF Reached, ListGrows
<1>8. /\ n \in DOMAIN imports' /\ imports'[n].status = "ready_for_review"
      /\ \A i \in MatchedLines(n) \ review[v].lines : LineEvent(n, i) \in events'
  BY <1>1 DEF ApplyingOK, Kept
<1>9. \A a \in review[v].suppress : \E i \in review[v].lines : a = Addressee(n, i)
  BY <1>1 DEF ApplyingOK
<1>10. \A i \in review[v].lines : LineEvent(n, i).type \in Suppressing =>
         \/ Addressee(n, i) \in review[v].suppress
         \/ \E m \in DOMAIN suppressions' : suppressions'[m].target = Email(Addressee(n, i))
  BY <1>1, <1>7 DEF ApplyingOK
<1> DEFINE address(i) ==
             exports'[imports'[n].rows[i].row[1]].rows[imports'[n].rows[i].row[2]].email
           event(i) == EventOf(imports'[n].file, i, imports'[n].rows[i].row)
<1>11. \A i \in review[v].lines : address(i) = Addressee(n, i)
  BY <1>2, <1>6
<1>12. /\ \A a \in review[v].suppress : \E i \in review[v].lines : a = address(i)
       /\ \A i \in review[v].lines : event(i).type \in Suppressing =>
            \/ address(i) \in review[v].suppress
            \/ \E m \in DOMAIN suppressions' : suppressions'[m].target = Email(address(i))
       /\ \A i \in MatchedLines(n) \ review[v].lines : event(i) \in events'
  <2> HIDE DEF address, event
  <2>  QED
    BY <1>5, <1>8, <1>9, <1>10, <1>11 DEF event
<1> DEFINE matched(k) == {i \in DOMAIN imports'[k].rows : imports'[k].rows[i].status = "matched"}
           eventOf(k, i) == EventOf(imports'[k].file, i, imports'[k].rows[i].row)
           emailOf(k, i) ==
             exports'[imports'[k].rows[i].row[1]].rows[imports'[k].rows[i].row[2]].email
           Promise(r) ==
             /\ r.import \in DOMAIN imports' /\ imports'[r.import].status = "ready_for_review"
             /\ r.lines \subseteq matched(r.import)
             /\ \A i \in matched(r.import) \ r.lines : eventOf(r.import, i) \in events'
             /\ \A a \in r.suppress : \E i \in r.lines : a = emailOf(r.import, i)
             /\ \A i \in r.lines : eventOf(r.import, i).type \in Suppressing =>
                  \/ emailOf(r.import, i) \in r.suppress
                  \/ \E m \in DOMAIN suppressions' :
                       suppressions'[m].target = Email(emailOf(r.import, i))
<1>13. Promise(review[v])
  <2>1. matched(n) = MatchedLines(n)
    BY <1>4
  <2>2. \A i : eventOf(n, i) = event(i) /\ emailOf(n, i) = address(i)
    OBVIOUS
  <2> HIDE DEF matched, eventOf, emailOf, address, event
  <2>  QED
    BY <1>2, <1>8, <1>12, <2>1, <2>2
<1>14. Promise(review'[v])
  <2> HIDE DEF Promise
  <2>  QED
    BY <1>13
<1>  QED
  BY <1>14 DEF ApplyingOK, MatchedLines, LineEvent, Addressee, EmailOf, Reached

\* What the other reviewers rely on is kept by a step that keeps imports and
\* events, but for an import that none of them applies.
LEMMA OthersStay ==
  ASSUME ReviewsOK, ImportsOK, ListGrows, BatchesGrow, events \subseteq events',
         NEW w \in Reviewers, review'[w] = review[w],
         review[w].step = "applying" => Kept(review[w].import)
  PROVE  /\ review'[w].step = "looked" => review'[w].file \in Files
         /\ review'[w].step = "matched" => MatchingOK(w)'
         /\ review'[w].step = "applying" => ApplyingOK(w)'
<1>1. review'[w].step = "looked" => review'[w].file \in Files
  BY DEF ReviewsOK
<1>2. ASSUME review'[w].step = "matched"
      PROVE  MatchingOK(w)'
  BY <1>2, MatchingStays
<1>3. ASSUME review'[w].step = "applying"
      PROVE  ApplyingOK(w)'
  <2>1. review[w].step = "applying" /\ Kept(review[w].import)
    BY <1>3
  <2>  QED
    BY <2>1, ApplyingStays
<1>  QED
  BY <1>1, <1>2, <1>3

\* Imports that are left alone stay as they are.
LEMMA ImportsStay ==
  ASSUME ImportsOK, BatchesGrow, UNCHANGED imports
  PROVE  ImportsOK'
<1>1. Snapshots \subseteq Snapshots'
  BY SentStay
<1>2. \A n \in DOMAIN imports : /\ RowsFit(imports[n].file, imports[n].rows, Snapshots')
                                /\ Unapplied(imports[n])
  BY <1>1, FitsMore DEF ImportsOK
<1>  QED
  BY <1>2 DEF ImportsOK

\* So do events.
LEMMA EventsStay ==
  ASSUME EventsOK, ComplaintsReachTheList, BatchesGrow, ListGrows, UNCHANGED events
  PROVE  EventsOK' /\ ComplaintsReachTheList'
<1>1. EventsOK'
  BY SentStay DEF EventsOK
<1>2. \A event \in events : EmailOf(event.row)' = EmailOf(event.row)
  BY SentStay DEF EventsOK
<1>3. \A event \in events : event.type \in Suppressing =>
        \E n \in DOMAIN suppressions' : suppressions'[n].target = Email(EmailOf(event.row))
  BY DEF ComplaintsReachTheList, ListGrows
<1>4. \A event \in events' : event.type \in Suppressing =>
        \E n \in DOMAIN suppressions' : suppressions'[n].target = Email(EmailOf(event.row)')
  BY <1>2, <1>3
<1>  QED
  BY <1>1, <1>4 DEF ComplaintsReachTheList

\* An import that was applied stays whole while events are only added.
LEMMA AppliedStays ==
  ASSUME AppliedIsWhole, events \subseteq events', UNCHANGED imports
  PROVE  AppliedIsWhole'
  BY DEF AppliedIsWhole, MatchedLines, LineEvent

\* A step of exports or of the list keeps what the feedback relies on.
LEMMA FeedbackFrame ==
  ASSUME FInv, EInv', Grows, UNCHANGED feedbackVars
  PROVE  FInv'
<1>1. UNCHANGED <<imports, events, review>> /\ ListGrows /\ BatchesGrow
  BY DEF feedbackVars, Grows
<1>2. /\ FeedbackTypeOK /\ ImportsOK /\ ReviewsOK /\ EventsOK
      /\ ComplaintsReachTheList /\ AppliedIsWhole /\ FeedbackIsCounted
  BY DEF FInv
<1>3. FeedbackTypeOK'
  BY <1>1, <1>2 DEF FeedbackTypeOK
<1>4. ReviewsOK'
  <2>1. ASSUME NEW v \in Reviewers
        PROVE  /\ review'[v].step = "looked" => review'[v].file \in Files
               /\ review'[v].step = "matched" => MatchingOK(v)'
               /\ review'[v].step = "applying" => ApplyingOK(v)'
    <3>1. review[v].step = "applying" => Kept(review[v].import)
      BY <1>1, <1>2 DEF ReviewsOK, ApplyingOK, Kept
    <3>2. review'[v] = review[v] /\ events \subseteq events'
      BY <1>1
    <3>  QED
      BY <1>1, <1>2, <3>1, <3>2, OthersStay
  <2>2. \A v, w \in Reviewers :
          /\ review'[v].step = "applying" /\ review'[w].step = "applying"
          /\ review'[v].import = review'[w].import
          => v = w
    BY <1>1, <1>2 DEF ReviewsOK
  <2>  QED
    BY <2>1, <2>2 DEF ReviewsOK
<1>5. FeedbackIsCounted'
  <2>1. FeedbackEntries' = FeedbackEntries
    BY DEF Grows
  <2>2. FeedbackIsCounted' <=>
          /\ Total([n \in DOMAIN imports' |-> imports'[n].applied]) = Cardinality(events')
          /\ Total([n \in DOMAIN imports' |-> imports'[n].suppressed])
               = Cardinality(FeedbackEntries')
    BY DEF FeedbackIsCounted, FeedbackEntries
  <2>3. /\ Total([n \in DOMAIN imports |-> imports[n].applied]) = Cardinality(events)
        /\ Total([n \in DOMAIN imports |-> imports[n].suppressed]) = Cardinality(FeedbackEntries)
    BY <1>2 DEF FeedbackIsCounted, FeedbackEntries
  <2>  QED
    BY <1>1, <2>1, <2>2, <2>3
<1>  QED
  BY <1>1, <1>2, <1>3, <1>4, <1>5, ImportsStay, EventsStay, AppliedStays DEF FInv

------------------------------------------------------------------------------
(***************************************************************************)
(* Matching                                                                *)
(***************************************************************************)

\* The image of a finite set.
LEMMA ImageFinite ==
  ASSUME NEW S, IsFiniteSet(S), NEW f, DOMAIN f = S
  PROVE  LET T == {f[x] : x \in S}
         IN  IsFiniteSet(T) /\ Cardinality(T) \in Nat /\ Cardinality(T) <= Cardinality(S)
<1> DEFINE T == {f[x] : x \in S}
           g == [x \in S |-> f[x]]
<1>1. g \in Surjection(S, T)
  BY DEF Surjection
<1>2. IsFiniteSet(T) /\ Cardinality(T) <= Cardinality(S)
  <2> HIDE DEF g, T
  <2>  QED
    BY <1>1, FS_Surjection
<1>  QED
  BY <1>2, FS_CardinalityType

\* The rows that were sent are finitely many.
LEMMA SentAre ==
  ASSUME ExportTypeOK
  PROVE  /\ IsFiniteSet(Snapshots) /\ Snapshots \subseteq (1 .. MaxExports) \X Nat
         /\ Snapshots \subseteq ExportRows
<1>1. /\ exports \in Seq(Exports) /\ Len(exports) <= MaxExports /\ MaxExports \in Nat
      /\ Len(exports) \in Nat /\ DOMAIN exports = 1 .. Len(exports)
  BY ExportAssumption DEF ExportTypeOK
<1> DEFINE sets == [b \in DOMAIN exports |-> {b} \X ReadyRows(b)]
           T == {sets[b] : b \in DOMAIN exports}
<1>2. \A b \in DOMAIN exports :
        /\ ReadyRows(b) \subseteq 1 .. Len(exports[b].rows) /\ Len(exports[b].rows) \in Nat
        /\ IsFiniteSet(ReadyRows(b)) /\ IsFiniteSet(sets[b])
  <2> SUFFICES ASSUME NEW b \in DOMAIN exports
               PROVE  /\ ReadyRows(b) \subseteq 1 .. Len(exports[b].rows)
                      /\ Len(exports[b].rows) \in Nat
                      /\ IsFiniteSet(ReadyRows(b)) /\ IsFiniteSet(sets[b])
    OBVIOUS
  <2>0. exports[b] \in Exports
    BY <1>1
  <2>1. exports[b].rows \in Seq(Rows)
    BY <2>0 DEF Exports
  <2>2. ReadyRows(b) \subseteq 1 .. Len(exports[b].rows) /\ Len(exports[b].rows) \in Nat
    BY <2>1 DEF ReadyRows
  <2>3. IsFiniteSet(ReadyRows(b))
    <3>1. IsFiniteSet(1 .. Len(exports[b].rows))
      BY <2>2, FS_Interval
    <3>  QED
      BY <3>1, <2>2, FS_Subset
  <2>4. IsFiniteSet({b} \X ReadyRows(b))
    BY <2>3, FS_Singleton, FS_Product
  <2>  QED
    BY <2>2, <2>3, <2>4
<1>3. IsFiniteSet(DOMAIN exports)
  BY <1>1, FS_Interval
<1>4. IsFiniteSet(T) /\ \A U \in T : IsFiniteSet(U)
  <2>1. \A U \in T : IsFiniteSet(U)
    BY <1>2
  <2>2. DOMAIN sets = DOMAIN exports
    OBVIOUS
  <2> HIDE DEF sets
  <2>  QED
    BY <1>3, <2>1, <2>2, ImageFinite
<1>5. Snapshots = UNION T
  BY DEF Snapshots
<1>6. IsFiniteSet(Snapshots)
  <2> HIDE DEF T
  <2>  QED
    BY <1>4, <1>5, FS_UNION
<1>7. Snapshots \subseteq (1 .. MaxExports) \X Nat
  <2> SUFFICES ASSUME NEW row \in Snapshots
               PROVE  row \in (1 .. MaxExports) \X Nat
    OBVIOUS
  <2>1. PICK b \in DOMAIN exports : row \in {b} \X ReadyRows(b)
    BY DEF Snapshots
  <2>2. b \in 1 .. MaxExports
    BY <1>1
  <2>3. ReadyRows(b) \subseteq Nat
    <3>1. b \in DOMAIN exports
      OBVIOUS
    <3>2. ReadyRows(b) \subseteq 1 .. Len(exports[b].rows) /\ Len(exports[b].rows) \in Nat
      <4> HIDE DEF sets
      <4>  QED
        BY <3>1, <1>2
    <3>  QED
      BY <3>2
  <2>  QED
    BY <2>1, <2>2, <2>3
<1>  QED
  BY <1>6, <1>7 DEF ExportRows

\* A unique match is one of the candidates.
LEMMA UniqueMatchIs ==
  ASSUME NEW candidates, IsFiniteSet(candidates), candidates \subseteq ExportRows
  PROVE  /\ UniqueMatch(candidates) \in Results
         /\ UniqueMatch(candidates).status = "matched" =>
              UniqueMatch(candidates).row \in candidates
<1>1. Cardinality(candidates) \in Nat
  BY FS_CardinalityType
<1>2. NoRow \in ExportRows
  BY DEF ExportRows
<1>3. CASE Cardinality(candidates) = 0
  BY <1>2, <1>3 DEF UniqueMatch, Result, Results, Matches
<1>4. CASE Cardinality(candidates) = 1
  <2>1. candidates # {}
    BY <1>4, FS_EmptySet
  <2>2. PICK row : row = (CHOOSE r \in candidates : TRUE) /\ row \in candidates
    BY <2>1
  <2>3. UniqueMatch(candidates) = Result("matched", row)
    BY <1>4, <2>2 DEF UniqueMatch
  <2>  QED
    BY <2>2, <2>3 DEF Result, Results, Matches
<1>5. CASE Cardinality(candidates) > 1
  BY <1>1, <1>2, <1>5 DEF UniqueMatch, Result, Results, Matches
<1>  QED
  BY <1>1, <1>3, <1>4, <1>5

\* A match is a row that was sent.
LEMMA SnapshotMatchIs ==
  ASSUME NEW line, NEW mailed, IsFiniteSet(mailed), mailed \subseteq ExportRows
  PROVE  /\ MatchSnapshot(line, mailed) \in Results
         /\ MatchSnapshot(line, mailed).status = "matched" =>
              MatchSnapshot(line, mailed).row \in mailed
<1> DEFINE toAddress == {row \in mailed : EmailOf(row) = line.email}
           inBatch == {row \in toAddress : row[1] = line.batch}
           inCampaign == {row \in toAddress : CampaignOf(row) = line.campaign}
           inTime == {row \in toAddress : /\ line.at - Window <= exports[row[1]].created
                                          /\ exports[row[1]].created <= line.at + Skew}
           match == MatchSnapshot(line, mailed)
<1>2. \A T \in {UniqueMatch(inBatch), UniqueMatch(inCampaign), UniqueMatch(inTime)} :
        T \in Results /\ (T.status = "matched" => T.row \in mailed)
  <2>1. /\ inBatch \subseteq mailed /\ IsFiniteSet(inBatch)
        /\ inCampaign \subseteq mailed /\ IsFiniteSet(inCampaign)
        /\ inTime \subseteq mailed /\ IsFiniteSet(inTime)
    BY FS_Subset
  <2> HIDE DEF toAddress, inBatch, inCampaign, inTime
  <2>2. /\ UniqueMatch(inBatch) \in Results
        /\ UniqueMatch(inBatch).status = "matched" => UniqueMatch(inBatch).row \in mailed
    BY <2>1, UniqueMatchIs
  <2>3. /\ UniqueMatch(inCampaign) \in Results
        /\ UniqueMatch(inCampaign).status = "matched" => UniqueMatch(inCampaign).row \in mailed
    BY <2>1, UniqueMatchIs
  <2>4. /\ UniqueMatch(inTime) \in Results
        /\ UniqueMatch(inTime).status = "matched" => UniqueMatch(inTime).row \in mailed
    BY <2>1, UniqueMatchIs
  <2>  QED
    BY <2>2, <2>3, <2>4
<1>3. \/ match \in {UniqueMatch(inBatch), UniqueMatch(inCampaign), UniqueMatch(inTime),
                    Result("unmatched", NoRow), Result("invalid", NoRow)}
      \/ match = Result("matched", line.row) /\ line.row \in mailed
  <2> DEFINE byAddress ==
               IF line.batch # 0 THEN UniqueMatch(inBatch)
               ELSE IF inCampaign # {} THEN UniqueMatch(inCampaign)
               ELSE UniqueMatch(inTime)
             byRow ==
               IF line.row \notin mailed THEN Result("unmatched", NoRow)
               ELSE IF Consistent(line, line.row) THEN Result("matched", line.row)
               ELSE Result("invalid", NoRow)
  <2>1. match = IF line.row # NoRow THEN byRow ELSE byAddress
    BY DEF MatchSnapshot
  <2>2. byAddress \in {UniqueMatch(inBatch), UniqueMatch(inCampaign), UniqueMatch(inTime)}
    <3> HIDE DEF inBatch, inCampaign, inTime
    <3>  QED
      OBVIOUS
  <2>3. \/ byRow \in {Result("unmatched", NoRow), Result("invalid", NoRow)}
        \/ byRow = Result("matched", line.row) /\ line.row \in mailed
    OBVIOUS
  <2> HIDE DEF byAddress, byRow, match, inBatch, inCampaign, inTime
  <2>  QED
    BY <2>1, <2>2, <2>3
<1>4. NoRow \in ExportRows
  BY DEF ExportRows
<1>6. \A status \in Matches, row \in ExportRows :
        /\ Result(status, row) \in Results
        /\ Result(status, row).status = status /\ Result(status, row).row = row
  BY DEF Result, Results
<1>7. "unmatched" \in Matches /\ "invalid" \in Matches /\ "matched" \in Matches
  BY DEF Matches
<1> HIDE DEF toAddress, inBatch, inCampaign, inTime, match
<1>5. /\ match \in Results
      /\ match.status = "matched" => match.row \in mailed
  <2>1. CASE match \in {UniqueMatch(inBatch), UniqueMatch(inCampaign), UniqueMatch(inTime)}
    BY <1>2, <2>1
  <2>2. CASE match \in {Result("unmatched", NoRow), Result("invalid", NoRow)}
    BY <1>4, <1>6, <1>7, <2>2
  <2>3. CASE match = Result("matched", line.row) /\ line.row \in mailed
    BY <1>6, <1>7, <2>3
  <2>  QED
    BY <1>3, <2>1, <2>2, <2>3
<1>  QED
  BY <1>5 DEF match

\* The matched rows of a file that is uploaded.
LEMMA MatchedRowsFit ==
  ASSUME ExportTypeOK, NEW file \in Files, NEW rows,
         rows = MarkDuplicates(file, MatchRows(file, Snapshots))
  PROVE  RowsFit(file, rows, Snapshots)
<1> DEFINE lines == Parsed(file)
           found == MatchRows(file, Snapshots)
           D == DOMAIN LinesOf[file]
<1>1. LinesOf[file] \in Seq(Lines) /\ \E n \in Nat : D = 1 .. n
  BY FeedbackAssumption
<1>2. DOMAIN lines = D /\ DOMAIN found = D /\ DOMAIN rows = D
  BY DEF Parsed, MatchRows, MarkDuplicates
<1>3. NoRow \in ExportRows
  BY DEF ExportRows
<1>4. \A i \in D :
        /\ found[i] \in Results
        /\ found[i].status = "matched" => found[i].row \in Snapshots /\ ~Invalid(lines[i])
  <2> SUFFICES ASSUME NEW i \in D
               PROVE  /\ found[i] \in Results
                      /\ found[i].status = "matched" =>
                           found[i].row \in Snapshots /\ ~Invalid(lines[i])
    OBVIOUS
  <2>1. \/ found[i] \in {Result("duplicate", NoRow), Result("invalid", NoRow)}
        \/ found[i] = MatchSnapshot(lines[i], Snapshots) /\ ~Invalid(lines[i])
    BY <1>2 DEF MatchRows
  <2>2. MatchSnapshot(lines[i], Snapshots) \in Results
    BY SentAre, SnapshotMatchIs
  <2>3. MatchSnapshot(lines[i], Snapshots).status = "matched" =>
          MatchSnapshot(lines[i], Snapshots).row \in Snapshots
    BY SentAre, SnapshotMatchIs
  <2>  QED
    BY <1>3, <2>1, <2>2, <2>3 DEF Result, Results, Matches
<1>5. \A i \in D : \/ rows[i] = Result("duplicate", NoRow)
                   \/ /\ rows[i] = found[i]
                      /\ found[i].status = "matched" =>
                           \A j \in 1 .. i - 1 :
                             ~(/\ found[j].status = "matched"
                               /\ EventOf(file, j, found[j].row) = EventOf(file, i, found[i].row))
  BY <1>2 DEF MarkDuplicates
<1> HIDE DEF found
<1>6. rows \in Seq(Results)
  <2>1. \A i \in D : rows[i] \in Results
    BY <1>3, <1>4, <1>5 DEF Result, Results, Matches
  <2>2. rows = [i \in D |-> rows[i]]
    BY DEF MarkDuplicates, found, MatchRows, Parsed
  <2>3. rows \in [D -> Results]
    BY <2>1, <2>2
  <2> HIDE DEF D
  <2>  QED
    BY <1>1, <2>3
<1>7. \A i \in MatchedOf(rows) : /\ i \in D /\ rows[i] = found[i]
                                 /\ found[i].status = "matched"
  BY <1>2, <1>5 DEF MatchedOf, Result
<1>8. ASSUME NEW i \in D
      PROVE  lines[i].at \in Int /\ lines[i].message \in STRING
  <2>1. LinesOf[file][i] \in Lines
    BY <1>1
  <2>2. lines[i].at = LinesOf[file][i].at /\ lines[i].message = LinesOf[file][i].message
    BY <1>2 DEF Parsed
  <2>  QED
    BY <2>1, <2>2 DEF Lines
<1>9. \A i \in MatchedOf(rows) : /\ rows[i].row \in Snapshots
                                 /\ EventOf(file, i, rows[i].row) \in Fingerprints
  <2> SUFFICES ASSUME NEW i \in MatchedOf(rows)
               PROVE  /\ rows[i].row \in Snapshots
                      /\ EventOf(file, i, rows[i].row) \in Fingerprints
    OBVIOUS
  <2>1. rows[i].row \in Snapshots /\ ~Invalid(lines[i])
    BY <1>4, <1>7
  <2>2. rows[i].row \in ExportRows
    BY <2>1, SentAre
  <2>3. lines[i].event \in EventTypes
    BY <2>1 DEF Invalid
  <2>  QED
    BY <1>7, <1>8, <2>1, <2>2, <2>3 DEF EventOf, Fingerprints
<1>10. \A i, j \in MatchedOf(rows) :
         EventOf(file, i, rows[i].row) = EventOf(file, j, rows[j].row) => ~(j < i)
  <2> SUFFICES ASSUME NEW i \in MatchedOf(rows), NEW j \in MatchedOf(rows),
                      EventOf(file, i, rows[i].row) = EventOf(file, j, rows[j].row), j < i
               PROVE  FALSE
    OBVIOUS
  <2>1. j \in 1 .. i - 1
    BY <1>1, <1>7
  <2>2. rows[i] # Result("duplicate", NoRow)
    BY DEF MatchedOf, Result
  <2>3. /\ found[j].status = "matched"
        /\ EventOf(file, j, found[j].row) = EventOf(file, i, found[i].row)
    BY <1>7
  <2>  QED
    BY <1>5, <1>7, <2>1, <2>2, <2>3
<1>11. \A i \in MatchedOf(rows) : i \in Nat
  BY <1>1, <1>7
<1>12. \A i, j \in MatchedOf(rows) :
         EventOf(file, i, rows[i].row) = EventOf(file, j, rows[j].row) => i = j
  BY <1>10, <1>11
<1>  QED
  BY <1>2, <1>6, <1>9, <1>12 DEF RowsFit

------------------------------------------------------------------------------
(***************************************************************************)
(* Uploads                                                                 *)
(***************************************************************************)

\* What a request of a reviewer promises of its next state.
StepOK(v) ==
  /\ review[v].step = "looked" => review[v].file \in Files
  /\ review[v].step = "matched" => MatchingOK(v)
  /\ review[v].step = "applying" => ApplyingOK(v)

\* A step of one reviewer keeps what the others have read, if it keeps the
\* imports that they apply.
LEMMA OneReviewerSteps ==
  ASSUME ReviewsOK, ImportsOK, ListGrows, BatchesGrow, events \subseteq events',
         NEW v \in Reviewers, \A w \in Reviewers \ {v} : review'[w] = review[w],
         \A w \in Reviewers \ {v} : review[w].step = "applying" => Kept(review[w].import),
         StepOK(v)',
         review'[v].step = "applying" =>
           \A w \in Reviewers \ {v} :
             review[w].step = "applying" => review[w].import # review'[v].import
  PROVE  ReviewsOK'
<1>1. ASSUME NEW w \in Reviewers
      PROVE  StepOK(w)'
  <2>1. CASE w = v
    BY <2>1
  <2>2. CASE w # v
    BY <2>2, OthersStay DEF StepOK
  <2>  QED
    BY <2>1, <2>2
<1>2. \A u, w \in Reviewers :
        /\ review'[u].step = "applying" /\ review'[w].step = "applying"
        /\ review'[u].import = review'[w].import
        => u = w
  BY DEF ReviewsOK
<1>  QED
  BY <1>1, <1>2 DEF ReviewsOK, StepOK

\* A step of a reviewer that writes nothing.
LEMMA ReadingFrame ==
  ASSUME FInv, UNCHANGED <<exportVars, imports, events>>
  PROVE  /\ ListGrows /\ BatchesGrow /\ EInv' /\ ImportsOK' /\ EventsOK'
         /\ ComplaintsReachTheList' /\ AppliedIsWhole' /\ FeedbackIsCounted'
<1>1. ListGrows /\ BatchesGrow
  BY DEF exportVars, ListGrows, BatchesGrow
<1>2. UNCHANGED <<suppressions, route, exports, request, today, imports, events>>
  BY DEF exportVars
<1>3. EInv'
  <2>1. EInv
    BY DEF FInv
  <2>2. ExportTypeOK' /\ EntriesOK'
    BY <1>2, <2>1 DEF EInv, ExportTypeOK, EntriesOK, ActiveEntries
  <2>  QED
    BY <1>1, <1>2, <2>1, <2>2, ListFrame DEF EInv
<1>4. FeedbackIsCounted'
  BY <1>2 DEF FInv, FeedbackIsCounted
<1>  QED
  BY <1>1, <1>2, <1>3, <1>4, ImportsStay, EventsStay, AppliedStays DEF FInv

\* upload looks for the file.
LEMMA UploadOK ==
  ASSUME FInv, NEW v \in Reviewers, Upload(v)
  PROVE  FInv'
<1>1. PICK file \in Files :
        \/ review' = [review EXCEPT ![v] = [step |-> "looked", file |-> file]]
        \/ UNCHANGED review
  BY DEF Upload
<1>2. UNCHANGED <<exportVars, imports, events>>
  BY DEF Upload
<1>3. /\ ListGrows /\ BatchesGrow /\ EInv' /\ ImportsOK' /\ EventsOK'
      /\ ComplaintsReachTheList' /\ AppliedIsWhole' /\ FeedbackIsCounted'
  BY <1>2, ReadingFrame
<1>4. ReviewsOK /\ ImportsOK /\ FeedbackTypeOK /\ DOMAIN review = Reviewers
  BY DEF FInv, FeedbackTypeOK
<1>5. FeedbackTypeOK'
  BY <1>1, <1>2, <1>4 DEF FeedbackTypeOK
<1>6. \A w \in Reviewers : review[w].step = "applying" => Kept(review[w].import)
  BY <1>2, <1>4 DEF ReviewsOK, ApplyingOK, Kept
<1>7. \A w \in Reviewers \ {v} : review'[w] = review[w]
  BY <1>1, <1>4
<1>8. StepOK(v)'
  <2>1. CASE review' = [review EXCEPT ![v] = [step |-> "looked", file |-> file]]
    <3>1. review'[v] = [step |-> "looked", file |-> file]
      BY <2>1, <1>4
    <3>  QED
      BY <3>1 DEF StepOK
  <2>2. CASE UNCHANGED review
    <3>1. events \subseteq events' /\ review'[v] = review[v]
      BY <1>2, <2>2
    <3>  QED
      BY <3>1, <1>3, <1>4, <1>6, OthersStay DEF StepOK
  <2>  QED
    BY <1>1, <2>1, <2>2
<1>9. review'[v].step = "applying" =>
        \A w \in Reviewers \ {v} :
          review[w].step = "applying" => review[w].import # review'[v].import
  BY <1>1, <1>4 DEF ReviewsOK
<1>10. ReviewsOK'
  BY <1>2, <1>3, <1>4, <1>6, <1>7, <1>8, <1>9, OneReviewerSteps
<1>  QED
  BY <1>3, <1>5, <1>10 DEF FInv

\* What is about to be added is an import.
LEMMA NewImportIs ==
  ASSUME ExportTypeOK, NEW file \in Files, NEW rows, RowsFit(file, rows, Snapshots)
  PROVE  NewImport(file, rows) \in Imports
<1> DEFINE D == DOMAIN LinesOf[file]
           address == [i \in D |-> EmailOf(rows[i].row)]
           T == {address[i] : i \in D}
           A == {a \in Addresses : ~Suppressed(a) /\
                   \E i \in DOMAIN rows : /\ rows[i].status = "matched"
                                          /\ EmailOf(rows[i].row) = a
                                          /\ Parsed(file)[i].event \in Suppressing}
<1>1. DOMAIN rows = D /\ rows \in Seq(Results)
  BY DEF RowsFit
<1>2. IsFiniteSet(D)
  <2>1. LinesOf[file] \in Seq(Lines)
    BY FeedbackAssumption
  <2>2. Len(LinesOf[file]) \in Nat /\ D = 1 .. Len(LinesOf[file])
    BY <2>1
  <2>  QED
    BY <2>2, FS_Interval
<1>3. IsFiniteSet(T)
  <2>1. DOMAIN address = D
    OBVIOUS
  <2> HIDE DEF address, D
  <2>  QED
    BY <1>2, <2>1, ImageFinite
<1>4. A \subseteq T
  BY <1>1
<1>5. Cardinality(A) \in Nat
  <2> HIDE DEF A, T
  <2>  QED
    BY <1>3, <1>4, FS_Subset, FS_CardinalityType
<1>6. ProjectedSuppressions(file, rows) \in Nat
  BY <1>5 DEF ProjectedSuppressions
<1>  QED
  BY <1>1, <1>6 DEF NewImport, Imports

\* upload matches the lines to what was sent.
LEMMA MatchUploadOK ==
  ASSUME FInv, NEW v \in Reviewers, MatchUpload(v)
  PROVE  FInv'
<1> DEFINE file == review[v].file
           rows == MarkDuplicates(file, MatchRows(file, Snapshots))
           import == NewImport(file, rows)
<1>1. /\ review[v].step = "looked"
      /\ review' = [review EXCEPT ![v] = [step |-> "matched", file |-> file, import |-> import]]
      /\ UNCHANGED <<exportVars, imports, events>>
  BY DEF MatchUpload
<1>2. /\ ListGrows /\ BatchesGrow /\ EInv' /\ ImportsOK' /\ EventsOK'
      /\ ComplaintsReachTheList' /\ AppliedIsWhole' /\ FeedbackIsCounted'
  BY <1>1, ReadingFrame
<1>3. ReviewsOK /\ ImportsOK /\ ExportTypeOK /\ FeedbackTypeOK /\ DOMAIN review = Reviewers
  BY DEF FInv, EInv, FeedbackTypeOK
<1>4. FeedbackTypeOK'
  BY <1>1, <1>3 DEF FeedbackTypeOK
<1>5. \A w \in Reviewers : review[w].step = "applying" => Kept(review[w].import)
  BY <1>1, <1>3 DEF ReviewsOK, ApplyingOK, Kept
<1>6. \A w \in Reviewers \ {v} : review'[w] = review[w]
  BY <1>1, <1>3
<1>7. review'[v] = [step |-> "matched", file |-> file, import |-> import]
  BY <1>1, <1>3
<1>8. StepOK(v)'
  <2>1. file \in Files
    BY <1>1, <1>3 DEF ReviewsOK
  <2>2. RowsFit(file, rows, Snapshots)
    BY <1>3, <2>1, MatchedRowsFit
  <2>3. import \in Imports
    BY <1>3, <2>1, <2>2, NewImportIs
  <2>4. /\ import.file = file /\ import.rows = rows /\ import.status = "ready_for_review"
        /\ Unapplied(import)
    BY DEF NewImport, Unapplied
  <2>5. Snapshots \subseteq Snapshots'
    BY <1>2, SentStay
  <2> HIDE DEF file, rows, import
  <2>6. RowsFit(import.file, import.rows, Snapshots')
    BY <2>2, <2>4, <2>5, FitsMore
  <2>7. /\ review'[v].step = "matched" /\ review'[v].file = file /\ review'[v].import = import
    BY <1>7
  <2>8. MatchingOK(v)'
    BY <2>3, <2>4, <2>6, <2>7 DEF MatchingOK
  <2>  QED
    BY <2>7, <2>8 DEF StepOK
<1>9. review'[v].step # "applying"
  BY <1>7
<1>10. ReviewsOK'
  BY <1>1, <1>2, <1>3, <1>5, <1>6, <1>8, <1>9, OneReviewerSteps
<1>  QED
  BY <1>2, <1>4, <1>10 DEF FInv

\* The counters of the imports.
AppliedCounts(list) == [n \in DOMAIN list |-> list[n].applied]
SuppressedCounts(list) == [n \in DOMAIN list |-> list[n].suppressed]

\* A function on 1 .. n is a sequence of length n.
LEMMA ListIs ==
  ASSUME NEW n \in Nat, NEW T, NEW f \in [1 .. n -> T]
  PROVE  f \in Seq(T) /\ Len(f) = n
OBVIOUS

\* What the elements of a sequence are.
LEMMA ElementsAre ==
  ASSUME NEW T, NEW s \in Seq(T)
  PROVE  \A i \in 1 .. Len(s) : s[i] \in T
OBVIOUS

\* They are numbers, one per import.
LEMMA CountsAre ==
  ASSUME NEW list \in Seq(Imports)
  PROVE  /\ AppliedCounts(list) \in Seq(Nat) /\ Len(AppliedCounts(list)) = Len(list)
         /\ SuppressedCounts(list) \in Seq(Nat) /\ Len(SuppressedCounts(list)) = Len(list)
<1>1. Len(list) \in Nat /\ DOMAIN list = 1 .. Len(list)
  OBVIOUS
<1>2. \A n \in 1 .. Len(list) : list[n].applied \in Nat /\ list[n].suppressed \in Nat
  <2>1. \A n \in 1 .. Len(list) : list[n] \in Imports
    OBVIOUS
  <2>  QED
    BY <2>1 DEF Imports
<1>3. /\ AppliedCounts(list) = [n \in 1 .. Len(list) |-> list[n].applied]
      /\ SuppressedCounts(list) = [n \in 1 .. Len(list) |-> list[n].suppressed]
  BY <1>1 DEF AppliedCounts, SuppressedCounts
<1>4. AppliedCounts(list) \in [1 .. Len(list) -> Nat]
  BY <1>2, <1>3
<1>5. SuppressedCounts(list) \in [1 .. Len(list) -> Nat]
  BY <1>2, <1>3
<1>6. AppliedCounts(list) \in Seq(Nat) /\ Len(AppliedCounts(list)) = Len(list)
  BY <1>1, <1>4, ListIs
<1>7. SuppressedCounts(list) \in Seq(Nat) /\ Len(SuppressedCounts(list)) = Len(list)
  BY <1>1, <1>5, ListIs
<1>  QED
  BY <1>6, <1>7

\* A sequence with a zero more.
LEMMA AppendIs ==
  ASSUME NEW c \in Seq(Nat)
  PROVE  Append(c, 0) = [n \in 1 .. Len(c) + 1 |-> IF n = Len(c) + 1 THEN 0 ELSE c[n]]
<1> DEFINE d == Append(c, 0)
           m == Len(c)
<1>1. /\ m \in Nat /\ d \in Seq(Nat) /\ Len(d) = m + 1 /\ d[m + 1] = 0
      /\ \A n \in 1 .. m : d[n] = c[n]
  OBVIOUS
<1> HIDE DEF d, m
<1>2. d \in [1 .. m + 1 -> Nat]
  BY <1>1
<1>3. \A n \in 1 .. m + 1 : d[n] = IF n = m + 1 THEN 0 ELSE c[n]
  BY <1>1
<1>4. d = [n \in 1 .. m + 1 |-> IF n = m + 1 THEN 0 ELSE c[n]]
  BY <1>2, <1>3
<1>  QED
  BY <1>4 DEF d, m

\* An import that is not applied counts nothing.
LEMMA CountsAppend ==
  ASSUME NEW list \in Seq(Imports), NEW new \in Imports, new.applied = 0, new.suppressed = 0
  PROVE  /\ Total(AppliedCounts(Append(list, new))) = Total(AppliedCounts(list))
         /\ Total(SuppressedCounts(Append(list, new))) = Total(SuppressedCounts(list))
<1> DEFINE more == Append(list, new)
           m == Len(list)
<1>1. /\ m \in Nat /\ DOMAIN list = 1 .. m /\ more \in Seq(Imports) /\ Len(more) = m + 1
      /\ DOMAIN more = 1 .. m + 1 /\ more[m + 1] = new
      /\ \A n \in 1 .. m : more[n] = list[n]
  OBVIOUS
<1> HIDE DEF more, m
<1>2. AppliedCounts(more) = Append(AppliedCounts(list), 0)
  <2> DEFINE c == AppliedCounts(list)
  <2>1. c \in Seq(Nat) /\ Len(c) = m /\ \A n \in 1 .. m : c[n] = list[n].applied
    BY <1>1, CountsAre DEF AppliedCounts, m
  <2>2. AppliedCounts(more) = [n \in 1 .. m + 1 |-> more[n].applied]
    BY <1>1 DEF AppliedCounts
  <2> HIDE DEF c
  <2>3. Append(c, 0) = [n \in 1 .. m + 1 |-> IF n = m + 1 THEN 0 ELSE c[n]]
    BY <1>1, <2>1, AppendIs
  <2>4. \A n \in 1 .. m + 1 : more[n].applied = IF n = m + 1 THEN 0 ELSE c[n]
    BY <1>1, <2>1
  <2>  QED
    BY <2>2, <2>3, <2>4 DEF c
<1>3. SuppressedCounts(more) = Append(SuppressedCounts(list), 0)
  <2> DEFINE c == SuppressedCounts(list)
  <2>1. c \in Seq(Nat) /\ Len(c) = m /\ \A n \in 1 .. m : c[n] = list[n].suppressed
    BY <1>1, CountsAre DEF SuppressedCounts, m
  <2>2. SuppressedCounts(more) = [n \in 1 .. m + 1 |-> more[n].suppressed]
    BY <1>1 DEF SuppressedCounts
  <2> HIDE DEF c
  <2>3. Append(c, 0) = [n \in 1 .. m + 1 |-> IF n = m + 1 THEN 0 ELSE c[n]]
    BY <1>1, <2>1, AppendIs
  <2>4. \A n \in 1 .. m + 1 : more[n].suppressed = IF n = m + 1 THEN 0 ELSE c[n]
    BY <1>1, <2>1
  <2>  QED
    BY <2>2, <2>3, <2>4 DEF c
<1>  QED
  BY <1>2, <1>3, CountsAre, TotalAppends DEF more

\* upload adds the import, or finds the file added.
LEMMA AddImportOK ==
  ASSUME FInv, NEW v \in Reviewers, AddImport(v)
  PROVE  FInv'
<1> DEFINE new == review[v].import
           m == Len(imports)
<1>1. /\ review[v].step = "matched" /\ review' = [review EXCEPT ![v] = Idle]
      /\ UNCHANGED <<exportVars, events>>
      /\ UNCHANGED <<suppressions, route, exports, request, today, events>>
      /\ imports' = Append(imports, new) \/ imports' = imports
  BY DEF AddImport, exportVars
<1>2. /\ EInv /\ ReviewsOK /\ ImportsOK /\ FeedbackTypeOK /\ DOMAIN review = Reviewers
      /\ imports \in Seq(Imports) /\ EventsOK /\ ComplaintsReachTheList
      /\ AppliedIsWhole /\ FeedbackIsCounted
  BY DEF FInv, FeedbackTypeOK
<1>3. review'[v] = Idle /\ \A w \in Reviewers \ {v} : review'[w] = review[w]
  BY <1>1, <1>2
<1>4. StepOK(v)' /\ review'[v].step # "applying"
  BY <1>3 DEF StepOK, Idle
<1>5. CASE UNCHANGED imports
  <2>1. /\ ListGrows /\ BatchesGrow /\ EInv' /\ ImportsOK' /\ EventsOK'
        /\ ComplaintsReachTheList' /\ AppliedIsWhole' /\ FeedbackIsCounted'
    BY <1>1, <1>5, ReadingFrame
  <2>2. FeedbackTypeOK'
    BY <1>1, <1>2, <1>5 DEF FeedbackTypeOK
  <2>3. \A w \in Reviewers : review[w].step = "applying" => Kept(review[w].import)
    BY <1>2, <1>5 DEF ReviewsOK, ApplyingOK, Kept
  <2>4. ReviewsOK'
    BY <1>1, <1>2, <1>3, <1>4, <2>1, <2>3, OneReviewerSteps
  <2>  QED
    BY <2>1, <2>2, <2>4 DEF FInv
<1>6. CASE imports' = Append(imports, new)
  <2>1. /\ new \in Imports /\ new.status = "ready_for_review" /\ Unapplied(new)
        /\ RowsFit(new.file, new.rows, Snapshots)
    BY <1>1, <1>2 DEF ReviewsOK, MatchingOK
  <2>2. /\ m \in Nat /\ DOMAIN imports = 1 .. m /\ imports' \in Seq(Imports)
        /\ DOMAIN imports' = 1 .. m + 1 /\ imports'[m + 1] = new
        /\ \A n \in 1 .. m : imports'[n] = imports[n]
    BY <1>2, <1>6, <2>1
  <2> HIDE DEF new, m
  <2>3. ListGrows /\ BatchesGrow /\ Snapshots' = Snapshots
    BY <1>1 DEF ListGrows, BatchesGrow, Snapshots, ReadyRows
  <2>4. EInv'
    <3>1. ExportTypeOK' /\ EntriesOK'
      BY <1>1, <1>2 DEF EInv, ExportTypeOK, EntriesOK, ActiveEntries
    <3>  QED
      BY <1>1, <1>2, <2>3, <3>1, ListFrame DEF EInv
  <2>5. FeedbackTypeOK'
    BY <1>1, <1>2, <2>2 DEF FeedbackTypeOK
  <2>6. ImportsOK'
    <3>1. \A n \in 1 .. m + 1 : /\ RowsFit(imports'[n].file, imports'[n].rows, Snapshots)
                                /\ Unapplied(imports'[n])
      BY <1>2, <2>1, <2>2 DEF ImportsOK
    <3>  QED
      BY <2>2, <2>3, <3>1 DEF ImportsOK
  <2>7. EventsOK' /\ ComplaintsReachTheList'
    BY <1>1, <1>2, <2>3, EventsStay
  <2>8. AppliedIsWhole'
    <3>1. \A n \in 1 .. m + 1 : imports'[n].status # "ready_for_review" =>
            n \in 1 .. m /\ imports'[n] = imports[n]
      BY <2>1, <2>2
    <3>  QED
      BY <1>1, <1>2, <2>2, <3>1 DEF AppliedIsWhole, MatchedLines, LineEvent
  <2>9. FeedbackIsCounted'
    <3>1. new.applied = 0 /\ new.suppressed = 0
      BY <2>1 DEF Unapplied
    <3>2. /\ Total(AppliedCounts(imports')) = Total(AppliedCounts(imports))
          /\ Total(SuppressedCounts(imports')) = Total(SuppressedCounts(imports))
      BY <1>2, <1>6, <2>1, <3>1, CountsAppend DEF new
    <3>3. /\ Total(AppliedCounts(imports)) = Cardinality(events)
          /\ Total(SuppressedCounts(imports)) = Cardinality(FeedbackEntries)
      BY <1>2 DEF FeedbackIsCounted, AppliedCounts, SuppressedCounts, FeedbackEntries
    <3>4. /\ Total(AppliedCounts(imports')) = Cardinality(events')
          /\ Total(SuppressedCounts(imports')) = Cardinality(FeedbackEntries')
      BY <1>1, <3>2, <3>3 DEF FeedbackEntries
    <3>  QED
      BY <3>4 DEF FeedbackIsCounted, AppliedCounts, SuppressedCounts, FeedbackEntries
  <2>10. \A w \in Reviewers : review[w].step = "applying" => Kept(review[w].import)
    BY <1>2, <2>2 DEF ReviewsOK, ApplyingOK, Kept
  <2>11. ReviewsOK'
    BY <1>1, <1>2, <1>3, <1>4, <2>3, <2>10, OneReviewerSteps
  <2>  QED
    BY <2>4, <2>5, <2>6, <2>7, <2>8, <2>9, <2>11 DEF FInv
<1>  QED
  BY <1>1, <1>5, <1>6

------------------------------------------------------------------------------
(***************************************************************************)
(* Imports are applied                                                     *)
(***************************************************************************)

\* apply reads what is new of an import that no other request applies.
LEMMA ApplyOK ==
  ASSUME FInv, NEW v \in Reviewers, Apply(v)
  PROVE  FInv'
<1>1. PICK n \in DOMAIN imports :
        /\ review[v] = Idle /\ Applicable(n) /\ ~Locked(n)
        /\ review' = [review EXCEPT ![v] =
             [step |-> "applying", import |-> n,
              lines |-> {i \in MatchedLines(n) : LineEvent(n, i) \notin events},
              suppress |-> ToSuppress(n, {i \in MatchedLines(n) : LineEvent(n, i) \notin events})]]
        /\ UNCHANGED <<exportVars, imports, events>>
  BY DEF Apply
<1> DEFINE lines == {i \in MatchedLines(n) : LineEvent(n, i) \notin events}
           suppress == ToSuppress(n, lines)
           applying == [step |-> "applying", import |-> n, lines |-> lines,
                        suppress |-> suppress]
<1>2. /\ ListGrows /\ BatchesGrow /\ EInv' /\ ImportsOK' /\ EventsOK'
      /\ ComplaintsReachTheList' /\ AppliedIsWhole' /\ FeedbackIsCounted'
  BY <1>1, ReadingFrame
<1>3. ReviewsOK /\ ImportsOK /\ FeedbackTypeOK /\ DOMAIN review = Reviewers
  BY DEF FInv, FeedbackTypeOK
<1>4. FeedbackTypeOK'
  BY <1>1, <1>3 DEF FeedbackTypeOK
<1>5. \A w \in Reviewers : review[w].step = "applying" => Kept(review[w].import)
  BY <1>1, <1>3 DEF ReviewsOK, ApplyingOK, Kept
<1>6. \A w \in Reviewers \ {v} : review'[w] = review[w]
  BY <1>1, <1>3
<1>7. review'[v] = applying
  BY <1>1, <1>3
<1>8. /\ review'[v].step = "applying" /\ review'[v].import = n
      /\ review'[v].lines = lines /\ review'[v].suppress = suppress
  BY <1>7
<1>9. ApplyingOK(v)'
  <2>1. lines \subseteq MatchedLines(n) /\ \A i \in MatchedLines(n) \ lines : LineEvent(n, i) \in events
    OBVIOUS
  <2>2. \A a \in suppress : \E i \in lines : a = Addressee(n, i)
    BY DEF ToSuppress
  <2>3. \A i \in lines : LineEvent(n, i).type \in Suppressing =>
          Addressee(n, i) \in suppress \/ Reached(Addressee(n, i))
    <3> SUFFICES ASSUME NEW i \in lines, LineEvent(n, i).type \in Suppressing,
                        Addressee(n, i) \notin suppress
                 PROVE  Reached(Addressee(n, i))
      OBVIOUS
    <3>1. Suppressed(Addressee(n, i))
      <4> HIDE DEF lines
      <4>  QED
        BY DEF ToSuppress
    <3>  QED
      BY <3>1 DEF Suppressed, Active, Reached
  <2>4. imports[n].status = "ready_for_review"
    BY <1>1 DEF Applicable
  <2> DEFINE Promise(r) ==
             /\ r.import \in DOMAIN imports /\ imports[r.import].status = "ready_for_review"
             /\ r.lines \subseteq MatchedLines(r.import)
             /\ \A i \in MatchedLines(r.import) \ r.lines : LineEvent(r.import, i) \in events
             /\ \A a \in r.suppress : \E i \in r.lines : a = Addressee(r.import, i)
             /\ \A i \in r.lines : LineEvent(r.import, i).type \in Suppressing =>
                  \/ Addressee(r.import, i) \in r.suppress
                  \/ \E m \in DOMAIN suppressions :
                       suppressions[m].target = Email(Addressee(r.import, i))
  <2>5. Promise(applying)
    <3>1. /\ applying.import = n /\ applying.lines = lines /\ applying.suppress = suppress
      OBVIOUS
    <3> HIDE DEF applying, lines, suppress
    <3>  QED
      BY <2>1, <2>2, <2>3, <2>4, <3>1 DEF Reached
  <2>6. Promise(review'[v])
    <3> HIDE DEF Promise, applying
    <3>  QED
      BY <1>7, <2>5
  <2>7. UNCHANGED <<suppressions, exports, imports, events>>
    BY <1>1 DEF exportVars
  <2> HIDE DEF lines, suppress, applying
  <2>  QED
    BY <2>6, <2>7 DEF ApplyingOK, MatchedLines, LineEvent, Addressee, EmailOf, Reached
<1>10. StepOK(v)'
  BY <1>8, <1>9 DEF StepOK
<1>11. \A w \in Reviewers \ {v} : review[w].step = "applying" => review[w].import # review'[v].import
  BY <1>1, <1>8 DEF Locked
<1>12. ReviewsOK'
  BY <1>1, <1>2, <1>3, <1>5, <1>6, <1>10, <1>11, OneReviewerSteps
<1>  QED
  BY <1>2, <1>4, <1>12 DEF FInv

\* The elements of a set by their ranks are all of its elements, each once.
LEMMA RanksEnumerate ==
  ASSUME NEW S, NEW R, IsFiniteSet(S), Total2(S, R), NEW order,
         \A i \in 1 .. Cardinality(S) : order[i] \in S /\ RankIn(S, R, order[i]) = i - 1
  PROVE  /\ \A i, j \in 1 .. Cardinality(S) : order[i] = order[j] => i = j
         /\ \A x \in S : \E i \in 1 .. Cardinality(S) : order[i] = x
<1> DEFINE n == Cardinality(S)
<1>1. n \in Nat
  BY FS_CardinalityType
<1>2. ASSUME NEW i \in 1 .. n, NEW j \in 1 .. n, order[i] = order[j]
      PROVE  i = j
  <2>1. i - 1 = j - 1
    BY <1>2
  <2>  QED
    BY <1>1, <2>1
<1>3. ASSUME NEW x \in S
      PROVE  \E i \in 1 .. n : order[i] = x
  <2>1. RankIn(S, R, x) \in 0 .. n - 1
    BY RankGrows
  <2>2. PICK i \in 1 .. n : i - 1 = RankIn(S, R, x)
    <3>1. RankIn(S, R, x) + 1 \in 1 .. n /\ (RankIn(S, R, x) + 1) - 1 = RankIn(S, R, x)
      BY <1>1, <2>1
    <3>  QED
      BY <3>1
  <2>3. order[i] \in S /\ RankIn(S, R, order[i]) = RankIn(S, R, x)
    BY <2>2
  <2>4. order[i] = x
    BY <2>3, RankIsBijective
  <2>  QED
    BY <2>4
<1>  QED
  BY <1>2, <1>3

\* What was sent has an address.
LEMMA SentAddress ==
  ASSUME EInv, NEW row \in Snapshots
  PROVE  EmailOf(row) \in Addresses
<1>1. PICK b \in DOMAIN exports : row \in {b} \X ReadyRows(b)
  BY DEF Snapshots
<1>2. row[1] = b /\ row[2] \in ReadyRows(b)
  BY <1>1
<1>3. exports[b] \in Exports
  BY DEF EInv, ExportTypeOK
<1>4. exports[b].hash.companies \in SUBSET Companies
  BY <1>3 DEF Exports, Selections
<1> DEFINE rows == exports[b].rows
           companies == exports[b].hash.companies
           targets == TargetsOf(exports[b].hash.entries)
<1>5. rows = BuildRows(companies, targets)
  BY DEF EInv, BatchesOK
<1>6. row[2] \in DOMAIN rows /\ rows[row[2]].status = "ready"
  BY <1>2 DEF ReadyRows
<1> HIDE DEF rows, companies, targets
<1>7. \A p \in DOMAIN rows : rows[p].status = "ready" =>
        /\ {Email(rows[p].email), Domain(rows[p].email), Company(rows[p].company)}
             \intersect targets = {}
        /\ rows[p].email \in Addresses
  <2>1. companies \in SUBSET Companies
    BY <1>4 DEF companies
  <2>  QED
    BY <2>1, <1>5, BuiltRows
<1>8. rows[row[2]].email \in Addresses
  BY <1>6, <1>7
<1>  QED
  BY <1>2, <1>8 DEF EmailOf, rows

\* The lines of an import: each brings an event of its own and is for an
\* address that was sent to.
LEMMA LinesAre ==
  ASSUME EInv, ImportsOK, FeedbackTypeOK, NEW n \in DOMAIN imports
  PROVE  /\ IsFiniteSet(MatchedLines(n)) /\ MatchedLines(n) \subseteq Nat
         /\ \A i \in MatchedLines(n) :
              /\ imports[n].rows[i].row \in Snapshots /\ Addressee(n, i) \in Addresses
              /\ LineEvent(n, i) \in Fingerprints /\ LineEvent(n, i).row = imports[n].rows[i].row
         /\ \A i, j \in MatchedLines(n) : LineEvent(n, i) = LineEvent(n, j) => i = j
<1>1. RowsFit(imports[n].file, imports[n].rows, Snapshots)
  BY DEF ImportsOK
<1>2. imports[n].rows \in Seq(Results)
  BY <1>1 DEF RowsFit
<1>3. MatchedLines(n) \subseteq 1 .. Len(imports[n].rows) /\ Len(imports[n].rows) \in Nat
  BY <1>2 DEF MatchedLines
<1>4. IsFiniteSet(MatchedLines(n))
  <2>1. IsFiniteSet(1 .. Len(imports[n].rows))
    BY <1>3, FS_Interval
  <2>  QED
    BY <2>1, <1>3, FS_Subset
<1>5. MatchedLines(n) = MatchedOf(imports[n].rows)
  BY DEF MatchedLines, MatchedOf
<1>6. \A i \in MatchedLines(n) : /\ imports[n].rows[i].row \in Snapshots
                                 /\ LineEvent(n, i) \in Fingerprints
  BY <1>1, <1>5 DEF RowsFit, LineEvent
<1>7. \A i \in MatchedLines(n) : Addressee(n, i) \in Addresses
  BY <1>6, SentAddress DEF Addressee
<1>8. \A i : LineEvent(n, i).row = imports[n].rows[i].row
  BY DEF LineEvent, EventOf
<1>9. \A i, j \in MatchedLines(n) : LineEvent(n, i) = LineEvent(n, j) => i = j
  BY <1>1, <1>5 DEF RowsFit, LineEvent
<1>  QED
  BY <1>3, <1>4, <1>6, <1>7, <1>8, <1>9

\* Entries that suppress a set of k addresses, each once.
EachOnce(add, k, addresses) ==
  /\ k \in Nat /\ DOMAIN add = 1 .. k /\ add \in Seq(Entries)
  /\ \A i \in 1 .. k : /\ add[i].active /\ add[i].source = "umail_feedback"
                       /\ \E a \in addresses : add[i].target = Email(a)
  /\ \A i, j \in 1 .. k : add[i].target = add[j].target => i = j
  /\ \A a \in addresses : \E i \in 1 .. k : add[i].target = Email(a)

\* The entries that are added: one for each address that is to be suppressed.
LEMMA NewEntriesAre ==
  ASSUME FInv, NEW v \in Reviewers, review[v].step = "applying",
         NEW add, add = NewEntries(v), NEW k, k = Cardinality(review[v].suppress)
  PROVE  EachOnce(add, k, review[v].suppress)
<1> DEFINE n == review[v].import
           L == review[v].lines
           S == review[v].suppress
           first(a) == FirstLine(v, a)
           R == {p \in S \X S : first(p[1]) < first(p[2])}
<1>0. k = Cardinality(S)
  OBVIOUS
<1>1. EInv /\ ImportsOK /\ FeedbackTypeOK /\ ApplyingOK(v)
  BY DEF FInv, ReviewsOK
<1>2. /\ n \in DOMAIN imports /\ L \subseteq MatchedLines(n)
      /\ \A a \in S : \E i \in L : a = Addressee(n, i)
  BY <1>1 DEF ApplyingOK
<1>3. /\ IsFiniteSet(MatchedLines(n)) /\ MatchedLines(n) \subseteq Nat
      /\ \A i \in MatchedLines(n) : Addressee(n, i) \in Addresses
  BY <1>1, <1>2, LinesAre
<1>4. IsFiniteSet(S) /\ k \in Nat
  <2> DEFINE address == [i \in L |-> Addressee(n, i)]
             T == {address[i] : i \in L}
  <2>1. IsFiniteSet(L)
    BY <1>2, <1>3, FS_Subset
  <2>2. S \subseteq T
    BY <1>2
  <2>3. IsFiniteSet(T)
    <3>1. DOMAIN address = L
      OBVIOUS
    <3> HIDE DEF address, L
    <3>  QED
      BY <2>1, <3>1, ImageFinite
  <2> HIDE DEF T, S
  <2>  QED
    BY <1>0, <2>2, <2>3, FS_Subset, FS_CardinalityType
<1>5. S \subseteq Addresses
  BY <1>2, <1>3
<1>6. \A a \in S : first(a) \in Nat /\ Addressee(n, first(a)) = a
  <2> SUFFICES ASSUME NEW a \in S
               PROVE  first(a) \in Nat /\ Addressee(n, first(a)) = a
    OBVIOUS
  <2> DEFINE T == {i \in L : Addressee(n, i) = a}
             Q(i) == Addressee(n, i) = a /\ \A j \in L : Addressee(n, j) = a => i <= j
  <2>1. T \subseteq Nat /\ T # {}
    BY <1>2, <1>3
  <2>2. PICK i \in T : \A j \in T : i <= j
    <3> HIDE DEF T
    <3>  QED
      BY <2>1, Least
  <2>3. i \in L /\ Q(i)
    BY <2>2
  <2>4. first(a) = CHOOSE j \in L : Q(j)
    BY DEF FirstLine
  <2>5. first(a) \in L /\ Q(first(a))
    <3> HIDE DEF Q, L, first
    <3>  QED
      BY <2>3, <2>4
  <2>  QED
    BY <1>2, <1>3, <2>5
<1>7. Total2(S, R)
  <2>1. \A a, b \in S : <<a, b>> \in R <=> first(a) < first(b)
    OBVIOUS
  <2>2. \A a, b \in S : first(a) = first(b) => a = b
    BY <1>6
  <2>3. \A a \in S : first(a) \in Nat
    BY <1>6
  <2> HIDE DEF R, S, first
  <2>4. /\ \A x \in S : <<x, x>> \notin R
        /\ \A x, y, z \in S : <<x, y>> \in R /\ <<y, z>> \in R => <<x, z>> \in R
    BY <2>1, <2>3
  <2>5. \A x, y \in S : x # y => <<x, y>> \in R \/ <<y, x>> \in R
    BY <2>1, <2>2, <2>3
  <2>  QED
    BY <2>4, <2>5 DEF Total2
<1> DEFINE order == [i \in 1 .. k |->
                       CHOOSE x \in S : Cardinality({y \in S : first(y) < first(x)}) = i - 1]
<1>8. add = [i \in 1 .. k |-> EntryFor(Email(order[i]), "umail_feedback")]
  BY DEF NewEntries, InOrder
<1>9. \A x \in S : RankIn(S, R, x) = Cardinality({y \in S : first(y) < first(x)})
  <2> SUFFICES ASSUME NEW x \in S
               PROVE  {y \in S : <<y, x>> \in R} = {y \in S : first(y) < first(x)}
    BY DEF RankIn
  <2>  QED
    OBVIOUS
<1>10. \A i \in 1 .. k : order[i] \in S /\ RankIn(S, R, order[i]) = i - 1
  <2> SUFFICES ASSUME NEW i \in 1 .. k
               PROVE  order[i] \in S /\ RankIn(S, R, order[i]) = i - 1
    OBVIOUS
  <2> DEFINE Q(x) == Cardinality({y \in S : first(y) < first(x)}) = i - 1
  <2>1. order[i] = CHOOSE x \in S : Q(x)
    OBVIOUS
  <2>2. \E x \in S : Q(x)
    <3> HIDE DEF S, R, first
    <3>1. \E x \in S : RankIn(S, R, x) = i - 1
      BY <1>0, <1>4, <1>7, RankIsBijective
    <3>  QED
      BY <1>9, <3>1
  <2>3. order[i] \in S /\ Q(order[i])
    <3> HIDE DEF Q, S, order
    <3>  QED
      BY <2>1, <2>2
  <2>  QED
    BY <1>9, <2>3
<1> HIDE DEF order, R, first
<1>11. /\ \A i, j \in 1 .. k : order[i] = order[j] => i = j
       /\ \A x \in S : \E i \in 1 .. k : order[i] = x
  <2> HIDE DEF S
  <2>  QED
    BY <1>0, <1>4, <1>7, <1>10, RanksEnumerate
<1>12. \A a, b : Email(a) = Email(b) => a = b
  BY DEF Email
<1>13. \A i \in 1 .. k : /\ add[i].target = Email(order[i]) /\ add[i].active
                         /\ add[i].source = "umail_feedback" /\ add[i] \in Entries
  <2> SUFFICES ASSUME NEW i \in 1 .. k
               PROVE  /\ add[i].target = Email(order[i]) /\ add[i].active
                      /\ add[i].source = "umail_feedback" /\ add[i] \in Entries
    OBVIOUS
  <2>1. add[i] = EntryFor(Email(order[i]), "umail_feedback")
    BY <1>8
  <2>2. Email(order[i]) \in Targets
    <3>1. order[i] \in Addresses
      BY <1>5, <1>10
    <3>  QED
      BY <3>1 DEF Email, Targets
  <2>  QED
    BY <2>1, <2>2 DEF EntryFor, Entries
<1>14. add \in Seq(Entries) /\ DOMAIN add = 1 .. k
  <2>1. add = [i \in 1 .. k |-> add[i]]
    BY <1>8
  <2>2. add \in [1 .. k -> Entries]
    BY <1>13, <2>1
  <2>  QED
    BY <1>4, <2>2
<1> HIDE DEF S
<1>15. \A i \in 1 .. k : \E a \in S : add[i].target = Email(a)
  BY <1>10, <1>13
<1>16. \A i, j \in 1 .. k : add[i].target = add[j].target => i = j
  BY <1>11, <1>12, <1>13
<1>17. \A a \in S : \E i \in 1 .. k : add[i].target = Email(a)
  BY <1>11, <1>13
<1>  QED
  <2>1. EachOnce(add, k, S)
    <3> HIDE DEF n, L, first, R
    <3>  QED
      BY <1>4, <1>13, <1>14, <1>15, <1>16, <1>17 DEF EachOnce
  <2>  QED
    BY <2>1 DEF S

\* Places of a concatenation.
LEMMA ConcatIs ==
  ASSUME NEW T, NEW s \in Seq(T), NEW t \in Seq(T), NEW l, l = Len(s), NEW k, k = Len(t),
         NEW u, u = s \o t
  PROVE  /\ u \in Seq(T) /\ l \in Nat /\ k \in Nat /\ DOMAIN s = 1 .. l /\ DOMAIN u = 1 .. (l + k)
         /\ \A n \in 1 .. l : n \in 1 .. (l + k) /\ u[n] = s[n]
         /\ \A i \in 1 .. k : l + i \in (l + 1) .. (l + k) /\ u[l + i] = t[i]
         /\ \A n \in (l + 1) .. (l + k) :
              n \in 1 .. (l + k) /\ n \notin 1 .. l /\ n - l \in 1 .. k /\ u[n] = t[n - l]
         /\ \A n \in 1 .. (l + k) : n \in 1 .. l \/ n \in (l + 1) .. (l + k)
<1>1. u \in Seq(T) /\ l \in Nat /\ k \in Nat /\ Len(u) = l + k
  OBVIOUS
<1>2. \A n \in 1 .. l : u[n] = s[n]
  OBVIOUS
<1>3. \A i \in 1 .. k : u[l + i] = t[i]
  OBVIOUS
<1>4. ASSUME NEW n \in (l + 1) .. (l + k)
      PROVE  n \in 1 .. (l + k) /\ n \notin 1 .. l /\ n - l \in 1 .. k /\ u[n] = t[n - l]
  <2>1. n - l \in 1 .. k /\ l + (n - l) = n
    BY <1>1
  <2>  QED
    BY <1>1, <1>3, <2>1
<1>  QED
  BY <1>1, <1>2, <1>3, <1>4

\* What the entries that are added do to the list.
LEMMA CommitList ==
  ASSUME FInv, NEW v \in Reviewers, review[v].step = "applying", ~Refused(v),
         suppressions' = suppressions \o NewEntries(v),
         UNCHANGED <<route, exports, request, today>>
  PROVE  /\ EInv' /\ ListGrows
         /\ Cardinality(FeedbackEntries')
              = Cardinality(FeedbackEntries) + Cardinality(review[v].suppress)
         /\ \A a \in review[v].suppress :
              \E n \in DOMAIN suppressions' : suppressions'[n].target = Email(a)
<1> DEFINE S == review[v].suppress
           add == NewEntries(v)
           k == Cardinality(S)
           l == Len(suppressions)
<1>1. /\ k \in Nat /\ DOMAIN add = 1 .. k /\ add \in Seq(Entries)
      /\ \A i \in 1 .. k : /\ add[i].active /\ add[i].source = "umail_feedback"
                           /\ \E a \in S : add[i].target = Email(a)
      /\ \A i, j \in 1 .. k : add[i].target = add[j].target => i = j
      /\ \A a \in S : \E i \in 1 .. k : add[i].target = Email(a)
  <2>1. EachOnce(add, k, S)
    BY NewEntriesAre
  <2> HIDE DEF add, k, S, l
  <2>  QED
    BY <2>1 DEF EachOnce
<1>2. EInv /\ ExportTypeOK /\ EntriesOK /\ suppressions \in Seq(Entries)
  BY DEF FInv, EInv, ExportTypeOK
<1>3. \A a \in S : Email(a) \notin Active(suppressions)
  BY DEF Refused
<1> HIDE DEF add, k, S
<1>4. /\ l \in Nat /\ DOMAIN suppressions = 1 .. l
      /\ suppressions' \in Seq(Entries) /\ DOMAIN suppressions' = 1 .. (l + k)
      /\ \A n \in 1 .. l : n \in 1 .. (l + k) /\ suppressions'[n] = suppressions[n]
      /\ \A i \in 1 .. k : l + i \in (l + 1) .. (l + k) /\ suppressions'[l + i] = add[i]
      /\ \A n \in (l + 1) .. (l + k) :
           /\ n \in 1 .. (l + k) /\ n \notin 1 .. l /\ n - l \in 1 .. k
           /\ suppressions'[n] = add[n - l]
      /\ \A n \in 1 .. (l + k) : n \in 1 .. l \/ n \in (l + 1) .. (l + k)
  <2>1. suppressions' = suppressions \o add /\ k = Len(add)
    BY <1>1 DEF add
  <2> HIDE DEF l
  <2>2. l = Len(suppressions)
    BY DEF l
  <2>  QED
    BY <1>1, <1>2, <2>1, <2>2, ConcatIs
<1> DEFINE new == (l + 1) .. (l + k)
<1>6. /\ \A n \in new : /\ n \in Int /\ n \in DOMAIN suppressions' /\ n \notin 1 .. l
                        /\ n - l \in 1 .. k /\ suppressions'[n] = add[n - l]
      /\ \A n \in DOMAIN suppressions' : n \in 1 .. l \/ n \in new
      /\ \A i \in 1 .. k : l + i \in new
      /\ \A n \in 1 .. l : n \in DOMAIN suppressions'
  BY <1>1, <1>4
<1> HIDE DEF l, new
<1>5. ListGrows
  BY <1>1, <1>4 DEF ListGrows
<1>7. ExportTypeOK'
  BY <1>2, <1>4 DEF ExportTypeOK
<1>8. EntriesOK'
  <2> SUFFICES ASSUME NEW m \in DOMAIN suppressions', NEW n \in DOMAIN suppressions',
                      suppressions'[m].active, suppressions'[n].active,
                      suppressions'[m].target = suppressions'[n].target
               PROVE  m = n
    BY DEF EntriesOK, ActiveEntries
  <2>1. \A i \in 1 .. l : suppressions[i].active => suppressions[i].target \in Active(suppressions)
    BY <1>4 DEF Active
  <2>2. \A i \in 1 .. k : add[i].target \notin Active(suppressions)
    BY <1>1, <1>3
  <2>3. CASE m \in 1 .. l /\ n \in 1 .. l
    BY <1>2, <1>4, <2>3 DEF EntriesOK, ActiveEntries
  <2>4. CASE m \in new /\ n \in new
    <3>1. add[m - l].target = add[n - l].target /\ m - l \in 1 .. k /\ n - l \in 1 .. k
      BY <1>6, <2>4
    <3>2. m - l = n - l
      BY <1>1, <3>1
    <3>  QED
      BY <1>4, <1>6, <2>4, <3>2
  <2>5. CASE m \in 1 .. l /\ n \in new
    <3>1. suppressions'[n].target \notin Active(suppressions)
      BY <1>6, <2>2, <2>5
    <3>2. suppressions'[m].target \in Active(suppressions)
      BY <1>4, <2>1, <2>5
    <3>  QED
      BY <3>1, <3>2
  <2>6. CASE m \in new /\ n \in 1 .. l
    <3>1. suppressions'[m].target \notin Active(suppressions)
      BY <1>6, <2>2, <2>6
    <3>2. suppressions'[n].target \in Active(suppressions)
      BY <1>4, <2>1, <2>6
    <3>  QED
      BY <3>1, <3>2
  <2>  QED
    BY <1>6, <2>3, <2>4, <2>5, <2>6
<1>9. EInv'
  BY <1>2, <1>5, <1>7, <1>8, ListFrame DEF EInv
<1>10. Cardinality(FeedbackEntries') = Cardinality(FeedbackEntries) + k
  <2> DEFINE old == FeedbackEntries
  <2>1. \A n \in new : suppressions'[n].source = "umail_feedback" /\ n \notin 1 .. l
    <3> SUFFICES ASSUME NEW n \in new
                 PROVE  suppressions'[n].source = "umail_feedback" /\ n \notin 1 .. l
      OBVIOUS
    <3>1. n \notin 1 .. l /\ n - l \in 1 .. k /\ suppressions'[n] = add[n - l]
      BY <1>6
    <3>2. add[n - l].source = "umail_feedback"
      BY <1>1, <3>1
    <3>  QED
      BY <3>1, <3>2
  <2>2. FeedbackEntries' = old \union new
    <3>1. \A n \in 1 .. l : suppressions'[n].source = suppressions[n].source
      BY <1>4
    <3>2. \A n \in 1 .. l : n \in old <=> suppressions'[n].source = "umail_feedback"
      BY <1>4, <3>1 DEF FeedbackEntries
    <3>3. old \subseteq 1 .. l
      BY <1>4 DEF FeedbackEntries
    <3> HIDE DEF old
    <3>4. old \union new \subseteq DOMAIN suppressions'
      BY <1>6, <3>3
    <3>5. \A n \in DOMAIN suppressions' :
             n \in old \union new <=> suppressions'[n].source = "umail_feedback"
      BY <1>6, <2>1, <3>2, <3>3
    <3>6. FeedbackEntries'
            = {n \in DOMAIN suppressions' : suppressions'[n].source = "umail_feedback"}
      BY DEF FeedbackEntries
    <3>  QED
      BY <3>4, <3>5, <3>6
  <2>3. old \subseteq 1 .. l /\ old \intersect new = {}
    BY <1>4, <2>1 DEF FeedbackEntries
  <2>4. IsFiniteSet(1 .. l) /\ IsFiniteSet(new) /\ Cardinality(new) = k
    <3>1. l + 1 \in Int /\ l + k \in Int
      BY <1>1, <1>4
    <3>2. /\ IsFiniteSet(new)
          /\ Cardinality(new) = IF l + 1 > l + k THEN 0 ELSE (l + k) - (l + 1) + 1
      BY <3>1, FS_Interval DEF new
    <3>  QED
      BY <1>1, <1>4, <3>2, FS_Interval
  <2>5. IsFiniteSet(old) /\ Cardinality(old) \in Nat
    BY <2>3, <2>4, FS_Subset, FS_CardinalityType
  <2> HIDE DEF old
  <2>6. Cardinality(old \union new) = Cardinality(old) + Cardinality(new) - Cardinality({})
    BY <2>3, <2>4, <2>5, FS_Union
  <2>7. Cardinality({}) = 0
    BY FS_EmptySet
  <2>  QED
    BY <1>1, <2>2, <2>4, <2>5, <2>6, <2>7 DEF old
<1>11. \A a \in S : \E n \in DOMAIN suppressions' : suppressions'[n].target = Email(a)
  <2> SUFFICES ASSUME NEW a \in S
               PROVE  \E n \in DOMAIN suppressions' : suppressions'[n].target = Email(a)
    OBVIOUS
  <2>1. PICK i \in 1 .. k : add[i].target = Email(a)
    BY <1>1
  <2>2. l + i \in DOMAIN suppressions' /\ suppressions'[l + i].target = Email(a)
    BY <1>1, <1>4, <1>6, <2>1
  <2>  QED
    BY <2>2
<1>  QED
  BY <1>5, <1>9, <1>10, <1>11 DEF S, k

\* As many events are added as there are lines.
LEMMA CommitEvents ==
  ASSUME FInv, NEW v \in Reviewers, review[v].step = "applying", ~Refused(v)
  PROVE  /\ IsFiniteSet(events \union NewEvents(v))
         /\ events \union NewEvents(v) \subseteq Fingerprints
         /\ Cardinality(review[v].lines) \in Nat
         /\ Cardinality(events \union NewEvents(v))
              = Cardinality(events) + Cardinality(review[v].lines)
<1> DEFINE n == review[v].import
           L == review[v].lines
           new == NewEvents(v)
           event == [i \in L |-> LineEvent(n, i)]
<1>1. /\ EInv /\ ImportsOK /\ FeedbackTypeOK /\ ApplyingOK(v)
      /\ IsFiniteSet(events) /\ events \subseteq Fingerprints
  BY DEF FInv, ReviewsOK, EventsOK, FeedbackTypeOK
<1>2. n \in DOMAIN imports /\ L \subseteq MatchedLines(n)
  BY <1>1 DEF ApplyingOK
<1>3. /\ IsFiniteSet(MatchedLines(n))
      /\ \A i \in MatchedLines(n) : LineEvent(n, i) \in Fingerprints
      /\ \A i, j \in MatchedLines(n) : LineEvent(n, i) = LineEvent(n, j) => i = j
  BY <1>1, <1>2, LinesAre
<1>4. IsFiniteSet(L) /\ Cardinality(L) \in Nat
  BY <1>2, <1>3, FS_Subset, FS_CardinalityType
<1>5. new = {LineEvent(n, i) : i \in L} /\ new \subseteq Fingerprints
  BY <1>2, <1>3 DEF NewEvents
<1>6. event \in Bijection(L, new)
  BY <1>2, <1>3, <1>5 DEF Bijection, Injection, IsInjective, Surjection
<1>7. IsFiniteSet(new) /\ Cardinality(new) = Cardinality(L)
  <2> HIDE DEF event, new, L
  <2>1. ExistsBijection(L, new)
    BY <1>6 DEF ExistsBijection
  <2>  QED
    BY <1>4, <2>1, FS_Bijection
<1>8. events \intersect new = {}
  BY DEF Refused
<1> HIDE DEF new, L
<1>9. Cardinality(events) \in Nat /\ Cardinality({}) = 0
  BY <1>1, FS_CardinalityType, FS_EmptySet
<1>10. /\ IsFiniteSet(events \union new)
       /\ Cardinality(events \union new) = Cardinality(events) + Cardinality(new) - Cardinality({})
  BY <1>1, <1>7, <1>8, FS_Union
<1>  QED
  BY <1>1, <1>4, <1>5, <1>7, <1>9, <1>10 DEF new, L

\* mark_applied, field by field.
LEMMA MarkedRecord ==
  ASSUME NEW import, NEW status, NEW a, NEW s,
         import = [file |-> import.file, rows |-> import.rows, projected |-> import.projected,
                   status |-> import.status, applied |-> import.applied,
                   suppressed |-> import.suppressed]
  PROVE  Marked(import, status, a, s)
           = [file |-> import.file, rows |-> import.rows, projected |-> import.projected,
              status |-> status, applied |-> a, suppressed |-> s]
<1> DEFINE b == [file |-> import.file, rows |-> import.rows, projected |-> import.projected,
                 status |-> status, applied |-> import.applied, suppressed |-> import.suppressed]
           c == [file |-> import.file, rows |-> import.rows, projected |-> import.projected,
                 status |-> status, applied |-> a, suppressed |-> import.suppressed]
<1>1. [import EXCEPT !.status = status] = b
  OBVIOUS
<1>2. [b EXCEPT !.applied = a] = c
  OBVIOUS
<1>3. [c EXCEPT !.suppressed = s]
           = [file |-> import.file, rows |-> import.rows, projected |-> import.projected,
              status |-> status, applied |-> a, suppressed |-> s]
  OBVIOUS
<1>4. [import EXCEPT !.status = status, !.applied = a, !.suppressed = s]
        = [[[import EXCEPT !.status = status] EXCEPT !.applied = a] EXCEPT !.suppressed = s]
  OBVIOUS
<1>  QED
  BY <1>1, <1>2, <1>3, <1>4 DEF Marked

\* What the import that is applied counts.
LEMMA CommitCounts ==
  ASSUME NEW list \in Seq(Imports), NEW n \in DOMAIN list,
         list[n].applied = 0, list[n].suppressed = 0,
         NEW status \in {"applied", "partial_applied"}, NEW a \in Nat, NEW s \in Nat,
         NEW next, next = [list EXCEPT ![n] = Marked(@, status, a, s)]
  PROVE  /\ next \in Seq(Imports) /\ DOMAIN next = DOMAIN list
         /\ \A m \in DOMAIN list :
              /\ next[m].file = list[m].file /\ next[m].rows = list[m].rows
              /\ m # n => next[m] = list[m]
         /\ next[n].status = status
         /\ Total(AppliedCounts(next)) = Total(AppliedCounts(list)) + a
         /\ Total(SuppressedCounts(next)) = Total(SuppressedCounts(list)) + s
<1> DEFINE import == [file |-> list[n].file, rows |-> list[n].rows,
                      projected |-> list[n].projected, status |-> status,
                      applied |-> a, suppressed |-> s]
           l == Len(list)
<1>1. l \in Nat /\ DOMAIN list = 1 .. l /\ n \in 1 .. l /\ \A m \in 1 .. l : list[m] \in Imports
  OBVIOUS
<1>2. next = [list EXCEPT ![n] = import]
  <2> DEFINE r == list[n]
  <2>1. r = [file |-> r.file, rows |-> r.rows, projected |-> r.projected,
             status |-> r.status, applied |-> r.applied, suppressed |-> r.suppressed]
    BY <1>1 DEF Imports
  <2>2. import = [file |-> r.file, rows |-> r.rows, projected |-> r.projected,
                  status |-> status, applied |-> a, suppressed |-> s]
    OBVIOUS
  <2> HIDE DEF r, import
  <2>3. Marked(r, status, a, s) = import
    BY <2>1, <2>2, MarkedRecord
  <2>  QED
    BY <2>3 DEF r
<1>3. import \in Imports
  BY <1>1 DEF Imports
<1>4. /\ import.file = list[n].file /\ import.rows = list[n].rows /\ import.status = status
      /\ import.applied = a /\ import.suppressed = s
  OBVIOUS
<1> HIDE DEF import, l
<1>5. next \in Seq(Imports) /\ DOMAIN next = 1 .. l /\ Len(next) = l
  <2>1. next \in [1 .. l -> Imports]
    BY <1>1, <1>2, <1>3
  <2>2. next \in Seq(Imports)
    BY <1>1, <2>1
  <2>3. DOMAIN next = 1 .. l
    BY <2>1
  <2>  QED
    BY <1>1, <2>2, <2>3
<1>6. next[n] = import /\ \A m \in 1 .. l : m # n => next[m] = list[m]
  BY <1>1, <1>2
<1> DEFINE c == AppliedCounts(list)
           d == AppliedCounts(next)
           e == SuppressedCounts(list)
           f == SuppressedCounts(next)
<1>7. /\ {c, d, e, f} \subseteq Seq(Nat) /\ Len(c) = l /\ Len(d) = l /\ Len(e) = l /\ Len(f) = l
  BY <1>5, <1>6, CountsAre DEF l
<1>8. \A m \in 1 .. l : /\ c[m] = list[m].applied /\ d[m] = next[m].applied
                        /\ e[m] = list[m].suppressed /\ f[m] = next[m].suppressed
  BY <1>1, <1>5 DEF AppliedCounts, SuppressedCounts
<1> HIDE DEF c, d, e, f
<1>9. \A m \in 1 .. l : c[m] \in Nat /\ e[m] \in Nat
  <2>1. c \in Seq(Nat) /\ e \in Seq(Nat) /\ Len(c) = l /\ Len(e) = l
    BY <1>7
  <2>  QED
    BY <2>1, ElementsAre
<1>10. DiffersBy(c, d, n, a) /\ DiffersBy(e, f, n, s)
  <2>1. c[n] = 0 /\ e[n] = 0 /\ d[n] = a /\ f[n] = s
    BY <1>1, <1>4, <1>6, <1>8
  <2>2. ASSUME NEW m \in 1 .. l, m # n
        PROVE  d[m] = c[m] /\ f[m] = e[m]
    <3>1. next[m] = list[m]
      BY <1>6, <2>2
    <3>  QED
      BY <1>8, <3>1
  <2>3. \A m \in 1 .. l : /\ d[m] = c[m] + (IF m = n THEN a ELSE 0)
                          /\ f[m] = e[m] + (IF m = n THEN s ELSE 0)
    BY <1>9, <2>1, <2>2
  <2>  QED
    BY <1>7, <2>3 DEF DiffersBy
<1>11. /\ Total(d) = Total(c) + a /\ Total(f) = Total(e) + s
  BY <1>1, <1>7, <1>10, TotalDiffers
<1>  QED
  BY <1>1, <1>4, <1>5, <1>6, <1>11 DEF c, d, e, f

\* apply writes events, list and import, or nothing.
LEMMA CommitApplyOK ==
  ASSUME FInv, NEW v \in Reviewers, CommitApply(v)
  PROVE  FInv'
<1> DEFINE n == review[v].import
           L == review[v].lines
           S == review[v].suppress
           status == AppliedStatus(n)
           a == Cardinality(L)
           s == Cardinality(S)
<1>1. /\ review[v].step = "applying" /\ review' = [review EXCEPT ![v] = Idle]
      /\ UNCHANGED <<route, exports, request, today>>
  BY DEF CommitApply
<1>2. /\ EInv /\ ReviewsOK /\ ImportsOK /\ FeedbackTypeOK /\ DOMAIN review = Reviewers
      /\ imports \in Seq(Imports) /\ EventsOK /\ ComplaintsReachTheList
      /\ AppliedIsWhole /\ FeedbackIsCounted
  BY DEF FInv, FeedbackTypeOK
<1>3. review'[v] = Idle /\ \A w \in Reviewers \ {v} : review'[w] = review[w]
  BY <1>1, <1>2
<1>4. StepOK(v)' /\ review'[v].step # "applying"
  BY <1>3 DEF StepOK, Idle
<1>5. CASE Refused(v)
  <2>1. UNCHANGED <<suppressions, route, exports, request, today, imports, events>>
    BY <1>5 DEF CommitApply
  <2>2. /\ ListGrows /\ BatchesGrow /\ EInv' /\ ImportsOK' /\ EventsOK'
        /\ ComplaintsReachTheList' /\ AppliedIsWhole' /\ FeedbackIsCounted'
    BY <2>1, ReadingFrame DEF exportVars
  <2>3. FeedbackTypeOK'
    BY <1>1, <1>2, <2>1 DEF FeedbackTypeOK
  <2>4. \A w \in Reviewers : review[w].step = "applying" => Kept(review[w].import)
    BY <1>2, <2>1 DEF ReviewsOK, ApplyingOK, Kept
  <2>5. ReviewsOK'
    BY <1>2, <1>3, <1>4, <2>1, <2>2, <2>4, OneReviewerSteps
  <2>  QED
    BY <2>2, <2>3, <2>5 DEF FInv
<1>6. CASE ~Refused(v)
  <2>1. /\ events' = events \union NewEvents(v)
        /\ suppressions' = suppressions \o NewEntries(v)
        /\ imports' = [imports EXCEPT ![n] = Marked(@, status, a, s)]
    BY <1>6 DEF CommitApply
  <2>2. /\ EInv' /\ ListGrows
        /\ Cardinality(FeedbackEntries') = Cardinality(FeedbackEntries) + s
        /\ \A x \in S : \E m \in DOMAIN suppressions' : suppressions'[m].target = Email(x)
    BY <1>1, <1>6, <2>1, CommitList
  <2>3. /\ IsFiniteSet(events') /\ events' \subseteq Fingerprints
        /\ Cardinality(events') = Cardinality(events) + a /\ a \in Nat
    BY <1>1, <1>6, <2>1, CommitEvents
  <2>4. ApplyingOK(v) /\ n \in DOMAIN imports /\ imports[n].status = "ready_for_review"
    BY <1>1, <1>2 DEF ReviewsOK, ApplyingOK
  <2>5. imports[n].applied = 0 /\ imports[n].suppressed = 0
    BY <1>2, <2>4 DEF ImportsOK, Unapplied
  <2>6. status \in {"applied", "partial_applied"}
    BY DEF AppliedStatus
  <2>7. s \in Nat
    BY <1>1, NewEntriesAre DEF EachOnce
  <2> DEFINE next == [imports EXCEPT ![n] = Marked(@, status, a, s)]
  <2>8. imports' = next
    BY <2>1
  <2> HIDE DEF a, s, status
  <2>9. /\ next \in Seq(Imports) /\ DOMAIN next = DOMAIN imports
        /\ \A m \in DOMAIN imports :
             /\ next[m].file = imports[m].file /\ next[m].rows = imports[m].rows
             /\ m # n => next[m] = imports[m]
        /\ next[n].status = status
        /\ Total(AppliedCounts(next)) = Total(AppliedCounts(imports)) + a
        /\ Total(SuppressedCounts(next)) = Total(SuppressedCounts(imports)) + s
    <3> HIDE DEF n
    <3>  QED
      BY <1>2, <2>3, <2>4, <2>5, <2>6, <2>7, CommitCounts
  <2> HIDE DEF next
  <2>10. BatchesGrow /\ Snapshots' = Snapshots /\ events \subseteq events'
    BY <1>1, <2>1 DEF BatchesGrow, Snapshots, ReadyRows
  <2>11. FeedbackTypeOK'
    BY <1>1, <1>2, <2>3, <2>8, <2>9 DEF FeedbackTypeOK
  <2>12. ImportsOK'
    <3>1. ASSUME NEW m \in DOMAIN imports
          PROVE  RowsFit(next[m].file, next[m].rows, Snapshots) /\ Unapplied(next[m])
      <4>1. RowsFit(imports[m].file, imports[m].rows, Snapshots) /\ Unapplied(imports[m])
        BY <1>2 DEF ImportsOK
      <4>2. RowsFit(next[m].file, next[m].rows, Snapshots)
        BY <2>9, <4>1
      <4>3. Unapplied(next[m])
        BY <2>6, <2>9, <4>1 DEF Unapplied
      <4>  QED
        BY <4>2, <4>3
    <3>  QED
      BY <2>8, <2>9, <2>10, <3>1 DEF ImportsOK
  <2>13. /\ L \subseteq MatchedLines(n)
         /\ \A i \in MatchedLines(n) \ L : LineEvent(n, i) \in events
         /\ \A i \in L : LineEvent(n, i).type \in Suppressing =>
              Addressee(n, i) \in S \/ Reached(Addressee(n, i))
    BY <2>4 DEF ApplyingOK
  <2>14. events' = events \union {LineEvent(n, i) : i \in L}
    BY <2>1 DEF NewEvents
  <2>15. \A i \in MatchedLines(n) :
           /\ imports[n].rows[i].row \in Snapshots /\ Addressee(n, i) = EmailOf(LineEvent(n, i).row)
           /\ LineEvent(n, i).row = imports[n].rows[i].row
    BY <1>2, <2>4, LinesAre DEF Addressee
  <2> HIDE DEF L, S, n
  <2>16. EventsOK'
    <3>1. \A event \in events' : event.row \in Snapshots
      BY <1>2, <2>13, <2>14, <2>15 DEF EventsOK
    <3>  QED
      BY <2>3, <2>10, <3>1 DEF EventsOK
  <2>17. ComplaintsReachTheList'
    <3> SUFFICES ASSUME NEW event \in events', event.type \in Suppressing
                 PROVE  \E m \in DOMAIN suppressions' :
                          suppressions'[m].target = Email(EmailOf(event.row))
      BY <1>1 DEF ComplaintsReachTheList, EmailOf
    <3>1. CASE event \in events
      BY <1>2, <2>2, <3>1 DEF ComplaintsReachTheList, ListGrows
    <3>2. CASE event \notin events
      <4>1. PICK i \in L : event = LineEvent(n, i)
        BY <2>14, <3>2
      <4>2. Addressee(n, i) = EmailOf(event.row) /\ LineEvent(n, i).type \in Suppressing
        BY <2>13, <2>15, <4>1
      <4>3. Addressee(n, i) \in S \/ Reached(Addressee(n, i))
        BY <2>13, <4>2
      <4>4. Reached(Addressee(n, i)) =>
              \E m \in DOMAIN suppressions' : suppressions'[m].target = Email(Addressee(n, i))
        BY <2>2 DEF Reached, ListGrows
      <4>  QED
        BY <2>2, <4>2, <4>3, <4>4
    <3>  QED
      BY <3>1, <3>2
  <2>18. AppliedIsWhole'
    <3> DEFINE matched(m) == {i \in DOMAIN next[m].rows : next[m].rows[i].status = "matched"}
    <3>1. \A m \in DOMAIN imports : matched(m) = MatchedLines(m)
      BY <2>9 DEF MatchedLines
    <3>2. \A m \in DOMAIN imports : \A i :
            EventOf(next[m].file, i, next[m].rows[i].row) = LineEvent(m, i)
      BY <2>9 DEF LineEvent
    <3>3. \A i \in MatchedLines(n) : LineEvent(n, i) \in events'
      BY <2>13, <2>14
    <3>4. status = "applied" => MatchedLines(n) = DOMAIN imports[n].rows
      BY DEF status, AppliedStatus
    <3>5. ASSUME NEW m \in DOMAIN imports, next[m].status # "ready_for_review"
          PROVE  /\ \A i \in MatchedLines(m) : LineEvent(m, i) \in events'
                 /\ next[m].status = "applied" => MatchedLines(m) = DOMAIN next[m].rows
      <4>1. CASE m = n
        BY <2>9, <3>3, <3>4, <4>1
      <4>2. CASE m # n
        <5>1. next[m] = imports[m]
          BY <2>9, <4>2
        <5>  QED
          BY <1>2, <2>10, <3>5, <5>1 DEF AppliedIsWhole
      <4>  QED
        BY <4>1, <4>2
    <3>6. \A m \in DOMAIN next : next[m].status # "ready_for_review" =>
            /\ \A i \in matched(m) : EventOf(next[m].file, i, next[m].rows[i].row) \in events'
            /\ next[m].status = "applied" => matched(m) = DOMAIN next[m].rows
      <4> HIDE DEF matched
      <4>  QED
        BY <2>9, <3>1, <3>2, <3>5
    <3>  QED
      BY <2>8, <3>6 DEF AppliedIsWhole, MatchedLines, LineEvent
  <2>19. FeedbackIsCounted'
    <3>1. /\ Total(AppliedCounts(imports)) = Cardinality(events)
          /\ Total(SuppressedCounts(imports)) = Cardinality(FeedbackEntries)
      BY <1>2 DEF FeedbackIsCounted, AppliedCounts, SuppressedCounts, FeedbackEntries
    <3>2. /\ Total(AppliedCounts(imports')) = Cardinality(events')
          /\ Total(SuppressedCounts(imports')) = Cardinality(FeedbackEntries')
      BY <2>2, <2>3, <2>8, <2>9, <3>1
    <3>  QED
      BY <3>2 DEF FeedbackIsCounted, AppliedCounts, SuppressedCounts, FeedbackEntries
  <2>20. \A w \in Reviewers \ {v} : review[w].step = "applying" => Kept(review[w].import)
    <3> SUFFICES ASSUME NEW w \in Reviewers \ {v}, review[w].step = "applying"
                 PROVE  Kept(review[w].import)
      OBVIOUS
    <3>1. review[w].import # n /\ review[w].import \in DOMAIN imports
      BY <1>1, <1>2 DEF ReviewsOK, ApplyingOK, n
    <3>2. next[review[w].import] = imports[review[w].import]
      BY <2>9, <3>1
    <3>  QED
      BY <2>8, <2>9, <3>1, <3>2 DEF Kept
  <2>21. ReviewsOK'
    BY <1>2, <1>3, <1>4, <2>2, <2>10, <2>20, OneReviewerSteps
  <2>  QED
    BY <2>2, <2>11, <2>12, <2>16, <2>17, <2>18, <2>19, <2>21 DEF FInv
<1>  QED
  BY <1>5, <1>6

------------------------------------------------------------------------------
(***************************************************************************)
(* Every step keeps the invariant                                          *)
(***************************************************************************)

\* Nothing was sent or reported at first.
LEMMA InitOK ==
  ASSUME Init
  PROVE  FInv
<1>1. /\ suppressions = <<>> /\ exports = <<>> /\ imports = <<>> /\ events = {} /\ today = 0
      /\ route = [status |-> "completed", generation |-> 1, exportable |-> Companies]
      /\ request = [k \in Clients |-> Idle] /\ review = [v \in Reviewers |-> Idle]
  BY DEF Init, ExportInit, FeedbackInit
<1>2. Idle \in Requests /\ Idle.step = "idle"
  BY DEF Idle, Requests
<1>3. /\ DOMAIN suppressions = {} /\ DOMAIN exports = {} /\ DOMAIN imports = {}
      /\ Len(exports) = 0 /\ Len(imports) = 0
  BY <1>1
<1>4. ExportTypeOK
  <2>1. MaxGeneration \in Nat \ {0} /\ MaxExports \in Nat /\ MaxDay \in Nat
    BY ExportAssumption
  <2>2. route \in Routes
    BY <1>1, <2>1 DEF Routes
  <2>3. request \in [Clients -> Requests]
    BY <1>1, <1>2
  <2>4. suppressions \in Seq(Entries) /\ exports \in Seq(Exports) /\ Len(exports) <= MaxExports
    BY <1>1, <1>3, <2>1
  <2>5. today \in 0 .. MaxDay
    BY <1>1, <2>1
  <2>  QED
    BY <2>2, <2>3, <2>4, <2>5 DEF ExportTypeOK
<1>5. EntriesOK /\ BatchesOK
  BY <1>3 DEF EntriesOK, ActiveEntries, BatchesOK
<1>6. RequestsOK
  BY <1>1, <1>2 DEF RequestsOK
<1>7. FeedbackTypeOK
  BY <1>1 DEF FeedbackTypeOK
<1>8. ImportsOK /\ ReviewsOK
  BY <1>1, <1>2, <1>3 DEF ImportsOK, ReviewsOK
<1>9. EventsOK /\ ComplaintsReachTheList /\ AppliedIsWhole
  BY <1>1, <1>3, FS_EmptySet DEF EventsOK, ComplaintsReachTheList, AppliedIsWhole
<1>10. FeedbackIsCounted
  <2>1. \A counts : Len(counts) = 0 => Total(counts) = 0
    <3> SUFFICES ASSUME NEW counts, Len(counts) = 0
                 PROVE  Total(counts) = 0
      OBVIOUS
    <3>1. PICK f : SumsUpto(counts, Len(counts), f) /\ Total(counts) = f[Len(counts)]
      BY TotalIs
    <3>2. 0 \in Nat /\ 0 \in 0 .. Len(counts) /\ Len(counts) \in Nat
      OBVIOUS
    <3>3. f[0] = 0
      BY <3>1, <3>2, SumsStep
    <3>  QED
      BY <3>1, <3>3
  <2>2. imports \in Seq(Imports)
    BY <1>1
  <2>3. Len(AppliedCounts(imports)) = 0 /\ Len(SuppressedCounts(imports)) = 0
    BY <1>3, <2>2, CountsAre
  <2>4. Total(AppliedCounts(imports)) = 0 /\ Total(SuppressedCounts(imports)) = 0
    BY <2>1, <2>3
  <2>5. FeedbackEntries = {} /\ Cardinality({}) = 0
    BY <1>3, FS_EmptySet DEF FeedbackEntries
  <2>  QED
    BY <1>1, <2>4, <2>5
       DEF FeedbackIsCounted, AppliedCounts, SuppressedCounts, FeedbackEntries
<1>  QED
  BY <1>4, <1>5, <1>6, <1>7, <1>8, <1>9, <1>10 DEF FInv, EInv

\* Stuttering steps.
LEMMA StutterOK ==
  ASSUME FInv, UNCHANGED vars
  PROVE  FInv'
<1>1. /\ UNCHANGED <<exportVars, imports, events>> /\ UNCHANGED feedbackVars
      /\ UNCHANGED suppressions
  BY DEF vars, exportVars, feedbackVars
<1>2. ListGrows /\ BatchesGrow /\ EInv'
  BY <1>1, ReadingFrame
<1>3. Grows
  BY <1>1, <1>2 DEF Grows, FeedbackEntries
<1>  QED
  BY <1>1, <1>2, <1>3, FeedbackFrame

\* Every step keeps the invariant.
LEMMA NextOK ==
  ASSUME FInv, [Next]_vars
  PROVE  FInv'
<1>1. ASSUME ExportNext, UNCHANGED feedbackVars
      PROVE  FInv'
  <2>1. EInv' /\ Grows
    BY <1>1, ExportStepOK DEF FInv
  <2>  QED
    BY <1>1, <2>1, FeedbackFrame
<1>2. ASSUME NEW v \in Reviewers,
             Upload(v) \/ MatchUpload(v) \/ AddImport(v) \/ Apply(v) \/ CommitApply(v)
      PROVE  FInv'
  BY <1>2, UploadOK, MatchUploadOK, AddImportOK, ApplyOK, CommitApplyOK
<1>  QED
  BY <1>1, <1>2, StutterOK DEF Next

------------------------------------------------------------------------------
(***************************************************************************)
(* Theorems                                                                *)
(***************************************************************************)

\* The invariant holds in every state.
THEOREM OutreachInvariant == Spec => []FInv
<1>1. Init => FInv
  BY InitOK
<1>2. FInv /\ [Next]_vars => FInv'
  BY NextOK
<1>  QED
  BY <1>1, <1>2, PTL DEF Spec

\* The rows of an answer are those of its hash, which names the entries
\* that the request read.
LEMMA AnswersAreSafe ==
  ASSUME FInv
  PROVE  AnswersRespectSuppressions
<1> SUFFICES ASSUME NEW k \in Clients, request[k].step = "answered",
                    NEW p \in ReadyRows(request[k].batch)
             PROVE  LET row == exports[request[k].batch].rows[p] IN
                    {Email(row.email), Domain(row.email), Company(row.company)}
                      \intersect TargetsOf(request[k].selection.entries) = {}
  BY DEF AnswersRespectSuppressions
<1> DEFINE b == request[k].batch
           rows == exports[b].rows
           companies == exports[b].hash.companies
           targets == TargetsOf(request[k].selection.entries)
<1>1. /\ b \in DOMAIN exports /\ exports[b].hash = request[k].selection
      /\ exports[b] \in Exports
  BY DEF FInv, EInv, RequestsOK, ExportTypeOK
<1>2. companies \in SUBSET Companies /\ rows = BuildRows(companies, targets)
  BY <1>1 DEF FInv, EInv, BatchesOK, Exports, Selections
<1>3. p \in DOMAIN rows /\ rows[p].status = "ready"
  BY DEF ReadyRows
<1> HIDE DEF rows, companies, targets
<1>4. \A q \in DOMAIN rows : rows[q].status = "ready" =>
        /\ {Email(rows[q].email), Domain(rows[q].email), Company(rows[q].company)}
             \intersect targets = {}
        /\ rows[q].email \in Addresses
  BY <1>2, BuiltRows
<1>5. {Email(rows[p].email), Domain(rows[p].email), Company(rows[p].company)}
        \intersect targets = {}
  BY <1>3, <1>4
<1>  QED
  BY <1>5 DEF rows, targets

\* Ready rows of a batch have addresses of their own.
LEMMA MailsAreSingle ==
  ASSUME FInv
  PROVE  OneMailPerAddress
<1>1. ASSUME NEW b \in DOMAIN exports, NEW p \in ReadyRows(b), NEW q \in ReadyRows(b),
             exports[b].rows[p].email = exports[b].rows[q].email
      PROVE  p = q
  <2> DEFINE rows == exports[b].rows
             companies == exports[b].hash.companies
             targets == TargetsOf(exports[b].hash.entries)
  <2>1. exports[b] \in Exports
    BY DEF FInv, EInv, ExportTypeOK
  <2>2. companies \in SUBSET Companies /\ rows = BuildRows(companies, targets)
    BY <2>1 DEF FInv, EInv, BatchesOK, Exports, Selections
  <2>3. /\ p \in DOMAIN rows /\ rows[p].status = "ready"
        /\ q \in DOMAIN rows /\ rows[q].status = "ready"
        /\ rows[p].email = rows[q].email
    BY <1>1 DEF ReadyRows
  <2> HIDE DEF rows, companies, targets
  <2>4. Single(rows)
    BY <2>2, BuiltRows
  <2>  QED
    BY <2>3, <2>4 DEF Single
<1>2. \A b, c \in DOMAIN exports : exports[b].hash = exports[c].hash => b = c
  BY DEF FInv, EInv, BatchesOK
<1>  QED
  BY <1>1, <1>2 DEF OneMailPerAddress

\* As many targets are active as entries are.
LEMMA TargetsAreSingle ==
  ASSUME EInv
  PROVE  Cardinality(Active(suppressions)) = Cardinality(ActiveEntries)
<1> DEFINE f == [n \in ActiveEntries |-> suppressions[n].target]
           T == Active(suppressions)
<1>1. suppressions \in Seq(Entries)
  BY DEF EInv, ExportTypeOK
<1>2. ActiveEntries \subseteq 1 .. Len(suppressions) /\ Len(suppressions) \in Nat
  BY <1>1 DEF ActiveEntries
<1>3. IsFiniteSet(ActiveEntries)
  <2>1. IsFiniteSet(1 .. Len(suppressions))
    BY <1>2, FS_Interval
  <2>  QED
    BY <2>1, <1>2, FS_Subset
<1>4. T = {suppressions[n].target : n \in ActiveEntries}
  BY DEF Active, ActiveEntries
<1>5. \A m, n \in ActiveEntries : suppressions[m].target = suppressions[n].target => m = n
  BY DEF EInv, EntriesOK
<1> HIDE DEF T
<1>6. f \in Bijection(ActiveEntries, T)
  BY <1>4, <1>5 DEF Bijection, Injection, IsInjective, Surjection
<1>7. ExistsBijection(ActiveEntries, T)
  <2> HIDE DEF f
  <2>  QED
    BY <1>6 DEF ExistsBijection
<1>  QED
  BY <1>3, <1>7, FS_Bijection DEF T

\* A batch that answers a request sends nothing to what was suppressed when
\* the request read the list, also when it was built for another request
\* (prepare, _selection_hash).
THEOREM AnswersRespectTheList == Spec => []AnswersRespectSuppressions
  BY OutreachInvariant, AnswersAreSafe, PTL

\* No address gets two mails of one batch, and no selection has two batches
\* (_build_rows, prepare).
THEOREM AddressesGetOneMail == Spec => []OneMailPerAddress
  BY OutreachInvariant, MailsAreSingle, PTL

\* A complaint that was applied has put its address on the list, or found it
\* there, and no step takes an entry out of it (apply, deactivate).
THEOREM ComplaintsAreListed == Spec => []ComplaintsReachTheList
<1>1. FInv => ComplaintsReachTheList
  BY DEF FInv
<1>  QED
  BY <1>1, OutreachInvariant, PTL

\* The imports account for the events and for the entries that the feedback
\* made, and what was applied was applied as a whole (apply, mark_applied).
THEOREM FeedbackAddsUp == Spec => []FeedbackIsWhole
<1>1. FInv => FeedbackIsWhole
  BY TargetsAreSingle DEF FInv, EInv, FeedbackIsWhole, TypeOK
<1>  QED
  BY <1>1, OutreachInvariant, PTL

(***************************************************************************)
(* Aggregates                                                              *)
(***************************************************************************)

StoredRows == [key : Nat, by : Nat, approved : BOOLEAN]
Aggregates == [head : Nat, rows : UNION {[S -> StoredRows] : S \in SUBSET (Nat \ {0})}]

\* An aggregate whose rows have numbers in D and were written for keys in K
\* by requests in B, of which only rows in Q are approved.
Held(a, D, H, K, B, Q) ==
  /\ a \in Aggregates
  /\ DOMAIN a.rows \subseteq D /\ IsFiniteSet(DOMAIN a.rows)
  /\ a.head \in H
  /\ \A i \in DOMAIN a.rows : /\ a.rows[i].key \in K /\ a.rows[i].by \in B
                              /\ a.rows[i].approved => i \in Q

\* It has a first row: none of those that are stored is empty.
Within(a, D, H, K, B, Q) == Held(a, D, H, K, B, Q) /\ 1 \in DOMAIN a.rows

Unique(a) == IsInjective([i \in DOMAIN a.rows |-> a.rows[i].key])

\* What is an aggregate.
LEMMA IsAggregate ==
  ASSUME NEW h \in Nat, NEW S, S \subseteq Nat \ {0}, NEW f, f \in [S -> StoredRows]
  PROVE  [head |-> h, rows |-> f] \in Aggregates
BY DEF Aggregates

\* What an aggregate consists of.
LEMMA AggregateIs ==
  ASSUME NEW a \in Aggregates
  PROVE  /\ a = [head |-> a.head, rows |-> a.rows] /\ a.head \in Nat
         /\ DOMAIN a.rows \subseteq Nat \ {0}
         /\ a.rows \in [DOMAIN a.rows -> StoredRows]
         /\ \A i \in DOMAIN a.rows : a.rows[i] \in StoredRows
<1>1. PICK S \in SUBSET (Nat \ {0}) : a.rows \in [S -> StoredRows]
  BY DEF Aggregates
<1>2. DOMAIN a.rows = S
  BY <1>1
<1>  QED
  BY <1>1, <1>2 DEF Aggregates

\* More rows, keys, writers and approvals may be allowed.
LEMMA WithinGrows ==
  ASSUME NEW a, NEW D, NEW H, NEW K, NEW B, NEW Q, Within(a, D, H, K, B, Q),
         NEW D2, NEW H2, NEW K2, NEW B2, NEW Q2,
         D \subseteq D2, H \subseteq H2, K \subseteq K2, B \subseteq B2, Q \subseteq Q2
  PROVE  Within(a, D2, H2, K2, B2, Q2)
BY DEF Within, Held

\* Rows with keys.
LEMMA RowIs ==
  ASSUME NEW key \in Nat, NEW by \in Nat
  PROVE  /\ Row(key, by) \in StoredRows /\ Row(key, by).key = key /\ Row(key, by).by = by
         /\ Row(key, by).approved = FALSE
BY DEF Row, StoredRows

\* A column of a saved row is that of the row in memory or of the row as it is.
LEMMA UpdatedRowIs ==
  ASSUME NEW now \in StoredRows, NEW base, NEW mine \in StoredRows,
         NEW u, u = UpdatedRow(now, base, mine)
  PROVE  /\ u \in StoredRows /\ u.key \in {now.key, mine.key} /\ u.by \in {now.by, mine.by}
         /\ u.approved => now.approved \/ mine.approved
<1>1. u.key \in {now.key, mine.key} /\ u.by \in {now.by, mine.by}
      /\ u.approved \in {now.approved, mine.approved}
  BY DEF UpdatedRow, Column
<1>2. u = [key |-> u.key, by |-> u.by, approved |-> u.approved]
  BY DEF UpdatedRow
<1>3. u.key \in Nat /\ u.by \in Nat /\ u.approved \in BOOLEAN
  BY <1>1 DEF StoredRows
<1>  QED
  BY <1>1, <1>2, <1>3 DEF StoredRows

\* What is saved is as the rows that were stored and those in memory.
LEMMA FlushedWithin ==
  ASSUME NEW now, NEW base, NEW mine, NEW D, NEW H, NEW K, NEW B, NEW Q,
         Within(now, D, H, K, B, Q), Within(mine, D, H, K, B, Q), ~Gone(now, base, mine)
  PROVE  Within(Flushed(now, base, mine), D, H, K, B, Q)
<1> DEFINE ins == Inserted(base, mine)
           S == (DOMAIN now.rows \union ins) \ Deleted(base, mine)
           all == BeforeDeletion(now, base, mine)
           f == Restrict(all, S)
           h == Column(now.head, base.head, mine.head)
<1>1. now \in Aggregates /\ mine \in Aggregates
  BY DEF Within, Held
<1>2. S \subseteq DOMAIN now.rows \union DOMAIN mine.rows /\ 1 \in S
  BY DEF Inserted, Deleted, Within, Held
<1>3. S \subseteq Nat \ {0} /\ S \subseteq D /\ IsFiniteSet(S)
  <2>1. IsFiniteSet(DOMAIN now.rows \union DOMAIN mine.rows)
    BY FS_Union DEF Within, Held
  <2>2. DOMAIN now.rows \union DOMAIN mine.rows \subseteq D
    BY DEF Within, Held
  <2>3. DOMAIN now.rows \union DOMAIN mine.rows \subseteq Nat \ {0}
    BY <1>1, AggregateIs
  <2> HIDE DEF S
  <2>  QED
    BY <1>2, <2>1, <2>2, <2>3, FS_Subset
<1>4. \A i \in DOMAIN now.rows \union ins :
         /\ all[i] \in StoredRows /\ all[i].key \in K /\ all[i].by \in B
         /\ all[i].approved => i \in Q
  <2> SUFFICES ASSUME NEW i \in DOMAIN now.rows \union ins
               PROVE  /\ all[i] \in StoredRows /\ all[i].key \in K /\ all[i].by \in B
                      /\ all[i].approved => i \in Q
    OBVIOUS
  <2>1. CASE i \in ins
    <3>1. i \in DOMAIN mine.rows /\ i \notin Updated(base, mine)
      BY <2>1 DEF Inserted, Updated
    <3>2. all[i] = mine.rows[i]
      BY <2>1, <3>1 DEF BeforeDeletion
    <3>  QED
      BY <3>1, <3>2, <1>1, AggregateIs DEF Within, Held
  <2>2. CASE i \notin ins /\ i \in Updated(base, mine)
    <3>1. i \in DOMAIN mine.rows /\ i \in DOMAIN now.rows
      <4>1. Updated(base, mine) \subseteq DOMAIN now.rows
        BY DEF Gone
      <4>2. Updated(base, mine) \subseteq DOMAIN mine.rows
        BY DEF Updated
      <4>  QED
        BY <2>2, <4>1, <4>2
    <3>2. all[i] = UpdatedRow(now.rows[i], base.rows[i], mine.rows[i])
      BY <2>2 DEF BeforeDeletion
    <3>3. now.rows[i] \in StoredRows /\ mine.rows[i] \in StoredRows
      BY <3>1, <1>1, AggregateIs
    <3>4. /\ now.rows[i].key \in K /\ now.rows[i].by \in B /\ (now.rows[i].approved => i \in Q)
          /\ mine.rows[i].key \in K /\ mine.rows[i].by \in B /\ (mine.rows[i].approved => i \in Q)
      BY <3>1 DEF Within, Held
    <3> HIDE DEF all
    <3>5. /\ all[i] \in StoredRows /\ all[i].key \in {now.rows[i].key, mine.rows[i].key}
          /\ all[i].by \in {now.rows[i].by, mine.rows[i].by}
          /\ all[i].approved => now.rows[i].approved \/ mine.rows[i].approved
      BY <3>2, <3>3, UpdatedRowIs
    <3>  QED
      BY <3>4, <3>5
  <2>3. CASE i \notin ins /\ i \notin Updated(base, mine)
    <3>1. all[i] = now.rows[i] /\ i \in DOMAIN now.rows
      BY <2>3 DEF BeforeDeletion
    <3>  QED
      BY <3>1, <1>1, AggregateIs DEF Within, Held
  <2>  QED
    BY <2>1, <2>2, <2>3
<1>5. f = [i \in S |-> all[i]] /\ S \subseteq DOMAIN now.rows \union ins
  BY DEF Restrict
<1>6. h \in H /\ h \in Nat
  <2>1. h \in {now.head, mine.head}
    BY DEF Column
  <2>2. now.head \in Nat /\ mine.head \in Nat
    BY <1>1, AggregateIs
  <2> HIDE DEF h
  <2>  QED
    BY <2>1, <2>2 DEF Within, Held
<1>7. Flushed(now, base, mine) = [head |-> h, rows |-> f]
  BY DEF Flushed
<1> HIDE DEF f, S, all, h, ins
<1>8. f \in [S -> StoredRows]
  BY <1>4, <1>5
<1>9. [head |-> h, rows |-> f] \in Aggregates
  BY <1>3, <1>6, <1>8, IsAggregate
<1>10. DOMAIN f = S /\ \A i \in S : f[i] = all[i]
  BY <1>5
<1> DEFINE g == Flushed(now, base, mine)
<1>11. g \in Aggregates /\ g.head = h /\ g.rows = f
  BY <1>7, <1>9
<1> HIDE DEF g
<1>12. \A i \in S : /\ f[i].key \in K /\ f[i].by \in B
                    /\ f[i].approved => i \in Q
  BY <1>4, <1>5, <1>10
<1>13. Within(g, D, H, K, B, Q)
  BY <1>2, <1>3, <1>6, <1>10, <1>11, <1>12 DEF Within, Held
<1>  QED
  BY <1>13 DEF g

\* A save that does not conflict leaves every key once.
LEMMA FlushedUnique ==
  ASSUME NEW now, NEW base, NEW mine, ~Conflicts(now, base, mine)
  PROVE  Unique(Flushed(now, base, mine))
<1> DEFINE all == BeforeDeletion(now, base, mine)
           S == (DOMAIN now.rows \union Inserted(base, mine)) \ Deleted(base, mine)
           f == Flushed(now, base, mine).rows
<1>1. f = [i \in S |-> all[i]]
  BY DEF Flushed, Restrict
<1>2. S \subseteq DOMAIN all
  BY DEF BeforeDeletion
<1>3. IsInjective([i \in DOMAIN all |-> all[i].key])
  BY DEF Conflicts
<1> HIDE DEF all, S, f
<1>4. \A i, j \in DOMAIN all : all[i].key = all[j].key => i = j
  BY <1>3 DEF IsInjective
<1>5. \A i, j \in DOMAIN f : f[i].key = f[j].key => i = j
  BY <1>1, <1>2, <1>4
<1> DEFINE keys == [i \in DOMAIN f |-> f[i].key]
<1>6. DOMAIN keys = DOMAIN f /\ \A i \in DOMAIN f : keys[i] = f[i].key
  OBVIOUS
<1>7. Unique(Flushed(now, base, mine)) <=> IsInjective(keys)
  BY DEF Unique, f
<1> HIDE DEF keys
<1>8. \A i, j \in DOMAIN keys : keys[i] = keys[j] => i = j
  BY <1>5, <1>6
<1>  QED
  BY <1>7, <1>8 DEF IsInjective

\* An order has an element of each rank.
LEMMA HasRank ==
  ASSUME NEW S, NEW R, IsFiniteSet(S), Total2(S, R), NEW n \in 1 .. Cardinality(S)
  PROVE  \E i \in S : RankIn(S, R, i) = n - 1
BY RankIsBijective

\* The n-th of a set of numbers is in the set.
LEMMA NthIn ==
  ASSUME NEW S, S \subseteq Nat, IsFiniteSet(S), NEW n \in 1 .. Cardinality(S)
  PROVE  Nth(S, n) \in S
<1> DEFINE R == {p \in S \X S : p[1] < p[2]}
           Q(i) == Cardinality({j \in S : j < i}) = n - 1
<1>1. Total2(S, R)
  BY DEF Total2
<1>2. \A i \in S : {j \in S : <<j, i>> \in R} = {j \in S : j < i}
  OBVIOUS
<1> HIDE DEF R
<1>3. PICK i \in S : RankIn(S, R, i) = n - 1
  <2> HIDE DEF Q
  <2>  QED
    BY <1>1, HasRank, Zenon
<1>4. Q(i)
  BY <1>2, <1>3 DEF RankIn
<1>5. Nth(S, n) = CHOOSE j \in S : Q(j)
  BY DEF Nth
<1> HIDE DEF Q
<1>6. \E j \in S : Q(j)
  BY <1>4
<1>  QED
  BY <1>5, <1>6

\* No aggregate has no rows.
LEMMA NoAggregateIs ==
  /\ NoAggregate.rows = <<>> /\ DOMAIN NoAggregate.rows = {} /\ NoAggregate.head = 0
  /\ \A H, K, B, Q : 0 \in H => Held(NoAggregate, {}, H, K, B, Q)
<1>1. NoAggregate.rows = <<>> /\ DOMAIN NoAggregate.rows = {} /\ NoAggregate.head = 0
  BY DEF NoAggregate
<1>2. NoAggregate \in Aggregates
  <2>1. NoAggregate = [head |-> 0, rows |-> NoAggregate.rows]
    BY DEF NoAggregate
  <2>2. NoAggregate.rows \in [{} -> StoredRows]
    BY <1>1
  <2>  QED
    BY <2>1, <2>2, IsAggregate
<1>3. IsFiniteSet({})
  BY FS_EmptySet
<1>  QED
  BY <1>1, <1>2, <1>3 DEF Held

\* The history with one assessment more, numbered anew.
LEMMA WithAssessmentIs ==
  ASSUME NEW a, NEW H, NEW K, NEW B, Held(a, Nat \ {0}, H, K, B, {}),
         NEW key \in Nat, key \in K, NEW by \in Nat, by \in B,
         NEW n, n = Cardinality(DOMAIN a.rows)
  PROVE  /\ n \in Nat /\ Within(WithAssessment(a, key, by), 1 .. n + 1, {key}, K, B, {})
         /\ DOMAIN WithAssessment(a, key, by).rows = 1 .. n + 1
<1> DEFINE S == DOMAIN a.rows
           row(i) == IF i = n + 1 THEN Row(key, by) ELSE a.rows[Nth(S, i)]
           f == [i \in 1 .. n + 1 |-> row(i)]
           g == WithAssessment(a, key, by)
<1>1. a \in Aggregates /\ IsFiniteSet(S) /\ S \subseteq Nat
  BY DEF Held
<1>2. n \in Nat
  BY <1>1, FS_CardinalityType
<1>3. ASSUME NEW i \in 1 .. n + 1
      PROVE  /\ row(i) \in StoredRows /\ row(i).key \in K /\ row(i).by \in B /\ ~row(i).approved
  <2>1. CASE i = n + 1
    BY <2>1, RowIs
  <2>2. CASE i # n + 1
    <3>1. i \in 1 .. n
      BY <1>2, <2>2
    <3>2. Nth(S, i) \in S
      BY <1>1, <3>1, NthIn
    <3>3. row(i) = a.rows[Nth(S, i)]
      BY <2>2
    <3>4. \A j \in S : /\ a.rows[j] \in StoredRows /\ a.rows[j].key \in K
                       /\ a.rows[j].by \in B /\ ~a.rows[j].approved
      BY <1>1, AggregateIs DEF Held
    <3> HIDE DEF row, S
    <3>  QED
      BY <3>2, <3>3, <3>4
  <2>  QED
    BY <2>1, <2>2
<1>4. g = [head |-> key, rows |-> f]
  BY DEF WithAssessment
<1> HIDE DEF row
<1>5. /\ DOMAIN f = 1 .. n + 1 /\ f \in [1 .. n + 1 -> StoredRows]
      /\ \A i \in 1 .. n + 1 : f[i].key \in K /\ f[i].by \in B /\ ~f[i].approved
  BY <1>3
<1> HIDE DEF f, g
<1>6. 1 .. n + 1 \subseteq Nat \ {0} /\ IsFiniteSet(1 .. n + 1) /\ 1 \in 1 .. n + 1
  <2>1. 1 .. n + 1 \subseteq Nat \ {0} /\ 1 \in 1 .. n + 1 /\ 1 \in Int /\ n + 1 \in Int
    BY <1>2
  <2>  QED
    BY <2>1, FS_Interval
<1>7. g \in Aggregates /\ g.head = key /\ g.rows = f
  BY <1>4, <1>5, <1>6, IsAggregate
<1>8. Within(g, 1 .. n + 1, {key}, K, B, {})
  BY <1>5, <1>6, <1>7 DEF Within, Held
<1>  QED
  BY <1>2, <1>5, <1>7, <1>8 DEF g

\* A conversation with one draft more.
LEMMA WithDraftIs ==
  ASSUME NEW a, NEW H, NEW K, NEW B, NEW Q, Held(a, Nat \ {0}, H, K, B, Q),
         1 \in DOMAIN a.rows \/ DOMAIN a.rows = {},
         NEW key \in Nat, key \in K, NEW by \in Nat, by \in B
  PROVE  /\ Within(WithDraft(a, key, by), Nat \ {0}, H, K, B, Q)
         /\ DOMAIN a.rows = {} => DOMAIN WithDraft(a, key, by).rows = {1}
<1> DEFINE v == Cardinality(DOMAIN a.rows) + 1
           S == DOMAIN a.rows \union {v}
           f == [i \in S |-> IF i = v THEN Row(key, by) ELSE a.rows[i]]
           g == WithDraft(a, key, by)
<1>1. a \in Aggregates /\ IsFiniteSet(DOMAIN a.rows) /\ a.head \in Nat /\ a.head \in H
      /\ DOMAIN a.rows \subseteq Nat \ {0}
  BY AggregateIs DEF Held
<1>2. v \in Nat \ {0} /\ (DOMAIN a.rows = {} => v = 1)
  BY <1>1, FS_CardinalityType, FS_EmptySet
<1>3. g = [head |-> a.head, rows |-> f]
  BY DEF WithDraft, WithVersion
<1> HIDE DEF v
<1>4. \A i \in DOMAIN a.rows : /\ a.rows[i] \in StoredRows /\ a.rows[i].key \in K
                               /\ a.rows[i].by \in B /\ (a.rows[i].approved => i \in Q)
  BY <1>1, AggregateIs DEF Held
<1>5. /\ DOMAIN f = S /\ f \in [S -> StoredRows]
      /\ \A i \in S : /\ f[i].key \in K /\ f[i].by \in B
                      /\ f[i].approved => i \in Q
  <2>1. \A i \in DOMAIN a.rows : i # v => f[i] = a.rows[i]
    OBVIOUS
  <2>2. f[v] = Row(key, by)
    OBVIOUS
  <2>3. f = [i \in S |-> f[i]] /\ DOMAIN f = S
    OBVIOUS
  <2>4. \A i \in S : i = v \/ i \in DOMAIN a.rows
    OBVIOUS
  <2> HIDE DEF f, S
  <2>5. \A i \in S : /\ f[i] \in StoredRows /\ f[i].key \in K /\ f[i].by \in B
                     /\ f[i].approved => i \in Q
    <3>1. f[v] \in StoredRows /\ f[v].key \in K /\ f[v].by \in B /\ ~f[v].approved
      <4> DEFINE w == Row(key, by)
      <4>1. w \in StoredRows /\ w.key = key /\ w.by = by /\ w.approved = FALSE
        BY RowIs
      <4> HIDE DEF w
      <4>2. f[v] = w
        BY <2>2 DEF w
      <4>  QED
        BY <4>1, <4>2
    <3>2. \A i \in DOMAIN a.rows : i # v =>
            /\ f[i] \in StoredRows /\ f[i].key \in K /\ f[i].by \in B
            /\ f[i].approved => i \in Q
      BY <1>4, <2>1
    <3>  QED
      BY <2>4, <3>1, <3>2
  <2>  QED
    BY <2>3, <2>5
<1>6. S \subseteq Nat \ {0} /\ IsFiniteSet(S) /\ 1 \in S /\ (DOMAIN a.rows = {} => S = {1})
  BY <1>1, <1>2, FS_AddElement
<1> HIDE DEF f, g, S
<1>7. g.rows = f
  BY <1>3
<1>8. Within(g, Nat \ {0}, H, K, B, Q)
  <2>1. f \in [S -> StoredRows]
    BY <1>5
  <2>2. \A i \in S : f[i].key \in K /\ f[i].by \in B /\ (f[i].approved => i \in Q)
    BY <1>5
  <2>3. S \subseteq Nat \ {0} /\ IsFiniteSet(S)
    BY <1>6
  <2>4. a.head \in Nat /\ a.head \in H
    BY <1>1
  <2>5. g \in Aggregates /\ g.head = a.head /\ DOMAIN g.rows = S
    BY <1>3, <1>5, <2>1, <2>3, <2>4, IsAggregate
  <2>6. \A i \in DOMAIN g.rows : /\ g.rows[i].key \in K /\ g.rows[i].by \in B
                                 /\ g.rows[i].approved => i \in Q
    BY <1>7, <2>2, <2>5
  <2>  QED
    BY <1>6, <2>3, <2>4, <2>5, <2>6 DEF Within, Held
<1>  QED
  BY <1>5, <1>6, <1>7, <1>8 DEF g

\* A conversation with a version approved.
LEMMA ApproveIs ==
  ASSUME NEW a, NEW D, NEW H, NEW K, NEW B, NEW Q, Within(a, D, H, K, B, Q),
         NEW v \in DOMAIN a.rows, v \in H, v \in Q
  PROVE  Within(Approve(a, v), D, H, K, B, Q)
<1> DEFINE f == [a.rows EXCEPT ![v].approved = TRUE]
           g == Approve(a, v)
<1>1. CASE a.rows[v].approved
  BY <1>1 DEF Approve
<1>2. CASE ~a.rows[v].approved
  <2>1. g = [head |-> v, rows |-> f]
    BY <1>2 DEF Approve
  <2>2. a \in Aggregates /\ DOMAIN a.rows \subseteq Nat \ {0}
        /\ \A i \in DOMAIN a.rows : a.rows[i] \in StoredRows
    BY AggregateIs DEF Within, Held
  <2>3. DOMAIN f = DOMAIN a.rows /\ \A i \in DOMAIN a.rows : i # v => f[i] = a.rows[i]
    OBVIOUS
  <2>4. f[v] = [a.rows[v] EXCEPT !.approved = TRUE]
    OBVIOUS
  <2>5. /\ f[v] \in StoredRows /\ f[v].key = a.rows[v].key /\ f[v].by = a.rows[v].by
    BY <2>2, <2>4 DEF StoredRows
  <2>6. f = [i \in DOMAIN a.rows |-> f[i]]
    OBVIOUS
  <2> HIDE DEF f, g
  <2>7. \A i \in DOMAIN a.rows : f[i] \in StoredRows /\ f[i].key \in K /\ f[i].by \in B
    BY <2>2, <2>3, <2>5 DEF Within, Held
  <2>8. \A i \in DOMAIN a.rows : f[i].approved => i \in Q
    BY <2>3 DEF Within, Held
  <2>9. f \in [DOMAIN a.rows -> StoredRows]
    BY <2>6, <2>7
  <2>10. g \in Aggregates /\ g.head = v /\ g.rows = f
    BY <2>1, <2>2, <2>9, IsAggregate
  <2>11. Within(g, D, H, K, B, Q)
    BY <2>3, <2>7, <2>8, <2>10 DEF Within, Held
  <2>  QED
    BY <2>11 DEF g
<1>  QED
  BY <1>1, <1>2

\* One row is unique.
LEMMA OneIsUnique ==
  ASSUME NEW a, NEW n, DOMAIN a.rows = {n}
  PROVE  Unique(a)
BY DEF Unique, IsInjective

(***************************************************************************)
(* The invariant                                                           *)
(***************************************************************************)

Fields == DOMAIN NoRequest
ApprovalFields == DOMAIN NoApproval
Talks == [opportunity : Nat, person : Persons, aggregate : Aggregates]

AnalysisTypes ==
  /\ facts \in 0 .. MaxFacts /\ contacts \subseteq Persons /\ sent \in 0 .. MaxSent
  /\ opportunities \in Seq(Aggregates) /\ outreaches \in Seq(Talks)
  /\ analysis = [r \in Analyses |-> analysis[r]]
  /\ approval = [v \in Approvers |-> approval[v]]
  /\ \A r \in Analyses : analysis[r] = [f \in Fields |-> analysis[r][f]]
  /\ \A v \in Approvers : approval[v] = [f \in ApprovalFields |-> approval[v][f]]

\* Rows are numbered by requests that assessed: the others still wait to.
Starting == {"company", "assess", "judge"}
Waiting == {r \in Analyses : analysis[r].stage \in Starting}
Numbered == sent - Cardinality(Waiting)

OpportunityRows(a) == Within(a, 1 .. Numbered, 1 .. MaxFacts, 1 .. MaxFacts, 1 .. sent, {})

AskedOf(o) == {i \in Nat \ {0} : <<o, i>> \in asked}
DraftRows(o, a) ==
  Within(a, Nat \ {0}, {0} \union AskedOf(o), Qualifying, 1 .. sent, AskedOf(o))
Fresh(a) == Within(a, Nat \ {0}, {0}, Qualifying, 1 .. sent, {}) /\ DOMAIN a.rows = {1}

OpportunitiesOK ==
  \A o \in DOMAIN opportunities : OpportunityRows(opportunities[o]) /\ Unique(opportunities[o])
OutreachesOK ==
  \A o \in DOMAIN outreaches :
    /\ DraftRows(o, outreaches[o].aggregate) /\ Unique(outreaches[o].aggregate)
    /\ outreaches[o].opportunity \in DOMAIN opportunities

\* What is kept in memory of an opportunity.
AssessingOK(r) ==
  LET a == analysis[r] IN
  /\ a.stage \in Starting => a.opportunity = 0
  /\ a.stage = "company" => /\ "saved" \in a.outcomes => facts \in 1 .. MaxFacts
                            /\ "saved" \notin a.outcomes => a.made = {}
  /\ a.stage = "assess" => facts \in 1 .. MaxFacts
  /\ a.stage = "judge" => a.read \in 1 .. MaxFacts
  /\ a.stage \in {"merge opportunity", "commit opportunity"} =>
       /\ OpportunityRows(a.mine)
       /\ a.opportunity = 0 => a.stage = "commit opportunity" /\ Unique(a.mine)
       /\ a.opportunity # 0 => a.opportunity \in DOMAIN opportunities

\* What is kept in memory of a conversation.
Drafting == {"generate", "merge draft", "commit draft"}
DraftingOK(r) ==
  LET a == analysis[r] IN
  /\ a.stage \in {"contact", "decide", "email"} \union Drafting =>
       a.opportunity \in DOMAIN opportunities
  /\ a.stage \in {"email"} \union Drafting => a.judged = "qualified" /\ a.person \in contacts
  /\ a.stage \in Drafting =>
       /\ a.read \in Qualifying
       /\ a.outreach # 0 => /\ a.outreach \in DOMAIN outreaches
                            /\ outreaches[a.outreach].opportunity = a.opportunity
                            /\ outreaches[a.outreach].person = a.person
                            /\ DraftRows(a.outreach, a.mine)
       /\ a.outreach = 0 =>
            /\ a.stage = "generate" => a.mine = NoAggregate
            /\ a.stage # "generate" => a.stage = "commit draft" /\ Fresh(a.mine)

\* What the answer rests on.
AnswerOK(r) ==
  LET a == analysis[r] IN
  /\ a.stage # "idle" => a.number \in 1 .. sent
  /\ a.stage # "answered" => a.status = "none"
  /\ a.status \in {"REJECTED", "FAILED"} => a.made = {}
  /\ a.status = "COMPLETED" =>
       /\ a.judged = "qualified" /\ a.person \in contacts
       /\ a.generate => /\ a.email # "failed"
                        /\ \E o \in DOMAIN outreaches : /\ outreaches[o].opportunity = a.opportunity
                                                        /\ outreaches[o].person = a.person

RequestOK(r) == AssessingOK(r) /\ DraftingOK(r) /\ AnswerOK(r)

ApprovalOK(v) ==
  approval[v].stage # "idle" => /\ approval[v].outreach \in DOMAIN outreaches
                                /\ DraftRows(approval[v].outreach, approval[v].mine)

AInv ==
  /\ AnalysisTypes /\ Numbered \in Nat
  /\ OpportunitiesOK /\ OutreachesOK
  /\ \A r \in Analyses : RequestOK(r)
  /\ \A v \in Approvers : ApprovalOK(v)

(***************************************************************************)
(* What any step leaves of it                                              *)
(***************************************************************************)

\* Nothing that others rely on goes away.
Grown ==
  /\ facts' \in Nat /\ facts <= facts' /\ facts' <= MaxFacts
  /\ contacts \subseteq contacts' /\ asked \subseteq asked'
  /\ sent' \in Nat /\ sent <= sent' /\ Numbered' \in Nat /\ Numbered <= Numbered'
  /\ DOMAIN opportunities \subseteq DOMAIN opportunities'
  /\ DOMAIN outreaches \subseteq DOMAIN outreaches'
  /\ \A o \in DOMAIN outreaches : /\ outreaches'[o].opportunity = outreaches[o].opportunity
                                  /\ outreaches'[o].person = outreaches[o].person

\* Rows stay what they are.
LEMMA RowsStay ==
  ASSUME AInv, Grown
  PROVE  /\ 1 .. Numbered \subseteq 1 .. Numbered' /\ 1 .. sent \subseteq 1 .. sent'
         /\ \A o : AskedOf(o) \subseteq AskedOf(o)'
<1>1. Numbered \in Nat /\ sent \in Nat
  BY DEF AInv, AnalysisTypes
<1>2. 1 .. Numbered \subseteq 1 .. Numbered' /\ 1 .. sent \subseteq 1 .. sent'
  <2> HIDE DEF Numbered
  <2>  QED
    BY <1>1 DEF Grown
<1>3. \A o : AskedOf(o) \subseteq AskedOf(o)'
  BY DEF AskedOf, Grown
<1>  QED
  BY <1>2, <1>3

\* The same of the rows in the next state.
OpportunityRowsThen(a) == Within(a, 1 .. Numbered', 1 .. MaxFacts, 1 .. MaxFacts, 1 .. sent', {})
AskedThen(o) == {i \in Nat \ {0} : <<o, i>> \in asked'}
DraftRowsThen(o, a) ==
  Within(a, Nat \ {0}, {0} \union AskedThen(o), Qualifying, 1 .. sent', AskedThen(o))
FreshThen(a) == Within(a, Nat \ {0}, {0}, Qualifying, 1 .. sent', {}) /\ DOMAIN a.rows = {1}

\* An aggregate that was one is one then.
LEMMA AggregatesStay ==
  ASSUME AInv, Grown, NEW a, NEW o
  PROVE  /\ OpportunityRows(a) => OpportunityRowsThen(a)
         /\ DraftRows(o, a) => DraftRowsThen(o, a)
         /\ Fresh(a) => FreshThen(a)
<1> DEFINE n == 1 .. Numbered  n2 == 1 .. Numbered'
           b == 1 .. sent  b2 == 1 .. sent'
           k == 1 .. MaxFacts  d == Nat \ {0}
           q == AskedOf(o)  q2 == AskedThen(o)
           h == {0} \union q  h2 == {0} \union q2
<1>1. n \subseteq n2 /\ b \subseteq b2
  BY RowsStay
<1>2. q \subseteq q2 /\ h \subseteq h2
  BY DEF AskedOf, AskedThen, Grown
<1>3. /\ OpportunityRows(a) <=> Within(a, n, k, k, b, {})
      /\ OpportunityRowsThen(a) <=> Within(a, n2, k, k, b2, {})
      /\ DraftRows(o, a) <=> Within(a, d, h, Qualifying, b, q)
      /\ DraftRowsThen(o, a) <=> Within(a, d, h2, Qualifying, b2, q2)
      /\ Fresh(a) <=> Within(a, d, {0}, Qualifying, b, {}) /\ DOMAIN a.rows = {1}
      /\ FreshThen(a) <=> Within(a, d, {0}, Qualifying, b2, {}) /\ DOMAIN a.rows = {1}
  BY DEF OpportunityRows, OpportunityRowsThen, DraftRows, DraftRowsThen, Fresh, FreshThen
<1> HIDE DEF n, n2, b, b2, k, d, q, q2, h, h2
<1>4. Within(a, n, k, k, b, {}) => Within(a, n2, k, k, b2, {})
  BY <1>1, WithinGrows
<1>5. Within(a, d, h, Qualifying, b, q) => Within(a, d, h2, Qualifying, b2, q2)
  BY <1>1, <1>2, WithinGrows
<1>6. Within(a, d, {0}, Qualifying, b, {}) => Within(a, d, {0}, Qualifying, b2, {})
  BY <1>1, WithinGrows
<1>  QED
  BY <1>3, <1>4, <1>5, <1>6

\* A draft that is the first of its conversation may be that of any.
LEMMA FreshIsDraft ==
  ASSUME NEW a, NEW o, FreshThen(a)
  PROVE  DraftRowsThen(o, a) /\ Unique(a)
<1>1. DraftRowsThen(o, a)
  <2> DEFINE q == AskedThen(o)  h == {0} \union q  d == Nat \ {0}  b == 1 .. sent'
  <2>1. Within(a, d, {0}, Qualifying, b, {})
    BY DEF FreshThen
  <2>2. {0} \subseteq h
    OBVIOUS
  <2> HIDE DEF q, h, d, b
  <2>3. Within(a, d, h, Qualifying, b, q)
    BY <2>1, <2>2, WithinGrows
  <2>  QED
    BY <2>3 DEF DraftRowsThen, q, h, d, b
<1>2. Unique(a)
  BY OneIsUnique DEF FreshThen
<1>  QED
  BY <1>1, <1>2

\* A request that does not move stays in order.
LEMMA RequestStays ==
  ASSUME AInv, Grown, NEW s \in Analyses, analysis'[s] = analysis[s]
  PROVE  RequestOK(s)'
<1> DEFINE a == analysis[s]
<1>1. RequestOK(s) /\ facts \in Nat /\ MaxFacts \in Nat
  BY AnalysisAssumption DEF AInv, AnalysisTypes
<1>2. facts \in 1 .. MaxFacts => facts' \in 1 .. MaxFacts
  BY <1>1 DEF Grown
<1>3. AssessingOK(s)'
  <2>1. OpportunityRows(a.mine) => OpportunityRowsThen(a.mine)
    BY AggregatesStay
  <2>2. OpportunityRows(analysis[s].mine)' <=> OpportunityRowsThen(analysis'[s].mine)
    BY DEF OpportunityRows, OpportunityRowsThen
  <2>3. a.opportunity \in DOMAIN opportunities => a.opportunity \in DOMAIN opportunities'
    BY DEF Grown
  <2>  QED
    BY <1>1, <1>2, <2>1, <2>2, <2>3 DEF RequestOK, AssessingOK
<1>4. DraftingOK(s)'
  <2>1. DraftRows(a.outreach, a.mine) => DraftRowsThen(a.outreach, a.mine)
    BY AggregatesStay
  <2>2. DraftRows(analysis[s].outreach, analysis[s].mine)'
          <=> DraftRowsThen(analysis'[s].outreach, analysis'[s].mine)
    BY DEF DraftRows, DraftRowsThen, AskedOf, AskedThen
  <2>3. Fresh(a.mine) => FreshThen(a.mine)
    BY AggregatesStay
  <2>4. Fresh(analysis[s].mine)' <=> FreshThen(analysis'[s].mine)
    BY DEF Fresh, FreshThen
  <2>5. /\ a.opportunity \in DOMAIN opportunities => a.opportunity \in DOMAIN opportunities'
        /\ a.person \in contacts => a.person \in contacts'
        /\ a.outreach \in DOMAIN outreaches =>
             /\ a.outreach \in DOMAIN outreaches'
             /\ outreaches'[a.outreach].opportunity = outreaches[a.outreach].opportunity
             /\ outreaches'[a.outreach].person = outreaches[a.outreach].person
    BY DEF Grown
  <2>  QED
    BY <1>1, <2>1, <2>2, <2>3, <2>4, <2>5 DEF RequestOK, DraftingOK, Drafting
<1>5. AnswerOK(s)'
  <2>1. 1 .. sent \subseteq 1 .. sent'
    BY RowsStay
  <2>  QED
    BY <1>1, <2>1 DEF RequestOK, AnswerOK, Grown
<1>  QED
  BY <1>3, <1>4, <1>5 DEF RequestOK

\* An approver who does not move, likewise.
LEMMA ApprovalStays ==
  ASSUME AInv, Grown, NEW v \in Approvers, approval'[v] = approval[v]
  PROVE  ApprovalOK(v)'
<1>1. ApprovalOK(v)
  BY DEF AInv
<1>2. DraftRows(approval[v].outreach, approval[v].mine)
        => DraftRowsThen(approval[v].outreach, approval[v].mine)
  BY AggregatesStay
<1>3. DraftRows(approval[v].outreach, approval[v].mine)'
        <=> DraftRowsThen(approval'[v].outreach, approval'[v].mine)
  BY DEF DraftRows, DraftRowsThen, AskedOf, AskedThen
<1>  QED
  BY <1>1, <1>2, <1>3 DEF ApprovalOK, Grown

\* What is stored, likewise.
LEMMA StoredStays ==
  ASSUME AInv, Grown
  PROVE  /\ UNCHANGED opportunities => OpportunitiesOK'
         /\ UNCHANGED outreaches => OutreachesOK'
<1>1. ASSUME UNCHANGED opportunities PROVE OpportunitiesOK'
  <2> SUFFICES ASSUME NEW o \in DOMAIN opportunities
               PROVE  OpportunityRowsThen(opportunities[o]) /\ Unique(opportunities[o])
    BY <1>1 DEF OpportunitiesOK, OpportunityRows, OpportunityRowsThen
  <2>  QED
    BY AggregatesStay DEF AInv, OpportunitiesOK
<1>2. ASSUME UNCHANGED outreaches PROVE OutreachesOK'
  <2> SUFFICES ASSUME NEW o \in DOMAIN outreaches
               PROVE  /\ DraftRowsThen(o, outreaches[o].aggregate)
                      /\ Unique(outreaches[o].aggregate)
                      /\ outreaches[o].opportunity \in DOMAIN opportunities'
    BY <1>2 DEF OutreachesOK, DraftRows, DraftRowsThen, AskedOf, AskedThen
  <2>1. DraftRows(o, outreaches[o].aggregate) /\ Unique(outreaches[o].aggregate)
        /\ outreaches[o].opportunity \in DOMAIN opportunities
    BY DEF AInv, OutreachesOK
  <2>  QED
    BY <2>1, AggregatesStay DEF Grown
<1>  QED
  BY <1>1, <1>2

(***************************************************************************)
(* A request moves                                                         *)
(***************************************************************************)

IsRequest(m) == m = [f \in Fields |-> m[f]]
Same(b, m) == \A f \in Fields \ {"stage"} : b[f] = m[f]
SameAnswer(b, m) == \A f \in Fields \ {"stage", "status"} : b[f] = m[f]
Others(r) ==
  /\ analysis' = [s \in Analyses |-> analysis'[s]]
  /\ \A s \in Analyses \ {r} : analysis'[s] = analysis[s]

\* Requests are records.
LEMMA RequestIs ==
  ASSUME AInv, NEW r \in Analyses
  PROVE  IsRequest(analysis[r]) /\ IsRequest(NoRequest)
BY DEF AInv, AnalysisTypes, IsRequest, Fields, NoRequest

\* A request in its next stage.
LEMMA StageIs ==
  ASSUME AInv, NEW r \in Analyses, NEW stage, NEW m, IsRequest(m), Stage(r, stage, m)
  PROVE  /\ Others(r) /\ IsRequest(analysis'[r]) /\ analysis'[r].stage = stage
         /\ Same(analysis'[r], m)
<1>1. analysis' = [analysis EXCEPT ![r] = [m EXCEPT !.stage = stage]]
  BY DEF Stage
<1>2. analysis = [s \in Analyses |-> analysis[s]]
  BY DEF AInv, AnalysisTypes
<1>3. analysis'[r] = [m EXCEPT !.stage = stage]
  BY <1>1, <1>2
<1>4. Others(r)
  BY <1>1, <1>2 DEF Others
<1>5. "stage" \in Fields
  BY DEF Fields, NoRequest
<1>6. IsRequest(analysis'[r]) /\ analysis'[r].stage = stage /\ Same(analysis'[r], m)
  BY <1>3, <1>5 DEF IsRequest, Same
<1>  QED
  BY <1>4, <1>6

\* How many have assessed, or still wait to.
LEMMA WaitingIs ==
  ASSUME AInv
  PROVE  IsFiniteSet(Waiting) /\ Cardinality(Waiting) \in Nat /\ sent \in Nat
<1>1. Waiting \subseteq Analyses /\ IsFiniteSet(Analyses)
  BY AnalysisAssumption DEF Waiting
<1>2. IsFiniteSet(Waiting)
  BY <1>1, FS_Subset
<1>3. sent \in Nat
  BY AnalysisAssumption DEF AInv, AnalysisTypes
<1>  QED
  BY <1>2, <1>3, FS_CardinalityType

\* A request that goes on leaves the others where they are.
LEMMA NumberedMoves ==
  ASSUME AInv, NEW r \in Analyses, Others(r), sent' = sent,
         analysis'[r].stage \in Starting => analysis[r].stage \in Starting
  PROVE  /\ Numbered' \in Nat /\ Numbered <= Numbered'
         /\ analysis[r].stage \in Starting /\ analysis'[r].stage \notin Starting
              => Numbered' = Numbered + 1
<1> DEFINE w == Waiting  w2 == Waiting'
<1>1. IsFiniteSet(w) /\ Cardinality(w) \in Nat /\ sent \in Nat
  BY WaitingIs
<1>2. Numbered = sent - Cardinality(w) /\ Numbered' = sent' - Cardinality(w2) /\ Numbered \in Nat
  BY DEF Numbered, AInv
<1>3. r \in w <=> analysis[r].stage \in Starting
  BY DEF Waiting
<1>4. /\ analysis[r].stage \in Starting /\ analysis'[r].stage \notin Starting => w2 = w \ {r}
      /\ ~(analysis[r].stage \in Starting /\ analysis'[r].stage \notin Starting) => w2 = w
  <2>1. \A s \in Analyses : /\ s \in w <=> analysis[s].stage \in Starting
                            /\ s \in w2 <=> analysis'[s].stage \in Starting
    BY DEF Waiting, Starting
  <2>2. w \subseteq Analyses /\ w2 \subseteq Analyses
    BY DEF Waiting
  <2> HIDE DEF w, w2
  <2>3. \A s \in Analyses \ {r} : s \in w2 <=> s \in w
    BY <2>1 DEF Others
  <2>4. r \in w2 <=> analysis'[r].stage \in Starting
    BY <2>1
  <2>  QED
    BY <1>3, <2>2, <2>3, <2>4
<1> HIDE DEF w, w2
<1>5. r \in w => Cardinality(w \ {r}) = Cardinality(w) - 1
  BY <1>1, FS_RemoveElement
<1> HIDE DEF Numbered
<1>6. CASE analysis[r].stage \in Starting /\ analysis'[r].stage \notin Starting
  <2>1. Cardinality(w2) = Cardinality(w) - 1
    BY <1>3, <1>4, <1>5, <1>6
  <2>2. Numbered' = Numbered + 1
    BY <1>1, <1>2, <2>1
  <2>  QED
    BY <1>2, <2>2
<1>7. CASE ~(analysis[r].stage \in Starting /\ analysis'[r].stage \notin Starting)
  BY <1>1, <1>2, <1>4, <1>7
<1>  QED
  BY <1>6, <1>7

\* A request that is sent waits itself.
LEMMA NumberedStarts ==
  ASSUME AInv, NEW r \in Analyses, Others(r), sent' = sent + 1,
         analysis[r].stage \notin Starting, analysis'[r].stage \in Starting
  PROVE  Numbered' = Numbered
<1> DEFINE w == Waiting  w2 == Waiting'
<1>1. IsFiniteSet(w) /\ Cardinality(w) \in Nat /\ sent \in Nat
  BY WaitingIs
<1>2. Numbered = sent - Cardinality(w) /\ Numbered' = sent' - Cardinality(w2)
  BY DEF Numbered
<1>3. w2 = w \union {r} /\ r \notin w
  <2>1. \A s \in Analyses : /\ s \in w <=> analysis[s].stage \in Starting
                            /\ s \in w2 <=> analysis'[s].stage \in Starting
    BY DEF Waiting, Starting
  <2>2. w \subseteq Analyses /\ w2 \subseteq Analyses
    BY DEF Waiting
  <2> HIDE DEF w, w2
  <2>  QED
    BY <2>1, <2>2 DEF Others
<1> HIDE DEF w, w2
<1>4. Cardinality(w \union {r}) = Cardinality(w) + 1
  BY <1>1, <1>3, FS_AddElement
<1> HIDE DEF Numbered
<1>  QED
  BY <1>1, <1>2, <1>3, <1>4

\* What is kept in memory, in the next state.
AssessingThen(a) ==
  /\ a.stage \in Starting => a.opportunity = 0
  /\ a.stage = "company" => /\ "saved" \in a.outcomes => facts' \in 1 .. MaxFacts
                            /\ "saved" \notin a.outcomes => a.made = {}
  /\ a.stage = "assess" => facts' \in 1 .. MaxFacts
  /\ a.stage = "judge" => a.read \in 1 .. MaxFacts
  /\ a.stage \in {"merge opportunity", "commit opportunity"} =>
       /\ OpportunityRowsThen(a.mine)
       /\ a.opportunity = 0 => a.stage = "commit opportunity" /\ Unique(a.mine)
       /\ a.opportunity # 0 => a.opportunity \in DOMAIN opportunities'
DraftingThen(a) ==
  /\ a.stage \in {"contact", "decide", "email"} \union Drafting =>
       a.opportunity \in DOMAIN opportunities'
  /\ a.stage \in {"email"} \union Drafting => a.judged = "qualified" /\ a.person \in contacts'
  /\ a.stage \in Drafting =>
       /\ a.read \in Qualifying
       /\ a.outreach # 0 => /\ a.outreach \in DOMAIN outreaches'
                            /\ outreaches'[a.outreach].opportunity = a.opportunity
                            /\ outreaches'[a.outreach].person = a.person
                            /\ DraftRowsThen(a.outreach, a.mine)
       /\ a.outreach = 0 =>
            /\ a.stage = "generate" => a.mine = NoAggregate
            /\ a.stage # "generate" => a.stage = "commit draft" /\ FreshThen(a.mine)
AnswerThen(a) ==
  /\ a.stage # "idle" => a.number \in 1 .. sent'
  /\ a.stage # "answered" => a.status = "none"
  /\ a.status \in {"REJECTED", "FAILED"} => a.made = {}
  /\ a.status = "COMPLETED" =>
       /\ a.judged = "qualified" /\ a.person \in contacts'
       /\ a.generate => /\ a.email # "failed"
                        /\ \E o \in DOMAIN outreaches' : /\ outreaches'[o].opportunity = a.opportunity
                                                         /\ outreaches'[o].person = a.person

\* It is what the invariant says then.
LEMMA RequestThen ==
  ASSUME NEW r, AssessingThen(analysis'[r]), DraftingThen(analysis'[r]), AnswerThen(analysis'[r])
  PROVE  RequestOK(r)'
<1>1. AssessingOK(r)'
  <2>1. OpportunityRows(analysis[r].mine)' <=> OpportunityRowsThen(analysis'[r].mine)
    BY DEF OpportunityRows, OpportunityRowsThen
  <2>  QED
    BY <2>1 DEF AssessingThen, AssessingOK, Starting
<1>2. DraftingOK(r)'
  <2>1. DraftRows(analysis[r].outreach, analysis[r].mine)'
          <=> DraftRowsThen(analysis'[r].outreach, analysis'[r].mine)
    BY DEF DraftRows, DraftRowsThen, AskedOf, AskedThen
  <2>2. Fresh(analysis[r].mine)' <=> FreshThen(analysis'[r].mine)
    BY DEF Fresh, FreshThen
  <2>  QED
    BY <2>1, <2>2 DEF DraftingThen, DraftingOK, Drafting
<1>3. AnswerOK(r)'
  BY DEF AnswerThen, AnswerOK
<1>  QED
  BY <1>1, <1>2, <1>3 DEF RequestOK

\* An answer that is partial says nothing.
LEMMA Answered ==
  ASSUME NEW a, a.stage = "answered", a.number \in 1 .. sent', AnswerThen(a)
  PROVE  AssessingThen(a) /\ DraftingThen(a)
BY DEF AssessingThen, DraftingThen, Starting, Drafting

\* The invariant after a step of one request.
LEMMA RequestMoved ==
  ASSUME AInv, Grown, NEW r \in Analyses, Others(r), IsRequest(analysis'[r]),
         AssessingThen(analysis'[r]), DraftingThen(analysis'[r]), AnswerThen(analysis'[r]),
         contacts' \subseteq Persons, sent' <= MaxSent,
         opportunities' \in Seq(Aggregates), outreaches' \in Seq(Talks),
         OpportunitiesOK', OutreachesOK', UNCHANGED approval
  PROVE  AInv'
<1>1. AnalysisTypes'
  <2>1. \A s \in Analyses : analysis'[s] = [f \in Fields |-> analysis'[s][f]]
    <3>1. \A s \in Analyses \ {r} : analysis'[s] = [f \in Fields |-> analysis'[s][f]]
      BY DEF Others, AInv, AnalysisTypes
    <3>  QED
      BY <3>1 DEF IsRequest
  <2>2. facts' \in 0 .. MaxFacts /\ sent' \in 0 .. MaxSent
    BY AnalysisAssumption DEF Grown
  <2>3. approval = [v \in Approvers |-> approval[v]]
        /\ \A v \in Approvers : approval[v] = [f \in ApprovalFields |-> approval[v][f]]
    BY DEF AInv, AnalysisTypes
  <2>  QED
    BY <2>1, <2>2, <2>3 DEF AnalysisTypes, Others, Fields, ApprovalFields
<1>2. \A s \in Analyses : RequestOK(s)'
  BY RequestThen, RequestStays DEF Others
<1>3. \A v \in Approvers : ApprovalOK(v)'
  BY ApprovalStays
<1>4. Numbered' \in Nat
  BY DEF Grown
<1>  QED
  BY <1>1, <1>2, <1>3, <1>4 DEF AInv

(***************************************************************************)
(* The steps of a request                                                  *)
(***************************************************************************)

stored == <<facts, contacts, opportunities, outreaches, approval, asked, sent>>

\* The fields of a request.
LEMMA FieldNames ==
  Fields = {"stage", "number", "contact", "generate", "sources", "outcomes", "read",
            "opportunity", "outreach", "person", "mine", "base", "judged", "email", "status",
            "made"}
BY DEF Fields, NoRequest

\* What the invariant says of a request, by the fields.
LEMMA RequestHas ==
  ASSUME AInv, NEW r \in Analyses
  PROVE  AssessingOK(r) /\ DraftingOK(r) /\ AnswerOK(r)
BY DEF AInv, RequestOK

\* A step of one request that stores nothing.
LEMMA Alone ==
  ASSUME AInv, NEW r \in Analyses, Others(r), UNCHANGED stored,
         analysis'[r].stage \in Starting => analysis[r].stage \in Starting
  PROVE  /\ Grown /\ OpportunitiesOK' /\ OutreachesOK'
         /\ IsRequest(analysis'[r]) /\ AssessingThen(analysis'[r]) /\ DraftingThen(analysis'[r])
              /\ AnswerThen(analysis'[r]) => AInv'
<1>1. AnalysisTypes /\ MaxFacts \in Nat /\ MaxSent \in Nat
  BY AnalysisAssumption DEF AInv
<1>2. Numbered' \in Nat /\ Numbered <= Numbered'
  BY NumberedMoves DEF stored
<1>3. Grown
  <2> HIDE DEF Numbered
  <2>  QED
    BY <1>1, <1>2 DEF Grown, stored, AnalysisTypes
<1>4. OpportunitiesOK' /\ OutreachesOK'
  BY <1>3, StoredStays DEF stored
<1>5. /\ contacts' \subseteq Persons /\ sent' <= MaxSent
      /\ opportunities' \in Seq(Aggregates) /\ outreaches' \in Seq(Talks)
  BY <1>1 DEF AnalysisTypes, stored
<1>6. UNCHANGED approval
  BY DEF stored
<1>  QED
  BY <1>3, <1>4, <1>5, <1>6, RequestMoved

\* A request that is answered.
LEMMA ReplyIs ==
  ASSUME AInv, NEW r \in Analyses, NEW status, NEW m, IsRequest(m), Reply(r, status, m)
  PROVE  /\ Others(r) /\ IsRequest(analysis'[r]) /\ analysis'[r].stage = "answered"
         /\ analysis'[r].status = status
         /\ SameAnswer(analysis'[r], m)
<1> DEFINE n == [m EXCEPT !.status = status]
<1>1. IsRequest(n) /\ n.status = status /\ \A f \in Fields \ {"status"} : n[f] = m[f]
  BY FieldNames DEF IsRequest
<1>2. Stage(r, "answered", n)
  BY DEF Reply
<1> HIDE DEF n
<1>  QED
  BY <1>1, <1>2, StageIs, FieldNames DEF Same, SameAnswer

\* An answer that stores nothing.
LEMMA AloneReply ==
  ASSUME AInv, NEW r \in Analyses, analysis[r].stage # "idle", NEW status, NEW m, IsRequest(m),
         Reply(r, status, m), UNCHANGED stored,
         m.number = analysis[r].number,
         status \in {"REJECTED", "FAILED"} => m.made = {},
         status = "COMPLETED" =>
           /\ m.judged = "qualified" /\ m.person \in contacts
           /\ m.generate => /\ m.email # "failed"
                            /\ \E o \in DOMAIN outreaches : /\ outreaches[o].opportunity = m.opportunity
                                                            /\ outreaches[o].person = m.person
  PROVE  AInv'
<1> DEFINE b == analysis'[r]
<1>1. /\ Others(r) /\ IsRequest(b) /\ b.stage = "answered" /\ b.status = status
      /\ SameAnswer(b, m)
  BY ReplyIs
<1>2. b.stage \notin Starting
  BY <1>1 DEF Starting
<1>3. /\ b.number = m.number /\ b.made = m.made /\ b.judged = m.judged /\ b.person = m.person
      /\ b.generate = m.generate /\ b.email = m.email /\ b.opportunity = m.opportunity
  BY <1>1, FieldNames DEF SameAnswer
<1>4. b.number \in 1 .. sent'
  BY <1>3, RequestHas DEF AnswerOK, stored
<1> HIDE DEF b
<1>5. AnswerThen(b)
  <2>1. contacts' = contacts /\ outreaches' = outreaches
    BY DEF stored
  <2>  QED
    BY <1>1, <1>3, <1>4, <2>1 DEF AnswerThen
<1>6. AssessingThen(b) /\ DraftingThen(b)
  BY <1>1, <1>4, <1>5, Answered
<1>  QED
  BY <1>1, <1>2, <1>5, <1>6, Alone DEF b

\* A request is sent.
LEMMA SendRequestStep ==
  ASSUME AInv, NEW r \in Analyses, SendRequest(r)
  PROVE  AInv'
<1> DEFINE b == analysis'[r]
<1>1. PICK contact \in BOOLEAN, generate \in BOOLEAN, n \in {1, 2} :
        Stage(r, "company", [NoRequest EXCEPT !.number = sent', !.contact = contact,
                                              !.generate = generate, !.sources = n])
  BY DEF SendRequest
<1> DEFINE m == [NoRequest EXCEPT !.number = sent', !.contact = contact,
                                  !.generate = generate, !.sources = n]
<1>2. IsRequest(m)
  BY RequestIs, FieldNames DEF IsRequest
<1>3. m.number = sent' /\ m.outcomes = {} /\ m.made = {} /\ m.opportunity = 0 /\ m.status = "none"
  BY DEF NoRequest
<1>0. Stage(r, "company", m)
  BY <1>1
<1> HIDE DEF m
<1>4. Others(r) /\ IsRequest(b) /\ b.stage = "company" /\ Same(b, m)
  BY <1>0, <1>2, StageIs
<1>5. /\ b.number = sent' /\ b.outcomes = {} /\ b.made = {} /\ b.opportunity = 0
      /\ b.status = "none"
  BY <1>3, <1>4, FieldNames DEF Same
<1>6. /\ sent' = sent + 1 /\ sent' <= MaxSent /\ sent' \in Nat /\ sent \in Nat
      /\ analysis[r].stage \notin Starting
      /\ UNCHANGED <<facts, contacts, opportunities, outreaches, approval, asked>>
  BY AnalysisAssumption DEF SendRequest, AInv, AnalysisTypes, Starting
<1>7. Numbered' = Numbered /\ Numbered \in Nat
  BY <1>4, <1>6, NumberedStarts DEF AInv, Starting
<1> HIDE DEF b
<1>8. Grown
  <2> HIDE DEF Numbered
  <2>  QED
    BY <1>6, <1>7, AnalysisAssumption DEF Grown, AInv, AnalysisTypes
<1>9. OpportunitiesOK' /\ OutreachesOK'
  BY <1>6, <1>8, StoredStays
<1>10. b.number \in 1 .. sent'
  BY <1>5, <1>6
<1>11. AssessingThen(b) /\ DraftingThen(b) /\ AnswerThen(b)
  BY <1>4, <1>5, <1>10 DEF AssessingThen, DraftingThen, AnswerThen, Starting, Drafting
<1>12. /\ contacts' \subseteq Persons /\ opportunities' \in Seq(Aggregates)
       /\ outreaches' \in Seq(Talks)
  BY <1>6 DEF AInv, AnalysisTypes
<1>  QED
  BY <1>4, <1>6, <1>8, <1>9, <1>11, <1>12, RequestMoved DEF b

\* A source is ingested.
LEMMA IngestSourceStep ==
  ASSUME AInv, NEW r \in Analyses, IngestSource(r)
  PROVE  AInv'
<1> DEFINE a == analysis[r]  b == analysis'[r]
           left == [a EXCEPT !.sources = @ - 1]
           saved == Making([left EXCEPT !.outcomes = @ \union {"saved"}], "company")
           rejected == [left EXCEPT !.outcomes = @ \union {"rejected"}]
<1>1. /\ IsRequest(a) /\ a.stage = "company" /\ a.opportunity = 0 /\ a.number \in 1 .. sent
      /\ a.status = "none"
      /\ "saved" \in a.outcomes => facts \in 1 .. MaxFacts
      /\ "saved" \notin a.outcomes => a.made = {}
  BY RequestIs, RequestHas DEF IngestSource, InStage, AssessingOK, AnswerOK, Starting
<1>2. UNCHANGED <<contacts, opportunities, outreaches, approval, asked, sent>>
  BY DEF IngestSource
<1>3. \/ facts' \in {facts, facts + 1} \intersect 1 .. MaxFacts /\ Stage(r, "company", saved)
      \/ Stage(r, "company", rejected) /\ UNCHANGED facts
  BY DEF IngestSource
<1>4. /\ IsRequest(saved) /\ IsRequest(rejected)
      /\ saved.number = a.number /\ saved.opportunity = 0 /\ saved.status = "none"
      /\ rejected.number = a.number /\ rejected.opportunity = 0 /\ rejected.status = "none"
      /\ "saved" \in saved.outcomes /\ rejected.made = a.made
      /\ "saved" \in rejected.outcomes <=> "saved" \in a.outcomes
  BY <1>1, FieldNames DEF IsRequest, Making
<1> HIDE DEF saved, rejected, a
<1>5. /\ Others(r) /\ IsRequest(b) /\ b.stage = "company"
      /\ Same(b, saved) \/ Same(b, rejected)
  BY <1>3, <1>4, StageIs
<1>6. b.number = a.number /\ b.opportunity = 0 /\ b.status = "none"
  BY <1>4, <1>5, FieldNames DEF Same
<1>7. facts' \in Nat /\ facts <= facts' /\ facts' <= MaxFacts
  BY <1>3, AnalysisAssumption DEF AInv, AnalysisTypes
<1>8. /\ "saved" \in b.outcomes => facts' \in 1 .. MaxFacts
      /\ "saved" \notin b.outcomes => b.made = {}
  <2>1. CASE facts' \in {facts, facts + 1} \intersect 1 .. MaxFacts /\ Stage(r, "company", saved)
    <3>1. b.outcomes = saved.outcomes
      <4>1. Same(b, saved)
        BY <2>1, <1>4, StageIs
      <4>  QED
        BY <4>1, FieldNames DEF Same
    <3>  QED
      BY <2>1, <3>1, <1>4
  <2>2. CASE Stage(r, "company", rejected) /\ UNCHANGED facts
    <3>1. b.outcomes = rejected.outcomes /\ b.made = rejected.made
      <4>1. Same(b, rejected)
        BY <2>2, <1>4, StageIs
      <4>  QED
        BY <4>1, FieldNames DEF Same
    <3>  QED
      BY <2>2, <3>1, <1>1, <1>4
  <2>  QED
    BY <1>3, <2>1, <2>2
<1>9. Numbered' \in Nat /\ Numbered <= Numbered'
  BY <1>1, <1>2, <1>5, NumberedMoves DEF Starting, a
<1> HIDE DEF b
<1>10. Grown
  <2> HIDE DEF Numbered
  <2>  QED
    BY <1>2, <1>7, <1>9, AnalysisAssumption DEF Grown, AInv, AnalysisTypes
<1>11. OpportunitiesOK' /\ OutreachesOK'
  BY <1>2, <1>10, StoredStays
<1>12. AssessingThen(b) /\ DraftingThen(b) /\ AnswerThen(b)
  BY <1>1, <1>2, <1>5, <1>6, <1>8 DEF AssessingThen, DraftingThen, AnswerThen, Starting, Drafting
<1>13. /\ contacts' \subseteq Persons /\ sent' <= MaxSent /\ opportunities' \in Seq(Aggregates)
       /\ outreaches' \in Seq(Talks)
  BY <1>2, AnalysisAssumption DEF AInv, AnalysisTypes
<1>  QED
  BY <1>2, <1>5, <1>10, <1>11, <1>12, <1>13, RequestMoved DEF b

\* A source raises.
LEMMA IngestRaisesStep ==
  ASSUME AInv, NEW r \in Analyses, IngestRaises(r)
  PROVE  AInv'
<1> DEFINE a == analysis[r]
<1>1. a.stage = "company" /\ UNCHANGED stored /\ IsRequest(a)
  BY RequestIs DEF IngestRaises, InStage, stored
<1>2. PICK error \in {"REJECTED", "FAILED"} : Reply(r, StatusOfError(r, error), a)
  BY DEF IngestRaises
<1> DEFINE s == StatusOfError(r, error)
<1>3. s \in {"REJECTED", "FAILED", "PARTIAL"} /\ (s # "PARTIAL" => a.outcomes = {})
  BY DEF StatusOfError
<1>4. a.outcomes = {} => a.made = {}
  BY <1>1, RequestHas DEF AssessingOK
<1> HIDE DEF s
<1>5. s \in {"REJECTED", "FAILED"} => a.made = {}
  BY <1>3, <1>4
<1>6. s # "COMPLETED" /\ Reply(r, s, a)
  BY <1>2, <1>3 DEF s
<1>  QED
  BY <1>1, <1>5, <1>6, AloneReply

\* The sources are done with.
LEMMA CompanyDoneStep ==
  ASSUME AInv, NEW r \in Analyses, CompanyDone(r)
  PROVE  AInv'
<1> DEFINE a == analysis[r]  b == analysis'[r]
<1>1. a.stage = "company" /\ UNCHANGED stored /\ IsRequest(a)
  BY RequestIs DEF CompanyDone, InStage, stored
<1>2. /\ a.opportunity = 0 /\ a.number \in 1 .. sent /\ a.status = "none"
      /\ "saved" \in a.outcomes => facts \in 1 .. MaxFacts
      /\ "saved" \notin a.outcomes => a.made = {}
  BY <1>1, RequestHas DEF AssessingOK, AnswerOK, Starting
<1>3. CASE "saved" \notin a.outcomes
  <2>1. Reply(r, "REJECTED", a)
    BY <1>3 DEF CompanyDone
  <2>  QED
    BY <1>1, <1>2, <1>3, <2>1, AloneReply
<1>4. CASE "saved" \in a.outcomes /\ "rejected" \in a.outcomes
  <2>1. Reply(r, "PARTIAL", a)
    BY <1>4 DEF CompanyDone
  <2>  QED
    BY <1>1, <2>1, AloneReply
<1>5. CASE "saved" \in a.outcomes /\ "rejected" \notin a.outcomes
  <2>1. Stage(r, "assess", a)
    BY <1>5 DEF CompanyDone
  <2>2. Others(r) /\ IsRequest(b) /\ b.stage = "assess" /\ Same(b, a)
    BY <1>1, <2>1, StageIs
  <2>3. b.opportunity = 0 /\ b.number = a.number /\ b.status = "none"
    BY <1>2, <2>2, FieldNames DEF Same
  <2>4. facts' = facts /\ sent' = sent
    BY <1>1 DEF stored
  <2> HIDE DEF b
  <2>5. AssessingThen(b) /\ DraftingThen(b) /\ AnswerThen(b)
    BY <1>2, <1>5, <2>2, <2>3, <2>4
       DEF AssessingThen, DraftingThen, AnswerThen, Starting, Drafting
  <2>  QED
    BY <1>1, <2>2, <2>5, Alone DEF b, Starting
<1>  QED
  BY <1>3, <1>4, <1>5

\* The company is scored.
LEMMA AssessStep ==
  ASSUME AInv, NEW r \in Analyses, Assess(r)
  PROVE  AInv'
<1> DEFINE a == analysis[r]  b == analysis'[r]  m == [a EXCEPT !.read = facts]
<1>1. a.stage = "assess" /\ UNCHANGED stored /\ IsRequest(a) /\ Stage(r, "judge", m)
  BY RequestIs DEF Assess, InStage, stored
<1>2. a.opportunity = 0 /\ a.number \in 1 .. sent /\ a.status = "none" /\ facts \in 1 .. MaxFacts
  BY <1>1, RequestHas DEF AssessingOK, AnswerOK, Starting
<1>3. /\ IsRequest(m) /\ m.read = facts /\ m.opportunity = 0 /\ m.number = a.number
      /\ m.status = "none"
  BY <1>1, <1>2, FieldNames DEF IsRequest
<1> HIDE DEF m
<1>4. Others(r) /\ IsRequest(b) /\ b.stage = "judge" /\ Same(b, m)
  BY <1>1, <1>3, StageIs
<1>5. b.read = facts /\ b.opportunity = 0 /\ b.number = a.number /\ b.status = "none"
  BY <1>3, <1>4, FieldNames DEF Same
<1>6. facts' = facts /\ sent' = sent
  BY <1>1 DEF stored
<1> HIDE DEF b
<1>7. AssessingThen(b) /\ DraftingThen(b) /\ AnswerThen(b)
  BY <1>2, <1>4, <1>5, <1>6 DEF AssessingThen, DraftingThen, AnswerThen, Starting, Drafting
<1>  QED
  BY <1>1, <1>4, <1>7, Alone DEF b, Starting

\* The next assessment has a number that is still free.
LEMMA NextAssessment ==
  ASSUME NEW a, NEW N \in Nat, NEW H, NEW K, NEW B, Held(a, 1 .. N, H, K, B, {}),
         NEW key \in Nat, key \in K, NEW by \in Nat, by \in B
  PROVE  /\ Within(WithAssessment(a, key, by), 1 .. N + 1, K, K, B, {})
         /\ DOMAIN a.rows = {} => Unique(WithAssessment(a, key, by))
<1> DEFINE n == Cardinality(DOMAIN a.rows)
           g == WithAssessment(a, key, by)
           D == DOMAIN a.rows
           E == 1 .. n + 1
           F == 1 .. N + 1
           h == {key}
<1>1. D \subseteq 1 .. N
  BY DEF Held
<1>2. n \in Nat /\ n <= N /\ (D = {} => n = 0)
  <2>1. IsFiniteSet(1 .. N) /\ Cardinality(1 .. N) = N
    <3>1. N \in Int /\ 1 \in Int
      OBVIOUS
    <3>2. IsFiniteSet(1 .. N) /\ Cardinality(1 .. N) = IF 1 > N THEN 0 ELSE N - 1 + 1
      BY <3>1, FS_Interval
    <3>  QED
      BY <3>2
  <2>2. n <= Cardinality(1 .. N) /\ IsFiniteSet(D)
    BY <1>1, <2>1, FS_Subset
  <2>3. n \in Nat /\ (D = {} => n = 0)
    BY <2>2, FS_CardinalityType, FS_EmptySet
  <2>  QED
    BY <2>1, <2>2, <2>3
<1>3. Held(a, Nat \ {0}, H, K, B, {})
  <2>1. 1 .. N \subseteq Nat \ {0}
    OBVIOUS
  <2>  QED
    BY <2>1 DEF Held
<1>4. Within(g, E, h, K, B, {})
  <2>1. n = Cardinality(DOMAIN a.rows)
    OBVIOUS
  <2> HIDE DEF n
  <2>  QED
    BY <1>3, <2>1, WithAssessmentIs
<1>5. E \subseteq F /\ h \subseteq K
  BY <1>2
<1>6. Within(g, F, K, K, B, {})
  <2> HIDE DEF g, E, F, h
  <2>  QED
    BY <1>4, <1>5 DEF Within, Held
<1>7. D = {} => Unique(g)
  <2>0. DOMAIN g.rows = E
    BY DEF WithAssessment
  <2>1. D = {} => DOMAIN g.rows = {1}
    BY <1>2, <2>0
  <2>  QED
    BY <2>1, OneIsUnique
<1>  QED
  BY <1>6, <1>7

\* It is stored in the next state.
LEMMA AssessmentThen ==
  ASSUME AInv, sent' = sent, Numbered' = Numbered + 1,
         NEW a, Held(a, 1 .. Numbered, 0 .. MaxFacts, 1 .. MaxFacts, 1 .. sent, {}),
         NEW key \in 1 .. MaxFacts, NEW by \in 1 .. sent
  PROVE  /\ OpportunityRowsThen(WithAssessment(a, key, by))
         /\ DOMAIN a.rows = {} => Unique(WithAssessment(a, key, by))
<1> DEFINE N == Numbered
           H == 0 .. MaxFacts
           K == 1 .. MaxFacts
           B == 1 .. sent
           g == WithAssessment(a, key, by)
<1>1. N \in Nat /\ key \in Nat /\ by \in Nat /\ key \in K /\ by \in B
  BY AnalysisAssumption DEF AInv, AnalysisTypes
<1>2. Held(a, 1 .. N, H, K, B, {})
  OBVIOUS
<1>3. OpportunityRowsThen(g) <=> Within(g, 1 .. N + 1, K, K, B, {})
  BY DEF OpportunityRowsThen
<1> HIDE DEF N, H, K, B, g
<1>4. Within(g, 1 .. N + 1, K, K, B, {}) /\ (DOMAIN a.rows = {} => Unique(g))
  BY <1>1, <1>2, NextAssessment DEF g
<1>  QED
  BY <1>3, <1>4 DEF g

\* What is found of the company is judged.
LEMMA JudgeStep ==
  ASSUME AInv, NEW r \in Analyses, Judge(r)
  PROVE  AInv'
<1> DEFINE a == analysis[r]  b == analysis'[r]  last == Len(opportunities)
<1>1. a.stage = "judge" /\ UNCHANGED stored /\ IsRequest(a)
  BY RequestIs DEF Judge, InStage, stored
<1>2. a.opportunity = 0 /\ a.number \in 1 .. sent /\ a.status = "none" /\ a.read \in 1 .. MaxFacts
  BY <1>1, RequestHas DEF AssessingOK, AnswerOK, Starting
<1>3. /\ facts' = facts /\ sent' = sent /\ opportunities' = opportunities
      /\ last \in Nat /\ DOMAIN opportunities = 1 .. last /\ MaxFacts \in Nat
  BY <1>1, AnalysisAssumption DEF stored, AInv, AnalysisTypes
<1>4. ASSUME Others(r), b.stage \notin Starting PROVE Numbered' = Numbered + 1
  BY <1>1, <1>3, <1>4, NumberedMoves DEF Starting
<1>5. CASE last = 0
  <2> DEFINE g == WithAssessment(NoAggregate, a.read, a.number)
             m == [a EXCEPT !.mine = g]
  <2>1. Stage(r, "commit opportunity", m)
    BY <1>5 DEF Judge
  <2>2. /\ IsRequest(m) /\ m.mine = g /\ m.opportunity = 0 /\ m.number = a.number
        /\ m.status = "none"
    <3> HIDE DEF g, a
    <3>  QED
      BY <1>1, <1>2, FieldNames DEF IsRequest
  <2> HIDE DEF m
  <2>3. Others(r) /\ IsRequest(b) /\ b.stage = "commit opportunity" /\ Same(b, m)
    BY <2>1, <2>2, StageIs
  <2>4. b.mine = g /\ b.opportunity = 0 /\ b.number = a.number /\ b.status = "none"
    BY <2>2, <2>3, FieldNames DEF Same
  <2>5. Numbered' = Numbered + 1
    BY <1>4, <2>3 DEF Starting
  <2>6. Held(NoAggregate, 1 .. Numbered, 0 .. MaxFacts, 1 .. MaxFacts, 1 .. sent, {})
    <3>1. 0 \in 0 .. MaxFacts
      BY <1>3
    <3>2. Held(NoAggregate, {}, 0 .. MaxFacts, 1 .. MaxFacts, 1 .. sent, {})
      BY <3>1, NoAggregateIs
    <3>  QED
      BY <3>2 DEF Held
  <2>7. OpportunityRowsThen(g) /\ Unique(g)
    BY <1>2, <1>3, <2>5, <2>6, AssessmentThen, NoAggregateIs
  <2> HIDE DEF b, g
  <2>8. AssessingThen(b) /\ DraftingThen(b) /\ AnswerThen(b)
    BY <1>2, <1>3, <2>3, <2>4, <2>7
       DEF AssessingThen, DraftingThen, AnswerThen, Starting, Drafting
  <2>  QED
    BY <1>1, <2>3, <2>8, Alone DEF b, Starting
<1>6. CASE last # 0 /\ a.read \in Keys(opportunities[last])
  <2> DEFINE j == Judgement(Latest(opportunities[last]))
             m == [a EXCEPT !.opportunity = last, !.judged = j]
  <2>1. Stage(r, "contact", m)
    BY <1>6 DEF Judge
  <2>2. IsRequest(m) /\ m.opportunity = last /\ m.number = a.number /\ m.status = "none"
    BY <1>1, <1>2, FieldNames DEF IsRequest
  <2> HIDE DEF m
  <2>3. Others(r) /\ IsRequest(b) /\ b.stage = "contact" /\ Same(b, m)
    BY <2>1, <2>2, StageIs
  <2>4. b.opportunity = last /\ b.number = a.number /\ b.status = "none"
    BY <2>2, <2>3, FieldNames DEF Same
  <2>5. last \in DOMAIN opportunities'
    BY <1>3, <1>6
  <2> HIDE DEF b, last
  <2>6. AssessingThen(b) /\ DraftingThen(b) /\ AnswerThen(b)
    BY <1>2, <1>3, <2>3, <2>4, <2>5
       DEF AssessingThen, DraftingThen, AnswerThen, Starting, Drafting
  <2>  QED
    BY <1>1, <2>3, <2>6, Alone DEF b, Starting
<1>7. CASE last # 0 /\ a.read \notin Keys(opportunities[last])
  <2> DEFINE g == WithAssessment(opportunities[last], a.read, a.number)
             m == [a EXCEPT !.opportunity = last, !.mine = g]
  <2>1. Stage(r, "merge opportunity", m)
    BY <1>7 DEF Judge
  <2>2. /\ IsRequest(m) /\ m.mine = g /\ m.opportunity = last /\ m.number = a.number
        /\ m.status = "none"
    <3> HIDE DEF g, a, last
    <3>  QED
      BY <1>1, <1>2, FieldNames DEF IsRequest
  <2> HIDE DEF m
  <2>3. Others(r) /\ IsRequest(b) /\ b.stage = "merge opportunity" /\ Same(b, m)
    BY <2>1, <2>2, StageIs
  <2>4. b.mine = g /\ b.opportunity = last /\ b.number = a.number /\ b.status = "none"
    BY <2>2, <2>3, FieldNames DEF Same
  <2>5. Numbered' = Numbered + 1
    BY <1>4, <2>3 DEF Starting
  <2>6. last \in DOMAIN opportunities
    BY <1>3, <1>7
  <2>7. Held(opportunities[last], 1 .. Numbered, 0 .. MaxFacts, 1 .. MaxFacts, 1 .. sent, {})
    <3>1. OpportunityRows(opportunities[last])
      BY <2>6 DEF AInv, OpportunitiesOK
    <3>2. 1 .. MaxFacts \subseteq 0 .. MaxFacts
      BY <1>3
    <3>  QED
      BY <3>1, <3>2 DEF OpportunityRows, Within, Held
  <2>8. OpportunityRowsThen(g)
    BY <1>2, <1>3, <2>5, <2>7, AssessmentThen
  <2> HIDE DEF b, g, last
  <2>9. AssessingThen(b) /\ DraftingThen(b) /\ AnswerThen(b)
    BY <1>2, <1>3, <1>7, <2>3, <2>4, <2>6, <2>8
       DEF AssessingThen, DraftingThen, AnswerThen, Starting, Drafting
  <2>  QED
    BY <1>1, <2>3, <2>9, Alone DEF b, Starting
<1>  QED
  BY <1>5, <1>6, <1>7

\* The opportunity is loaded to be saved.
LEMMA MergeOpportunityStep ==
  ASSUME AInv, NEW r \in Analyses, MergeOpportunity(r)
  PROVE  AInv'
<1> DEFINE a == analysis[r]  b == analysis'[r]
           old == opportunities[a.opportunity]
           m == [a EXCEPT !.base = old]
<1>1. /\ a.stage = "merge opportunity" /\ UNCHANGED stored /\ IsRequest(a)
      /\ Stage(r, "commit opportunity", m)
  BY RequestIs DEF MergeOpportunity, InStage, stored
<1>2. /\ a.number \in 1 .. sent /\ a.status = "none" /\ OpportunityRows(a.mine)
      /\ a.opportunity # 0 /\ a.opportunity \in DOMAIN opportunities
  BY <1>1, RequestHas DEF AssessingOK, AnswerOK
<1>3. /\ IsRequest(m) /\ m.mine = a.mine /\ m.opportunity = a.opportunity
      /\ m.number = a.number /\ m.status = "none"
  <2> HIDE DEF a, old
  <2>  QED
    BY <1>1, <1>2, FieldNames DEF IsRequest
<1> HIDE DEF m
<1>4. Others(r) /\ IsRequest(b) /\ b.stage = "commit opportunity" /\ Same(b, m)
  BY <1>1, <1>3, StageIs
<1>5. /\ b.mine = a.mine /\ b.opportunity = a.opportunity /\ b.number = a.number
      /\ b.status = "none"
  BY <1>3, <1>4, FieldNames DEF Same
<1>6. sent' = sent /\ opportunities' = opportunities
  BY <1>1 DEF stored
<1>7. OpportunityRowsThen(b.mine)
  <2>1. Grown
    BY <1>1, <1>4, Alone DEF Starting
  <2>  QED
    BY <1>2, <1>5, <2>1, AggregatesStay
<1> HIDE DEF b
<1>8. AssessingThen(b) /\ DraftingThen(b) /\ AnswerThen(b)
  BY <1>2, <1>4, <1>5, <1>6, <1>7
     DEF AssessingThen, DraftingThen, AnswerThen, Starting, Drafting
<1>  QED
  BY <1>1, <1>4, <1>8, Alone DEF b, Starting

\* Opportunities that are saved.
LEMMA OpportunitiesSaved ==
  ASSUME AInv, NEW r \in Analyses, Others(r), analysis'[r].stage \notin Starting,
         UNCHANGED <<facts, contacts, outreaches, approval, asked, sent>>,
         opportunities' \in Seq(Aggregates), DOMAIN opportunities \subseteq DOMAIN opportunities',
         \A o \in DOMAIN opportunities' :
           \/ o \in DOMAIN opportunities /\ opportunities'[o] = opportunities[o]
           \/ OpportunityRows(opportunities'[o]) /\ Unique(opportunities'[o])
  PROVE  Grown /\ OpportunitiesOK' /\ OutreachesOK'
<1>1. Numbered' \in Nat /\ Numbered <= Numbered'
  BY NumberedMoves
<1>2. Grown
  <2> HIDE DEF Numbered
  <2>  QED
    BY <1>1, AnalysisAssumption DEF Grown, AInv, AnalysisTypes
<1>3. ASSUME NEW o \in DOMAIN opportunities'
      PROVE  OpportunityRows(opportunities'[o]) /\ Unique(opportunities'[o])
  BY DEF AInv, OpportunitiesOK
<1>4. ASSUME NEW o \in DOMAIN opportunities'
      PROVE  OpportunityRowsThen(opportunities'[o]) /\ Unique(opportunities'[o])
  BY <1>2, <1>3, AggregatesStay
<1>5. OpportunitiesOK'
  BY <1>4 DEF OpportunitiesOK, OpportunityRows, OpportunityRowsThen, Unique
<1>6. OutreachesOK'
  BY <1>2, StoredStays
<1>  QED
  BY <1>2, <1>5, <1>6

\* A request that goes on to the contact.
LEMMA ToContact ==
  ASSUME AInv, NEW r \in Analyses, analysis[r].stage # "idle", Others(r), IsRequest(analysis'[r]),
         analysis'[r].stage = "contact", analysis'[r].number = analysis[r].number,
         analysis'[r].status = "none", analysis'[r].opportunity \in DOMAIN opportunities',
         Grown, OpportunitiesOK', OutreachesOK',
         UNCHANGED <<contacts, outreaches, approval, sent>>,
         opportunities' \in Seq(Aggregates)
  PROVE  AInv'
<1> DEFINE b == analysis'[r]
<1>1. b.number \in 1 .. sent'
  BY RequestHas DEF AnswerOK
<1> HIDE DEF b
<1>2. AssessingThen(b) /\ DraftingThen(b) /\ AnswerThen(b)
  <2> USE DEF b
  <2>1. b.stage = "contact" /\ b.status = "none" /\ b.opportunity \in DOMAIN opportunities'
    OBVIOUS
  <2> HIDE DEF b
  <2>  QED
    BY <1>1, <2>1 DEF AssessingThen, DraftingThen, AnswerThen, Starting, Drafting
<1>3. contacts' \subseteq Persons /\ sent' <= MaxSent /\ outreaches' \in Seq(Talks)
  BY AnalysisAssumption DEF AInv, AnalysisTypes
<1>  QED
  BY <1>2, <1>3, RequestMoved DEF b

\* An assessment is saved, or was made by another.
LEMMA CommitOpportunityStep ==
  ASSUME AInv, NEW r \in Analyses, CommitOpportunity(r)
  PROVE  AInv'
<1> DEFINE a == analysis[r]  b == analysis'[r]
           o == a.opportunity
           last == Len(opportunities)
           m(p) == Making([a EXCEPT !.opportunity = p, !.judged = Judgement(a.read)],
                          "assessment")
<1>1. /\ a.stage = "commit opportunity" /\ IsRequest(a)
      /\ UNCHANGED <<facts, contacts, outreaches, approval, asked, sent>>
  BY RequestIs DEF CommitOpportunity, InStage
<1>2. /\ a.number \in 1 .. sent /\ a.status = "none" /\ OpportunityRows(a.mine)
      /\ o = 0 => Unique(a.mine)
      /\ o # 0 => o \in DOMAIN opportunities
  BY <1>1, RequestHas DEF AssessingOK, AnswerOK
<1>3. /\ opportunities \in Seq(Aggregates) /\ last \in Nat /\ DOMAIN opportunities = 1 .. last
      /\ a.mine \in Aggregates
  BY <1>2 DEF AInv, AnalysisTypes, OpportunityRows, Within, Held
<1>4. ASSUME NEW p, Assessed(r, p)
      PROVE  /\ Others(r) /\ IsRequest(b) /\ b.stage = "contact" /\ b.number = a.number
             /\ b.status = "none" /\ b.opportunity = p
  <2> DEFINE n == m(p)
  <2>1. IsRequest(n) /\ n.number = a.number /\ n.status = "none" /\ n.opportunity = p
    BY <1>1, <1>2, FieldNames DEF IsRequest, Making
  <2>2. Stage(r, "contact", n)
    BY <1>4 DEF Assessed
  <2> HIDE DEF n, m
  <2>3. Others(r) /\ IsRequest(b) /\ b.stage = "contact" /\ Same(b, n)
    BY <2>1, <2>2, StageIs
  <2>  QED
    BY <2>1, <2>3, FieldNames DEF Same
<1> HIDE DEF m
<1>5. CASE o = 0 /\ opportunities' = Append(opportunities, a.mine) /\ Assessed(r, last + 1)
  <2>1. /\ Others(r) /\ IsRequest(b) /\ b.stage = "contact" /\ b.number = a.number
        /\ b.status = "none" /\ b.opportunity = last + 1
    BY <1>4, <1>5
  <2>2. /\ opportunities' \in Seq(Aggregates) /\ DOMAIN opportunities' = 1 .. last + 1
        /\ opportunities'[last + 1] = a.mine
        /\ \A p \in 1 .. last : opportunities'[p] = opportunities[p]
    BY <1>3, <1>5
  <2>3. /\ DOMAIN opportunities \subseteq DOMAIN opportunities'
        /\ last + 1 \in DOMAIN opportunities'
        /\ \A p \in DOMAIN opportunities' :
             \/ p \in DOMAIN opportunities /\ opportunities'[p] = opportunities[p]
             \/ OpportunityRows(opportunities'[p]) /\ Unique(opportunities'[p])
    BY <1>2, <1>3, <1>5, <2>2
  <2>4. b.stage \notin Starting
    BY <2>1 DEF Starting
  <2> HIDE DEF last
  <2>5. Grown /\ OpportunitiesOK' /\ OutreachesOK'
    BY <1>1, <2>1, <2>2, <2>3, <2>4, OpportunitiesSaved
  <2>  QED
    BY <1>1, <2>1, <2>2, <2>3, <2>5, ToContact
<1>6. CASE o # 0 /\ Stage(r, "contact", a) /\ UNCHANGED opportunities
  <2>1. Others(r) /\ IsRequest(b) /\ b.stage = "contact" /\ Same(b, a)
    BY <1>1, <1>6, StageIs
  <2>2. b.number = a.number /\ b.status = "none" /\ b.opportunity = o
    BY <1>2, <2>1, FieldNames DEF Same
  <2>3. Grown /\ OpportunitiesOK' /\ OutreachesOK'
    BY <1>1, <1>6, <2>1, Alone DEF stored, Starting
  <2>  QED
    BY <1>1, <1>2, <1>3, <1>6, <2>1, <2>2, <2>3, ToContact
<1>7. CASE /\ o # 0 /\ ~Gone(opportunities[o], a.base, a.mine)
           /\ ~Conflicts(opportunities[o], a.base, a.mine)
           /\ opportunities' = [opportunities EXCEPT ![o] = Flushed(@, a.base, a.mine)]
           /\ Assessed(r, o)
  <2> DEFINE g == Flushed(opportunities[o], a.base, a.mine)
  <2>1. /\ Others(r) /\ IsRequest(b) /\ b.stage = "contact" /\ b.number = a.number
        /\ b.status = "none" /\ b.opportunity = o
    BY <1>4, <1>7
  <2>2. OpportunityRows(g) /\ Unique(g)
    <3>1. OpportunityRows(opportunities[o])
      BY <1>2, <1>7 DEF AInv, OpportunitiesOK
    <3>2. OpportunityRows(g)
      BY <1>2, <1>7, <3>1, FlushedWithin DEF OpportunityRows
    <3>  QED
      BY <1>7, <3>2, FlushedUnique
  <2> HIDE DEF g
  <2>3. g \in Aggregates /\ opportunities' = [opportunities EXCEPT ![o] = g]
    BY <1>7, <2>2 DEF OpportunityRows, Within, Held, g
  <2>4. /\ opportunities' \in Seq(Aggregates) /\ DOMAIN opportunities' = DOMAIN opportunities
        /\ opportunities'[o] = g
        /\ \A p \in DOMAIN opportunities : p # o => opportunities'[p] = opportunities[p]
    BY <1>2, <1>3, <1>7, <2>3
  <2>5. \A p \in DOMAIN opportunities' :
          \/ p \in DOMAIN opportunities /\ opportunities'[p] = opportunities[p]
          \/ OpportunityRows(opportunities'[p]) /\ Unique(opportunities'[p])
    BY <2>2, <2>4
  <2>6. b.stage \notin Starting
    BY <2>1 DEF Starting
  <2>7. Grown /\ OpportunitiesOK' /\ OutreachesOK'
    BY <1>1, <2>1, <2>4, <2>5, <2>6, OpportunitiesSaved
  <2>  QED
    BY <1>1, <1>2, <1>7, <2>1, <2>4, <2>7, ToContact
<1>8. \/ o = 0 /\ opportunities' = Append(opportunities, a.mine) /\ Assessed(r, last + 1)
      \/ o # 0 /\ Stage(r, "contact", a) /\ UNCHANGED opportunities
      \/ /\ o # 0 /\ ~Gone(opportunities[o], a.base, a.mine)
         /\ ~Conflicts(opportunities[o], a.base, a.mine)
         /\ opportunities' = [opportunities EXCEPT ![o] = Flushed(@, a.base, a.mine)]
         /\ Assessed(r, o)
  BY DEF CommitOpportunity
<1>  QED
  BY <1>5, <1>6, <1>7, <1>8

\* A contact is stored.
LEMMA IngestContactStep ==
  ASSUME AInv, NEW r \in Analyses, IngestContact(r)
  PROVE  AInv'
<1> DEFINE a == analysis[r]  b == analysis'[r]  m == Making(a, "contact")
<1>1. /\ a.stage = "contact" /\ IsRequest(a)
      /\ UNCHANGED <<facts, opportunities, outreaches, approval, asked, sent>>
  BY RequestIs DEF IngestContact, InStage
<1>2. /\ a.number \in 1 .. sent /\ a.status = "none" /\ a.opportunity \in DOMAIN opportunities
  BY <1>1, RequestHas DEF DraftingOK, AnswerOK
<1>3. CASE Reply(r, "PARTIAL", a) /\ UNCHANGED contacts
  BY <1>1, <1>3, AloneReply DEF stored
<1>4. CASE \E p \in Persons : contacts' = contacts \union {p} /\ Stage(r, "decide", m)
  <2>1. /\ IsRequest(m) /\ m.number = a.number /\ m.status = "none"
        /\ m.opportunity = a.opportunity
    BY <1>1, <1>2, FieldNames DEF IsRequest, Making
  <2> HIDE DEF m
  <2>2. Others(r) /\ IsRequest(b) /\ b.stage = "decide" /\ Same(b, m)
    BY <1>4, <2>1, StageIs
  <2>3. b.number = a.number /\ b.status = "none" /\ b.opportunity = a.opportunity
    BY <2>1, <2>2, FieldNames DEF Same
  <2>4. contacts \subseteq contacts' /\ contacts' \subseteq Persons
    BY <1>4 DEF AInv, AnalysisTypes
  <2>5. Numbered' \in Nat /\ Numbered <= Numbered'
    BY <1>1, <2>2, NumberedMoves DEF Starting
  <2> HIDE DEF b
  <2>6. Grown
    <3> HIDE DEF Numbered
    <3>  QED
      BY <1>1, <2>4, <2>5, AnalysisAssumption DEF Grown, AInv, AnalysisTypes
  <2>7. OpportunitiesOK' /\ OutreachesOK'
    BY <1>1, <2>6, StoredStays
  <2>8. b.number \in 1 .. sent' /\ b.opportunity \in DOMAIN opportunities'
    BY <1>1, <1>2, <2>3
  <2>9. AssessingThen(b) /\ DraftingThen(b) /\ AnswerThen(b)
    BY <2>2, <2>3, <2>8 DEF AssessingThen, DraftingThen, AnswerThen, Starting, Drafting
  <2>10. sent' <= MaxSent /\ opportunities' \in Seq(Aggregates) /\ outreaches' \in Seq(Talks)
    BY <1>1, AnalysisAssumption DEF AInv, AnalysisTypes
  <2>  QED
    BY <1>1, <2>2, <2>4, <2>6, <2>7, <2>9, <2>10, RequestMoved DEF b
<1>  QED
  BY <1>3, <1>4 DEF IngestContact

\* A contact is selected.
LEMMA DecideStep ==
  ASSUME AInv, NEW r \in Analyses, Decide(r)
  PROVE  AInv'
<1> DEFINE a == analysis[r]  b == analysis'[r]
<1>1. a.stage = "decide" /\ IsRequest(a) /\ UNCHANGED stored
  BY RequestIs DEF Decide, InStage, stored
<1>2. a.number \in 1 .. sent /\ a.status = "none" /\ a.opportunity \in DOMAIN opportunities
  BY <1>1, RequestHas DEF DraftingOK, AnswerOK
<1>3. CASE Reply(r, "PARTIAL", a)
  BY <1>1, <1>3, AloneReply
<1>4. ASSUME NEW p \in contacts,
             IF a.judged # "qualified" THEN Reply(r, "PARTIAL", [a EXCEPT !.person = p])
             ELSE IF a.generate THEN Stage(r, "email", [a EXCEPT !.person = p])
             ELSE Reply(r, "COMPLETED", [a EXCEPT !.person = p])
      PROVE  AInv'
  <2> DEFINE m == [a EXCEPT !.person = p]
  <2>1. /\ IsRequest(m) /\ m.number = a.number /\ m.status = "none" /\ m.person = p
        /\ m.opportunity = a.opportunity /\ m.judged = a.judged /\ m.generate = a.generate
    BY <1>1, <1>2, FieldNames DEF IsRequest
  <2>2. \/ Reply(r, "PARTIAL", m)
        \/ a.judged = "qualified" /\ Stage(r, "email", m)
        \/ a.judged = "qualified" /\ ~a.generate /\ Reply(r, "COMPLETED", m)
    BY <1>4
  <2> HIDE DEF m
  <2>3. CASE Reply(r, "PARTIAL", m)
    BY <1>1, <2>1, <2>3, AloneReply
  <2>4. CASE a.judged = "qualified" /\ Stage(r, "email", m)
    <3>1. Others(r) /\ IsRequest(b) /\ b.stage = "email" /\ Same(b, m)
      BY <2>1, <2>4, StageIs
    <3>2. /\ b.number = a.number /\ b.status = "none" /\ b.opportunity = a.opportunity
          /\ b.judged = "qualified" /\ b.person = p
      BY <2>1, <2>4, <3>1, FieldNames DEF Same
    <3>3. /\ b.number \in 1 .. sent' /\ b.opportunity \in DOMAIN opportunities'
          /\ b.person \in contacts'
      BY <1>1, <1>2, <1>4, <3>2 DEF stored
    <3> HIDE DEF b
    <3>4. AssessingThen(b) /\ DraftingThen(b) /\ AnswerThen(b)
      BY <3>1, <3>2, <3>3 DEF AssessingThen, DraftingThen, AnswerThen, Starting, Drafting
    <3>  QED
      BY <1>1, <3>1, <3>4, Alone DEF b, Starting
  <2>5. CASE a.judged = "qualified" /\ ~a.generate /\ Reply(r, "COMPLETED", m)
    <3>1. m.judged = "qualified" /\ m.person \in contacts /\ ~m.generate
      BY <1>4, <2>1, <2>5
    <3>  QED
      BY <1>1, <2>1, <2>5, <3>1, AloneReply
  <2>  QED
    BY <2>2, <2>3, <2>4, <2>5
<1>  QED
  BY <1>3, <1>4 DEF Decide

\* The conversation is the oldest with the contact about the opportunity.
LEMMA ConversationIs ==
  ASSUME AInv, NEW x, NEW p, NEW c, c = Conversation(x, p)
  PROVE  /\ c # 0 => /\ c \in DOMAIN outreaches /\ outreaches[c].opportunity = x
                     /\ outreaches[c].person = p
         /\ (\E o \in DOMAIN outreaches : outreaches[o].opportunity = x /\ outreaches[o].person = p)
              => c # 0
<1> DEFINE S == {o \in DOMAIN outreaches : /\ outreaches[o].opportunity = x
                                           /\ outreaches[o].person = p}
           Q(y) == \A z \in S : y <= z
<1>1. c = IF S = {} THEN 0 ELSE CHOOSE y \in S : Q(y)
  BY DEF Conversation, Min
<1>2. S \subseteq Nat \ {0}
  BY DEF AInv, AnalysisTypes
<1>3. S # {} => \E y \in S : Q(y)
  <2> HIDE DEF S
  <2>  QED
    BY <1>2, Least
<1> HIDE DEF Q
<1>4. S # {} => c \in S
  <2> HIDE DEF S
  <2>  QED
    BY <1>1, <1>3
<1>  QED
  BY <1>1, <1>2, <1>4

\* The context of a draft is read.
LEMMA ReadForDraftStep ==
  ASSUME AInv, NEW r \in Analyses, ReadForDraft(r)
  PROVE  AInv'
<1> DEFINE a == analysis[r]  b == analysis'[r]
           key == Latest(opportunities[a.opportunity])
           o == Conversation(a.opportunity, a.person)
           known == IF o = 0 THEN NoAggregate ELSE outreaches[o].aggregate
           m1 == [a EXCEPT !.email = "rejected"]
           m2 == [[a EXCEPT !.outreach = o] EXCEPT !.email = "skipped"]
           m3 == [a EXCEPT !.read = key, !.outreach = o, !.mine = known]
<1>1. a.stage = "email" /\ IsRequest(a) /\ UNCHANGED stored
  BY RequestIs DEF ReadForDraft, InStage, stored
<1>2. /\ a.number \in 1 .. sent /\ a.status = "none" /\ a.opportunity \in DOMAIN opportunities
      /\ a.judged = "qualified" /\ a.person \in contacts
  BY <1>1, RequestHas DEF DraftingOK, AnswerOK
<1>3. \/ Reply(r, "PARTIAL", m1)
      \/ key \in Keys(known) /\ Reply(r, "COMPLETED", m2)
      \/ key \in Qualifying /\ Stage(r, "generate", m3)
  <2>1. \/ Finish(r, "rejected", a)
        \/ key \in Keys(known) /\ Finish(r, "skipped", [a EXCEPT !.outreach = o])
        \/ key \in Qualifying /\ Stage(r, "generate", m3)
    BY DEF ReadForDraft
  <2>2. Finished("rejected") = "PARTIAL" /\ Finished("skipped") = "COMPLETED"
    BY DEF Finished
  <2> HIDE DEF key, known, o, m3
  <2>  QED
    BY <2>1, <2>2 DEF Finish
<1>4. o # 0 => /\ o \in DOMAIN outreaches /\ outreaches[o].opportunity = a.opportunity
               /\ outreaches[o].person = a.person
  <2> HIDE DEF o
  <2>  QED
    BY ConversationIs DEF o
<1> HIDE DEF o, key
<1>5. /\ IsRequest(m1) /\ m1.number = a.number
      /\ IsRequest(m2) /\ m2.number = a.number /\ m2.email = "skipped"
      /\ m2.judged = a.judged /\ m2.person = a.person /\ m2.opportunity = a.opportunity
  BY <1>1, FieldNames DEF IsRequest
<1>6. /\ IsRequest(m3) /\ m3.number = a.number /\ m3.status = "none" /\ m3.read = key
      /\ m3.outreach = o /\ m3.mine = known /\ m3.judged = a.judged /\ m3.person = a.person
      /\ m3.opportunity = a.opportunity
  <2> HIDE DEF known
  <2>  QED
    BY <1>1, <1>2, FieldNames DEF IsRequest
<1>7. CASE Reply(r, "PARTIAL", m1)
  <2> HIDE DEF m1
  <2>  QED
    BY <1>1, <1>5, <1>7, AloneReply
<1>8. CASE key \in Keys(known) /\ Reply(r, "COMPLETED", m2)
  <2>1. o # 0
    BY <1>8, NoAggregateIs DEF Keys
  <2>2. \E p \in DOMAIN outreaches : /\ outreaches[p].opportunity = m2.opportunity
                                     /\ outreaches[p].person = m2.person
    BY <1>4, <1>5, <2>1
  <2> HIDE DEF m2
  <2>  QED
    BY <1>1, <1>2, <1>5, <1>8, <2>2, AloneReply
<1>9. CASE key \in Qualifying /\ Stage(r, "generate", m3)
  <2> HIDE DEF m3
  <2>1. Others(r) /\ IsRequest(b) /\ b.stage = "generate" /\ Same(b, m3)
    BY <1>6, <1>9, StageIs
  <2>2. /\ b.number = a.number /\ b.status = "none" /\ b.opportunity = a.opportunity
        /\ b.judged = "qualified" /\ b.person = a.person /\ b.read = key /\ b.outreach = o
        /\ b.mine = known
    BY <1>2, <1>6, <2>1, FieldNames DEF Same
  <2>3. /\ sent' = sent /\ opportunities' = opportunities /\ contacts' = contacts
        /\ outreaches' = outreaches
    BY <1>1 DEF stored
  <2>4. o # 0 => DraftRowsThen(o, b.mine)
    <3>1. Grown
      BY <1>1, <2>1, Alone DEF Starting
    <3>2. o # 0 => DraftRows(o, known)
      BY <1>4 DEF AInv, OutreachesOK
    <3> HIDE DEF known
    <3>  QED
      BY <2>2, <3>1, <3>2, AggregatesStay
  <2>5. o = 0 => b.mine = NoAggregate
    BY <2>2
  <2> HIDE DEF b, known
  <2>6. AssessingThen(b) /\ DraftingThen(b) /\ AnswerThen(b)
    BY <1>2, <1>4, <1>9, <2>1, <2>2, <2>3, <2>4, <2>5
       DEF AssessingThen, DraftingThen, AnswerThen, Starting, Drafting
  <2>  QED
    BY <1>1, <2>1, <2>6, Alone DEF b, Starting
<1>  QED
  BY <1>3, <1>7, <1>8, <1>9

\* A draft is written.
LEMMA GenerateStep ==
  ASSUME AInv, NEW r \in Analyses, Generate(r)
  PROVE  AInv'
<1> DEFINE a == analysis[r]  b == analysis'[r]
           g == WithDraft(a.mine, a.read, a.number)
           stage == IF a.outreach = 0 THEN "commit draft" ELSE "merge draft"
           m1 == [a EXCEPT !.email = "failed"]
           m2 == [a EXCEPT !.mine = g]
<1>1. a.stage = "generate" /\ IsRequest(a) /\ UNCHANGED stored
  BY RequestIs DEF Generate, InStage, stored
<1>2. /\ a.number \in 1 .. sent /\ a.status = "none" /\ a.opportunity \in DOMAIN opportunities
      /\ a.judged = "qualified" /\ a.person \in contacts /\ a.read \in Qualifying
      /\ a.outreach # 0 => /\ a.outreach \in DOMAIN outreaches
                           /\ outreaches[a.outreach].opportunity = a.opportunity
                           /\ outreaches[a.outreach].person = a.person
                           /\ DraftRows(a.outreach, a.mine)
      /\ a.outreach = 0 => a.mine = NoAggregate
  BY <1>1, RequestHas DEF DraftingOK, AnswerOK, Drafting
<1>3. Reply(r, "PARTIAL", m1) \/ Stage(r, stage, m2)
  <2>1. Finish(r, "failed", a) \/ Stage(r, stage, m2)
    BY DEF Generate
  <2>2. Finished("failed") = "PARTIAL"
    BY DEF Finished
  <2> HIDE DEF stage, m2
  <2>  QED
    BY <2>1, <2>2 DEF Finish
<1>4. CASE Reply(r, "PARTIAL", m1)
  <2>1. IsRequest(m1) /\ m1.number = a.number
    BY <1>1, FieldNames DEF IsRequest
  <2> HIDE DEF m1
  <2>  QED
    BY <1>1, <1>4, <2>1, AloneReply
<1>5. CASE Stage(r, stage, m2)
  <2> HIDE DEF g
  <2>1. /\ IsRequest(m2) /\ m2.number = a.number /\ m2.status = "none" /\ m2.read = a.read
        /\ m2.outreach = a.outreach /\ m2.mine = g /\ m2.judged = a.judged
        /\ m2.person = a.person /\ m2.opportunity = a.opportunity
    BY <1>1, <1>2, FieldNames DEF IsRequest
  <2> HIDE DEF m2
  <2>2. Others(r) /\ IsRequest(b) /\ b.stage = stage /\ Same(b, m2)
    <3> HIDE DEF stage
    <3>  QED
      BY <1>5, <2>1, StageIs
  <2>3. /\ b.number = a.number /\ b.status = "none" /\ b.opportunity = a.opportunity
        /\ b.judged = "qualified" /\ b.person = a.person /\ b.read = a.read
        /\ b.outreach = a.outreach /\ b.mine = g
    BY <1>2, <2>1, <2>2, FieldNames DEF Same
  <2>4. /\ sent' = sent /\ opportunities' = opportunities /\ contacts' = contacts
        /\ outreaches' = outreaches
    BY <1>1 DEF stored
  <2>5. /\ b.stage \in {"commit draft", "merge draft"}
        /\ a.outreach = 0 => b.stage = "commit draft"
    BY <2>2
  <2>6. Grown
    BY <1>1, <2>2, <2>5, Alone DEF Starting
  <2>7. a.read \in Nat /\ a.number \in Nat
    BY <1>2, AnalysisAssumption DEF AInv, AnalysisTypes
  <2>8. a.outreach # 0 => DraftRowsThen(a.outreach, g)
    <3> DEFINE Q == AskedOf(a.outreach)  H == {0} \union Q  B == 1 .. sent
    <3>1. SUFFICES ASSUME a.outreach # 0 PROVE DraftRows(a.outreach, g)
      BY <2>6, AggregatesStay
    <3>2. /\ Held(a.mine, Nat \ {0}, H, Qualifying, B, Q) /\ 1 \in DOMAIN a.mine.rows
      BY <1>2, <3>1 DEF DraftRows, Within
    <3> HIDE DEF Q, H, B
    <3>3. a.number \in B
      BY <1>2 DEF B
    <3>4. Within(g, Nat \ {0}, H, Qualifying, B, Q)
      BY <1>2, <2>7, <3>2, <3>3, WithDraftIs DEF g
    <3>  QED
      BY <3>4 DEF DraftRows, Q, H, B
  <2>9. a.outreach = 0 => FreshThen(g)
    <3> DEFINE B == 1 .. sent
    <3>1. SUFFICES ASSUME a.outreach = 0 PROVE Fresh(g)
      BY <2>6, AggregatesStay
    <3>2. a.number \in B
      BY <1>2
    <3> HIDE DEF B
    <3>3. Held(a.mine, Nat \ {0}, {0}, Qualifying, B, {}) /\ DOMAIN a.mine.rows = {}
      BY <1>2, <3>1, NoAggregateIs DEF Held
    <3>4. Within(g, Nat \ {0}, {0}, Qualifying, B, {}) /\ DOMAIN g.rows = {1}
      BY <1>2, <2>7, <3>2, <3>3, WithDraftIs DEF g
    <3>  QED
      BY <3>4 DEF Fresh, B
  <2> HIDE DEF b, stage
  <2>10. AssessingThen(b) /\ DraftingThen(b) /\ AnswerThen(b)
    BY <1>2, <2>2, <2>3, <2>4, <2>5, <2>8, <2>9
       DEF AssessingThen, DraftingThen, AnswerThen, Starting, Drafting
  <2>  QED
    BY <1>1, <2>2, <2>5, <2>10, Alone DEF b, Starting
<1>  QED
  BY <1>3, <1>4, <1>5

\* The conversation is loaded to be saved.
LEMMA MergeDraftStep ==
  ASSUME AInv, NEW r \in Analyses, MergeDraft(r)
  PROVE  AInv'
<1> DEFINE a == analysis[r]  b == analysis'[r]
           m == [a EXCEPT !.base = outreaches[a.outreach].aggregate]
<1>1. a.stage = "merge draft" /\ IsRequest(a) /\ UNCHANGED stored /\ Stage(r, "commit draft", m)
  BY RequestIs DEF MergeDraft, InStage, stored
<1>2. /\ a.number \in 1 .. sent /\ a.status = "none" /\ a.opportunity \in DOMAIN opportunities
      /\ a.judged = "qualified" /\ a.person \in contacts /\ a.read \in Qualifying
      /\ a.outreach # 0 /\ a.outreach \in DOMAIN outreaches
      /\ outreaches[a.outreach].opportunity = a.opportunity
      /\ outreaches[a.outreach].person = a.person
      /\ DraftRows(a.outreach, a.mine)
  BY <1>1, RequestHas DEF DraftingOK, AnswerOK, Drafting
<1>3. /\ IsRequest(m) /\ m.number = a.number /\ m.status = "none" /\ m.read = a.read
      /\ m.outreach = a.outreach /\ m.mine = a.mine /\ m.judged = a.judged
      /\ m.person = a.person /\ m.opportunity = a.opportunity
  BY <1>1, <1>2, FieldNames DEF IsRequest
<1> HIDE DEF m
<1>4. Others(r) /\ IsRequest(b) /\ b.stage = "commit draft" /\ Same(b, m)
  BY <1>1, <1>3, StageIs
<1>5. /\ b.number = a.number /\ b.status = "none" /\ b.opportunity = a.opportunity
      /\ b.judged = "qualified" /\ b.person = a.person /\ b.read = a.read
      /\ b.outreach = a.outreach /\ b.mine = a.mine
  BY <1>2, <1>3, <1>4, FieldNames DEF Same
<1>6. /\ sent' = sent /\ opportunities' = opportunities /\ contacts' = contacts
      /\ outreaches' = outreaches
  BY <1>1 DEF stored
<1>7. DraftRowsThen(b.outreach, b.mine)
  <2>1. Grown
    BY <1>1, <1>4, Alone DEF Starting
  <2>  QED
    BY <1>2, <1>5, <2>1, AggregatesStay
<1> HIDE DEF b
<1>8. AssessingThen(b) /\ DraftingThen(b) /\ AnswerThen(b)
  BY <1>2, <1>4, <1>5, <1>6, <1>7
     DEF AssessingThen, DraftingThen, AnswerThen, Starting, Drafting
<1>  QED
  BY <1>1, <1>4, <1>8, Alone DEF b, Starting

\* A stage raises.
LEMMA StageRaisesStep ==
  ASSUME AInv, NEW r \in Analyses, StageRaises(r)
  PROVE  AInv'
<1> DEFINE a == analysis[r]  m == [a EXCEPT !.email = "failed"]
<1>1. a.stage # "idle" /\ IsRequest(a) /\ UNCHANGED stored /\ Reply(r, "PARTIAL", m)
  BY RequestIs DEF StageRaises, stored
<1>2. IsRequest(m) /\ m.number = a.number
  BY <1>1, FieldNames DEF IsRequest
<1> HIDE DEF m
<1>  QED
  BY <1>1, <1>2, AloneReply

\* Conversations that are saved.
LEMMA OutreachesSaved ==
  ASSUME AInv, UNCHANGED <<facts, contacts, opportunities, sent>>, asked \subseteq asked',
         Numbered' \in Nat, Numbered <= Numbered',
         outreaches' \in Seq(Talks), DOMAIN outreaches \subseteq DOMAIN outreaches',
         \A o \in DOMAIN outreaches : /\ outreaches'[o].opportunity = outreaches[o].opportunity
                                      /\ outreaches'[o].person = outreaches[o].person,
         \A o \in DOMAIN outreaches' :
           \/ o \in DOMAIN outreaches /\ outreaches'[o] = outreaches[o]
           \/ /\ DraftRowsThen(o, outreaches'[o].aggregate) /\ Unique(outreaches'[o].aggregate)
              /\ outreaches'[o].opportunity \in DOMAIN opportunities
  PROVE  Grown /\ OpportunitiesOK' /\ OutreachesOK'
<1>1. Grown
  <2> HIDE DEF Numbered
  <2>  QED
    BY AnalysisAssumption DEF Grown, AInv, AnalysisTypes
<1>2. ASSUME NEW o \in DOMAIN outreaches'
      PROVE  /\ DraftRowsThen(o, outreaches'[o].aggregate) /\ Unique(outreaches'[o].aggregate)
             /\ outreaches'[o].opportunity \in DOMAIN opportunities'
  <2>1. CASE o \in DOMAIN outreaches /\ outreaches'[o] = outreaches[o]
    <3>1. /\ DraftRows(o, outreaches[o].aggregate) /\ Unique(outreaches[o].aggregate)
          /\ outreaches[o].opportunity \in DOMAIN opportunities
      BY <2>1 DEF AInv, OutreachesOK
    <3>  QED
      BY <1>1, <2>1, <3>1, AggregatesStay
  <2>2. CASE /\ DraftRowsThen(o, outreaches'[o].aggregate) /\ Unique(outreaches'[o].aggregate)
             /\ outreaches'[o].opportunity \in DOMAIN opportunities
    BY <2>2
  <2>  QED
    BY <2>1, <2>2
<1>3. OutreachesOK'
  BY <1>2 DEF OutreachesOK, DraftRows, DraftRowsThen, AskedOf, AskedThen, Unique
<1>4. OpportunitiesOK'
  BY <1>1, StoredStays
<1>  QED
  BY <1>1, <1>3, <1>4

\* Saving a conversation: it stays what it is about.
LEMMA FlushedDrafts ==
  ASSUME AInv, NEW o \in DOMAIN outreaches, NEW base, NEW mine, DraftRows(o, mine),
         ~Gone(outreaches[o].aggregate, base, mine),
         ~Conflicts(outreaches[o].aggregate, base, mine),
         outreaches' = [outreaches EXCEPT ![o].aggregate = Flushed(@, base, mine)],
         UNCHANGED <<facts, contacts, opportunities, sent>>, asked \subseteq asked',
         Numbered' \in Nat, Numbered <= Numbered'
  PROVE  Grown /\ OpportunitiesOK' /\ OutreachesOK' /\ outreaches' \in Seq(Talks)
<1> DEFINE now == outreaches[o].aggregate
           g == Flushed(now, base, mine)
<1>1. DraftRows(o, now) /\ outreaches[o].opportunity \in DOMAIN opportunities
      /\ outreaches \in Seq(Talks)
  BY DEF AInv, OutreachesOK, AnalysisTypes
<1>2. DraftRows(o, g) /\ Unique(g)
  <2>1. DraftRows(o, g)
    BY <1>1, FlushedWithin DEF DraftRows
  <2>  QED
    BY <2>1, FlushedUnique
<1>3. DraftRowsThen(o, g)
  <2> DEFINE Q == AskedOf(o)  Q2 == AskedThen(o)
             H == {0} \union Q  H2 == {0} \union Q2  B == 1 .. sent  N == Nat \ {0}
  <2>1. Q \subseteq Q2 /\ H \subseteq H2
    BY DEF AskedOf, AskedThen
  <2>2. Within(g, N, H, Qualifying, B, Q)
    BY <1>2 DEF DraftRows
  <2>3. DraftRowsThen(o, g) <=> Within(g, N, H2, Qualifying, B, Q2)
    BY DEF DraftRowsThen
  <2> HIDE DEF g, Q, Q2, H, H2, B, N
  <2>4. Within(g, N, H2, Qualifying, B, Q2)
    BY <2>1, <2>2 DEF Within, Held
  <2>  QED
    BY <2>3, <2>4
<1>4. g \in Aggregates
  BY <1>2 DEF DraftRows, Within, Held
<1>5. /\ outreaches' = [outreaches EXCEPT ![o].aggregate = g]
      /\ DOMAIN outreaches' = DOMAIN outreaches
  OBVIOUS
<1> HIDE DEF g, now
<1>6. outreaches[o] \in Talks
  BY <1>1
<1>7. outreaches'[o] = [outreaches[o] EXCEPT !.aggregate = g]
  BY <1>1, <1>5
<1>8. /\ outreaches'[o] \in Talks /\ outreaches'[o].aggregate = g
      /\ outreaches'[o].opportunity = outreaches[o].opportunity
      /\ outreaches'[o].person = outreaches[o].person
  BY <1>4, <1>6, <1>7 DEF Talks
<1>9. \A p \in DOMAIN outreaches : p # o => outreaches'[p] = outreaches[p]
  BY <1>5
<1>10. outreaches' \in Seq(Talks)
  <2>1. outreaches' = [outreaches EXCEPT ![o] = outreaches'[o]]
    BY <1>1, <1>5, <1>9
  <2>  QED
    BY <1>1, <1>8, <2>1
<1>11. \A p \in DOMAIN outreaches : /\ outreaches'[p].opportunity = outreaches[p].opportunity
                                    /\ outreaches'[p].person = outreaches[p].person
  BY <1>8, <1>9
<1>12. \A p \in DOMAIN outreaches' :
         \/ p \in DOMAIN outreaches /\ outreaches'[p] = outreaches[p]
         \/ /\ DraftRowsThen(p, outreaches'[p].aggregate) /\ Unique(outreaches'[p].aggregate)
            /\ outreaches'[p].opportunity \in DOMAIN opportunities
  BY <1>1, <1>2, <1>3, <1>5, <1>8, <1>9
<1> HIDE DEF Numbered
<1>  QED
  BY <1>5, <1>10, <1>11, <1>12, OutreachesSaved

\* A request that is answered as it saved a conversation.
LEMMA DraftAnswered ==
  ASSUME AInv, NEW r \in Analyses, analysis[r].stage # "idle", Others(r),
         IsRequest(analysis'[r]),
         analysis'[r].stage = "answered", analysis'[r].number = analysis[r].number,
         analysis'[r].status = "COMPLETED", analysis'[r].judged = "qualified",
         analysis'[r].person \in contacts, analysis'[r].email = "generated",
         \E o \in DOMAIN outreaches' : /\ outreaches'[o].opportunity = analysis'[r].opportunity
                                       /\ outreaches'[o].person = analysis'[r].person,
         Grown, OpportunitiesOK', OutreachesOK', outreaches' \in Seq(Talks),
         UNCHANGED <<contacts, opportunities, approval, sent>>
  PROVE  AInv'
<1> DEFINE b == analysis'[r]
<1>1. b.number \in 1 .. sent'
  BY RequestHas DEF AnswerOK
<1>2. AnswerThen(b)
  <2>1. /\ b.status = "COMPLETED" /\ b.stage = "answered" /\ b.judged = "qualified"
        /\ b.person \in contacts' /\ b.email = "generated"
        /\ \E o \in DOMAIN outreaches' : /\ outreaches'[o].opportunity = b.opportunity
                                         /\ outreaches'[o].person = b.person
    OBVIOUS
  <2> HIDE DEF b
  <2>  QED
    BY <1>1, <2>1 DEF AnswerThen
<1>3. AssessingThen(b) /\ DraftingThen(b)
  <2>1. b.stage = "answered"
    OBVIOUS
  <2> HIDE DEF b
  <2>  QED
    BY <1>1, <1>2, <2>1, Answered
<1>4. contacts' \subseteq Persons /\ sent' <= MaxSent /\ opportunities' \in Seq(Aggregates)
  BY AnalysisAssumption DEF AInv, AnalysisTypes
<1>  QED
  BY <1>2, <1>3, <1>4, RequestMoved

\* A draft is saved, or was written by another.
LEMMA CommitDraftStep ==
  ASSUME AInv, NEW r \in Analyses, CommitDraft(r)
  PROVE  AInv'
<1> DEFINE a == analysis[r]  b == analysis'[r]
           o == a.outreach
           last == Len(outreaches)
           now == outreaches[o].aggregate
           m1 == [Making([a EXCEPT !.outreach = last + 1], "draft") EXCEPT !.email = "generated"]
           m2 == [a EXCEPT !.email = "skipped"]
           m3 == [Making(a, "draft") EXCEPT !.email = "generated"]
           t == [opportunity |-> a.opportunity, person |-> a.person, aggregate |-> a.mine]
<1>1. /\ a.stage = "commit draft" /\ IsRequest(a)
      /\ UNCHANGED <<facts, contacts, opportunities, approval, asked, sent>>
  BY RequestIs DEF CommitDraft, InStage
<1>2. /\ a.number \in 1 .. sent /\ a.status = "none" /\ a.opportunity \in DOMAIN opportunities
      /\ a.judged = "qualified" /\ a.person \in contacts
      /\ o # 0 => /\ o \in DOMAIN outreaches
                  /\ outreaches[o].opportunity = a.opportunity
                  /\ outreaches[o].person = a.person
                  /\ DraftRows(o, a.mine)
      /\ o = 0 => Fresh(a.mine)
  BY <1>1, RequestHas DEF DraftingOK, AnswerOK, Drafting
<1>3. \/ o = 0 /\ outreaches' = Append(outreaches, t) /\ Reply(r, "COMPLETED", m1)
      \/ o # 0 /\ Reply(r, "COMPLETED", m2) /\ UNCHANGED outreaches
      \/ /\ o # 0 /\ ~Gone(now, a.base, a.mine) /\ ~Conflicts(now, a.base, a.mine)
         /\ outreaches' = [outreaches EXCEPT ![o].aggregate = Flushed(@, a.base, a.mine)]
         /\ Reply(r, "COMPLETED", m3)
  BY DEF CommitDraft, Finish, Finished
<1>4. /\ IsRequest(m1) /\ m1.number = a.number /\ m1.email = "generated"
      /\ m1.judged = a.judged /\ m1.person = a.person /\ m1.opportunity = a.opportunity
      /\ IsRequest(m2) /\ m2.number = a.number /\ m2.email = "skipped"
      /\ m2.judged = a.judged /\ m2.person = a.person /\ m2.opportunity = a.opportunity
      /\ IsRequest(m3) /\ m3.number = a.number /\ m3.email = "generated"
      /\ m3.judged = a.judged /\ m3.person = a.person /\ m3.opportunity = a.opportunity
  BY <1>1, FieldNames DEF IsRequest, Making
<1> HIDE DEF m1, m2, m3
<1>5. ASSUME NEW m \in {m1, m3}, Reply(r, "COMPLETED", m)
      PROVE  /\ Others(r) /\ IsRequest(b) /\ b.stage = "answered" /\ b.number = a.number
             /\ b.status = "COMPLETED" /\ b.judged = "qualified" /\ b.person = a.person
             /\ b.opportunity = a.opportunity /\ b.email = "generated"
  <2>1. /\ IsRequest(m) /\ m.number = a.number /\ m.email = "generated"
        /\ m.judged = a.judged /\ m.person = a.person /\ m.opportunity = a.opportunity
    BY <1>4
  <2>2. /\ Others(r) /\ IsRequest(b) /\ b.stage = "answered" /\ b.status = "COMPLETED"
        /\ SameAnswer(b, m)
    BY <1>5, <2>1, ReplyIs
  <2>  QED
    BY <1>2, <2>1, <2>2, FieldNames DEF SameAnswer
<1>6. ASSUME Others(r), b.stage = "answered" PROVE Numbered' \in Nat /\ Numbered <= Numbered'
  BY <1>1, <1>6, NumberedMoves DEF Starting
<1>7. CASE o = 0 /\ outreaches' = Append(outreaches, t) /\ Reply(r, "COMPLETED", m1)
  <2>1. /\ Others(r) /\ IsRequest(b) /\ b.stage = "answered" /\ b.number = a.number
        /\ b.status = "COMPLETED" /\ b.judged = "qualified" /\ b.person = a.person
        /\ b.opportunity = a.opportunity /\ b.email = "generated"
    BY <1>5, <1>7
  <2>2. /\ outreaches \in Seq(Talks) /\ last \in Nat /\ DOMAIN outreaches = 1 .. last
        /\ contacts \subseteq Persons /\ opportunities \in Seq(Aggregates)
    BY DEF AInv, AnalysisTypes
  <2>3. t \in Talks
    BY <1>2, <1>7, <2>2 DEF Talks, Fresh, Within, Held
  <2>4. t.opportunity = a.opportunity /\ t.person = a.person /\ t.aggregate = a.mine
    OBVIOUS
  <2> HIDE DEF t
  <2>5. /\ outreaches' \in Seq(Talks) /\ DOMAIN outreaches' = 1 .. last + 1
        /\ outreaches'[last + 1] = t
        /\ \A p \in 1 .. last : outreaches'[p] = outreaches[p]
    BY <1>7, <2>2, <2>3
  <2>6. DraftRowsThen(last + 1, t.aggregate) /\ Unique(t.aggregate)
    <3>1. FreshThen(a.mine)
      BY <1>1, <1>2, <1>7 DEF Fresh, FreshThen
    <3>  QED
      BY <2>4, <3>1, FreshIsDraft
  <2>7. /\ DOMAIN outreaches \subseteq DOMAIN outreaches' /\ last + 1 \in DOMAIN outreaches'
        /\ \A p \in DOMAIN outreaches : /\ outreaches'[p].opportunity = outreaches[p].opportunity
                                        /\ outreaches'[p].person = outreaches[p].person
        /\ \A p \in DOMAIN outreaches' :
             \/ p \in DOMAIN outreaches /\ outreaches'[p] = outreaches[p]
             \/ /\ DraftRowsThen(p, outreaches'[p].aggregate) /\ Unique(outreaches'[p].aggregate)
                /\ outreaches'[p].opportunity \in DOMAIN opportunities
    BY <1>2, <2>2, <2>4, <2>5, <2>6
  <2>8. Numbered' \in Nat /\ Numbered <= Numbered'
    BY <1>6, <2>1
  <2> HIDE DEF b, last, Numbered
  <2>9. Grown /\ OpportunitiesOK' /\ OutreachesOK'
    BY <1>1, <2>5, <2>7, <2>8, OutreachesSaved
  <2>10. \E p \in DOMAIN outreaches' : /\ outreaches'[p].opportunity = b.opportunity
                                       /\ outreaches'[p].person = b.person
    BY <2>1, <2>4, <2>5, <2>7
  <2>  QED
    BY <1>1, <1>2, <2>1, <2>5, <2>9, <2>10, DraftAnswered DEF b
<1>8. CASE o # 0 /\ Reply(r, "COMPLETED", m2) /\ UNCHANGED outreaches
  <2>1. UNCHANGED stored
    BY <1>1, <1>8 DEF stored
  <2>2. m2.judged = "qualified" /\ m2.person \in contacts /\ m2.email # "failed"
        /\ \E p \in DOMAIN outreaches : /\ outreaches[p].opportunity = m2.opportunity
                                        /\ outreaches[p].person = m2.person
    BY <1>2, <1>4, <1>8
  <2>  QED
    BY <1>1, <1>4, <1>8, <2>1, <2>2, AloneReply
<1>9. CASE /\ o # 0 /\ ~Gone(now, a.base, a.mine) /\ ~Conflicts(now, a.base, a.mine)
           /\ outreaches' = [outreaches EXCEPT ![o].aggregate = Flushed(@, a.base, a.mine)]
           /\ Reply(r, "COMPLETED", m3)
  <2>1. /\ Others(r) /\ IsRequest(b) /\ b.stage = "answered" /\ b.number = a.number
        /\ b.status = "COMPLETED" /\ b.judged = "qualified" /\ b.person = a.person
        /\ b.opportunity = a.opportunity /\ b.email = "generated"
    BY <1>5, <1>9
  <2>2. Numbered' \in Nat /\ Numbered <= Numbered'
    BY <1>6, <2>1
  <2> HIDE DEF Numbered
  <2>3. asked \subseteq asked'
    BY <1>1
  <2>4. Grown /\ OpportunitiesOK' /\ OutreachesOK' /\ outreaches' \in Seq(Talks)
    BY <1>1, <1>2, <1>9, <2>2, <2>3, FlushedDrafts
  <2>5. \E p \in DOMAIN outreaches' : /\ outreaches'[p].opportunity = b.opportunity
                                      /\ outreaches'[p].person = b.person
    BY <1>2, <1>9, <2>1, <2>4 DEF Grown
  <2> HIDE DEF b
  <2>  QED
    BY <1>1, <1>2, <2>1, <2>4, <2>5, DraftAnswered DEF b
<1>  QED
  BY <1>3, <1>7, <1>8, <1>9

(***************************************************************************)
(* The steps of an approver                                                *)
(***************************************************************************)

IsApproval(x) == x = [f \in ApprovalFields |-> x[f]]

\* The fields of an approval.
LEMMA ApprovalFieldNames == ApprovalFields = {"stage", "outreach", "mine", "base"}
BY DEF ApprovalFields, NoApproval

ApprovalThen(x) ==
  x.stage # "idle" => x.outreach \in DOMAIN outreaches' /\ DraftRowsThen(x.outreach, x.mine)

\* No request moves.
LEMMA NumberedStays ==
  ASSUME AInv, UNCHANGED <<analysis, sent>>
  PROVE  Numbered' \in Nat /\ Numbered <= Numbered'
<1>1. Numbered' = Numbered
  BY DEF Numbered, Waiting, Starting
<1>2. Numbered \in Nat
  BY DEF AInv
<1> HIDE DEF Numbered
<1>  QED
  BY <1>1, <1>2

\* The invariant after a step of one approver.
LEMMA ApproverMoved ==
  ASSUME AInv, Grown, NEW v \in Approvers, NEW x, IsApproval(x), ApprovalThen(x),
         approval' = [approval EXCEPT ![v] = x],
         UNCHANGED <<facts, contacts, opportunities, analysis, sent>>,
         outreaches' \in Seq(Talks), OpportunitiesOK', OutreachesOK'
  PROVE  AInv'
<1>1. /\ approval' = [w \in Approvers |-> approval'[w]] /\ approval'[v] = x
      /\ \A w \in Approvers \ {v} : approval'[w] = approval[w]
  BY DEF AInv, AnalysisTypes
<1>2. AnalysisTypes'
  <2>1. \A w \in Approvers : approval'[w] = [f \in ApprovalFields |-> approval'[w][f]]
    <3>1. \A w \in Approvers : approval[w] = [f \in ApprovalFields |-> approval[w][f]]
      BY DEF AInv, AnalysisTypes
    <3>  QED
      BY <1>1, <3>1 DEF IsApproval
  <2>2. /\ facts \in 0 .. MaxFacts /\ contacts \subseteq Persons /\ sent \in 0 .. MaxSent
        /\ opportunities \in Seq(Aggregates)
        /\ analysis = [r \in Analyses |-> analysis[r]]
        /\ \A r \in Analyses : analysis[r] = [f \in Fields |-> analysis[r][f]]
    BY DEF AInv, AnalysisTypes
  <2>  QED
    BY <1>1, <2>1, <2>2 DEF AnalysisTypes, Fields, ApprovalFields
<1>3. \A r \in Analyses : RequestOK(r)'
  BY RequestStays
<1>4. ApprovalOK(v)'
  <2>1. DraftRows(approval[v].outreach, approval[v].mine)' <=> DraftRowsThen(x.outreach, x.mine)
    BY <1>1 DEF DraftRows, DraftRowsThen, AskedOf, AskedThen
  <2>  QED
    BY <1>1, <2>1 DEF ApprovalOK, ApprovalThen
<1>5. \A w \in Approvers : ApprovalOK(w)'
  BY <1>1, <1>4, ApprovalStays
<1>6. Numbered' \in Nat
  BY DEF Grown
<1>  QED
  BY <1>2, <1>3, <1>5, <1>6 DEF AInv

\* Somebody asks to approve a version.
LEMMA LoadForApprovalStep ==
  ASSUME AInv, NEW v \in Approvers, LoadForApproval(v)
  PROVE  AInv'
<1>1. PICK o \in DOMAIN outreaches : \E version \in DOMAIN outreaches[o].aggregate.rows :
        /\ approval' = [approval EXCEPT ![v] =
             [NoApproval EXCEPT !.stage = "merge", !.outreach = o,
                                !.mine = Approve(outreaches[o].aggregate, version)]]
        /\ asked' = asked \union {<<o, version>>}
  BY DEF LoadForApproval
<1>2. PICK version \in DOMAIN outreaches[o].aggregate.rows :
        /\ approval' = [approval EXCEPT ![v] =
             [NoApproval EXCEPT !.stage = "merge", !.outreach = o,
                                !.mine = Approve(outreaches[o].aggregate, version)]]
        /\ asked' = asked \union {<<o, version>>}
  BY <1>1
<1> DEFINE now == outreaches[o].aggregate
           g == Approve(now, version)
           x == [NoApproval EXCEPT !.stage = "merge", !.outreach = o, !.mine = g]
<1>3. UNCHANGED <<facts, contacts, opportunities, outreaches, analysis, sent>>
  BY DEF LoadForApproval
<1>4. approval' = [approval EXCEPT ![v] = x] /\ asked' = asked \union {<<o, version>>}
  BY <1>2
<1>5. Numbered' \in Nat /\ Numbered <= Numbered'
  BY <1>3, NumberedStays
<1>6. Grown
  <2> HIDE DEF Numbered, x
  <2>  QED
    BY <1>3, <1>4, <1>5, AnalysisAssumption DEF Grown, AInv, AnalysisTypes
<1>7. OpportunitiesOK' /\ OutreachesOK'
  BY <1>3, <1>6, StoredStays
<1>8. DraftRowsThen(o, g)
  <2> DEFINE Q == AskedThen(o)  H == {0} \union Q  B == 1 .. sent'  N == Nat \ {0}
  <2>1. DraftRows(o, now)
    BY DEF AInv, OutreachesOK
  <2>2. DraftRowsThen(o, now)
    BY <1>6, <2>1, AggregatesStay
  <2>3. Within(now, N, H, Qualifying, B, Q)
    BY <2>2 DEF DraftRowsThen
  <2>4. version \in N
    BY <2>3, <1>2 DEF Within, Held
  <2>5. version \in Q /\ version \in H
    BY <1>4, <2>4 DEF AskedThen
  <2>6. version \in DOMAIN now.rows
    BY <1>2
  <2>7. DraftRowsThen(o, g) <=> Within(g, N, H, Qualifying, B, Q)
    BY DEF DraftRowsThen
  <2> HIDE DEF now, Q, H, B, N
  <2>  QED
    BY <2>3, <2>5, <2>6, <2>7, ApproveIs
<1>9. IsApproval(x) /\ x.outreach = o /\ x.mine = g
  BY DEF IsApproval, ApprovalFields, NoApproval
<1> HIDE DEF x, g
<1>10. ApprovalThen(x)
  BY <1>3, <1>8, <1>9 DEF ApprovalThen
<1>11. outreaches' \in Seq(Talks)
  BY <1>3 DEF AInv, AnalysisTypes
<1>  QED
  BY <1>3, <1>4, <1>6, <1>7, <1>9, <1>10, <1>11, ApproverMoved

\* The conversation is loaded to be saved.
LEMMA MergeApprovalStep ==
  ASSUME AInv, NEW v \in Approvers, MergeApproval(v)
  PROVE  AInv'
<1> DEFINE a == approval[v]
           x == [a EXCEPT !.stage = "commit", !.base = outreaches[a.outreach].aggregate]
<1>1. /\ a.stage = "merge" /\ UNCHANGED <<facts, contacts, opportunities, outreaches, analysis,
                                          asked, sent>>
      /\ approval' = [approval EXCEPT ![v] = x]
  BY DEF MergeApproval, AInv, AnalysisTypes
<1>2. Numbered' \in Nat /\ Numbered <= Numbered'
  BY <1>1, NumberedStays
<1>3. Grown
  <2> HIDE DEF Numbered, x
  <2>  QED
    BY <1>1, <1>2, AnalysisAssumption DEF Grown, AInv, AnalysisTypes
<1>4. OpportunitiesOK' /\ OutreachesOK'
  BY <1>1, <1>3, StoredStays
<1>5. a.outreach \in DOMAIN outreaches /\ DraftRowsThen(a.outreach, a.mine)
  BY <1>1, <1>3, AggregatesStay DEF AInv, ApprovalOK
<1>6. IsApproval(x) /\ x.outreach = a.outreach /\ x.mine = a.mine
  <2>1. IsApproval(a)
    BY DEF AInv, AnalysisTypes, IsApproval
  <2> HIDE DEF a
  <2>  QED
    BY <2>1, ApprovalFieldNames DEF IsApproval
<1> HIDE DEF x
<1>7. ApprovalThen(x)
  BY <1>1, <1>5, <1>6 DEF ApprovalThen
<1>8. outreaches' \in Seq(Talks)
  BY <1>1 DEF AInv, AnalysisTypes
<1>  QED
  BY <1>1, <1>3, <1>4, <1>6, <1>7, <1>8, ApproverMoved

\* The approval is saved, or the commit fails.
LEMMA CommitApprovalStep ==
  ASSUME AInv, NEW v \in Approvers, CommitApproval(v)
  PROVE  AInv'
<1> DEFINE a == approval[v]
           now == outreaches[a.outreach].aggregate
<1>1. /\ a.stage = "commit" /\ approval' = [approval EXCEPT ![v] = NoApproval]
      /\ UNCHANGED <<facts, contacts, opportunities, analysis, asked, sent>>
  BY DEF CommitApproval
<1>2. Numbered' \in Nat /\ Numbered <= Numbered'
  BY <1>1, NumberedStays
<1>3. a.outreach \in DOMAIN outreaches /\ DraftRows(a.outreach, a.mine)
  BY <1>1 DEF AInv, ApprovalOK
<1>4. Grown /\ OpportunitiesOK' /\ OutreachesOK' /\ outreaches' \in Seq(Talks)
  <2>1. CASE UNCHANGED outreaches
    <3>1. Grown
      <4> HIDE DEF Numbered
      <4>  QED
        BY <1>1, <1>2, <2>1, AnalysisAssumption DEF Grown, AInv, AnalysisTypes
    <3>  QED
      BY <1>1, <2>1, <3>1, StoredStays DEF AInv, AnalysisTypes
  <2>2. CASE /\ ~Gone(now, a.base, a.mine) /\ ~Conflicts(now, a.base, a.mine)
             /\ outreaches' = [outreaches EXCEPT ![a.outreach].aggregate =
                                  Flushed(@, a.base, a.mine)]
    <3> HIDE DEF Numbered
    <3>1. asked \subseteq asked'
      BY <1>1
    <3>  QED
      BY <1>1, <1>2, <1>3, <2>2, <3>1, FlushedDrafts
  <2>  QED
    BY <2>1, <2>2 DEF CommitApproval
<1>5. IsApproval(NoApproval) /\ ApprovalThen(NoApproval)
  BY DEF IsApproval, ApprovalFields, NoApproval, ApprovalThen
<1>  QED
  BY <1>1, <1>4, <1>5, ApproverMoved

(***************************************************************************)
(* The invariant holds, and what it implies                                *)
(***************************************************************************)

\* Nothing has been asked for at first.
LEMMA AnalysisStarts == AnalysisInit => AInv
<1> SUFFICES ASSUME AnalysisInit PROVE AInv
  OBVIOUS
<1>1. /\ facts = 0 /\ contacts = {} /\ opportunities = <<>> /\ outreaches = <<>> /\ sent = 0
      /\ analysis = [r \in Analyses |-> NoRequest]
      /\ approval = [v \in Approvers |-> NoApproval]
  BY DEF AnalysisInit
<1>2. AnalysisTypes
  <2>1. 0 \in 0 .. MaxFacts /\ 0 \in 0 .. MaxSent
    BY AnalysisAssumption
  <2>2. IsRequest(NoRequest) /\ IsApproval(NoApproval)
    BY DEF IsRequest, Fields, IsApproval, ApprovalFields, NoRequest, NoApproval
  <2>3. opportunities \in Seq(Aggregates) /\ outreaches \in Seq(Talks)
    BY <1>1
  <2>4. /\ \A r \in Analyses : analysis[r] = [f \in Fields |-> analysis[r][f]]
        /\ \A v \in Approvers : approval[v] = [f \in ApprovalFields |-> approval[v][f]]
    BY <1>1, <2>2 DEF IsRequest, IsApproval
  <2>5. /\ analysis = [r \in Analyses |-> analysis[r]]
        /\ approval = [v \in Approvers |-> approval[v]]
    BY <1>1
  <2>  QED
    BY <1>1, <2>1, <2>3, <2>4, <2>5 DEF AnalysisTypes
<1>3. Numbered \in Nat
  <2>1. Waiting = {}
    BY <1>1 DEF Waiting, Starting, NoRequest
  <2>  QED
    BY <1>1, <2>1, FS_EmptySet DEF Numbered
<1>4. OpportunitiesOK /\ OutreachesOK
  BY <1>1 DEF OpportunitiesOK, OutreachesOK
<1>5. \A r \in Analyses : RequestOK(r)
  <2> SUFFICES ASSUME NEW r \in Analyses PROVE RequestOK(r)
    OBVIOUS
  <2>1. analysis[r].stage = "idle" /\ analysis[r].status = "none"
    BY <1>1 DEF NoRequest
  <2>  QED
    BY <2>1 DEF RequestOK, AssessingOK, DraftingOK, AnswerOK, Starting, Drafting
<1>6. \A v \in Approvers : ApprovalOK(v)
  BY <1>1 DEF ApprovalOK, NoApproval
<1>  QED
  BY <1>2, <1>3, <1>4, <1>5, <1>6 DEF AInv

\* Every step keeps the invariant.
LEMMA AnalysisSteps == AInv /\ [AnalysisNext]_analysisVars => AInv'
<1> SUFFICES ASSUME AInv, [AnalysisNext]_analysisVars PROVE AInv'
  OBVIOUS
<1>1. CASE AnalysisNext
  <2>1. ASSUME NEW r \in Analyses,
               \/ SendRequest(r) \/ IngestSource(r) \/ IngestRaises(r) \/ CompanyDone(r)
               \/ Assess(r) \/ Judge(r) \/ MergeOpportunity(r) \/ CommitOpportunity(r)
        PROVE  AInv'
    BY <2>1, SendRequestStep, IngestSourceStep, IngestRaisesStep, CompanyDoneStep, AssessStep,
       JudgeStep, MergeOpportunityStep, CommitOpportunityStep
  <2>2. ASSUME NEW r \in Analyses,
               \/ IngestContact(r) \/ Decide(r) \/ ReadForDraft(r) \/ Generate(r)
               \/ MergeDraft(r) \/ CommitDraft(r) \/ StageRaises(r)
        PROVE  AInv'
    BY <2>2, IngestContactStep, DecideStep, ReadForDraftStep, GenerateStep, MergeDraftStep,
       CommitDraftStep, StageRaisesStep
  <2>3. ASSUME NEW v \in Approvers,
               LoadForApproval(v) \/ MergeApproval(v) \/ CommitApproval(v)
        PROVE  AInv'
    BY <2>3, LoadForApprovalStep, MergeApprovalStep, CommitApprovalStep
  <2>  QED
    BY <1>1, <2>1, <2>2, <2>3 DEF AnalysisNext
<1>2. CASE UNCHANGED analysisVars
  <2>1. UNCHANGED stored /\ UNCHANGED analysis
    BY <1>2 DEF analysisVars, stored
  <2>2. Numbered' \in Nat /\ Numbered <= Numbered'
    BY <2>1, NumberedStays DEF stored
  <2>3. Grown
    <3> HIDE DEF Numbered
    <3>  QED
      BY <2>1, <2>2, AnalysisAssumption DEF stored, Grown, AInv, AnalysisTypes
  <2>4. OpportunitiesOK' /\ OutreachesOK'
    BY <2>1, <2>3, StoredStays DEF stored
  <2>5. (\A r \in Analyses : RequestOK(r)') /\ (\A v \in Approvers : ApprovalOK(v)')
    BY <2>1, <2>3, RequestStays, ApprovalStays DEF stored
  <2>6. AnalysisTypes'
    BY <2>1 DEF stored, AInv, AnalysisTypes, Fields, ApprovalFields
  <2>  QED
    BY <2>2, <2>4, <2>5, <2>6 DEF AInv
<1>  QED
  BY <1>1, <1>2

\* The requests number no more rows than there are.
LEMMA NothingIsDoneTwiceNow == AInv => NothingIsDoneTwice
<1> SUFFICES ASSUME AInv PROVE NothingIsDoneTwice
  OBVIOUS
<1>1. 1 .. Numbered \subseteq 1 .. MaxSent
  <2>1. Cardinality(Waiting) \in Nat /\ sent \in Nat /\ sent <= MaxSent /\ Numbered \in Nat
        /\ MaxSent \in Nat
    BY WaitingIs, AnalysisAssumption DEF AInv, AnalysisTypes
  <2>2. Numbered <= sent
    BY <2>1 DEF Numbered
  <2> HIDE DEF Numbered
  <2>  QED
    BY <2>1, <2>2
<1>2. \A o \in DOMAIN opportunities : IsOpportunity(opportunities[o]) /\ Unique(opportunities[o])
  BY <1>1 DEF AInv, OpportunitiesOK, OpportunityRows, Within, Held, IsOpportunity
<1>3. \A o \in DOMAIN outreaches : outreaches[o] \in Talks
  BY DEF AInv, AnalysisTypes
<1>4. \A o \in DOMAIN outreaches :
        IsOutreach(outreaches[o]) /\ Unique(outreaches[o].aggregate)
  BY <1>3 DEF AInv, OutreachesOK, DraftRows, Within, Held, IsOutreach, Talks
<1>5. AnalysisTypeOK
  BY <1>2, <1>4 DEF AInv, AnalysisTypes, AnalysisTypeOK
<1>  QED
  BY <1>2, <1>4, <1>5 DEF NothingIsDoneTwice, Unique

\* Only what was asked for is approved.
LEMMA ApprovalsAreHumanNow == AInv => ApprovalsAreHuman
BY DEF AInv, OutreachesOK, DraftRows, Within, Held, AskedOf, ApprovalsAreHuman

\* A completed request has its conversation.
LEMMA AnswersAreHonestNow == AInv => AnswersAreHonest
<1> SUFFICES ASSUME AInv, NEW r \in Analyses
             PROVE  /\ analysis[r].status \in {"REJECTED", "FAILED"} => analysis[r].made = {}
                    /\ analysis[r].status = "COMPLETED" =>
                         /\ analysis[r].judged = "qualified" /\ analysis[r].person \in contacts
                         /\ analysis[r].generate =>
                              /\ analysis[r].email # "failed"
                              /\ Conversation(analysis[r].opportunity, analysis[r].person) # 0
  BY DEF AnswersAreHonest
<1>1. AnswerOK(r)
  BY RequestHas
<1>  QED
  BY <1>1, ConversationIs DEF AnswerOK

\* Whatever the requests and approvers interleave, the invariant holds.
THEOREM AnalysisInvariant == AnalysisSpec => []AInv
  BY AnalysisStarts, AnalysisSteps, PTL DEF AnalysisSpec

\* The same facts are assessed once in a history, and the same context is
\* drafted once in a conversation.
THEOREM DoneOnce == AnalysisSpec => []NothingIsDoneTwice
  BY AnalysisInvariant, NothingIsDoneTwiceNow, PTL

\* No save of a request approves a draft: every approval was asked for.
THEOREM HumansApprove == AnalysisSpec => []ApprovalsAreHuman
  BY AnalysisInvariant, ApprovalsAreHumanNow, PTL

\* A request that answers "completed" has what it says, one that answers
\* "rejected" or "failed" left nothing.
THEOREM HonestAnswers == AnalysisSpec => []AnswersAreHonest
  BY AnalysisInvariant, AnswersAreHonestNow, PTL

==============================================================================
