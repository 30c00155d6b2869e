----------------------- MODULE ImportResolution_proofs -----------------------
(***************************************************************************)
(* Proofs about ImportResolution for any number of rows, workers, clients, *)
(* jobs and faults, whichever rows carry what.                             *)
(*                                                                         *)
(* IInv ties workers to jobs and decisions to what they may name; it says  *)
(* what an index that grew stale may still differ in from the tables, that *)
(* links and the external id are those of the decisions, and it bounds     *)
(* every counter by the rows it counts: a resubmission writes older        *)
(* counters back, which never exceed what the rows account for.  Without   *)
(* one (MaxJobs = 1) they are equal, which EInv adds.                      *)
(*                                                                         *)
(* Then about ImportEvidence, for any uploads of any files: UInv, and      *)
(* about CompanyDiscovery, for any prompts and requests: DInv.             *)
(***************************************************************************)
EXTENDS ImportResolution, ImportEvidence, CompanyDiscovery, ProspectJob_proofs, Order_proofs,
        SequenceTheorems, FiniteSetTheorems

\* The types, with counters that are any numbers.
LooseCounters == [processed : Nat, created : Nat, reused : Nat, reviews : Nat,
                  contactsCreated : Nat, contactsReused : Nat, links : Nat, failed : Nat]
ResolutionStatuses == {"absent", "failed"} \union Waiting \union Done
LooseResolutions == [status : ResolutionStatuses, count : LooseCounters]
LooseRequests == [asked : BOOLEAN, read : LooseResolutions]

LooseTypeOK ==
  /\ resolution \in LooseResolutions
  /\ decisions \in [company : [Rows -> Decisions], contact : [Rows -> Decisions]]
  /\ tables \in Tables
  /\ jobs \in Seq(JobRows) /\ Len(jobs) <= MaxJobs
  /\ pc \in [Workers -> Labels]
  /\ me \in [Workers -> Locals]
  /\ request \in [Clients -> LooseRequests]
  /\ faults \in 0 .. MaxFaults

\* A decision names an entity unless it is none or a rejection, and without
\* a kind there is no decision.
WellFormed(d, entities) ==
  /\ d.kind \notin {"none", "rejected"} => d.entity \in entities
  /\ d.kind = "none" => d = Undecided

DecisionsOK ==
  \A r \in Rows :
    /\ WellFormed(decisions.company[r], Companies)
    /\ WellFormed(decisions.contact[r], Contacts)
    /\ decisions.company[r] = Undecided => decisions.contact[r] = Undecided

RowsOK == \A j \in DOMAIN jobs : RowConsistent(jobs[j])

Idle == {"recover", "claim", "down"}
WorkersOK == \A w \in Workers : pc[w] \notin Idle => me[w].job \in DOMAIN jobs

\* What a worker has done is decided, and so are the rows it went past.  Its
\* index lacks what others added, but has nothing that the tables lack.
Fits(l) ==
  /\ \A r \in Rows : r \in l.done \/ r <= l.after => decisions.company[r] # Undecided
  /\ l.index.identity \in {None, tables.identity}
  /\ l.index.links \subseteq tables.links
LocalsOK == \A w \in Workers : Fits(me[w])

------------------------------------------------------------------------------
Names == DOMAIN Zero

OfKind(type, kinds) == {r \in Rows : decisions[type][r].kind \in kinds}
Both(r) == Resolves(decisions.company[r]) /\ Resolves(decisions.contact[r])
Rejected == {r \in Rows : \/ decisions.company[r] = Decision("rejected", None)
                          \/ decisions.contact[r] = Decision("rejected", None)}

\* The rows that a counter counts; one that was reviewed was under review.
Counted ==
  [processed |-> OfKind("company", Kinds \ {"none"}),
   created |-> OfKind("company", {"auto_create", "keep_separate"}),
   reused |-> OfKind("company", {"auto_merge", "manual_merge"}),
   reviews |-> {r \in Rows : \/ decisions.company[r].kind = "review_required"
                             \/ decisions.company[r].reviewed},
   contactsCreated |-> OfKind("contact", {"auto_create", "keep_separate"}),
   contactsReused |-> OfKind("contact", {"auto_merge", "manual_merge"}),
   links |-> {r \in Rows : Both(r)},
   failed |-> Rejected]

Accounted(count, counted) ==
  \A x \in Names : count[x] \in Nat /\ count[x] <= Cardinality(counted[x])

CInv ==
  /\ Accounted(resolution.count, Counted)
  /\ \A k \in Clients : Accounted(request[k].read.count, Counted)

IInv ==
  /\ LooseTypeOK /\ RowsOK /\ WorkersOK /\ DecisionsOK /\ LocalsOK /\ CInv
  /\ ResolvedPairsAreLinked /\ ExternalIdIsDecisive /\ DoneIsWhole

\* Before the first job there is nothing to be written back.
Untouched ==
  jobs = <<>> => /\ resolution = Absent
                 /\ \A k \in Clients : request[k].read = Absent
                 /\ \A r \in Rows : decisions.company[r] = Undecided

\* What the counters are exactly; a link is counted, not its row.
Exact ==
  [Counted EXCEPT !.reviews = OfKind("company", {"review_required"}), !.links = tables.links]

AgreesWith(count, exact) == \A x \in Names : count[x] = Cardinality(exact[x])

EInv == IsFiniteSet(tables.links) /\ AgreesWith(resolution.count, Exact) /\ Untouched

\* What DecidedOnce says of a step, and that no decision is taken back.
Once ==
  \A r \in Rows :
    /\ decisions'.company[r] # decisions.company[r] =>
         /\ decisions'.company[r].kind # "none"
         /\ \/ decisions.company[r] = Undecided
            \/ decisions.company[r].kind = "review_required" /\ decisions'.company[r].reviewed
    /\ decisions'.contact[r] # decisions.contact[r] =>
         \/ decisions.contact[r] = Undecided
         \/ decisions.contact[r].kind = "review_required" /\ decisions'.contact[r].reviewed

------------------------------------------------------------------------------
(***************************************************************************)
(* What a row adds to the tables                                           *)
(***************************************************************************)
LEMMA WithCompanyOK ==
  ASSUME NEW store \in Tables, NEW r \in Rows, NEW d \in Decisions, WellFormed(d, Companies)
  PROVE  /\ WithCompany(store, r, d) \in Tables
         /\ WithCompany(store, r, d).links = store.links
         /\ WithCompany(store, r, d).identity =
              IF Resolves(d) /\ r \in External /\ store.identity = None
              THEN d.entity ELSE store.identity
<1>1. CASE ~Resolves(d)
  BY <1>1 DEF WithCompany
<1>2. CASE Resolves(d)
  <2> DEFINE a == [store EXCEPT !.companies = @ \union {d.entity}]
             p == [store.profile EXCEPT ![d.entity] = Filled(@, r)]
             b == [a EXCEPT !.profile = p]
             i == IF r \in External /\ store.identity = None THEN d.entity ELSE store.identity
  <2>1. d.entity \in Companies  BY <1>2 DEF WellFormed, Resolves, Automatic
  <2>2. a \in Tables /\ a.profile = store.profile /\ a.identity = store.identity
        /\ a.links = store.links
    BY <2>1 DEF Tables
  <2>3. p \in [Companies -> Profiles]
    BY <2>1, ResolutionAssumption DEF Tables, Filled, Profiles
  <2> HIDE DEF a, p
  <2>4. b \in Tables /\ b.identity = store.identity /\ b.links = store.links
    BY <2>2, <2>3 DEF Tables
  <2>5. WithCompany(store, r, d) = [b EXCEPT !.identity = i]
    BY <1>2, <2>2 DEF WithCompany, a, p
  <2>6. i \in Companies \union {None}  BY <2>1 DEF Tables
  <2> HIDE DEF b, i
  <2>7. [b EXCEPT !.identity = i] \in Tables /\ [b EXCEPT !.identity = i].links = b.links
        /\ [b EXCEPT !.identity = i].identity = i
    BY <2>4, <2>6 DEF Tables
  <2> QED  BY <1>2, <2>4, <2>5, <2>7 DEF i
<1> QED  BY <1>1, <1>2

\* The same of a contact, which touches neither links nor identity.
LEMMA WithPersonOK ==
  ASSUME NEW store \in Tables, NEW d \in Decisions, WellFormed(d, Contacts)
  PROVE  /\ WithPerson(store, d) \in Tables
         /\ WithPerson(store, d).links = store.links
         /\ WithPerson(store, d).identity = store.identity
<1>1. Resolves(d) => d.entity \in Contacts  BY DEF WellFormed, Resolves, Automatic
<1> QED  BY <1>1 DEF WithPerson, Tables

\* A link is added when both are resolved.
LEMMA LinkedOK ==
  ASSUME NEW store \in Tables, NEW company \in Decisions, NEW contact \in Decisions,
         WellFormed(company, Companies), WellFormed(contact, Contacts)
  PROVE  /\ Linked(store, company, contact) \in Tables
         /\ Linked(store, company, contact).identity = store.identity
         /\ Linked(store, company, contact).links =
              IF Resolves(company) /\ Resolves(contact)
              THEN store.links \union {<<company.entity, contact.entity>>} ELSE store.links
<1>1. Resolves(company) => company.entity \in Companies
  BY DEF WellFormed, Resolves, Automatic
<1>2. Resolves(contact) => contact.entity \in Contacts
  BY DEF WellFormed, Resolves, Automatic
<1> QED  BY <1>1, <1>2 DEF Linked, Tables

\* The three together: what a row makes of an index.
LEMMA ResolvedOK ==
  ASSUME NEW index \in Tables, NEW r \in Rows,
         NEW company \in Decisions, NEW contact \in Decisions,
         WellFormed(company, Companies), WellFormed(contact, Contacts)
  PROVE  /\ Resolved(index, r, company, contact) \in Tables
         /\ Resolved(index, r, company, contact).identity =
              IF Resolves(company) /\ r \in External /\ index.identity = None
              THEN company.entity ELSE index.identity
         /\ Resolved(index, r, company, contact).links =
              IF Resolves(company) /\ Resolves(contact)
              THEN index.links \union {<<company.entity, contact.entity>>} ELSE index.links
<1> DEFINE a == WithCompany(index, r, company)
           b == WithPerson(a, contact)
<1>1. /\ a \in Tables /\ a.links = index.links
      /\ a.identity = IF Resolves(company) /\ r \in External /\ index.identity = None
                      THEN company.entity ELSE index.identity
  BY WithCompanyOK
<1> HIDE DEF a
<1>2. b \in Tables /\ b.links = a.links /\ b.identity = a.identity
  BY <1>1, WithPersonOK
<1> HIDE DEF b
<1>3. Resolved(index, r, company, contact) = Linked(b, company, contact)
  BY DEF Resolved, a, b
<1>4. /\ Linked(b, company, contact) \in Tables
      /\ Linked(b, company, contact).identity = b.identity
      /\ Linked(b, company, contact).links =
           IF Resolves(company) /\ Resolves(contact)
           THEN b.links \union {<<company.entity, contact.entity>>} ELSE b.links
  BY <1>2, LinkedOK
<1> QED  BY <1>1, <1>2, <1>3, <1>4

\* What the matcher decides is well formed, is not under review by anybody,
\* and follows the external id that the index has.
LEMMA CompanyMatchOK ==
  ASSUME NEW index \in Tables, NEW r \in Rows, NEW d \in CompanyMatches(r, index)
  PROVE  /\ d \in Decisions /\ WellFormed(d, Companies) /\ ~d.reviewed
         /\ d.kind \in {"auto_create", "auto_merge", "review_required", "rejected"}
         /\ d.kind = "rejected" => d = Decision("rejected", None)
         /\ r \in External /\ index.identity # None => d.entity = index.identity
<1>1. r \in Companies /\ index.companies \subseteq Companies
      /\ index.identity \in Companies \union {None}
  BY DEF Companies, Tables
<1>2. PICK kind, entity :
        /\ d = Decision(kind, entity)
        /\ \/ kind \in {"auto_create", "auto_merge", "review_required"} /\ entity \in Companies
           \/ kind = "rejected" /\ entity = None
        /\ r \in External /\ index.identity # None => entity = index.identity
  <2>1. CASE r \in External /\ index.identity # None
    BY <1>1, <2>1 DEF CompanyMatches
  <2>2. CASE ~(r \in External /\ index.identity # None)
    BY <1>1, <2>2 DEF CompanyMatches
  <2> QED  BY <2>1, <2>2
<1> QED  BY <1>2 DEF Decision, Decisions, Kinds, Automatic, WellFormed

\* The same of the contact; without contact data there is no decision.
LEMMA ContactMatchOK ==
  ASSUME NEW index \in Tables, NEW r \in Rows, NEW company \in Decisions,
         NEW d \in ContactMatches(r, company, index)
  PROVE  /\ d \in Decisions /\ WellFormed(d, Contacts) /\ ~d.reviewed
         /\ d.kind \in {"none", "auto_create", "auto_merge", "review_required", "rejected"}
         /\ d.kind = "rejected" => d = Decision("rejected", None)
<1>1. r \in Contacts /\ index.contacts \subseteq Contacts /\ Contacts \subseteq Companies
  BY DEF Companies, Tables, Contacts
<1>2. PICK kind, entity :
        /\ d = Decision(kind, entity)
        /\ \/ kind \in {"auto_create", "auto_merge", "review_required"} /\ entity \in Contacts
           \/ kind \in {"none", "rejected"} /\ entity = None
  <2>1. CASE r \notin WithContact
    BY <2>1 DEF ContactMatches, Undecided
  <2>2. CASE r \in WithContact
    BY <1>1, <2>2 DEF ContactMatches
  <2> QED  BY <2>1, <2>2
<1> QED  BY <1>1, <1>2 DEF Decision, Decisions, Kinds, Automatic, WellFormed, Undecided

\* So is what a reviewer decides.
LEMMA ReviewOK ==
  ASSUME NEW r \in Rows, NEW old \in Decisions, NEW entities, WellFormed(old, entities),
         entities \subseteq Companies, r \in entities,
         old.kind = "review_required", NEW d \in Reviews(r, old)
  PROVE  /\ d \in Decisions /\ WellFormed(d, entities) /\ d.reviewed
         /\ d.kind \in {"manual_merge", "keep_separate", "rejected"}
<1>1. old.entity \in entities  BY DEF WellFormed
<1>2. PICK kind, entity :
        /\ d = Reviewed(old, kind, entity)
        /\ \/ kind \in {"manual_merge", "keep_separate"} /\ entity \in entities
           \/ kind = "rejected" /\ entity = None
  BY <1>1 DEF Reviews, Reviewed
<1> QED  BY <1>2 DEF Reviewed, Decisions, Kinds, Automatic, WellFormed

------------------------------------------------------------------------------
(***************************************************************************)
(* Counting                                                                *)
(***************************************************************************)
LEMMA NamesAre ==
  Names = {"processed", "created", "reused", "reviews", "contactsCreated", "contactsReused",
           "links", "failed"}
BY DEF Names, Zero

\* The rows are as many as NRows says.
LEMMA RowsFinite == IsFiniteSet(Rows) /\ Cardinality(Rows) = NRows
<1>1. NRows \in Nat /\ 1 \in Int  BY ResolutionAssumption
<1>2. IsFiniteSet(1 .. NRows) /\ Cardinality(1 .. NRows) = IF 1 > NRows THEN 0 ELSE NRows - 1 + 1
  BY <1>1, FS_Interval
<1> QED  BY <1>1, <1>2 DEF Rows

\* The rows of a counter, before and after a step.
LEMMA CountedFinite ==
  \A x \in Names : /\ Counted[x] \subseteq Rows /\ Counted'[x] \subseteq Rows
                   /\ IsFiniteSet(Counted[x]) /\ IsFiniteSet(Counted'[x])
<1>1. \A x \in Names : Counted[x] \subseteq Rows
  BY NamesAre DEF Counted, OfKind, Rejected
<1>2. \A x \in Names : Counted'[x] \subseteq Rows
  BY NamesAre DEF Counted, OfKind, Rejected
<1> QED  BY <1>1, <1>2, RowsFinite, FS_Subset

\* A bound on a counter survives a step that counts a row that joins.
LEMMA AccountedStep ==
  ASSUME NEW count, NEW new, NEW S, NEW T, Accounted(count, S),
         \A x \in Names :
           /\ S[x] \subseteq T[x] /\ IsFiniteSet(T[x]) /\ new[x] \in Nat
           /\ new[x] <= count[x] \/ (new[x] <= count[x] + 1 /\ S[x] # T[x])
  PROVE  Accounted(new, T)
<1> SUFFICES ASSUME NEW x \in Names
             PROVE  new[x] \in Nat /\ new[x] <= Cardinality(T[x])
  BY DEF Accounted
<1>1. /\ IsFiniteSet(S[x]) /\ Cardinality(S[x]) <= Cardinality(T[x])
      /\ Cardinality(S[x]) = Cardinality(T[x]) => S[x] = T[x]
  BY FS_Subset
<1>2. Cardinality(S[x]) \in Nat /\ Cardinality(T[x]) \in Nat
  BY <1>1, FS_CardinalityType
<1>3. count[x] \in Nat /\ count[x] <= Cardinality(S[x])  BY DEF Accounted
<1> QED  BY <1>1, <1>2, <1>3

\* So does the bound on counters that somebody read before.
LEMMA AccountedGrows ==
  ASSUME NEW count, NEW S, NEW T, Accounted(count, S),
         \A x \in Names : S[x] \subseteq T[x] /\ IsFiniteSet(T[x])
  PROVE  Accounted(count, T)
<1> SUFFICES ASSUME NEW x \in Names
             PROVE  count[x] \in Nat /\ count[x] <= Cardinality(T[x])
  BY DEF Accounted
<1>1. IsFiniteSet(S[x]) /\ Cardinality(S[x]) <= Cardinality(T[x])  BY FS_Subset
<1>2. Cardinality(S[x]) \in Nat /\ Cardinality(T[x]) \in Nat
  BY <1>1, FS_CardinalityType
<1>3. count[x] \in Nat /\ count[x] <= Cardinality(S[x])  BY DEF Accounted
<1> QED  BY <1>1, <1>2, <1>3

\* A counter stays exact when it follows what joins or leaves its set.
LEMMA AgreesStep ==
  ASSUME NEW count, NEW new, NEW S, NEW T, AgreesWith(count, S),
         \A x \in Names :
           /\ IsFiniteSet(S[x])
           /\ \/ new[x] = count[x] /\ T[x] = S[x]
              \/ \E e : e \notin S[x] /\ T[x] = S[x] \union {e} /\ new[x] = count[x] + 1
              \/ \E e : e \in S[x] /\ T[x] = S[x] \ {e} /\ new[x] = count[x] - 1
  PROVE  AgreesWith(new, T)
<1> SUFFICES ASSUME NEW x \in Names
             PROVE  new[x] = Cardinality(T[x])
  BY DEF AgreesWith
<1>0. IsFiniteSet(S[x]) /\ count[x] = Cardinality(S[x])  BY DEF AgreesWith
<1>1. CASE new[x] = count[x] /\ T[x] = S[x]  BY <1>0, <1>1
<1>2. ASSUME NEW e, e \notin S[x], T[x] = S[x] \union {e}, new[x] = count[x] + 1
      PROVE  new[x] = Cardinality(T[x])
  BY <1>0, <1>2, FS_AddElement, ZenonT(60)
<1>3. ASSUME NEW e, e \in S[x], T[x] = S[x] \ {e}, new[x] = count[x] - 1
      PROVE  new[x] = Cardinality(T[x])
  BY <1>0, <1>3, FS_RemoveElement
<1> QED  BY <1>1, <1>2, <1>3

\* A decision that counts is not taken back.
LEMMA CountedGrows ==
  ASSUME DecisionsOK, Once,
         decisions' \in [company : [Rows -> Decisions], contact : [Rows -> Decisions]]
  PROVE  \A x \in Names : Counted[x] \subseteq Counted'[x] /\ IsFiniteSet(Counted'[x])
<1>1. /\ Undecided.kind = "none" /\ ~Undecided.reviewed
      /\ Decision("rejected", None).kind = "rejected"
  BY DEF Undecided, Decision
<1>2. ASSUME NEW r \in Rows, NEW K, "none" \notin K, "review_required" \notin K,
             decisions.company[r].kind \in K
      PROVE  decisions'.company[r] = decisions.company[r]
  BY <1>1, <1>2 DEF Once
<1>3. ASSUME NEW r \in Rows, NEW K, "none" \notin K, "review_required" \notin K,
             decisions.contact[r].kind \in K
      PROVE  decisions'.contact[r] = decisions.contact[r]
  BY <1>1, <1>3 DEF Once
<1>4. Counted.created \subseteq Counted'.created /\ Counted.reused \subseteq Counted'.reused
  BY <1>2 DEF Counted, OfKind
<1>5. /\ Counted.contactsCreated \subseteq Counted'.contactsCreated
      /\ Counted.contactsReused \subseteq Counted'.contactsReused
  BY <1>3 DEF Counted, OfKind
<1>6. Counted.links \subseteq Counted'.links
  <2>1. \A r \in Rows : Both(r) => Both(r)'
    <3> SUFFICES ASSUME NEW r \in Rows, Both(r) PROVE Both(r)'
      OBVIOUS
    <3> DEFINE K == Automatic \union {"manual_merge", "keep_separate"}
    <3>1. "none" \notin K /\ "review_required" \notin K  BY DEF Automatic
    <3>2. decisions.company[r].kind \in K /\ decisions.contact[r].kind \in K
      BY DEF Both, Resolves
    <3> HIDE DEF K
    <3>3. decisions'.company[r] = decisions.company[r]  BY <3>1, <3>2, <1>2
    <3>4. decisions'.contact[r] = decisions.contact[r]  BY <3>1, <3>2, <1>3
    <3> QED  BY <3>3, <3>4 DEF Both
  <2> QED  BY <2>1 DEF Counted
<1>7. Counted.failed \subseteq Counted'.failed
  BY <1>1 DEF Counted, Rejected, Once
<1>8. Counted.processed \subseteq Counted'.processed
  <2>1. ASSUME NEW r \in Rows, decisions.company[r].kind \in Kinds \ {"none"}
        PROVE  decisions'.company[r].kind \in Kinds \ {"none"}
    <3>1. decisions'.company[r].kind \in Kinds  BY DEF Decisions
    <3> QED  BY <2>1, <3>1 DEF Once
  <2> QED  BY <2>1 DEF Counted, OfKind
<1>9. Counted.reviews \subseteq Counted'.reviews
  BY <1>1 DEF Counted, Once
<1> QED  BY <1>4, <1>5, <1>6, <1>7, <1>8, <1>9, NamesAre, CountedFinite

\* One is 1 or 0.
LEMMA OneIs == \A b : One(b) \in {0, 1} /\ (b => One(b) = 1) /\ (~b => One(b) = 0)
BY DEF One

\* Counters are a number each.
LEMMA LooseOK ==
  ASSUME NEW new, new = [x \in Names |-> new[x]], \A x \in Names : new[x] \in Nat
  PROVE  new \in LooseCounters
<1>1. new = [processed |-> new.processed, created |-> new.created, reused |-> new.reused,
             reviews |-> new.reviews, contactsCreated |-> new.contactsCreated,
             contactsReused |-> new.contactsReused, links |-> new.links, failed |-> new.failed]
  BY NamesAre
<1> QED  BY <1>1, NamesAre DEF LooseCounters

\* The counters after a row, field by field,
LEMMA CountRowIs ==
  ASSUME NEW count \in LooseCounters, NEW company, NEW contact, NEW linked
  PROVE  LET new == CountRow(count, company, contact, linked) IN
    /\ new \in LooseCounters
    /\ new.processed = count.processed + 1
    /\ new.created = count.created + One(company.kind = "auto_create")
    /\ new.reused = count.reused + One(company.kind = "auto_merge")
    /\ new.reviews = count.reviews + One(company.kind = "review_required")
    /\ new.contactsCreated = count.contactsCreated + One(contact.kind = "auto_create")
    /\ new.contactsReused = count.contactsReused + One(contact.kind = "auto_merge")
    /\ new.links = count.links + One(linked)
    /\ new.failed = count.failed + One("rejected" \in {company.kind, contact.kind})
<1> DEFINE new == CountRow(count, company, contact, linked)
<1>1. /\ new.processed = count.processed + 1
      /\ new.created = count.created + One(company.kind = "auto_create")
      /\ new.reused = count.reused + One(company.kind = "auto_merge")
      /\ new.reviews = count.reviews + One(company.kind = "review_required")
      /\ new.contactsCreated = count.contactsCreated + One(contact.kind = "auto_create")
      /\ new.contactsReused = count.contactsReused + One(contact.kind = "auto_merge")
      /\ new.links = count.links + One(linked)
      /\ new.failed = count.failed + One("rejected" \in {company.kind, contact.kind})
  BY DEF CountRow, LooseCounters
<1>2. new = [x \in Names |-> new[x]]
  BY NamesAre, ZenonT(60) DEF CountRow, LooseCounters
<1> HIDE DEF new
<1>3. \A x \in Names : new[x] \in Nat
  BY <1>1, OneIs, NamesAre DEF LooseCounters
<1>4. new \in LooseCounters  BY <1>2, <1>3, LooseOK
<1> QED  BY <1>1, <1>4 DEF new

\* after the review of a company,
LEMMA CountCompanyReviewIs ==
  ASSUME NEW count \in LooseCounters, NEW kind, NEW linked
  PROVE  LET new == CountCompanyReview(count, kind, linked) IN
    /\ new \in LooseCounters
    /\ new.processed = count.processed
    /\ new.created = count.created + One(kind = "keep_separate")
    /\ new.reused = count.reused + One(kind = "manual_merge")
    /\ new.reviews = IF count.reviews = 0 THEN 0 ELSE count.reviews - 1
    /\ new.contactsCreated = count.contactsCreated
    /\ new.contactsReused = count.contactsReused
    /\ new.links = count.links + One(linked)
    /\ new.failed = count.failed
<1> DEFINE new == CountCompanyReview(count, kind, linked)
<1>1. /\ new.processed = count.processed
      /\ new.created = count.created + One(kind = "keep_separate")
      /\ new.reused = count.reused + One(kind = "manual_merge")
      /\ new.reviews = IF count.reviews = 0 THEN 0 ELSE count.reviews - 1
      /\ new.contactsCreated = count.contactsCreated
      /\ new.contactsReused = count.contactsReused
      /\ new.links = count.links + One(linked)
      /\ new.failed = count.failed
  BY DEF CountCompanyReview, LooseCounters
<1>2. new = [x \in Names |-> new[x]]
  BY NamesAre DEF CountCompanyReview, LooseCounters
<1> HIDE DEF new
<1>3. \A x \in Names : new[x] \in Nat
  BY <1>1, OneIs, NamesAre DEF LooseCounters
<1>4. new \in LooseCounters  BY <1>2, <1>3, LooseOK
<1> QED  BY <1>1, <1>4 DEF new

\* and after the review of a contact.
LEMMA CountContactReviewIs ==
  ASSUME NEW count \in LooseCounters, NEW kind, NEW linked
  PROVE  LET new == CountContactReview(count, kind, linked) IN
    /\ new \in LooseCounters
    /\ new.processed = count.processed
    /\ new.created = count.created
    /\ new.reused = count.reused
    /\ new.reviews = count.reviews
    /\ new.contactsCreated = count.contactsCreated + One(kind = "keep_separate")
    /\ new.contactsReused = count.contactsReused + One(kind = "manual_merge")
    /\ new.links = count.links + One(linked)
    /\ new.failed = count.failed
<1> DEFINE new == CountContactReview(count, kind, linked)
<1>1. /\ new.processed = count.processed
      /\ new.created = count.created
      /\ new.reused = count.reused
      /\ new.reviews = count.reviews
      /\ new.contactsCreated = count.contactsCreated + One(kind = "keep_separate")
      /\ new.contactsReused = count.contactsReused + One(kind = "manual_merge")
      /\ new.links = count.links + One(linked)
      /\ new.failed = count.failed
  BY DEF CountContactReview, LooseCounters
<1>2. new = [x \in Names |-> new[x]]
  BY NamesAre DEF CountContactReview, LooseCounters
<1> HIDE DEF new
<1>3. \A x \in Names : new[x] \in Nat
  BY <1>1, OneIs, NamesAre DEF LooseCounters
<1>4. new \in LooseCounters  BY <1>2, <1>3, LooseOK
<1> QED  BY <1>1, <1>4 DEF new

------------------------------------------------------------------------------
(***************************************************************************)
(* Steps that decide nothing                                               *)
(***************************************************************************)
\* What a step of worker w may do to its own label and variables,
Moves(w) ==
  \E label \in Labels, l \in Locals :
    /\ pc' = [pc EXCEPT ![w] = label] /\ me' = [me EXCEPT ![w] = l]
    /\ Fits(l) /\ (label \notin Idle => l.job \in DOMAIN jobs)

\* to the queue,
QueueStays ==
  /\ jobs' \in Seq(JobRows) /\ Len(jobs') = Len(jobs)
  /\ \A j \in DOMAIN jobs' : RowConsistent(jobs'[j])

\* and to the resolution: a status, and "done" when all is decided.
StatusMoves ==
  /\ \E status \in ResolutionStatuses :
       /\ resolution' = [resolution EXCEPT !.status = status]
       /\ status \in Done => \/ resolution.status \in Done
                             \/ \A r \in Rows : decisions.company[r] # Undecided
  /\ jobs = <<>> => resolution' = resolution

\* Without a decision the rows that count are the same.
LEMMA NothingDecided ==
  ASSUME UNCHANGED decisions
  PROVE  Counted' = Counted /\ Once /\ (UNCHANGED tables => Exact' = Exact)
BY DEF Counted, OfKind, Rejected, Both, Once, Exact

\* A client may have read the resolution, or forgotten what it read.
RequestMoves ==
  \/ UNCHANGED request
  \/ \E k \in Clients, q \in LooseRequests :
       /\ request' = [request EXCEPT ![k] = q] /\ Accounted(q.read.count, Counted)
       /\ EInv /\ jobs = <<>> => q.read = Absent

\* Steps that move labels, the queue, the status and requests only.
LEMMA LightStep ==
  ASSUME IInv, UNCHANGED <<pc, me>> \/ \E w \in Workers : Moves(w),
         QueueStays, StatusMoves, RequestMoves,
         UNCHANGED <<decisions, tables>>, faults' \in 0 .. MaxFaults
  PROVE  IInv' /\ Once /\ (EInv => EInv')
<1>1. /\ pc' \in [Workers -> Labels] /\ me' \in [Workers -> Locals]
      /\ \A v \in Workers :
           Fits(me'[v]) /\ (pc'[v] \notin Idle => me'[v].job \in DOMAIN jobs)
  <2>1. CASE UNCHANGED <<pc, me>>
    BY <2>1 DEF IInv, LooseTypeOK, LocalsOK, WorkersOK
  <2>2. CASE \E w \in Workers : Moves(w)
    <3>1. PICK w \in Workers, label \in Labels, l \in Locals :
            /\ pc' = [pc EXCEPT ![w] = label] /\ me' = [me EXCEPT ![w] = l]
            /\ Fits(l) /\ (label \notin Idle => l.job \in DOMAIN jobs)
      BY <2>2 DEF Moves
    <3>2. \A v \in Workers : /\ me'[v] = IF v = w THEN l ELSE me[v]
                             /\ pc'[v] = IF v = w THEN label ELSE pc[v]
      BY <3>1 DEF IInv, LooseTypeOK
    <3>3. pc' \in [Workers -> Labels] /\ me' \in [Workers -> Locals]
      BY <3>1 DEF IInv, LooseTypeOK
    <3> QED  BY <3>1, <3>2, <3>3 DEF IInv, LocalsOK, WorkersOK
  <2> QED  BY <2>1, <2>2
<1>2. PICK status \in ResolutionStatuses :
        /\ resolution' = [resolution EXCEPT !.status = status]
        /\ status \in Done => \/ resolution.status \in Done
                              \/ \A r \in Rows : decisions.company[r] # Undecided
  BY DEF StatusMoves
<1>3. /\ resolution' \in LooseResolutions /\ resolution'.count = resolution.count
      /\ resolution'.status = status
  BY <1>2 DEF IInv, LooseTypeOK, LooseResolutions
<1>r. /\ request' \in [Clients -> LooseRequests]
      /\ \A k \in Clients : Accounted(request'[k].read.count, Counted)
      /\ EInv /\ jobs = <<>> => \A k \in Clients : request'[k].read = Absent
  <2>1. CASE UNCHANGED request
    BY <2>1 DEF IInv, LooseTypeOK, CInv, EInv, Untouched
  <2>2. CASE ~UNCHANGED request
    <3>1. PICK c \in Clients, q \in LooseRequests :
            /\ request' = [request EXCEPT ![c] = q] /\ Accounted(q.read.count, Counted)
            /\ EInv /\ jobs = <<>> => q.read = Absent
      BY <2>2 DEF RequestMoves
    <3>2. request' \in [Clients -> LooseRequests]
          /\ \A k \in Clients : request'[k] = IF k = c THEN q ELSE request[k]
      BY <3>1 DEF IInv, LooseTypeOK
    <3> QED  BY <3>1, <3>2 DEF IInv, CInv, EInv, Untouched
  <2> QED  BY <2>1, <2>2
<1>4. LooseTypeOK'
  BY <1>1, <1>3, <1>r DEF IInv, LooseTypeOK, QueueStays
<1>5. RowsOK' /\ DOMAIN jobs' = DOMAIN jobs
  BY DEF RowsOK, QueueStays, IInv, LooseTypeOK
<1>6. WorkersOK'
  BY <1>1, <1>5 DEF IInv, LooseTypeOK, WorkersOK
<1>7. LocalsOK'  BY <1>1 DEF LocalsOK, Fits
<1>8. CInv'
  <2>1. Counted' = Counted  BY NothingDecided
  <2> QED  BY <1>3, <1>r, <2>1 DEF IInv, CInv
<1>9. DecisionsOK' /\ ResolvedPairsAreLinked' /\ ExternalIdIsDecisive'
  BY DEF IInv, DecisionsOK, ResolvedPairsAreLinked, ExternalIdIsDecisive
<1>10. DoneIsWhole'
  BY <1>2, <1>3 DEF IInv, DoneIsWhole
<1>11. ASSUME EInv PROVE EInv'
  <2>1. Exact' = Exact  BY NothingDecided
  <2>2. AgreesWith(resolution'.count, Exact')  BY <1>3, <1>11, <2>1 DEF EInv
  <2>3. Untouched'
    <3>1. jobs' = <<>> => jobs = <<>>
      BY DEF QueueStays, IInv, LooseTypeOK
    <3> QED  BY <1>11, <1>r, <3>1 DEF EInv, Untouched, StatusMoves
  <2> QED  BY <1>11, <2>2, <2>3 DEF EInv
<1>12. Once  BY NothingDecided
<1> QED  BY <1>4, <1>5, <1>6, <1>7, <1>8, <1>9, <1>10, <1>11, <1>12 DEF IInv

\* Cleared local variables fit any tables.
LEMMA NoLocalsOK == IInv => NoLocals \in Locals /\ Fits(NoLocals)
<1>1. NoTables \in Tables /\ NoTables.identity = None /\ NoTables.links = {}
  BY DEF NoTables, Tables, Profiles
<1>2. 0 \in 0 .. MaxJobs /\ 0 \in 0 .. NRows  BY ResolutionAssumption
<1>3. NoLocals \in Locals  BY <1>1, <1>2 DEF NoLocals, Locals
<1>4. \A r \in Rows : ~(r <= 0)  BY ResolutionAssumption DEF Rows
<1> QED  BY <1>1, <1>3, <1>4 DEF NoLocals, Fits

\* A worker that goes on keeps its job, one that leaves needs none.
LEMMA GoToMoves ==
  ASSUME IInv, NEW w \in Workers, NEW label \in Labels, GoTo(w, label), UNCHANGED me,
         label \notin Idle => pc[w] \notin Idle
  PROVE  Moves(w)
<1>1. me[w] \in Locals /\ me' = [me EXCEPT ![w] = me[w]]  BY DEF IInv, LooseTypeOK
<1>2. Fits(me[w]) /\ (label \notin Idle => me[w].job \in DOMAIN jobs)
  BY DEF IInv, LocalsOK, WorkersOK
<1> QED  BY <1>1, <1>2 DEF Moves, GoTo

\* Who leaves clears its variables.
LEMMA LeaveMoves ==
  ASSUME IInv, NEW w \in Workers, NEW label \in Idle, Leave(w, label)
  PROVE  Moves(w)
<1>1. label \in Labels  BY DEF Idle, Labels
<1> QED  BY <1>1, NoLocalsOK DEF Moves, Leave, GoTo

\* An exception ends in the handler or ends the process.
LEMMA ThrowMoves ==
  ASSUME IInv, NEW w \in Workers, Throw(w)
  PROVE  Moves(w)
<1>1. CASE pc[w] \in {"load", "loadRest", "row", "beat"}
  BY <1>1, GoToMoves DEF Throw, Idle, Labels
<1>2. CASE pc[w] \notin {"load", "loadRest", "row", "beat"}
  BY <1>2, LeaveMoves DEF Throw, Idle
<1> QED  BY <1>1, <1>2

\* The rows of the queue are typed and consistent.
LEMMA QueueRows ==
  ASSUME IInv
  PROVE  \A j \in DOMAIN jobs : RowOK(jobs[j])
BY DEF IInv, LooseTypeOK, RowsOK, RowOK

\* A new value of one row, or of all of them.
LEMMA RowChanges ==
  ASSUME IInv, NEW j \in DOMAIN jobs, NEW row, RowOK(row), jobs' = [jobs EXCEPT ![j] = row]
  PROVE  QueueStays
BY DEF IInv, LooseTypeOK, RowsOK, RowOK, QueueStays

\* A new value of every row.
LEMMA RowsChange ==
  ASSUME IInv, NEW f, jobs' = [j \in DOMAIN jobs |-> f[j]],
         \A j \in DOMAIN jobs : RowOK(f[j])
  PROVE  QueueStays
BY DEF IInv, LooseTypeOK, RowsOK, RowOK, QueueStays

\* What is unchanged moves as it may.
LEMMA NothingMoves ==
  ASSUME IInv
  PROVE  /\ UNCHANGED jobs => QueueStays
         /\ UNCHANGED resolution => StatusMoves
         /\ UNCHANGED faults => faults' \in 0 .. MaxFaults
<1>1. UNCHANGED jobs => QueueStays  BY DEF IInv, LooseTypeOK, RowsOK, QueueStays
<1>2. resolution.status \in ResolutionStatuses
      /\ resolution = [resolution EXCEPT !.status = resolution.status]
  BY DEF IInv, LooseTypeOK, LooseResolutions
<1>3. UNCHANGED resolution => StatusMoves  BY <1>2 DEF StatusMoves
<1> QED  BY <1>1, <1>3 DEF IInv, LooseTypeOK

\* The status of a resolution that has a job.
LEMMA StatusSet ==
  ASSUME IInv, NEW status \in ResolutionStatuses, SetStatus(status), jobs # <<>>,
         status \in Done => resolution.status \in Done
                              \/ \A r \in Rows : decisions.company[r] # Undecided
  PROVE  StatusMoves
BY DEF SetStatus, StatusMoves

\* pause_for_retry leaves a status that is allowed,
LEMMA PauseMoves == ASSUME IInv, Pause, jobs # <<>> PROVE StatusMoves
<1>1. resolution.status \in ResolutionStatuses  BY DEF IInv, LooseTypeOK, LooseResolutions
<1>2. CASE resolution.status = "running"
  BY <1>2, StatusSet DEF Pause, ResolutionStatuses, Waiting, Done
<1>3. CASE resolution.status # "running"
  BY <1>1, <1>3, StatusSet DEF Pause
<1> QED  BY <1>2, <1>3

\* and so does fail.
LEMMA FailMoves == ASSUME IInv, Fail, jobs # <<>> PROVE StatusMoves
BY StatusSet DEF Fail, ResolutionStatuses, Waiting, Done

------------------------------------------------------------------------------
\* The steps of a worker that decide nothing.
LightWork(w) ==
  \/ RecoverStale(w) \/ Claim(w) \/ ClaimNothing(w) \/ StartJob(w)
  \/ LoadCompanies(w) \/ LoadRest(w) \/ ReturnDone(w) \/ RefuseFailed(w)
  \/ FinishResolution(w) \/ SkipRow(w) \/ Beat(w) \/ CompleteJob(w) \/ RecordFailure(w)
  \/ Restart(w) \/ Raise(w) \/ Crash(w)

Light(w) == /\ Moves(w) /\ QueueStays /\ StatusMoves
            /\ UNCHANGED <<decisions, tables, request>> /\ faults' \in 0 .. MaxFaults

\* recover_stale changes rows of the queue and the status.
LEMMA RecoverStaleLight ==
  ASSUME IInv, NEW w \in Workers, RecoverStale(w)
  PROVE  Light(w)
<1>1. Moves(w)
  BY GoToMoves DEF RecoverStale, Labels, Idle
<1>2. \A j \in Stale : j \in DOMAIN jobs /\ RowOK(Recovered(jobs[j])) /\ RowOK(Reconciled(jobs[j]))
  BY QueueRows, RecoveredOK DEF Stale, CanRecover
<1>3. CASE resolution.status \in Done
  <2> DEFINE f == [j \in DOMAIN jobs |-> IF j \in Stale THEN Reconciled(jobs[j]) ELSE jobs[j]]
  <2>1. jobs' = f /\ UNCHANGED resolution  BY <1>3 DEF RecoverStale, RecoverAll
  <2>2. \A j \in DOMAIN jobs : RowOK(f[j])  BY <1>2, QueueRows
  <2>3. f = [j \in DOMAIN jobs |-> f[j]]  OBVIOUS
  <2> HIDE DEF f
  <2>4. QueueStays  BY <2>1, <2>2, <2>3, RowsChange
  <2> QED  BY <1>1, <2>1, <2>4, NothingMoves DEF Light, RecoverStale
<1>4. CASE resolution.status \notin Done
  <2> DEFINE f == [j \in DOMAIN jobs |-> IF j \in Stale THEN Recovered(jobs[j]) ELSE jobs[j]]
  <2>1. jobs' = f  BY <1>4 DEF RecoverStale, RecoverAll
  <2>2. \A j \in DOMAIN jobs : RowOK(f[j])  BY <1>2, QueueRows
  <2>3. f = [j \in DOMAIN jobs |-> f[j]]  OBVIOUS
  <2> HIDE DEF f
  <2>4. QueueStays  BY <2>1, <2>2, <2>3, RowsChange
  <2>5. StatusMoves
    <3>1. CASE Stale = {}
      BY <1>4, <3>1, NothingMoves DEF RecoverStale
    <3>2. CASE Stale # {}
      <4>1. jobs # <<>>  BY <3>2, <1>2
      <4>2. Fail \/ Pause  BY <1>4, <3>2 DEF RecoverStale
      <4> QED  BY <4>1, <4>2, FailMoves, PauseMoves
    <3> QED  BY <3>1, <3>2
  <2> QED  BY <1>1, <2>4, <2>5, NothingMoves DEF Light, RecoverStale
<1> QED  BY <1>3, <1>4

\* A claimed job is in the queue.
LEMMA ClaimLight ==
  ASSUME IInv, NEW w \in Workers, Claim(w) \/ ClaimNothing(w)
  PROVE  Light(w)
<1>1. CASE ClaimNothing(w)
  <2>1. Moves(w)  BY <1>1, GoToMoves DEF ClaimNothing, Labels, Idle
  <2> QED  BY <1>1, <2>1, NothingMoves DEF Light, ClaimNothing
<1>2. CASE Claim(w)
  <2>1. PICK j \in DOMAIN jobs : /\ CanLease(jobs[j]) /\ jobs' = [jobs EXCEPT ![j] = Leased(@, w)]
                                 /\ me' = [me EXCEPT ![w].job = j]
    BY <1>2 DEF Claim
  <2>2. QueueStays  BY <2>1, QueueRows, LeasedOK, RowChanges
  <2> DEFINE l == [me[w] EXCEPT !.job = j]
  <2>3. me[w] \in Locals /\ j \in 0 .. MaxJobs
    BY ResolutionAssumption DEF IInv, LooseTypeOK
  <2>4. l \in Locals /\ l.job = j /\ l.done = me[w].done /\ l.after = me[w].after
        /\ l.index = me[w].index
    BY <2>3 DEF Locals
  <2>5. Fits(l)
    <3>1. Fits(me[w])  BY DEF IInv, LocalsOK
    <3> HIDE DEF l
    <3> QED  BY <2>4, <3>1 DEF Fits
  <2>6. me' = [me EXCEPT ![w] = l]  BY <2>1
  <2>7. Moves(w)
    <3> HIDE DEF l
    <3> QED  BY <1>2, <2>4, <2>5, <2>6 DEF Moves, Claim, GoTo, Labels
  <2> QED  BY <1>2, <2>2, <2>7, NothingMoves DEF Light, Claim
<1> QED  BY <1>1, <1>2

\* The worker's job is in the queue while it works on it.
LEMMA JobThere ==
  ASSUME IInv, NEW w \in Workers, pc[w] \notin Idle
  PROVE  me[w].job \in DOMAIN jobs /\ Job(w) = jobs[me[w].job] /\ RowOK(Job(w)) /\ jobs # <<>>
<1>1. me[w].job \in DOMAIN jobs  BY DEF IInv, WorkersOK
<1> QED  BY <1>1, QueueRows DEF Job

\* The steps on the worker's own job: each method of the aggregate keeps the row
\* consistent, or the step throws.
LEMMA JobStepsLight ==
  ASSUME IInv, NEW w \in Workers, StartJob(w) \/ Beat(w) \/ CompleteJob(w) \/ RecordFailure(w)
  PROVE  Light(w)
<1>0. pc[w] \notin Idle  BY DEF StartJob, Beat, CompleteJob, RecordFailure, Idle
<1>j. me[w].job \in DOMAIN jobs /\ Job(w) = jobs[me[w].job] /\ RowOK(Job(w)) /\ jobs # <<>>
  BY <1>0, JobThere
<1>1. CASE StartJob(w)
  <2>1. CASE CanStart(Job(w), w)
    <3>1. QueueStays
      BY <1>1, <1>j, <2>1, StartedOK, RowChanges DEF StartJob, CanStart
    <3>2. Moves(w)  BY <1>0, <1>1, <2>1, GoToMoves DEF StartJob, Labels
    <3> QED  BY <1>1, <3>1, <3>2, NothingMoves DEF Light, StartJob
  <2>2. CASE ~CanStart(Job(w), w)
    BY <1>1, <2>2, ThrowMoves, NothingMoves DEF Light, StartJob
  <2> QED  BY <2>1, <2>2
<1>2. CASE Beat(w)
  <2>1. CASE Owns(Job(w), w)
    <3>1. QueueStays
      BY <1>2, <1>j, <2>1, RenewedOK, RowChanges DEF Beat, Owns
    <3>2. Moves(w)  BY <1>0, <1>2, <2>1, GoToMoves DEF Beat, Labels
    <3> QED  BY <1>2, <3>1, <3>2, NothingMoves DEF Light, Beat
  <2>2. CASE ~Owns(Job(w), w)
    BY <1>2, <2>2, ThrowMoves, NothingMoves DEF Light, Beat
  <2> QED  BY <2>1, <2>2
<1>3. CASE CompleteJob(w)
  <2>1. CASE CanComplete(Job(w), w)
    <3> DEFINE row == IF Job(w).status = "completed" THEN Job(w) ELSE Completed(Job(w))
    <3>1. RowOK(row)
      BY <1>j, <2>1, CompletedOK DEF CanComplete, Owns
    <3>2. jobs' = [jobs EXCEPT ![me[w].job] = row]
      BY <1>3, <1>j, <2>1 DEF CompleteJob
    <3> HIDE DEF row
    <3>3. QueueStays  BY <1>j, <3>1, <3>2, RowChanges
    <3>4. Moves(w)  BY <1>3, <2>1, LeaveMoves DEF CompleteJob, Idle
    <3> QED  BY <1>3, <3>3, <3>4, NothingMoves DEF Light, CompleteJob
  <2>2. CASE ~CanComplete(Job(w), w)
    BY <1>3, <2>2, ThrowMoves, NothingMoves DEF Light, CompleteJob
  <2> QED  BY <2>1, <2>2
<1>4. CASE RecordFailure(w)
  <2>1. CASE Owns(Job(w), w)
    <3>1. QueueStays
      BY <1>4, <1>j, <2>1, RetriedOK, RowChanges DEF RecordFailure, Owns
    <3>2. Pause \/ Fail  BY <1>4, <2>1 DEF RecordFailure
    <3>3. StatusMoves  BY <1>j, <3>2, PauseMoves, FailMoves
    <3>4. Moves(w)  BY <1>4, <2>1, LeaveMoves DEF RecordFailure, Idle
    <3> QED  BY <1>4, <3>1, <3>3, <3>4, NothingMoves DEF Light, RecordFailure
  <2>2. CASE ~Owns(Job(w), w)
    BY <1>4, <2>2, ThrowMoves, NothingMoves DEF Light, RecordFailure
  <2> QED  BY <2>1, <2>2
<1> QED  BY <1>1, <1>2, <1>3, <1>4

\* An index as it is loaded has nothing that the tables lack.
LEMMA LoadLight ==
  ASSUME IInv, NEW w \in Workers, LoadCompanies(w) \/ LoadRest(w)
  PROVE  Light(w)
<1>0. pc[w] \notin Idle  BY DEF LoadCompanies, LoadRest, Idle
<1>j. me[w].job \in DOMAIN jobs  BY <1>0, JobThere
<1>t. me[w] \in Locals /\ me[w].index \in Tables /\ tables \in Tables /\ Fits(me[w])
  BY DEF IInv, LooseTypeOK, Locals, LocalsOK
<1>1. CASE LoadCompanies(w)
  <2> DEFINE i == [me[w].index EXCEPT !.companies = tables.companies]
             l == [me[w] EXCEPT !.index = i]
  <2>1. i \in Tables /\ i.identity = me[w].index.identity /\ i.links = me[w].index.links
    BY <1>t DEF Tables
  <2>2. me' = [me EXCEPT ![w] = l]  BY <1>1 DEF LoadCompanies
  <2> HIDE DEF i
  <2>3. l \in Locals /\ l.job = me[w].job /\ l.index = i /\ l.done = me[w].done
        /\ l.after = me[w].after
    BY <1>t, <2>1 DEF Locals
  <2> HIDE DEF l
  <2>4. Fits(l)  BY <1>t, <2>1, <2>3 DEF Fits
  <2>5. Moves(w)  BY <1>1, <1>j, <2>2, <2>3, <2>4 DEF Moves, LoadCompanies, GoTo, Labels
  <2> QED  BY <1>1, <2>5, NothingMoves DEF Light, LoadCompanies
<1>2. CASE LoadRest(w)
  <2> DEFINE i == [tables EXCEPT !.companies = me[w].index.companies]
             done == {r \in Rows : decisions.company[r] # Undecided}
             l == [[me[w] EXCEPT !.index = i] EXCEPT !.done = done]
  <2>1. i \in Tables /\ i.identity = tables.identity /\ i.links = tables.links
    BY <1>t DEF Tables
  <2>2. me' = [me EXCEPT ![w] = l]  BY <1>2 DEF LoadRest
  <2>3. done \in SUBSET Rows /\ \A r \in done : decisions.company[r] # Undecided  OBVIOUS
  <2> HIDE DEF i, done
  <2>4. l \in Locals /\ l.job = me[w].job /\ l.index = i /\ l.done = done
        /\ l.after = me[w].after
    BY <1>t, <2>1, <2>3 DEF Locals
  <2> HIDE DEF l
  <2>5. Fits(l)  BY <1>t, <2>1, <2>3, <2>4 DEF Fits
  <2>6. Moves(w)  BY <1>2, <1>j, <2>2, <2>4, <2>5 DEF Moves, LoadRest, GoTo, Labels
  <2> QED  BY <1>2, <2>6, NothingMoves DEF Light, LoadRest
<1> QED  BY <1>1, <1>2

\* The worker is at the last row: all of them are decided.
LEMMA RowLoopLight ==
  ASSUME IInv, NEW w \in Workers,
         ReturnDone(w) \/ RefuseFailed(w) \/ FinishResolution(w) \/ SkipRow(w)
  PROVE  Light(w)
<1>0. pc[w] = "row" /\ pc[w] \notin Idle
  BY DEF ReturnDone, RefuseFailed, FinishResolution, SkipRow, Idle
<1>j. me[w].job \in DOMAIN jobs /\ jobs # <<>>  BY <1>0, JobThere
<1>t. me[w] \in Locals /\ me[w].after \in 0 .. NRows /\ Fits(me[w])
  BY DEF IInv, LooseTypeOK, Locals, LocalsOK
<1>1. CASE ReturnDone(w)
  <2>1. Moves(w)  BY <1>0, <1>1, GoToMoves DEF ReturnDone, Labels
  <2> QED  BY <1>1, <2>1, NothingMoves DEF Light, ReturnDone
<1>2. CASE RefuseFailed(w)
  BY <1>2, ThrowMoves, NothingMoves DEF Light, RefuseFailed
<1>3. CASE FinishResolution(w)
  <2>1. Moves(w)  BY <1>0, <1>3, GoToMoves DEF FinishResolution, Labels
  <2>2. \A r \in Rows : decisions.company[r] # Undecided
    BY <1>3, <1>t, ResolutionAssumption DEF FinishResolution, Fits, Rows
  <2>3. StatusMoves
    BY <1>3, <1>j, <2>2, StatusSet DEF FinishResolution, ResolutionStatuses, Done
  <2> QED  BY <1>3, <2>1, <2>3, NothingMoves DEF Light, FinishResolution
<1>4. CASE SkipRow(w)
  <2> DEFINE a == me[w].after + 1
             l == [me[w] EXCEPT !.after = a]
  <2>1. a \in me[w].done /\ a \in 0 .. NRows
    BY <1>4, <1>t, ResolutionAssumption DEF SkipRow
  <2>2. me' = [me EXCEPT ![w] = l]  BY <1>4 DEF SkipRow
  <2>3. \A r \in Rows : r <= a => r <= me[w].after \/ r = a
    BY <1>t, ResolutionAssumption DEF Rows
  <2> HIDE DEF a
  <2>4. l \in Locals /\ l.job = me[w].job /\ l.index = me[w].index /\ l.done = me[w].done
        /\ l.after = a
    BY <1>t, <2>1 DEF Locals
  <2> HIDE DEF l
  <2>5. Fits(l)  BY <1>t, <2>1, <2>3, <2>4 DEF Fits
  <2>6. PICK label \in {"row", "beat"} : GoTo(w, label)  BY <1>4 DEF SkipRow, NextRow
  <2>7. Moves(w)  BY <1>j, <2>2, <2>4, <2>5, <2>6 DEF Moves, GoTo, Labels
  <2>8. StatusMoves
    BY <1>4, <1>j, StatusSet DEF SkipRow, ResolutionStatuses, Waiting, Done
  <2> QED  BY <1>4, <2>7, <2>8, NothingMoves DEF Light, SkipRow
<1> QED  BY <1>1, <1>2, <1>3, <1>4

\* Crashes, failed transactions and restarts.
LEMMA FaultsLight ==
  ASSUME IInv, NEW w \in Workers, Restart(w) \/ Raise(w) \/ Crash(w)
  PROVE  Light(w)
<1>1. CASE Restart(w)
  <2>1. Moves(w)  BY <1>1, GoToMoves DEF Restart, Labels, Idle
  <2> QED  BY <1>1, <2>1, NothingMoves DEF Light, Restart
<1>2. CASE Raise(w) \/ Crash(w)
  <2>1. Moves(w)  BY <1>2, ThrowMoves, LeaveMoves DEF Raise, Crash, Idle
  <2>2. faults' \in 0 .. MaxFaults
    BY <1>2, ResolutionAssumption DEF Raise, Crash, IInv, LooseTypeOK
  <2> QED  BY <1>2, <2>1, <2>2, NothingMoves DEF Light, Raise, Crash
<1> QED  BY <1>1, <1>2

\* All of them keep the invariants.
LEMMA LightWorkOK ==
  ASSUME IInv, NEW w \in Workers, LightWork(w)
  PROVE  IInv' /\ Once /\ (EInv => EInv')
<1>1. Light(w)
  BY RecoverStaleLight, ClaimLight, JobStepsLight, LoadLight, RowLoopLight, FaultsLight
     DEF LightWork
<1> QED  BY <1>1, LightStep DEF Light, RequestMoves

\* Time ages the rows of the queue.
LEMMA LeaseTickOK ==
  ASSUME IInv, LeaseTick
  PROVE  IInv' /\ Once /\ (EInv => EInv')
<1> DEFINE f == [j \in DOMAIN jobs |-> Aged(jobs[j])]
<1>1. \A j \in DOMAIN jobs : RowOK(f[j])  BY QueueRows, AgedOK
<1>2. jobs' = f /\ f = [j \in DOMAIN jobs |-> f[j]]  BY DEF LeaseTick
<1> HIDE DEF f
<1>3. QueueStays  BY <1>1, <1>2, RowsChange
<1> QED  BY <1>3, NothingMoves, LightStep DEF LeaseTick, RequestMoves

\* Counters that count nothing are accounted for.
LEMMA ZeroOK == Zero \in LooseCounters /\ Accounted(Zero, Counted) /\ NoRequest \in LooseRequests
<1>1. Zero \in LooseCounters  BY DEF Zero, LooseCounters
<1>2. \A x \in Names : Zero[x] = 0  BY NamesAre DEF Zero
<1>3. \A x \in Names : Cardinality(Counted[x]) \in Nat
  BY CountedFinite, FS_CardinalityType
<1>4. NoRequest \in LooseRequests
  BY <1>1 DEF NoRequest, Absent, LooseRequests, LooseResolutions, ResolutionStatuses
<1> QED  BY <1>1, <1>2, <1>3, <1>4 DEF Accounted

\* A client reads the resolution, or is refused.
LEMMA ReadResolutionOK ==
  ASSUME IInv, NEW k \in Clients, ReadResolution(k) \/ RefuseSubmission(k)
  PROVE  IInv' /\ Once /\ (EInv => EInv')
<1>1. RequestMoves
  <2>1. CASE ReadResolution(k)
    <3> DEFINE q == [asked |-> TRUE, read |-> resolution]
    <3>1. q \in LooseRequests /\ q.read = resolution  BY DEF IInv, LooseTypeOK, LooseRequests
    <3>2. request' = [request EXCEPT ![k] = q]  BY <2>1 DEF ReadResolution
    <3>3. Accounted(q.read.count, Counted)  BY <3>1 DEF IInv, CInv
    <3>4. EInv /\ jobs = <<>> => q.read = Absent  BY <3>1 DEF EInv, Untouched
    <3> HIDE DEF q
    <3> QED  BY <3>1, <3>2, <3>3, <3>4 DEF RequestMoves
  <2>2. CASE RefuseSubmission(k)
    <3>1. NoRequest.read = Absent /\ Absent.count = Zero  BY DEF NoRequest, Absent
    <3> QED  BY <2>2, <3>1, ZeroOK DEF RequestMoves, RefuseSubmission
  <2> QED  BY <2>1, <2>2
<1> QED  BY <1>1, NothingMoves, LightStep DEF ReadResolution, RefuseSubmission

\* What was read is written back, and a job goes in with it.
LEMMA SubmitOK ==
  ASSUME IInv, NEW k \in Clients, Submit(k)
  PROVE  IInv' /\ Once /\ (EInv /\ MaxJobs = 1 => EInv')
<1> DEFINE n == Len(jobs) + 1
<1>1. /\ jobs' = Append(jobs, Created) /\ Len(jobs) < MaxJobs
      /\ resolution' = [request[k].read EXCEPT !.status = "pending"]
      /\ request' = [request EXCEPT ![k] = NoRequest]
      /\ UNCHANGED <<decisions, tables, pc, me, faults>>
  BY DEF Submit
<1>2. Created \in JobRows /\ RowConsistent(Created)  BY CreatedOK DEF RowOK
<1>3. jobs \in Seq(JobRows) /\ Len(jobs) \in Nat /\ MaxJobs \in Nat
  BY ResolutionAssumption DEF IInv, LooseTypeOK
<1>4. /\ jobs' \in Seq(JobRows) /\ Len(jobs') = n /\ Len(jobs') <= MaxJobs
      /\ DOMAIN jobs' = DOMAIN jobs \union {n} /\ jobs'[n] = Created /\ n \notin DOMAIN jobs
      /\ \A j \in DOMAIN jobs : jobs'[j] = jobs[j]
  BY <1>1, <1>2, <1>3
<1>5. request[k] \in LooseRequests /\ request[k].read \in LooseResolutions
  BY DEF IInv, LooseTypeOK, LooseRequests
<1>6. /\ resolution' \in LooseResolutions /\ resolution'.status = "pending"
      /\ resolution'.count = request[k].read.count
  BY <1>1, <1>5 DEF LooseResolutions, ResolutionStatuses, Waiting
<1>7. request' \in [Clients -> LooseRequests]
      /\ \A c \in Clients : request'[c] = IF c = k THEN NoRequest ELSE request[c]
  BY <1>1, ZeroOK DEF IInv, LooseTypeOK
<1>8. LooseTypeOK'
  BY <1>1, <1>4, <1>6, <1>7 DEF IInv, LooseTypeOK
<1>9. RowsOK'  BY <1>2, <1>4 DEF IInv, RowsOK
<1>10. WorkersOK'  BY <1>1, <1>4 DEF IInv, WorkersOK
<1>11. LocalsOK'  BY <1>1 DEF IInv, LocalsOK, Fits
<1>12. DecisionsOK' /\ ResolvedPairsAreLinked' /\ ExternalIdIsDecisive'
  BY <1>1 DEF IInv, DecisionsOK, ResolvedPairsAreLinked, ExternalIdIsDecisive
<1>13. DoneIsWhole'  BY <1>6 DEF DoneIsWhole, Done
<1>14. Counted' = Counted /\ Once /\ Exact' = Exact  BY <1>1, NothingDecided
<1>15. CInv'
  <2>1. NoRequest.read.count = Zero  BY DEF NoRequest, Absent
  <2>2. \A c \in Clients : Accounted(request'[c].read.count, Counted)
    BY <1>7, <2>1, ZeroOK DEF IInv, CInv
  <2>3. Accounted(resolution'.count, Counted)  BY <1>6 DEF IInv, CInv
  <2> QED  BY <1>14, <2>2, <2>3 DEF CInv
<1>16. ASSUME EInv, MaxJobs = 1 PROVE EInv'
  <2>1. jobs = <<>>  BY <1>1, <1>3, <1>16
  <2>2. resolution = Absent /\ request[k].read = Absent  BY <1>16, <2>1 DEF EInv, Untouched
  <2>3. resolution'.count = resolution.count  BY <1>6, <2>2
  <2>4. AgreesWith(resolution'.count, Exact')  BY <1>14, <1>16, <2>3 DEF EInv
  <2>5. Untouched'  BY <1>4, <1>3 DEF Untouched
  <2> QED  BY <1>1, <1>16, <2>4, <2>5 DEF EInv
<1> QED  BY <1>8, <1>9, <1>10, <1>11, <1>12, <1>13, <1>14, <1>15, <1>16 DEF IInv

------------------------------------------------------------------------------
(***************************************************************************)
(* Steps that decide one row                                               *)
(***************************************************************************)
\* Row r gets these decisions, and the tables what follows from them.
Decides(r, company, contact) ==
  /\ company \in Decisions /\ WellFormed(company, Companies) /\ company # Undecided
  /\ contact \in Decisions /\ WellFormed(contact, Contacts)
  /\ decisions' \in [company : [Rows -> Decisions], contact : [Rows -> Decisions]]
  /\ \A q \in Rows : decisions'.company[q] = IF q = r THEN company ELSE decisions.company[q]
  /\ \A q \in Rows : decisions'.contact[q] = IF q = r THEN contact ELSE decisions.contact[q]
  /\ company # decisions.company[r] =>
       \/ decisions.company[r] = Undecided
       \/ decisions.company[r].kind = "review_required" /\ company.reviewed
  /\ contact # decisions.contact[r] =>
       \/ decisions.contact[r] = Undecided
       \/ decisions.contact[r].kind = "review_required" /\ contact.reviewed

Writes(r, company, contact) ==
  /\ tables' \in Tables
  /\ tables'.links = IF Resolves(company) /\ Resolves(contact)
                     THEN tables.links \union {<<company.entity, contact.entity>>}
                     ELSE tables.links
  /\ tables.identity # None => tables'.identity = tables.identity
  /\ r \in External /\ Resolves(company) => company.entity = tables'.identity

\* Such a step decides a row once and takes nothing back.
LEMMA DecidesOnce ==
  ASSUME IInv, NEW r \in Rows, NEW company, NEW contact, Decides(r, company, contact)
  PROVE  /\ Once /\ DecisionsOK'
         /\ \A x \in Names : Counted[x] \subseteq Counted'[x] /\ IsFiniteSet(Counted'[x])
         /\ \A x \in Names : \A q \in Rows \ {r} : q \in Counted[x] <=> q \in Counted'[x]
<1>1. Once
  <2>1. company.kind # "none"  BY DEF Decides, WellFormed
  <2> QED  BY <2>1 DEF Decides, Once
<1>2. DecisionsOK'  BY DEF Decides, IInv, DecisionsOK
<1>3. \A x \in Names : Counted[x] \subseteq Counted'[x] /\ IsFiniteSet(Counted'[x])
  BY <1>1, CountedGrows DEF Decides, IInv
<1>4. ASSUME NEW q \in Rows \ {r}, NEW x \in Names
      PROVE  q \in Counted[x] <=> q \in Counted'[x]
  <2>1. decisions'.company[q] = decisions.company[q] /\ decisions'.contact[q] = decisions.contact[q]
    BY DEF Decides
  <2>2. Both(q) <=> Both(q)'  BY <2>1 DEF Both
  <2> QED  BY <1>4, <2>1, <2>2, NamesAre DEF Counted, OfKind, Rejected
<1> QED  BY <1>1, <1>2, <1>3, <1>4

\* The row, its decisions and its links stay together; who holds an index
\* finds that the tables only grew.
LEMMA DecideStep ==
  ASSUME IInv, NEW r \in Rows, NEW company, NEW contact,
         Decides(r, company, contact), Writes(r, company, contact),
         resolution' \in LooseResolutions,
         resolution'.status \in Done => resolution.status \in Done,
         Accounted(resolution'.count, Counted'),
         EInv => AgreesWith(resolution'.count, Exact') /\ jobs # <<>>,
         UNCHANGED <<jobs, request, faults>>,
         pc' \in [Workers -> Labels], me' \in [Workers -> Locals],
         \A v \in Workers : pc'[v] \notin Idle => me'[v].job \in DOMAIN jobs,
         \A v \in Workers : \/ me'[v] = me[v]
                            \/ /\ \A q \in Rows : q \in me'[v].done \/ q <= me'[v].after =>
                                    q = r \/ decisions.company[q] # Undecided
                               /\ me'[v].index.identity \in {None, tables'.identity}
                               /\ me'[v].index.links \subseteq tables'.links
  PROVE  IInv' /\ Once /\ (EInv => EInv')
<1>1. /\ Once /\ DecisionsOK'
      /\ \A x \in Names : Counted[x] \subseteq Counted'[x] /\ IsFiniteSet(Counted'[x])
  BY DecidesOnce
<1>2. LooseTypeOK'  BY DEF IInv, LooseTypeOK, Decides, Writes
<1>3. RowsOK' /\ WorkersOK'  BY DEF IInv, RowsOK, WorkersOK
<1>4. \A q \in Rows : decisions.company[q] # Undecided \/ q = r => decisions'.company[q] # Undecided
  BY DEF Decides
<1>5. LocalsOK'
  <2> SUFFICES ASSUME NEW v \in Workers
               PROVE  /\ \A q \in Rows : q \in me'[v].done \/ q <= me'[v].after =>
                           decisions'.company[q] # Undecided
                      /\ me'[v].index.identity \in {None, tables'.identity}
                      /\ me'[v].index.links \subseteq tables'.links
    BY DEF LocalsOK, Fits
  <2>1. CASE me'[v] = me[v]
    <3>1. Fits(me[v])  BY DEF IInv, LocalsOK
    <3>2. tables.links \subseteq tables'.links  BY DEF Writes
    <3>3. me[v].index.identity \in {None, tables'.identity}  BY <3>1 DEF Fits, Writes
    <3> QED  BY <2>1, <3>1, <3>2, <3>3, <1>4 DEF Fits
  <2>2. CASE me'[v] # me[v]
    <3>1. /\ \A q \in Rows : q \in me'[v].done \/ q <= me'[v].after =>
               q = r \/ decisions.company[q] # Undecided
          /\ me'[v].index.identity \in {None, tables'.identity}
          /\ me'[v].index.links \subseteq tables'.links
      BY <2>2
    <3> QED  BY <3>1, <1>4
  <2> QED  BY <2>1, <2>2
<1>6. CInv'
  <2>1. request' = request  OBVIOUS
  <2>2. \A k \in Clients : Accounted(request[k].read.count, Counted')
    BY <1>1, AccountedGrows DEF IInv, CInv
  <2> QED  BY <2>1, <2>2 DEF CInv
<1>7. ResolvedPairsAreLinked'
  <2> SUFFICES ASSUME NEW q \in Rows,
                      Resolves(decisions'.company[q]), Resolves(decisions'.contact[q])
               PROVE  <<decisions'.company[q].entity, decisions'.contact[q].entity>> \in tables'.links
    BY DEF ResolvedPairsAreLinked, Resolves
  <2>1. CASE q = r  BY <2>1 DEF Decides, Writes
  <2>2. CASE q # r
    <3>1. decisions'.company[q] = decisions.company[q] /\ decisions'.contact[q] = decisions.contact[q]
      BY <2>2 DEF Decides
    <3> QED  BY <3>1 DEF IInv, ResolvedPairsAreLinked, Writes
  <2> QED  BY <2>1, <2>2
<1>8. ExternalIdIsDecisive'
  <2> SUFFICES ASSUME NEW q \in External, Resolves(decisions'.company[q])
               PROVE  decisions'.company[q].entity = tables'.identity
    BY DEF ExternalIdIsDecisive, Resolves
  <2>0. q \in Rows  BY ResolutionAssumption
  <2>1. CASE q = r  BY <2>0, <2>1 DEF Decides, Writes
  <2>2. CASE q # r
    <3>1. decisions'.company[q] = decisions.company[q]  BY <2>0, <2>2 DEF Decides
    <3>2. decisions.company[q].entity = tables.identity
      BY <3>1 DEF IInv, ExternalIdIsDecisive
    <3>3. decisions.company[q].entity \in Companies
      BY <2>0, <3>1 DEF IInv, DecisionsOK, WellFormed, Resolves, Automatic
    <3>4. None \notin Companies  BY ResolutionAssumption DEF None, Companies, Old, Rows
    <3> QED  BY <3>1, <3>2, <3>3, <3>4 DEF Writes
  <2> QED  BY <2>1, <2>2
<1>9. DoneIsWhole'  BY <1>4 DEF IInv, DoneIsWhole
<1>10. ASSUME EInv PROVE EInv'
  <2>1. IsFiniteSet(tables'.links)
    <3>1. IsFiniteSet(tables.links)  BY <1>10 DEF EInv
    <3>2. \A e : IsFiniteSet(tables.links \union {e})  BY <3>1, FS_AddElement
    <3> QED  BY <3>1, <3>2 DEF Writes
  <2>2. Untouched'  BY <1>10 DEF Untouched
  <2> QED  BY <1>10, <2>1, <2>2 DEF EInv
<1> QED  BY <1>1, <1>2, <1>3, <1>5, <1>6, <1>7, <1>8, <1>9, <1>10 DEF IInv

\* A set that only r may have joined.
LEMMA JoinedBy ==
  ASSUME NEW S, NEW T, NEW r, S \subseteq T, \A q \in T : q # r => q \in S
  PROVE  T = IF r \in T THEN S \union {r} ELSE S
OBVIOUS

\* What the insert of a row makes of the tables, when nothing collides.
LEMMA FlushedOK ==
  ASSUME IInv, NEW w \in Workers, NEW r \in Rows,
         NEW company \in CompanyMatches(r, me[w].index),
         NEW contact \in ContactMatches(r, company, me[w].index),
         NEW new, new = Resolved(me[w].index, r, company, contact),
         ~Collides(r, me[w].index, new), tables' = Flushed(me[w].index, new, company)
  PROVE  /\ Writes(r, company, contact)
         /\ new \in Tables /\ new.identity \in {None, tables'.identity}
         /\ new.links \subseteq tables'.links
         /\ IF new.links # me[w].index.links
            THEN /\ Resolves(company) /\ Resolves(contact)
                 /\ <<company.entity, contact.entity>> \notin tables.links
            ELSE tables'.links = tables.links
<1> DEFINE old == me[w].index
           pair == <<company.entity, contact.entity>>
<1>1. /\ old \in Tables /\ tables \in Tables
      /\ old.identity \in {None, tables.identity} /\ old.links \subseteq tables.links
  BY DEF IInv, LooseTypeOK, LocalsOK, Fits, Locals
<1>2. company \in Decisions /\ WellFormed(company, Companies)
      /\ (r \in External /\ old.identity # None => company.entity = old.identity)
  BY <1>1, CompanyMatchOK
<1>3. contact \in Decisions /\ WellFormed(contact, Contacts)
  BY <1>1, <1>2, ContactMatchOK
<1>4. /\ new \in Tables
      /\ new.identity = IF Resolves(company) /\ r \in External /\ old.identity = None
                        THEN company.entity ELSE old.identity
      /\ new.links = IF Resolves(company) /\ Resolves(contact)
                     THEN old.links \union {pair} ELSE old.links
  BY <1>1, <1>2, <1>3, ResolvedOK
<1>5. /\ new.identity # old.identity => tables.identity = None
      /\ (new.links \ old.links) \cap tables.links = {}
  BY DEF Collides, AddedTwice
<1>6. Resolves(company) => company.entity \in Companies
  BY <1>2 DEF WellFormed, Resolves, Automatic
<1>7. None \notin Companies  BY ResolutionAssumption DEF None, Companies, Old, Rows
<1>8. tables' \in Tables
  <2> DEFINE p == IF Resolves(company)
                  THEN [tables.profile EXCEPT ![company.entity] = new.profile[company.entity]]
                  ELSE tables.profile
  <2>1. p \in [Companies -> Profiles]  BY <1>1, <1>4, <1>6 DEF Tables
  <2>2. tables' = [companies |-> tables.companies \union (new.companies \ old.companies),
                   contacts |-> tables.contacts \union (new.contacts \ old.contacts),
                   identity |-> IF new.identity # old.identity THEN new.identity
                                ELSE tables.identity,
                   profile |-> p,
                   links |-> tables.links \union (new.links \ old.links)]
    BY DEF Flushed
  <2> HIDE DEF p
  <2> QED  BY <1>1, <1>4, <2>1, <2>2 DEF Tables
<1>9. /\ tables'.links = tables.links \union (new.links \ old.links)
      /\ tables'.identity = IF new.identity # old.identity THEN new.identity ELSE tables.identity
  BY DEF Flushed
<1>10. tables'.links = IF Resolves(company) /\ Resolves(contact)
                       THEN tables.links \union {pair} ELSE tables.links
  BY <1>1, <1>4, <1>9
<1>11. tables.identity # None => tables'.identity = tables.identity
  BY <1>5, <1>9
<1>12. r \in External /\ Resolves(company) => company.entity = tables'.identity
  BY <1>1, <1>2, <1>4, <1>6, <1>7, <1>9
<1>13. new.identity \in {None, tables'.identity}  BY <1>1, <1>9, <1>4
<1>14. new.links \subseteq tables'.links  BY <1>1, <1>9
<1>15. IF new.links # old.links
       THEN Resolves(company) /\ Resolves(contact) /\ pair \notin tables.links
       ELSE tables'.links = tables.links
  BY <1>4, <1>5, <1>9, ZenonT(60)
<1> QED  BY <1>4, <1>8, <1>10, <1>11, <1>12, <1>13, <1>14, <1>15 DEF Writes

\* A row that is decided joins the rows of the counters that count it.
LEMMA RowJoins ==
  ASSUME IInv, NEW r \in Rows, NEW company, NEW contact, Decides(r, company, contact)
  PROVE  \A x \in Names : Counted'[x] = IF r \in Counted'[x] THEN Counted[x] \union {r} ELSE Counted[x]
<1> SUFFICES ASSUME NEW x \in Names
             PROVE  Counted'[x] = IF r \in Counted'[x] THEN Counted[x] \union {r} ELSE Counted[x]
  OBVIOUS
<1> DEFINE S == Counted[x]
           T == Counted'[x]
<1>1. S \subseteq T  BY DecidesOnce
<1>2. \A q \in T : q # r => q \in S
  <2>1. T \subseteq Rows  BY CountedFinite
  <2>2. \A q \in Rows \ {r} : q \in S <=> q \in T  BY DecidesOnce
  <2> QED  BY <2>1, <2>2
<1> HIDE DEF S, T
<1>3. T = IF r \in T THEN S \union {r} ELSE S  BY <1>1, <1>2, JoinedBy
<1> QED  BY <1>3 DEF S, T

\* What the worker counts of a row that was not decided before.
LEMMA RowCounts ==
  ASSUME IInv, NEW r \in Rows, NEW company, NEW contact, Decides(r, company, contact),
         decisions.company[r] = Undecided, ~company.reviewed,
         company.kind \in {"auto_create", "auto_merge", "review_required", "rejected"},
         company.kind = "rejected" => company = Decision("rejected", None),
         contact.kind \in {"none", "auto_create", "auto_merge", "review_required", "rejected"},
         contact.kind = "rejected" => contact = Decision("rejected", None),
         NEW linked \in BOOLEAN,
         linked => /\ Resolves(company) /\ Resolves(contact)
                   /\ <<company.entity, contact.entity>> \notin tables.links
                   /\ tables'.links = tables.links \union {<<company.entity, contact.entity>>},
         ~linked => tables'.links = tables.links,
         resolution'.count = CountRow(resolution.count, company, contact, linked)
  PROVE  /\ resolution'.count \in LooseCounters
         /\ Accounted(resolution'.count, Counted')
         /\ EInv => AgreesWith(resolution'.count, Exact')
<1> DEFINE count == resolution.count
           new == resolution'.count
           pair == <<company.entity, contact.entity>>
<1>u. /\ Undecided.kind = "none" /\ ~Undecided.reviewed
      /\ Undecided # Decision("rejected", None) /\ Decision("rejected", None).kind = "rejected"
  BY DEF Undecided, Decision
<1>0. decisions.contact[r] = Undecided  BY DEF IInv, DecisionsOK
<1>1. count \in LooseCounters /\ Accounted(count, Counted)
  BY DEF IInv, LooseTypeOK, LooseResolutions, CInv
<1>2. LET Up(x, b) == IF b THEN count[x] + 1 ELSE count[x] IN
      /\ new \in LooseCounters
      /\ new.processed = count.processed + 1
      /\ new.created = Up("created", company.kind = "auto_create")
      /\ new.reused = Up("reused", company.kind = "auto_merge")
      /\ new.reviews = Up("reviews", company.kind = "review_required")
      /\ new.contactsCreated = Up("contactsCreated", contact.kind = "auto_create")
      /\ new.contactsReused = Up("contactsReused", contact.kind = "auto_merge")
      /\ new.links = Up("links", linked)
      /\ new.failed = Up("failed", "rejected" \in {company.kind, contact.kind})
  BY <1>1, CountRowIs DEF One, LooseCounters
<1>3. decisions'.company[r] = company /\ decisions'.contact[r] = contact  BY DEF Decides
<1>4. \A x \in Names : r \notin Counted[x]
  BY <1>0, <1>u, NamesAre DEF Counted, OfKind, Rejected, Both, Resolves, Automatic
<1>5. /\ r \in Counted'.processed
      /\ r \in Counted'.created <=> company.kind = "auto_create"
      /\ r \in Counted'.reused <=> company.kind = "auto_merge"
      /\ r \in Counted'.reviews <=> company.kind = "review_required"
  <2>1. company.kind \in Kinds  BY DEF Kinds, Automatic
  <2> QED  BY <1>3, <2>1 DEF Counted, OfKind
<1>6. /\ r \in Counted'.contactsCreated <=> contact.kind = "auto_create"
      /\ r \in Counted'.contactsReused <=> contact.kind = "auto_merge"
      /\ r \in Counted'.failed <=> "rejected" \in {company.kind, contact.kind}
      /\ linked => r \in Counted'.links
  <2>1. r \in Counted'.contactsCreated <=> contact.kind = "auto_create"
    BY <1>3 DEF Counted, OfKind
  <2>2. r \in Counted'.contactsReused <=> contact.kind = "auto_merge"
    BY <1>3 DEF Counted, OfKind
  <2>3. r \in Counted'.failed <=> "rejected" \in {company.kind, contact.kind}
    BY <1>3, <1>u DEF Counted, Rejected
  <2>4. linked => r \in Counted'.links
    BY <1>3 DEF Counted, Both, Resolves
  <2> QED  BY <2>1, <2>2, <2>3, <2>4
<1>7. \A x \in Names \ {"links"} :
        new[x] = IF r \in Counted'[x] THEN count[x] + 1 ELSE count[x]
  BY <1>2, <1>5, <1>6, NamesAre
<1>8. \A x \in Names : Counted'[x] = IF r \in Counted'[x] THEN Counted[x] \union {r} ELSE Counted[x]
  BY RowJoins
<1>n. \A x \in Names : new[x] \in Nat /\ count[x] \in Nat
  BY <1>1, <1>2, NamesAre DEF LooseCounters
<1>9. Accounted(new, Counted')
  <2>1. \A x \in Names :
          /\ Counted[x] \subseteq Counted'[x] /\ IsFiniteSet(Counted'[x]) /\ new[x] \in Nat
          /\ new[x] <= count[x] \/ (new[x] <= count[x] + 1 /\ Counted[x] # Counted'[x])
    <3> SUFFICES ASSUME NEW x \in Names
                 PROVE  new[x] <= count[x]
                          \/ (new[x] <= count[x] + 1 /\ Counted[x] # Counted'[x])
      BY <1>n, DecidesOnce
    <3>1. CASE r \in Counted'[x]
      <4>0. count[x] \in Nat /\ count[x] <= count[x] + 1  BY <1>n
      <4>1. CASE x = "links"  BY <3>1, <4>1, <1>2, <1>n, <1>4
      <4>2. CASE x # "links"  BY <3>1, <4>0, <4>2, <1>7, <1>4
      <4> QED  BY <4>1, <4>2
    <3>2. CASE r \notin Counted'[x]
      <4>0. count[x] <= count[x]  BY <1>n
      <4>1. new[x] = count[x]
        <5>1. CASE x = "links"
          <6>1. ~linked  BY <3>2, <5>1, <1>6
          <6>2. new.links = count.links  BY <6>1, <1>2
          <6> QED  BY <5>1, <6>2
        <5>2. CASE x # "links"
          <6>1. x \in Names \ {"links"}  BY <5>2
          <6>2. new[x] = IF r \in Counted'[x] THEN count[x] + 1 ELSE count[x]  BY <6>1, <1>7
          <6> QED  BY <3>2, <6>2
        <5> QED  BY <5>1, <5>2
      <4>2. new[x] <= count[x]  BY <4>0, <4>1
      <4> QED  BY <4>2
    <3> QED  BY <3>1, <3>2
  <2> DEFINE S == Counted
             T == Counted'
  <2> HIDE DEF count, new, S, T
  <2>2. Accounted(count, S)  BY <1>1 DEF S
  <2>3. \A x \in Names :
          /\ S[x] \subseteq T[x] /\ IsFiniteSet(T[x]) /\ new[x] \in Nat
          /\ new[x] <= count[x] \/ (new[x] <= count[x] + 1 /\ S[x] # T[x])
    BY <2>1 DEF S, T
  <2>4. Accounted(new, T)  BY <2>2, <2>3, AccountedStep
  <2> QED  BY <2>4 DEF T
<1>10. ASSUME EInv PROVE AgreesWith(new, Exact')
  <2>1. \A x \in Names :
          /\ IsFiniteSet(Exact[x])
          /\ \/ new[x] = count[x] /\ Exact'[x] = Exact[x]
             \/ /\ r \notin Exact[x] /\ Exact'[x] = Exact[x] \union {r}
                /\ new[x] = count[x] + 1
             \/ /\ pair \notin Exact[x] /\ Exact'[x] = Exact[x] \union {pair}
                /\ new[x] = count[x] + 1
    <3> SUFFICES ASSUME NEW x \in Names
                 PROVE  /\ IsFiniteSet(Exact[x])
                        /\ \/ new[x] = count[x] /\ Exact'[x] = Exact[x]
                           \/ /\ r \notin Exact[x] /\ Exact'[x] = Exact[x] \union {r}
                              /\ new[x] = count[x] + 1
                           \/ /\ pair \notin Exact[x] /\ Exact'[x] = Exact[x] \union {pair}
                              /\ new[x] = count[x] + 1
      OBVIOUS
    <3>1. CASE x \notin {"reviews", "links"}
      <4>1. Exact[x] = Counted[x] /\ Exact'[x] = Counted'[x]
        BY <3>1, NamesAre DEF Exact, Counted
      <4>2. IsFiniteSet(Exact[x])  BY <4>1, CountedFinite
      <4>3. new[x] = IF r \in Counted'[x] THEN count[x] + 1 ELSE count[x]  BY <3>1, <1>7
      <4> QED  BY <4>1, <4>2, <4>3, <1>4, <1>8
    <3>2. CASE x = "links"
      <4>1. Exact[x] = tables.links /\ Exact'[x] = tables'.links
        BY <3>2 DEF Exact, Counted
      <4>2. IsFiniteSet(Exact[x])  BY <4>1, <1>10 DEF EInv
      <4>3. new[x] = IF linked THEN count[x] + 1 ELSE count[x]  BY <3>2, <1>2
      <4> QED  BY <4>1, <4>2, <4>3
    <3>3. CASE x = "reviews"
      <4>1. /\ Exact[x] = OfKind("company", {"review_required"})
            /\ Exact'[x] = OfKind("company", {"review_required"})'
        BY <3>3 DEF Exact, Counted
      <4>2. IsFiniteSet(Exact[x])
        <5>1. Exact[x] \subseteq Rows  BY <4>1 DEF OfKind
        <5> QED  BY <5>1, RowsFinite, FS_Subset
      <4>3. r \notin Exact[x] /\ (r \in Exact'[x] <=> company.kind = "review_required")
        BY <4>1, <1>3, <1>u DEF OfKind
      <4>4. Exact[x] \subseteq Exact'[x] /\ \A q \in Exact'[x] : q # r => q \in Exact[x]
        BY <4>1, <4>3 DEF OfKind, Decides
      <4>5. Exact'[x] = IF r \in Exact'[x] THEN Exact[x] \union {r} ELSE Exact[x]
        <5>1. CASE r \in Exact'[x]
          <6>1. Exact'[x] = Exact[x] \union {r}
            BY <5>1, <4>4
          <6> QED  BY <5>1, <6>1
        <5>2. CASE r \notin Exact'[x]
          <6>1. Exact'[x] = Exact[x]
            BY <5>2, <4>4
          <6> QED  BY <5>2, <6>1
        <5> QED  BY <5>1, <5>2
      <4>6. new[x] = IF company.kind = "review_required" THEN count[x] + 1 ELSE count[x]
        BY <3>3, <1>2
      <4> QED  BY <4>2, <4>3, <4>5, <4>6
    <3> QED  BY <3>1, <3>2, <3>3
  <2> DEFINE S == Exact
             T == Exact'
  <2>2. AgreesWith(count, S)  BY <1>10 DEF EInv
  <2> HIDE DEF count, new, pair, S, T
  <2>3. \A x \in Names :
          /\ IsFiniteSet(S[x])
          /\ \/ new[x] = count[x] /\ T[x] = S[x]
             \/ \E e : e \notin S[x] /\ T[x] = S[x] \union {e} /\ new[x] = count[x] + 1
    BY <2>1 DEF S, T
  <2>4. AgreesWith(new, T)  BY <2>2, <2>3, AgreesStep
  <2> QED  BY <2>4 DEF T
<1> QED  BY <1>2, <1>9, <1>10

\* _resolve_row: it aborts and changes nothing, or decides the row.
LEMMA ResolveRowOK ==
  ASSUME IInv, NEW w \in Workers, ResolveRow(w)
  PROVE  IInv' /\ Once /\ (EInv => EInv')
<1> DEFINE r == me[w].after + 1
           old == me[w].index
<1>0. pc[w] = "row" /\ pc[w] \notin Idle /\ UNCHANGED <<jobs, request, faults>>
  BY DEF ResolveRow, Idle
<1>j. me[w].job \in DOMAIN jobs /\ jobs # <<>>  BY <1>0, JobThere
<1>t. /\ me[w] \in Locals /\ me[w].after \in 0 .. NRows /\ Fits(me[w]) /\ old \in Tables
      /\ me[w].done \subseteq Rows
  BY DEF IInv, LooseTypeOK, Locals, LocalsOK
<1>r. r \in Rows /\ r \in 0 .. NRows
  BY <1>t, ResolutionAssumption DEF ResolveRow, Rows
<1> DEFINE Outcome(company, contact) ==
             LET new == Resolved(old, r, company, contact)
             IN  IF \/ Collides(r, old, new)
                    \/ company.kind = "auto_merge" /\ company.entity \notin old.companies
                 THEN AbortRow(w) /\ UNCHANGED <<resolution, decisions, tables>>
                 ELSE /\ decisions' = [decisions EXCEPT !.company[r] = company,
                                                        !.contact[r] = contact]
                      /\ tables' = Flushed(old, new, company)
                      /\ resolution' =
                           [status |-> "running",
                            count |-> CountRow(resolution.count, company, contact,
                                               new.links # old.links)]
                      /\ me' = [me EXCEPT ![w].index = new, ![w].after = r, ![w].done = @ \union {r}]
                      /\ NextRow(w)
<1>c. PICK company \in CompanyMatches(r, old) :
        \E contact \in ContactMatches(r, company, old) : Outcome(company, contact)
  BY DEF ResolveRow
<1>1. PICK contact \in ContactMatches(r, company, old) : Outcome(company, contact)
  BY <1>c
<1> DEFINE new == Resolved(old, r, company, contact)
           linked == new.links # old.links
           abort == \/ Collides(r, old, new)
                    \/ company.kind = "auto_merge" /\ company.entity \notin old.companies
<1>2. CASE abort
  <2>1. Throw(w) /\ UNCHANGED <<resolution, decisions, tables>>
    BY <1>1, <1>2 DEF AbortRow
  <2>2. Light(w)  BY <1>0, <2>1, ThrowMoves, NothingMoves DEF Light
  <2> QED  BY <2>2, LightStep DEF Light, RequestMoves
<1>3. CASE ~abort
  <2>1. /\ decisions' = [decisions EXCEPT !.company[r] = company, !.contact[r] = contact]
        /\ tables' = Flushed(old, new, company)
        /\ resolution' = [status |-> "running",
                          count |-> CountRow(resolution.count, company, contact, linked)]
        /\ me' = [me EXCEPT ![w].index = new, ![w].after = r, ![w].done = @ \union {r}]
        /\ NextRow(w) /\ ~Collides(r, old, new)
    BY <1>1, <1>3
  <2> HIDE DEF abort
  <2>2. /\ company \in Decisions /\ WellFormed(company, Companies) /\ ~company.reviewed
        /\ company.kind \in {"auto_create", "auto_merge", "review_required", "rejected"}
        /\ company.kind = "rejected" => company = Decision("rejected", None)
    BY <1>t, <1>r, CompanyMatchOK
  <2>3. /\ contact \in Decisions /\ WellFormed(contact, Contacts) /\ ~contact.reviewed
        /\ contact.kind \in {"none", "auto_create", "auto_merge", "review_required", "rejected"}
        /\ contact.kind = "rejected" => contact = Decision("rejected", None)
    BY <1>t, <1>r, <2>2, ContactMatchOK
  <2>4. decisions.company[r] = Undecided /\ decisions.contact[r] = Undecided
    <3>1. decisions.company[r] = Undecided  BY <2>1 DEF Collides
    <3> QED  BY <1>r, <3>1 DEF IInv, DecisionsOK
  <2>5. /\ Writes(r, company, contact)
        /\ new \in Tables /\ new.identity \in {None, tables'.identity}
        /\ new.links \subseteq tables'.links
        /\ IF linked
           THEN /\ Resolves(company) /\ Resolves(contact)
                /\ <<company.entity, contact.entity>> \notin tables.links
           ELSE tables'.links = tables.links
    BY <1>r, <2>1, FlushedOK
  <2> HIDE DEF r, new
  <2>6. /\ decisions' \in [company : [Rows -> Decisions], contact : [Rows -> Decisions]]
        /\ \A q \in Rows : decisions'.company[q] = IF q = r THEN company ELSE decisions.company[q]
        /\ \A q \in Rows : decisions'.contact[q] = IF q = r THEN contact ELSE decisions.contact[q]
    BY <1>r, <2>1, <2>2, <2>3 DEF IInv, LooseTypeOK
  <2>7. Decides(r, company, contact)
    <3>1. company # Undecided  BY <2>2 DEF Undecided, Decision
    <3> QED  BY <2>2, <2>3, <2>4, <2>6, <3>1 DEF Decides
  <2>8. /\ resolution'.count \in LooseCounters /\ Accounted(resolution'.count, Counted')
        /\ EInv => AgreesWith(resolution'.count, Exact')
    <3>1. resolution'.count = CountRow(resolution.count, company, contact, linked)
      BY <2>1
    <3>2. linked \in BOOLEAN  OBVIOUS
    <3>3. linked => tables'.links = tables.links \union {<<company.entity, contact.entity>>}
      BY <2>5 DEF Writes
    <3> HIDE DEF linked
    <3> QED  BY <1>r, <2>2, <2>3, <2>4, <2>5, <2>7, <3>1, <3>2, <3>3, RowCounts
  <2>9. resolution' \in LooseResolutions /\ resolution'.status \notin Done
    <3> HIDE DEF linked
    <3>1. resolution'.status = "running"  BY <2>1
    <3> QED  BY <2>1, <2>8, <3>1 DEF LooseResolutions, ResolutionStatuses, Waiting, Done
  <2> DEFINE a == [me[w] EXCEPT !.index = new]
             b == [a EXCEPT !.after = r]
             l == [b EXCEPT !.done = @ \union {r}]
  <2>10. me' = [me EXCEPT ![w] = l]
    BY <2>1 
  <2>11. a \in Locals /\ a.job = me[w].job /\ a.index = new /\ a.done = me[w].done
    BY <1>t, <2>5 DEF Locals
  <2> HIDE DEF a
  <2>12. b \in Locals /\ b.job = me[w].job /\ b.index = new /\ b.done = me[w].done /\ b.after = r
    BY <1>r, <2>11 DEF Locals
  <2> HIDE DEF b
  <2>13. /\ l \in Locals /\ l.job = me[w].job /\ l.index = new
         /\ l.done = me[w].done \union {r} /\ l.after = r
    BY <1>r, <1>t, <2>12 DEF Locals
  <2> HIDE DEF l
  <2>14. PICK label \in {"row", "beat"} : GoTo(w, label)  BY <2>1 DEF NextRow
  <2>15. /\ pc' \in [Workers -> Labels] /\ me' \in [Workers -> Locals]
         /\ \A v \in Workers : /\ me'[v] = IF v = w THEN l ELSE me[v]
                               /\ pc'[v] = IF v = w THEN label ELSE pc[v]
    BY <2>10, <2>13, <2>14 DEF IInv, LooseTypeOK, GoTo, Labels
  <2>16. \A v \in Workers : pc'[v] \notin Idle => me'[v].job \in DOMAIN jobs
    BY <1>j, <2>13, <2>15 DEF IInv, WorkersOK
  <2>17. \A q \in Rows : q \in l.done \/ q <= l.after => q = r \/ decisions.company[q] # Undecided
    <3>1. \A q \in Rows : q <= r => q <= me[w].after \/ q = r
      BY <1>t, ResolutionAssumption DEF Rows, r
    <3> QED  BY <1>t, <2>13, <3>1 DEF Fits
  <2> QED  BY <1>0, <1>j, <1>r, <2>5, <2>7, <2>8, <2>9, <2>13, <2>15, <2>16, <2>17, DecideStep
<1> QED  BY <1>2, <1>3

\* What a review counts: its row joins some counters and may leave reviews.
LEMMA ReviewCounts ==
  ASSUME IInv, NEW r \in Rows, NEW company, NEW contact, Decides(r, company, contact),
         NEW new \in LooseCounters,
         \A x \in Names \ {"links", "reviews"} :
           new[x] = IF r \in Counted'[x] /\ r \notin Counted[x]
                    THEN resolution.count[x] + 1 ELSE resolution.count[x],
         NEW linked \in BOOLEAN, NEW pair,
         new.links = IF linked THEN resolution.count.links + 1 ELSE resolution.count.links,
         linked => /\ r \in Counted'.links /\ r \notin Counted.links
                   /\ pair \notin tables.links /\ tables'.links = tables.links \union {pair},
         ~linked => tables'.links = tables.links,
         \/ new.reviews = resolution.count.reviews /\ Exact'.reviews = Exact.reviews
         \/ /\ new.reviews = IF resolution.count.reviews = 0 THEN 0
                             ELSE resolution.count.reviews - 1
            /\ r \in Exact.reviews /\ Exact'.reviews = Exact.reviews \ {r}
  PROVE  Accounted(new, Counted') /\ (EInv => AgreesWith(new, Exact'))
<1> DEFINE count == resolution.count
<1>1. count \in LooseCounters /\ Accounted(count, Counted)
  BY DEF IInv, LooseTypeOK, LooseResolutions, CInv
<1>n. \A x \in Names : new[x] \in Nat /\ count[x] \in Nat
  BY <1>1, NamesAre DEF LooseCounters
<1>2. \A x \in Names : Counted'[x] = IF r \in Counted'[x] THEN Counted[x] \union {r} ELSE Counted[x]
  BY RowJoins
<1>3. Accounted(new, Counted')
  <2>1. \A x \in Names :
          /\ Counted[x] \subseteq Counted'[x] /\ IsFiniteSet(Counted'[x]) /\ new[x] \in Nat
          /\ new[x] <= count[x] \/ (new[x] <= count[x] + 1 /\ Counted[x] # Counted'[x])
    <3> SUFFICES ASSUME NEW x \in Names
                 PROVE  new[x] <= count[x]
                          \/ (new[x] <= count[x] + 1 /\ Counted[x] # Counted'[x])
      BY <1>n, DecidesOnce
    <3>1. CASE x = "links"  BY <3>1, <1>n
    <3>2. CASE x = "reviews"  BY <3>2, <1>n
    <3>3. CASE x \notin {"links", "reviews"}  BY <3>3, <1>n
    <3> QED  BY <3>1, <3>2, <3>3
  <2> DEFINE S == Counted
             T == Counted'
  <2> HIDE DEF count, S, T
  <2>2. Accounted(count, S)  BY <1>1 DEF S
  <2>3. \A x \in Names :
          /\ S[x] \subseteq T[x] /\ IsFiniteSet(T[x]) /\ new[x] \in Nat
          /\ new[x] <= count[x] \/ (new[x] <= count[x] + 1 /\ S[x] # T[x])
    BY <2>1 DEF S, T
  <2>4. Accounted(new, T)  BY <2>2, <2>3, AccountedStep
  <2> QED  BY <2>4 DEF T
<1>4. ASSUME EInv PROVE AgreesWith(new, Exact')
  <2> DEFINE S == Exact
             T == Exact'
  <2>0. AgreesWith(count, S)  BY <1>4 DEF EInv
  <2>1. \A x \in Names :
          /\ IsFiniteSet(S[x])
          /\ \/ new[x] = count[x] /\ T[x] = S[x]
             \/ \E e : e \notin S[x] /\ T[x] = S[x] \union {e} /\ new[x] = count[x] + 1
             \/ \E e : e \in S[x] /\ T[x] = S[x] \ {e} /\ new[x] = count[x] - 1
    <3> SUFFICES ASSUME NEW x \in Names
                 PROVE  /\ IsFiniteSet(S[x])
                        /\ \/ new[x] = count[x] /\ T[x] = S[x]
                           \/ \E e : e \notin S[x] /\ T[x] = S[x] \union {e} /\ new[x] = count[x] + 1
                           \/ \E e : e \in S[x] /\ T[x] = S[x] \ {e} /\ new[x] = count[x] - 1
      OBVIOUS
    <3>1. CASE x \notin {"reviews", "links"}
      <4>1. S[x] = Counted[x] /\ T[x] = Counted'[x]
        BY <3>1, NamesAre DEF Exact, Counted
      <4>2. IsFiniteSet(S[x])  BY <4>1, CountedFinite
      <4>3. new[x] = IF r \in Counted'[x] /\ r \notin Counted[x] THEN count[x] + 1 ELSE count[x]
        BY <3>1
      <4>4. Counted'[x] = IF r \in Counted'[x] THEN Counted[x] \union {r} ELSE Counted[x]
        BY <1>2
      <4> HIDE DEF S, T, count
      <4>5. CASE r \in Counted'[x] /\ r \notin Counted[x]  BY <4>1, <4>2, <4>3, <4>4, <4>5
      <4>6. CASE ~(r \in Counted'[x] /\ r \notin Counted[x])  BY <4>1, <4>2, <4>3, <4>4, <4>6
      <4> QED  BY <4>5, <4>6
    <3>2. CASE x = "links"
      <4>1. S[x] = tables.links /\ T[x] = tables'.links
        BY <3>2 DEF Exact, Counted
      <4>2. IsFiniteSet(S[x])  BY <4>1, <1>4 DEF EInv
      <4>3. new[x] = IF linked THEN count[x] + 1 ELSE count[x]  BY <3>2
      <4> HIDE DEF S, T, count
      <4> QED  BY <4>1, <4>2, <4>3
    <3>3. CASE x = "reviews"
      <4>1. S[x] = Exact.reviews /\ T[x] = Exact'.reviews
        BY <3>3 
      <4>2. IsFiniteSet(S[x])
        <5>1. S[x] \subseteq Rows  BY <3>3 DEF Exact, Counted, OfKind
        <5> QED  BY <5>1, RowsFinite, FS_Subset
      <4>3. count[x] = Cardinality(S[x])  BY <2>0 DEF AgreesWith
      <4>4. r \in S[x] => Cardinality(S[x]) # 0  BY <4>2, FS_EmptySet
      <4>5. CASE new[x] = count[x] /\ T[x] = S[x]  BY <4>2, <4>5
      <4>6. CASE r \in S[x] /\ T[x] = S[x] \ {r}
                   /\ new[x] = IF count[x] = 0 THEN 0 ELSE count[x] - 1
        <5>1. new[x] = count[x] - 1  BY <4>3, <4>4, <4>6
        <5> QED  BY <4>2, <4>6, <5>1
      <4> QED  BY <3>3, <4>1, <4>5, <4>6
    <3> QED  BY <3>1, <3>2, <3>3
  <2> HIDE DEF count, S, T
  <2>2. AgreesWith(new, T)  BY <2>0, <2>1, AgreesStep
  <2> QED  BY <2>2 DEF T
<1> QED  BY <1>3, <1>4

\* A review changes nobody's variables, and there was a job before it.
LEMMA ReviewStep ==
  ASSUME IInv, NEW r \in Rows, NEW company, NEW contact,
         Decides(r, company, contact), Writes(r, company, contact),
         decisions.company[r] # Undecided,
         NEW new \in LooseCounters, resolution' = [resolution EXCEPT !.count = new],
         Accounted(new, Counted'), EInv => AgreesWith(new, Exact'),
         UNCHANGED <<jobs, pc, me, request, faults>>
  PROVE  IInv' /\ Once /\ (EInv => EInv')
<1>1. /\ resolution' \in LooseResolutions /\ resolution'.count = new
      /\ resolution'.status = resolution.status
  BY DEF IInv, LooseTypeOK, LooseResolutions
<1>2. pc' \in [Workers -> Labels] /\ me' \in [Workers -> Locals]
  BY DEF IInv, LooseTypeOK
<1>3. \A v \in Workers : pc'[v] \notin Idle => me'[v].job \in DOMAIN jobs
  BY DEF IInv, WorkersOK
<1>4. EInv => jobs # <<>>  BY DEF EInv, Untouched
<1>5. \A v \in Workers : me'[v] = me[v]  OBVIOUS
<1> QED  BY <1>1, <1>2, <1>3, <1>4, <1>5, DecideStep

\* The review of a company: its row leaves reviews and joins what the reviewer chose.
LEMMA ReviewCompanyOK ==
  ASSUME IInv, NEW r \in Rows, ReviewCompany(r)
  PROVE  IInv' /\ Once /\ (EInv => EInv')
<1> DEFINE was == decisions.company[r]
           contact == decisions.contact[r]
<1>1. PICK d \in Reviews(r, was) :
        /\ MayReview(r, d)
        /\ decisions' = [decisions EXCEPT !.company[r] = d]
        /\ tables' = Linked(WithCompany(tables, r, d), d, contact)
        /\ resolution' = [resolution EXCEPT !.count =
             CountCompanyReview(@, d.kind, tables'.links # tables.links)]
  BY DEF ReviewCompany
<1>0. was.kind = "review_required" /\ UNCHANGED <<jobs, pc, me, request, faults>>
  BY DEF ReviewCompany
<1>t. /\ was \in Decisions /\ contact \in Decisions /\ tables \in Tables
      /\ WellFormed(was, Companies) /\ WellFormed(contact, Contacts)
      /\ resolution.count \in LooseCounters
  BY DEF IInv, LooseTypeOK, DecisionsOK, LooseResolutions
<1>2. /\ d \in Decisions /\ WellFormed(d, Companies) /\ d.reviewed
      /\ d.kind \in {"manual_merge", "keep_separate", "rejected"}
  <2>1. r \in Companies  BY DEF Companies
  <2> QED  BY <1>0, <1>t, <2>1, ReviewOK
<1>u. /\ Undecided.kind = "none" /\ ~Decision("rejected", None).reviewed
      /\ Decision("rejected", None).kind = "rejected"
  BY DEF Undecided, Decision
<1>3. /\ decisions' \in [company : [Rows -> Decisions], contact : [Rows -> Decisions]]
      /\ \A q \in Rows : decisions'.company[q] = IF q = r THEN d ELSE decisions.company[q]
      /\ decisions'.contact = decisions.contact
  BY <1>1, <1>2 DEF IInv, LooseTypeOK
<1>4. Decides(r, d, contact)
  <2>1. d # Undecided  BY <1>2, <1>u
  <2> QED  BY <1>0, <1>2, <1>3, <1>t, <2>1 DEF Decides
<1> DEFINE store == WithCompany(tables, r, d)
<1>5. /\ store \in Tables /\ store.links = tables.links
      /\ store.identity = IF Resolves(d) /\ r \in External /\ tables.identity = None
                          THEN d.entity ELSE tables.identity
  BY <1>2, <1>t, WithCompanyOK
<1> HIDE DEF store
<1>6. /\ tables' \in Tables /\ tables'.identity = store.identity
      /\ tables'.links = IF Resolves(d) /\ Resolves(contact)
                         THEN store.links \union {<<d.entity, contact.entity>>} ELSE store.links
  <2>1. tables' = Linked(store, d, contact)  BY <1>1 DEF store
  <2> QED  BY <1>2, <1>5, <1>t, <2>1, LinkedOK
<1>7. Writes(r, d, contact)
  <2>1. r \in External /\ Resolves(d) => d.entity = tables'.identity
    BY <1>1, <1>5, <1>6 DEF MayReview
  <2> QED  BY <1>5, <1>6, <2>1 DEF Writes
<1> DEFINE pair == <<d.entity, contact.entity>>
           linked == tables'.links # tables.links
           new == CountCompanyReview(resolution.count, d.kind, linked)
<1>8. resolution' = [resolution EXCEPT !.count = new]  BY <1>1
<1>9. /\ new \in LooseCounters
      /\ new.processed = resolution.count.processed
      /\ new.created = IF d.kind = "keep_separate" THEN resolution.count.created + 1
                       ELSE resolution.count.created
      /\ new.reused = IF d.kind = "manual_merge" THEN resolution.count.reused + 1
                      ELSE resolution.count.reused
      /\ new.reviews = IF resolution.count.reviews = 0 THEN 0 ELSE resolution.count.reviews - 1
      /\ new.contactsCreated = resolution.count.contactsCreated
      /\ new.contactsReused = resolution.count.contactsReused
      /\ new.links = IF linked THEN resolution.count.links + 1 ELSE resolution.count.links
      /\ new.failed = resolution.count.failed
  <2> DEFINE count == resolution.count
  <2>0. count \in LooseCounters  BY <1>t
  <2> HIDE DEF count
  <2>1. /\ count.created \in Nat /\ count.reused \in Nat /\ count.contactsCreated \in Nat
        /\ count.contactsReused \in Nat /\ count.links \in Nat
    BY <2>0 DEF LooseCounters
  <2>2. \A n \in Nat : n + 1 \in Nat /\ n + 0 = n  OBVIOUS
  <2> DEFINE x == CountCompanyReview(count, d.kind, linked)
  <2>3. /\ x \in LooseCounters
        /\ x.processed = count.processed
        /\ x.created = count.created + One(d.kind = "keep_separate")
        /\ x.reused = count.reused + One(d.kind = "manual_merge")
        /\ x.reviews = IF count.reviews = 0 THEN 0 ELSE count.reviews - 1
        /\ x.contactsCreated = count.contactsCreated
        /\ x.contactsReused = count.contactsReused
        /\ x.links = count.links + One(linked)
        /\ x.failed = count.failed
    BY <2>0, CountCompanyReviewIs
  <2> HIDE DEF x
  <2>4. new = x  BY DEF count, x
  <2> HIDE DEF new, linked
  <2>5. x.links = IF linked THEN count.links + 1 ELSE count.links
    BY <2>1, <2>2, <2>3 DEF One
  <2>6. x.created = IF d.kind = "keep_separate" THEN count.created + 1 ELSE count.created
    BY <2>1, <2>2, <2>3 DEF One
  <2>7. x.reused = IF d.kind = "manual_merge" THEN count.reused + 1 ELSE count.reused
    BY <2>1, <2>2, <2>3 DEF One
  <2> QED  BY <2>3, <2>4, <2>5, <2>6, <2>7 DEF count
<1> HIDE DEF new
<1>10. decisions'.company[r] = d /\ decisions'.contact[r] = contact  BY <1>3
<1>11. /\ r \in Counted.processed
       /\ r \notin Counted.created /\ r \notin Counted.reused
       /\ r \in Counted'.created <=> d.kind = "keep_separate"
       /\ r \in Counted'.reused <=> d.kind = "manual_merge"
  BY <1>0, <1>2, <1>10, <1>t DEF Counted, OfKind, Kinds
<1>12. /\ r \in Counted'.contactsCreated => r \in Counted.contactsCreated
       /\ r \in Counted'.contactsReused => r \in Counted.contactsReused
       /\ r \in Counted'.failed => r \in Counted.failed
  <2>1. r \in Counted'.contactsCreated => r \in Counted.contactsCreated
    BY <1>10 DEF Counted, OfKind
  <2>2. r \in Counted'.contactsReused => r \in Counted.contactsReused
    BY <1>10 DEF Counted, OfKind
  <2>3. r \in Counted'.failed => r \in Counted.failed
    BY <1>2, <1>10, <1>u DEF Counted, Rejected
  <2> QED  BY <2>1, <2>2, <2>3
<1>13. \A x \in Names \ {"links", "reviews"} :
         new[x] = IF r \in Counted'[x] /\ r \notin Counted[x]
                  THEN resolution.count[x] + 1 ELSE resolution.count[x]
  <2> DEFINE Counts(x) == new[x] = IF r \in Counted'[x] /\ r \notin Counted[x]
                                   THEN resolution.count[x] + 1 ELSE resolution.count[x]
  <2>1. Counts("processed")  BY <1>9, <1>11, <1>12
  <2>2. Counts("created")  BY <1>9, <1>11, <1>12
  <2>3. Counts("reused")  BY <1>9, <1>11, <1>12
  <2>4. Counts("contactsCreated")  BY <1>9, <1>11, <1>12
  <2>5. Counts("contactsReused")  BY <1>9, <1>11, <1>12
  <2>6. Counts("failed")  BY <1>9, <1>11, <1>12
  <2> HIDE DEF Counts
  <2>7. \A x \in Names \ {"links", "reviews"} : Counts(x)
    BY <2>1, <2>2, <2>3, <2>4, <2>5, <2>6, NamesAre
  <2> QED  BY <2>7 DEF Counts
<1>14. /\ linked => /\ r \in Counted'.links /\ r \notin Counted.links
                    /\ pair \notin tables.links /\ tables'.links = tables.links \union {pair}
       /\ ~linked => tables'.links = tables.links
  <2>1. linked => Resolves(d) /\ Resolves(contact)  BY <1>5, <1>6
  <2>2. ~Resolves(was)  BY <1>0 DEF Resolves, Automatic
  <2>3. r \notin Counted.links  BY <2>2 DEF Counted, Both
  <2>4. linked => r \in Counted'.links  BY <1>10, <2>1 DEF Counted, Both, Resolves
  <2> QED  BY <1>5, <1>6, <2>1, <2>3, <2>4
<1>15. r \in Exact.reviews /\ Exact'.reviews = Exact.reviews \ {r}
  <2>1. Exact.reviews = OfKind("company", {"review_required"})  BY DEF Exact, Counted
  <2>2. Exact'.reviews = OfKind("company", {"review_required"})'  BY DEF Exact, Counted
  <2>3. \A q \in Rows : q \in OfKind("company", {"review_required"})' <=>
                          q # r /\ q \in OfKind("company", {"review_required"})
    BY <1>2, <1>3 DEF OfKind
  <2>4. /\ OfKind("company", {"review_required"}) \subseteq Rows
        /\ OfKind("company", {"review_required"})' \subseteq Rows
    BY DEF OfKind
  <2>5. r \in OfKind("company", {"review_required"})  BY <1>0 DEF OfKind
  <2> QED  BY <2>1, <2>2, <2>3, <2>4, <2>5
<1>16. Accounted(new, Counted') /\ (EInv => AgreesWith(new, Exact'))
  <2>1. linked \in BOOLEAN  OBVIOUS
  <2> HIDE DEF linked, pair
  <2> QED  BY <1>4, <1>9, <1>13, <1>14, <1>15, <2>1, ReviewCounts
<1>17. was # Undecided  BY <1>0, <1>u
<1> QED  BY <1>0, <1>4, <1>7, <1>8, <1>9, <1>16, <1>17, ReviewStep

\* The review of a contact, which no counter of pending reviews counts.
LEMMA ReviewContactOK ==
  ASSUME IInv, NEW r \in Rows, ReviewContact(r)
  PROVE  IInv' /\ Once /\ (EInv => EInv')
<1> DEFINE was == decisions.contact[r]
           company == decisions.company[r]
<1>1. PICK d \in Reviews(r, was) :
        /\ decisions' = [decisions EXCEPT !.contact[r] = d]
        /\ tables' = Linked(WithPerson(tables, d), company, d)
        /\ resolution' = [resolution EXCEPT !.count =
             CountContactReview(@, d.kind, tables'.links # tables.links)]
  BY DEF ReviewContact
<1>0. was.kind = "review_required" /\ UNCHANGED <<jobs, pc, me, request, faults>>
  BY DEF ReviewContact
<1>t. /\ was \in Decisions /\ company \in Decisions /\ tables \in Tables
      /\ WellFormed(was, Contacts) /\ WellFormed(company, Companies)
      /\ resolution.count \in LooseCounters
  BY DEF IInv, LooseTypeOK, DecisionsOK, LooseResolutions
<1>2. /\ d \in Decisions /\ WellFormed(d, Contacts) /\ d.reviewed
      /\ d.kind \in {"manual_merge", "keep_separate", "rejected"}
  <2>1. r \in Contacts /\ Contacts \subseteq Companies  BY DEF Contacts, Companies
  <2> QED  BY <1>0, <1>t, <2>1, ReviewOK
<1>u. /\ Undecided.kind = "none" /\ ~Decision("rejected", None).reviewed
      /\ Decision("rejected", None).kind = "rejected"
  BY DEF Undecided, Decision
<1>3. /\ decisions' \in [company : [Rows -> Decisions], contact : [Rows -> Decisions]]
      /\ \A q \in Rows : decisions'.contact[q] = IF q = r THEN d ELSE decisions.contact[q]
      /\ decisions'.company = decisions.company
  BY <1>1, <1>2 DEF IInv, LooseTypeOK
<1>c. company # Undecided  BY <1>0, <1>u DEF IInv, DecisionsOK
<1>4. Decides(r, company, d)
  BY <1>0, <1>2, <1>3, <1>c, <1>t DEF Decides
<1> DEFINE store == WithPerson(tables, d)
<1>5. store \in Tables /\ store.links = tables.links /\ store.identity = tables.identity
  BY <1>2, <1>t, WithPersonOK
<1> HIDE DEF store
<1>6. /\ tables' \in Tables /\ tables'.identity = store.identity
      /\ tables'.links = IF Resolves(company) /\ Resolves(d)
                         THEN store.links \union {<<company.entity, d.entity>>} ELSE store.links
  <2>1. tables' = Linked(store, company, d)  BY <1>1 DEF store
  <2> QED  BY <1>2, <1>5, <1>t, <2>1, LinkedOK
<1>7. Writes(r, company, d)
  <2>1. r \in External /\ Resolves(company) => company.entity = tables'.identity
    BY <1>5, <1>6 DEF IInv, ExternalIdIsDecisive
  <2> QED  BY <1>5, <1>6, <2>1 DEF Writes
<1> DEFINE pair == <<company.entity, d.entity>>
           linked == tables'.links # tables.links
           new == CountContactReview(resolution.count, d.kind, linked)
<1>8. resolution' = [resolution EXCEPT !.count = new]  BY <1>1
<1>9. /\ new \in LooseCounters
      /\ new.processed = resolution.count.processed
      /\ new.created = resolution.count.created
      /\ new.reused = resolution.count.reused
      /\ new.reviews = resolution.count.reviews
      /\ new.contactsCreated = IF d.kind = "keep_separate"
                               THEN resolution.count.contactsCreated + 1
                               ELSE resolution.count.contactsCreated
      /\ new.contactsReused = IF d.kind = "manual_merge"
                              THEN resolution.count.contactsReused + 1
                              ELSE resolution.count.contactsReused
      /\ new.links = IF linked THEN resolution.count.links + 1 ELSE resolution.count.links
      /\ new.failed = resolution.count.failed
  <2> DEFINE count == resolution.count
  <2>0. count \in LooseCounters  BY <1>t
  <2> HIDE DEF count
  <2>1. /\ count.created \in Nat /\ count.reused \in Nat /\ count.contactsCreated \in Nat
        /\ count.contactsReused \in Nat /\ count.links \in Nat
    BY <2>0 DEF LooseCounters
  <2>2. \A n \in Nat : n + 1 \in Nat /\ n + 0 = n  OBVIOUS
  <2> DEFINE x == CountContactReview(count, d.kind, linked)
  <2>3. /\ x \in LooseCounters
        /\ x.processed = count.processed
        /\ x.created = count.created
        /\ x.reused = count.reused
        /\ x.reviews = count.reviews
        /\ x.contactsCreated = count.contactsCreated + One(d.kind = "keep_separate")
        /\ x.contactsReused = count.contactsReused + One(d.kind = "manual_merge")
        /\ x.links = count.links + One(linked)
        /\ x.failed = count.failed
    BY <2>0, CountContactReviewIs
  <2> HIDE DEF x
  <2>4. new = x  BY DEF count, x
  <2> HIDE DEF new, linked
  <2>5. x.links = IF linked THEN count.links + 1 ELSE count.links
    BY <2>1, <2>2, <2>3 DEF One
  <2>6. x.contactsCreated = IF d.kind = "keep_separate"
          THEN count.contactsCreated + 1 ELSE count.contactsCreated
    BY <2>1, <2>2, <2>3 DEF One
  <2>7. x.contactsReused = IF d.kind = "manual_merge"
          THEN count.contactsReused + 1 ELSE count.contactsReused
    BY <2>1, <2>2, <2>3 DEF One
  <2> QED  BY <2>3, <2>4, <2>5, <2>6, <2>7 DEF count
<1> HIDE DEF new
<1>10. decisions'.company[r] = company /\ decisions'.contact[r] = d  BY <1>3
<1>11. /\ r \in Counted'.processed => r \in Counted.processed
       /\ r \in Counted'.created => r \in Counted.created
       /\ r \in Counted'.reused => r \in Counted.reused
  BY <1>10 DEF Counted, OfKind
<1>12. /\ r \notin Counted.contactsCreated /\ r \notin Counted.contactsReused
       /\ r \in Counted'.contactsCreated <=> d.kind = "keep_separate"
       /\ r \in Counted'.contactsReused <=> d.kind = "manual_merge"
       /\ r \in Counted'.failed => r \in Counted.failed
  <2>1. r \notin Counted.contactsCreated /\ r \notin Counted.contactsReused
    BY <1>0 DEF Counted, OfKind
  <2>2. /\ r \in Counted'.contactsCreated <=> d.kind = "keep_separate"
        /\ r \in Counted'.contactsReused <=> d.kind = "manual_merge"
    BY <1>2, <1>10 DEF Counted, OfKind
  <2>3. r \in Counted'.failed => r \in Counted.failed
    BY <1>2, <1>10, <1>u DEF Counted, Rejected
  <2> QED  BY <2>1, <2>2, <2>3
<1>13. \A x \in Names \ {"links", "reviews"} :
         new[x] = IF r \in Counted'[x] /\ r \notin Counted[x]
                  THEN resolution.count[x] + 1 ELSE resolution.count[x]
  <2> DEFINE Counts(x) == new[x] = IF r \in Counted'[x] /\ r \notin Counted[x]
                                   THEN resolution.count[x] + 1 ELSE resolution.count[x]
  <2>1. Counts("processed")  BY <1>9, <1>11, <1>12
  <2>2. Counts("created")  BY <1>9, <1>11, <1>12
  <2>3. Counts("reused")  BY <1>9, <1>11, <1>12
  <2>4. Counts("contactsCreated")  BY <1>9, <1>11, <1>12
  <2>5. Counts("contactsReused")  BY <1>9, <1>11, <1>12
  <2>6. Counts("failed")  BY <1>9, <1>11, <1>12
  <2> HIDE DEF Counts
  <2>7. \A x \in Names \ {"links", "reviews"} : Counts(x)
    BY <2>1, <2>2, <2>3, <2>4, <2>5, <2>6, NamesAre
  <2> QED  BY <2>7 DEF Counts
<1>14. /\ linked => /\ r \in Counted'.links /\ r \notin Counted.links
                    /\ pair \notin tables.links /\ tables'.links = tables.links \union {pair}
       /\ ~linked => tables'.links = tables.links
  <2>1. linked => Resolves(company) /\ Resolves(d)  BY <1>5, <1>6
  <2>2. ~Resolves(was)  BY <1>0 DEF Resolves, Automatic
  <2>3. r \notin Counted.links  BY <2>2 DEF Counted, Both
  <2>4. linked => r \in Counted'.links  BY <1>10, <2>1 DEF Counted, Both, Resolves
  <2> QED  BY <1>5, <1>6, <2>1, <2>3, <2>4
<1>15. Exact'.reviews = Exact.reviews
  <2>1. Exact.reviews = OfKind("company", {"review_required"})  BY DEF Exact, Counted
  <2>2. Exact'.reviews = OfKind("company", {"review_required"})'  BY DEF Exact, Counted
  <2>3. OfKind("company", {"review_required"})' = OfKind("company", {"review_required"})
    BY <1>3 DEF OfKind
  <2> QED  BY <2>1, <2>2, <2>3
<1>16. Accounted(new, Counted') /\ (EInv => AgreesWith(new, Exact'))
  <2>1. linked \in BOOLEAN  OBVIOUS
  <2> HIDE DEF linked, pair
  <2> QED  BY <1>4, <1>9, <1>13, <1>14, <1>15, <2>1, ReviewCounts
<1> QED  BY <1>0, <1>4, <1>7, <1>8, <1>9, <1>16, <1>c, ReviewStep

------------------------------------------------------------------------------
(***************************************************************************)
(* The invariants, and what follows from them                              *)
(***************************************************************************)
LEMMA InitOK == Init => IInv /\ EInv
<1> SUFFICES ASSUME Init PROVE IInv /\ EInv
  OBVIOUS
<1>u. Undecided \in Decisions /\ Undecided.kind = "none" /\ ~Undecided.reviewed
      /\ Undecided # Decision("rejected", None)
      /\ WellFormed(Undecided, Companies) /\ WellFormed(Undecided, Contacts)
  BY DEF Undecided, Decision, Decisions, Kinds, WellFormed
<1>1. decisions \in [company : [Rows -> Decisions], contact : [Rows -> Decisions]]
      /\ \A r \in Rows : decisions.company[r] = Undecided /\ decisions.contact[r] = Undecided
  BY <1>u DEF Init
<1>2. tables \in Tables /\ tables.links = {}
  <2>1. PICK identity \in {None, Old}, address \in {Missing, Unknown} :
          tables = [NoTables EXCEPT !.companies = {Old}, !.identity = identity,
                                    !.profile[Old] = address]
    BY DEF Init
  <2> DEFINE p == [NoTables.profile EXCEPT ![Old] = address]
  <2>2. p \in [Companies -> Profiles]  BY DEF NoTables, Profiles
  <2>3. tables = [companies |-> {Old}, contacts |-> {}, identity |-> identity,
                  profile |-> p, links |-> {}]
    BY <2>1 DEF NoTables
  <2> HIDE DEF p
  <2>4. identity \in Companies \union {None} /\ {Old} \subseteq Companies  BY DEF Companies
  <2> QED  BY <2>2, <2>3, <2>4 DEF Tables
<1>3. Zero \in LooseCounters /\ Accounted(Zero, Counted) /\ NoRequest \in LooseRequests
  BY ZeroOK
<1>4. LooseTypeOK
  <2>1. resolution \in LooseResolutions
    BY <1>3 DEF Init, Absent, LooseResolutions, ResolutionStatuses
  <2>2. NoLocals \in Locals
    <3>1. NoTables \in Tables  BY DEF NoTables, Tables, Profiles
    <3>2. 0 \in 0 .. MaxJobs /\ 0 \in 0 .. NRows  BY ResolutionAssumption
    <3> QED  BY <3>1, <3>2 DEF NoLocals, Locals
  <2>3. jobs \in Seq(JobRows) /\ Len(jobs) <= MaxJobs  BY ResolutionAssumption DEF Init
  <2>4. faults \in 0 .. MaxFaults  BY ResolutionAssumption DEF Init
  <2>5. pc \in [Workers -> Labels]  BY DEF Init, Labels
  <2> QED  BY <1>1, <1>2, <1>3, <2>1, <2>2, <2>3, <2>4, <2>5 DEF Init, LooseTypeOK
<1>5. RowsOK /\ WorkersOK  BY DEF Init, RowsOK, WorkersOK, Idle
<1>6. DecisionsOK  BY <1>1, <1>u DEF DecisionsOK
<1>7. LocalsOK
  <2>1. \A r \in Rows : ~(r <= 0)  BY ResolutionAssumption DEF Rows
  <2> QED  BY <2>1 DEF Init, LocalsOK, Fits, NoLocals, NoTables
<1>8. CInv
  <2>1. Absent.count = Zero /\ NoRequest.read.count = Zero  BY DEF Absent, NoRequest
  <2> QED  BY <1>3, <2>1 DEF Init, CInv
<1>9. ResolvedPairsAreLinked /\ ExternalIdIsDecisive
  <2>1. ~Resolves(Undecided)  BY <1>u DEF Resolves, Automatic
  <2>2. External \subseteq Rows  BY ResolutionAssumption
  <2> QED  BY <1>1, <2>1, <2>2 DEF ResolvedPairsAreLinked, ExternalIdIsDecisive
<1>10. DoneIsWhole  BY DEF Init, DoneIsWhole, Absent, Done
<1>11. EInv
  <2>1. \A x \in Names : Exact[x] = {}
    <3>2. /\ OfKind("company", Kinds \ {"none"}) = {}
          /\ OfKind("company", {"auto_create", "keep_separate"}) = {}
          /\ OfKind("company", {"auto_merge", "manual_merge"}) = {}
          /\ OfKind("company", {"review_required"}) = {}
      BY <1>1, <1>u DEF OfKind
    <3>3. /\ OfKind("contact", {"auto_create", "keep_separate"}) = {}
          /\ OfKind("contact", {"auto_merge", "manual_merge"}) = {}
      BY <1>1, <1>u DEF OfKind
    <3>4. Rejected = {}  BY <1>1, <1>u DEF Rejected
    <3>5. /\ Exact.processed = {} /\ Exact.created = {} /\ Exact.reused = {}
          /\ Exact.reviews = {} /\ Exact.links = {} /\ Exact.failed = {}
          /\ Exact.contactsCreated = {} /\ Exact.contactsReused = {}
      BY <1>2, <3>2, <3>3, <3>4 DEF Exact, Counted
    <3> QED  BY <3>5, NamesAre
  <2>2. \A x \in Names : resolution.count[x] = 0
    BY NamesAre DEF Init, Absent, Zero
  <2>3. IsFiniteSet({}) /\ Cardinality({}) = 0  BY FS_EmptySet
  <2>4. AgreesWith(resolution.count, Exact)  BY <2>1, <2>2, <2>3 DEF AgreesWith
  <2>5. Untouched  BY <1>1 DEF Init, Untouched, NoRequest
  <2> QED  BY <1>2, <2>3, <2>4, <2>5 DEF EInv
<1> QED  BY <1>4, <1>5, <1>6, <1>7, <1>8, <1>9, <1>10, <1>11 DEF IInv

\* Nothing happens.
LEMMA StutterOK ==
  ASSUME IInv, UNCHANGED vars
  PROVE  IInv' /\ Once /\ (EInv => EInv')
<1>1. UNCHANGED <<resolution, decisions, tables, jobs, pc, me, request, faults>>  BY DEF vars
<1> QED  BY <1>1, NothingMoves, LightStep DEF RequestMoves

\* One step per action.
LEMMA StepOK ==
  ASSUME IInv, [Next]_vars
  PROVE  IInv' /\ Once /\ (EInv /\ MaxJobs = 1 => EInv')
<1>1. CASE LeaseTick  BY <1>1, LeaseTickOK
<1>2. ASSUME NEW k \in Clients, ReadResolution(k) \/ RefuseSubmission(k)
      PROVE  IInv' /\ Once /\ (EInv => EInv')
  BY <1>2, ReadResolutionOK
<1>3. ASSUME NEW k \in Clients, Submit(k)
      PROVE  IInv' /\ Once /\ (EInv /\ MaxJobs = 1 => EInv')
  BY <1>3, SubmitOK
<1>4. ASSUME NEW r \in Rows, ReviewCompany(r) PROVE IInv' /\ Once /\ (EInv => EInv')
  BY <1>4, ReviewCompanyOK
<1>5. ASSUME NEW r \in Rows, ReviewContact(r) PROVE IInv' /\ Once /\ (EInv => EInv')
  BY <1>5, ReviewContactOK
<1>6. ASSUME NEW w \in Workers, Work(w) \/ Raise(w) \/ Crash(w)
      PROVE  IInv' /\ Once /\ (EInv => EInv')
  <2>1. CASE ResolveRow(w)  BY <2>1, ResolveRowOK
  <2>2. CASE LightWork(w)  BY <2>2, LightWorkOK
  <2> QED  BY <1>6, <2>1, <2>2 DEF Work, LightWork
<1>7. CASE UNCHANGED vars  BY <1>7, StutterOK
<1> QED  BY <1>1, <1>2, <1>3, <1>4, <1>5, <1>6, <1>7 DEF Next

\* IInv is inductive.
LEMMA Invariant == Spec => []IInv
<1>1. Init => IInv  BY InitOK
<1>2. IInv /\ [Next]_vars => IInv'  BY StepOK
<1> QED  BY <1>1, <1>2, PTL DEF Spec

\* A counter never exceeds the rows.
LEMMA CountsBounded ==
  ASSUME IInv, NEW count \in LooseCounters, Accounted(count, Counted)
  PROVE  count \in Counters
<1>1. \A x \in Names : count[x] \in 0 .. NRows
  <2> SUFFICES ASSUME NEW x \in Names PROVE count[x] \in 0 .. NRows
    OBVIOUS
  <2>1. Cardinality(Counted[x]) <= Cardinality(Rows)
    BY CountedFinite, RowsFinite, FS_Subset
  <2>2. Cardinality(Counted[x]) \in Nat  BY CountedFinite, FS_CardinalityType
  <2>3. count[x] \in Nat /\ count[x] <= Cardinality(Counted[x])  BY DEF Accounted
  <2>4. NRows \in Nat /\ Cardinality(Rows) = NRows  BY ResolutionAssumption, RowsFinite
  <2> QED  BY <2>1, <2>2, <2>3, <2>4
<1>2. /\ count.processed \in 0 .. NRows /\ count.created \in 0 .. NRows
      /\ count.reused \in 0 .. NRows /\ count.reviews \in 0 .. NRows
      /\ count.contactsCreated \in 0 .. NRows /\ count.contactsReused \in 0 .. NRows
      /\ count.links \in 0 .. NRows /\ count.failed \in 0 .. NRows
  BY <1>1, NamesAre
<1> QED  BY <1>2 DEF LooseCounters, Counters

\* The types follow: the counters by the rows that they count.
LEMMA IInvTypes == IInv => TypeOK
<1> SUFFICES ASSUME IInv PROVE TypeOK
  OBVIOUS
<1>1. resolution \in Resolutions
  <2>1. resolution \in LooseResolutions  BY DEF IInv, LooseTypeOK
  <2>2. resolution.count \in Counters  BY <2>1, CountsBounded DEF IInv, CInv, LooseResolutions
  <2> QED  BY <2>1, <2>2 DEF LooseResolutions, Resolutions, ResolutionStatuses
<1>2. request \in [Clients -> Requests]
  <2> SUFFICES ASSUME NEW k \in Clients PROVE request[k] \in Requests
    BY DEF IInv, LooseTypeOK
  <2>1. request[k] \in LooseRequests  BY DEF IInv, LooseTypeOK
  <2>2. request[k].read.count \in Counters
    BY <2>1, CountsBounded DEF IInv, CInv, LooseRequests, LooseResolutions
  <2> QED  BY <2>1, <2>2
           DEF LooseRequests, LooseResolutions, Requests, Resolutions,
           ResolutionStatuses
<1> QED  BY <1>1, <1>2 DEF IInv, LooseTypeOK, TypeOK

\* Every variable has its type; no counter exceeds the rows of the session,
\* whatever is resubmitted, killed or reviewed.
THEOREM ResolutionTypeCorrect == Spec => []TypeOK
<1>1. IInv => TypeOK  BY IInvTypes
<1> QED  BY <1>1, Invariant, PTL

\* A company and a contact that one row was resolved to are linked: the
\* worker and the reviewers each link what the other left (_link_contact,
\* _link_after_review).
THEOREM PairsStayLinked == Spec => []ResolvedPairsAreLinked
<1>1. IInv => ResolvedPairsAreLinked  BY DEF IInv
<1> QED  BY <1>1, Invariant, PTL

\* Rows with the same external id are resolved to the one company that has
\* it, by however many workers and reviewers.
THEOREM ExternalIdStaysDecisive == Spec => []ExternalIdIsDecisive
<1>1. IInv => ExternalIdIsDecisive  BY DEF IInv
<1> QED  BY <1>1, Invariant, PTL

\* A resolution is done only when every row has its decisions.
THEOREM DoneStaysWhole == Spec => []DoneIsWhole
<1>1. IInv => DoneIsWhole  BY DEF IInv
<1> QED  BY <1>1, Invariant, PTL

\* A row is decided once, by whichever worker, and only a pending decision
\* changes again, when it is reviewed.
THEOREM RowsAreDecidedOnce == Spec => DecidedOnce
<1> DEFINE DecidedAtMostOnce ==
             \A type \in {"company", "contact"}, r \in Rows :
             LET old == decisions[type][r]
                 new == decisions'[type][r]
             IN  new # old => \/ old = Undecided
                              \/ old.kind = "review_required" /\ new.reviewed
<1>1. Once => DecidedAtMostOnce  BY DEF Once
<1>2. IInv /\ [Next]_vars => [DecidedAtMostOnce]_vars
  BY <1>1, StepOK
<1> QED  BY <1>2, Invariant, PTL DEF DecidedOnce, Spec

\* What AgreesWith says, counter by counter.
LEMMA AgreesIsCountersAgree == IInv /\ EInv => CountersAgree
<1> SUFFICES ASSUME IInv, EInv PROVE CountersAgree
  OBVIOUS
<1>1. \A x \in Names : resolution.count[x] = Cardinality(Exact[x])
  BY DEF EInv, AgreesWith
<1>2. resolution.count \in LooseCounters  BY DEF IInv, LooseTypeOK, LooseResolutions
<1> DEFINE rejected(type) == {r \in Rows : decisions[type][r] = Decision("rejected", None)}
<1>3. Rejected = rejected("company") \union rejected("contact")  BY DEF Rejected
<1>4. /\ resolution.count.processed = Count("company", Kinds \ {"none"})
      /\ resolution.count.created = Count("company", {"auto_create", "keep_separate"})
      /\ resolution.count.reused = Count("company", {"auto_merge", "manual_merge"})
      /\ resolution.count.reviews = Count("company", {"review_required"})
      /\ resolution.count.contactsCreated = Count("contact", {"auto_create", "keep_separate"})
      /\ resolution.count.contactsReused = Count("contact", {"auto_merge", "manual_merge"})
      /\ resolution.count.links = Cardinality(tables.links)
      /\ resolution.count.failed = Cardinality(Rejected)
  BY <1>1, NamesAre DEF Exact, Counted, OfKind, Count
<1> HIDE DEF rejected
<1> QED  BY <1>2, <1>3, <1>4 DEF CountersAgree, LooseCounters, rejected

\* The counters of a resolution that is submitted once are exactly those of
\* its rows' decisions, with any number of workers and reviewers between
\* whom it is resolved, and it is done only when whole.  (A resubmission
\* writes counters back that it read before: it can lose those of reviews.)
THEOREM ResultStaysWhole ==
  ASSUME MaxJobs = 1
  PROVE  Spec => []ResultIsWhole
<1>1. Init => EInv  BY InitOK
<1>2. IInv /\ EInv /\ [Next]_vars => EInv'  BY StepOK
<1>3. IInv /\ EInv => ResultIsWhole
  BY IInvTypes, AgreesIsCountersAgree DEF ResultIsWhole, IInv
<1> QED  BY <1>1, <1>2, <1>3, Invariant, PTL DEF Spec

(***************************************************************************)
(* The session's jobs implement JobLease                                 *)
(***************************************************************************)
\* A step after which JobLease can tell no row from what it was.
LEMMA LeaseStutters ==
  ASSUME \A j \in 1 .. MaxJobs : Alike(RowIn(jobs', j), RowIn(jobs, j))
  PROVE  UNCHANGED Lease!leaseVars
<1>1. /\ [j \in 1 .. MaxJobs |-> PhaseOf(RowIn(jobs', j))]
           = [j \in 1 .. MaxJobs |-> PhaseOf(RowIn(jobs, j))]
      /\ [j \in 1 .. MaxJobs |-> RowIn(jobs', j).owner] = [j \in 1 .. MaxJobs |-> RowIn(jobs, j).owner]
      /\ [j \in 1 .. MaxJobs |-> RowIn(jobs', j).attempts]
           = [j \in 1 .. MaxJobs |-> RowIn(jobs, j).attempts]
  BY DEF Alike
<1> QED  BY <1>1 DEF Lease!leaseVars

\* Jobs that are all let go make a Release.
LEMMA LeaseReleases ==
  ASSUME NEW S \in SUBSET (1 .. MaxJobs),
         \A j \in S : LetGo(RowIn(jobs, j), RowIn(jobs', j)),
         \A j \in (1 .. MaxJobs) \ S : RowIn(jobs', j) = RowIn(jobs, j)
  PROVE  Lease!Next
<1>1. PICK p \in [S -> {"waiting", "completed", "failed"}] :
        \A j \in S : p[j] = PhaseOf(RowIn(jobs', j))
  <2>1. [j \in S |-> PhaseOf(RowIn(jobs', j))] \in [S -> {"waiting", "completed", "failed"}]
    BY DEF LetGo
  <2> QED  BY <2>1
<1>2. ASSUME NEW j \in S
      PROVE  /\ PhaseOf(RowIn(jobs, j)) = "held"
             /\ p[j] = "waiting" => RowIn(jobs, j).attempts < MaxAttempts
             /\ p[j] = "failed" => RowIn(jobs, j).attempts = MaxAttempts
  BY <1>1 DEF LetGo
<1>3. /\ [j \in 1 .. MaxJobs |-> PhaseOf(RowIn(jobs', j))]
           = [j \in 1 .. MaxJobs |-> IF j \in S THEN p[j]
                ELSE [k \in 1 .. MaxJobs |-> PhaseOf(RowIn(jobs, k))][j]]
      /\ [j \in 1 .. MaxJobs |-> RowIn(jobs', j).owner]
           = [j \in 1 .. MaxJobs |-> IF j \in S THEN NoOwner
                ELSE [k \in 1 .. MaxJobs |-> RowIn(jobs, k).owner][j]]
      /\ [j \in 1 .. MaxJobs |-> RowIn(jobs', j).attempts]
           = [j \in 1 .. MaxJobs |-> RowIn(jobs, j).attempts]
  BY <1>1 DEF LetGo
<1>4. Lease!Release(S, p)  BY <1>2, <1>3 DEF Lease!Release
<1> QED  BY <1>4 DEF Lease!Next

\* The jobs are numbered from 1.
LEMMA JobNumbers ==
  ASSUME IInv
  PROVE  /\ jobs \in Seq(JobRows)
         /\ DOMAIN jobs = 1 .. Len(jobs) /\ Len(jobs) \in Nat
         /\ DOMAIN jobs \subseteq 1 .. MaxJobs /\ MaxJobs \in Nat
BY ResolutionAssumption DEF IInv, LooseTypeOK

\* A new value of one row, which JobLease does not see, or which is let go.
LEMMA LeaseOfRow ==
  ASSUME IInv, NEW j \in DOMAIN jobs, NEW row, jobs' = [jobs EXCEPT ![j] = row],
         Alike(row, jobs[j]) \/ LetGo(jobs[j], row)
  PROVE  Lease!Next \/ UNCHANGED Lease!leaseVars
<1>1. j \in 1 .. MaxJobs /\ {j} \in SUBSET (1 .. MaxJobs)  BY JobNumbers
<1>2. /\ RowIn(jobs, j) = jobs[j] /\ RowIn(jobs', j) = row
      /\ \A k \in (1 .. MaxJobs) \ {j} : RowIn(jobs', k) = RowIn(jobs, k)
  BY DEF RowIn
<1>3. CASE Alike(row, jobs[j])
  <2>1. \A k \in 1 .. MaxJobs : Alike(RowIn(jobs', k), RowIn(jobs, k))
    BY <1>2, <1>3 DEF Alike
  <2> QED  BY <2>1, LeaseStutters
<1>4. CASE LetGo(jobs[j], row)
  <2>1. \A k \in {j} : LetGo(RowIn(jobs, k), RowIn(jobs', k))  BY <1>2, <1>4
  <2> QED  BY <1>1, <1>2, <2>1, LeaseReleases
<1> QED  BY <1>3, <1>4

\* The step of a worker on a job of the queue: any other leaves the queue
\* alone.
LEMMA LeaseWork ==
  ASSUME IInv, NEW w \in Workers, Work(w) \/ Raise(w) \/ Crash(w)
  PROVE  Lease!Next \/ UNCHANGED Lease!leaseVars
<1>r. \A j \in DOMAIN jobs : RowOK(jobs[j])  BY QueueRows
<1>0. CASE jobs' = jobs
  BY <1>0, LeaseStutters DEF Alike
<1>1. CASE RecoverStale(w)
  <2>1. /\ \A j \in Stale : /\ j \in DOMAIN jobs /\ Held(jobs[j])
                            /\ jobs'[j] \in {Recovered(jobs[j]), Reconciled(jobs[j])}
        /\ DOMAIN jobs' = DOMAIN jobs
        /\ \A j \in DOMAIN jobs \ Stale : jobs'[j] = jobs[j]
    BY <1>1 DEF RecoverStale, RecoverAll, Stale, CanRecover
  <2>2. Stale \in SUBSET (1 .. MaxJobs)  BY JobNumbers DEF Stale
  <2>3. \A j \in Stale : LetGo(jobs[j], jobs'[j])  BY <1>r, <2>1, LettingGo
  <2>4. /\ \A j \in Stale : LetGo(RowIn(jobs, j), RowIn(jobs', j))
        /\ \A j \in (1 .. MaxJobs) \ Stale : RowIn(jobs', j) = RowIn(jobs, j)
    BY <2>1, <2>3 DEF RowIn
  <2> QED  BY <2>2, <2>4, LeaseReleases
<1>2. CASE Claim(w)
  <2>1. PICK j \in DOMAIN jobs : CanLease(jobs[j]) /\ jobs' = [jobs EXCEPT ![j] = Leased(@, w)]
    BY <1>2 DEF Claim
  <2>2. Handed(jobs[j], Leased(jobs[j], w), w)  BY <1>r, <2>1, HandingOut
  <2>3. /\ RowIn(jobs, j) = jobs[j] /\ RowIn(jobs', j) = Leased(jobs[j], w)
        /\ \A k \in (1 .. MaxJobs) \ {j} : RowIn(jobs', k) = RowIn(jobs, k)
    BY <2>1 DEF RowIn
  <2>4. j \in 1 .. MaxJobs  BY JobNumbers
  <2>5. /\ [k \in 1 .. MaxJobs |-> PhaseOf(RowIn(jobs', k))]
             = [[k \in 1 .. MaxJobs |-> PhaseOf(RowIn(jobs, k))] EXCEPT ![j] = "held"]
        /\ [k \in 1 .. MaxJobs |-> RowIn(jobs', k).owner]
             = [[k \in 1 .. MaxJobs |-> RowIn(jobs, k).owner] EXCEPT ![j] = w]
        /\ [k \in 1 .. MaxJobs |-> RowIn(jobs', k).attempts]
             = [[k \in 1 .. MaxJobs |-> RowIn(jobs, k).attempts] EXCEPT ![j] = @ + 1]
    BY <2>2, <2>3, <2>4 DEF Handed
  <2>6. Lease!Acquire(j, w)  BY <2>2, <2>3, <2>4, <2>5 DEF Lease!Acquire, Handed
  <2> QED  BY <2>4, <2>6 DEF Lease!Next
<1>3. CASE (StartJob(w) \/ Beat(w) \/ CompleteJob(w) \/ RecordFailure(w)) /\ jobs' # jobs
  <2>1. me[w].job \in DOMAIN jobs
    BY <1>3 , JobThere DEF StartJob, Beat, CompleteJob, RecordFailure, Idle
  <2>2. RowOK(Job(w)) /\ Job(w) = jobs[me[w].job]  BY <1>r, <2>1 DEF Job
  <2>3. CASE StartJob(w)
    <3>1. Job(w).status = "leased" /\ jobs' = [jobs EXCEPT ![me[w].job] = Started(Job(w))]
      BY <1>3, <2>3, <2>2 DEF StartJob, CanStart
    <3>2. Alike(Started(Job(w)), Job(w))  BY <2>2, <3>1, UnseenMethods
    <3> QED  BY <2>1, <2>2, <3>1, <3>2, LeaseOfRow
  <2>4. CASE Beat(w)
    <3>1. Held(Job(w)) /\ jobs' = [jobs EXCEPT ![me[w].job] = Renewed(Job(w))]
      BY <1>3, <2>4, <2>2 DEF Beat, Owns
    <3>2. Alike(Renewed(Job(w)), Job(w))  BY <2>2, <3>1, UnseenMethods
    <3> QED  BY <2>1, <2>2, <3>1, <3>2, LeaseOfRow
  <2>5. CASE CompleteJob(w)
    <3>1. Job(w).status # "completed"
      BY <1>3, <2>1, <2>5, <2>2, JobNumbers DEF CompleteJob
    <3>2. Held(Job(w)) /\ jobs' = [jobs EXCEPT ![me[w].job] = Completed(Job(w))]
      BY <1>3, <2>5, <2>2, <3>1 DEF CompleteJob, CanComplete, Owns
    <3>3. LetGo(Job(w), Completed(Job(w)))  BY <2>2, <3>2, LettingGo
    <3> QED  BY <2>1, <2>2, <3>2, <3>3, LeaseOfRow
  <2>6. CASE RecordFailure(w)
    <3>1. Held(Job(w)) /\ jobs' = [jobs EXCEPT ![me[w].job] = Retried(Job(w))]
      BY <1>3, <2>6, <2>2 DEF RecordFailure, Owns
    <3>2. LetGo(Job(w), Retried(Job(w)))  BY <2>2, <3>1, LettingGo
    <3> QED  BY <2>1, <2>2, <3>1, <3>2, LeaseOfRow
  <2> QED  BY <1>3, <2>3, <2>4, <2>5, <2>6
<1>4. \/ jobs' = jobs \/ RecoverStale(w) \/ Claim(w)
      \/ (StartJob(w) \/ Beat(w) \/ CompleteJob(w) \/ RecordFailure(w)) /\ jobs' # jobs
  BY DEF Work, ClaimNothing, LoadCompanies, LoadRest, ReturnDone,
     RefuseFailed, FinishResolution, SkipRow, ResolveRow, Restart, Raise, Crash
<1> QED  BY <1>0, <1>1, <1>2, <1>3, <1>4

\* Every step of the resolution is a step of JobLease or a stutter.
LEMMA LeaseStep == IInv /\ [Next]_vars => [Lease!Next]_(Lease!leaseVars)
<1> SUFFICES ASSUME IInv, [Next]_vars PROVE Lease!Next \/ UNCHANGED Lease!leaseVars
  OBVIOUS
<1>1. CASE jobs' = jobs
  BY <1>1, LeaseStutters DEF Alike
<1>2. CASE LeaseTick
  <2>1. \A j \in DOMAIN jobs : Alike(Aged(jobs[j]), jobs[j])
    BY QueueRows, UnseenMethods
  <2>2. \A j \in 1 .. MaxJobs : Alike(RowIn(jobs', j), RowIn(jobs, j))
    BY <1>2, <2>1 DEF LeaseTick, RowIn, Alike
  <2> QED  BY <2>2, LeaseStutters
<1>3. CASE jobs' = Append(jobs, Created) /\ Len(jobs) < MaxJobs
  <2> DEFINE n == Len(jobs) + 1
  <2>0. Created \in JobRows  BY CreatedOK DEF RowOK
  <2>1. /\ n \in 1 .. MaxJobs /\ DOMAIN jobs = 1 .. Len(jobs) /\ Len(jobs) \in Nat
        /\ DOMAIN jobs' = 1 .. n /\ jobs'[n] = Created
        /\ \A j \in DOMAIN jobs : jobs'[j] = jobs[j]
    BY <1>3, <2>0, JobNumbers
  <2>2. /\ RowIn(jobs, n) = AbsentRow /\ RowIn(jobs', n) = Created
        /\ \A j \in (1 .. MaxJobs) \ {n} : RowIn(jobs', j) = RowIn(jobs, j)
    BY <2>1 DEF RowIn
  <2>3. n \in 1 .. MaxJobs  BY <2>1
  <2> HIDE DEF n
  <2>4. /\ AbsentRow.status = "absent" /\ Created.status = "pending"
        /\ Created.owner = AbsentRow.owner /\ Created.attempts = AbsentRow.attempts
    BY DEF AbsentRow, Created
  <2>5. PhaseOf(AbsentRow) = "absent" /\ PhaseOf(Created) = "waiting"
    BY <2>4, Phases
  <2>6. \A j \in 1 .. MaxJobs :
          /\ PhaseOf(RowIn(jobs', j)) = IF j = n THEN "waiting" ELSE PhaseOf(RowIn(jobs, j))
          /\ RowIn(jobs', j).owner = RowIn(jobs, j).owner
          /\ RowIn(jobs', j).attempts = RowIn(jobs, j).attempts
    BY <2>2, <2>4, <2>5
  <2>7. /\ [j \in 1 .. MaxJobs |-> PhaseOf(RowIn(jobs', j))]
             = [[j \in 1 .. MaxJobs |-> PhaseOf(RowIn(jobs, j))] EXCEPT ![n] = "waiting"]
        /\ [j \in 1 .. MaxJobs |-> RowIn(jobs', j).owner]
             = [j \in 1 .. MaxJobs |-> RowIn(jobs, j).owner]
        /\ [j \in 1 .. MaxJobs |-> RowIn(jobs', j).attempts]
             = [j \in 1 .. MaxJobs |-> RowIn(jobs, j).attempts]
    BY <2>3, <2>6
  <2>8. Lease!Enqueue(n)  BY <2>2, <2>3, <2>5, <2>7 DEF Lease!Enqueue
  <2> QED  BY <2>3, <2>8 DEF Lease!Next
<1>4. CASE \E w \in Workers : Work(w) \/ Raise(w) \/ Crash(w)
  BY <1>4, LeaseWork
<1>5. \/ jobs' = jobs \/ LeaseTick \/ (jobs' = Append(jobs, Created) /\ Len(jobs) < MaxJobs)
      \/ \E w \in Workers : Work(w) \/ Raise(w) \/ Crash(w)
  <2>1. CASE UNCHANGED vars  BY <2>1 DEF vars
  <2>2. ASSUME NEW k \in Clients, ReadResolution(k) \/ Submit(k) \/ RefuseSubmission(k)
        PROVE  jobs' = jobs \/ (jobs' = Append(jobs, Created) /\ Len(jobs) < MaxJobs)
    BY <2>2 DEF ReadResolution, Submit, RefuseSubmission
  <2>3. ASSUME NEW r \in Rows, ReviewCompany(r) \/ ReviewContact(r) PROVE jobs' = jobs
    BY <2>3 DEF ReviewCompany, ReviewContact
  <2> QED  BY <2>1, <2>2, <2>3 DEF Next
<1> QED  BY <1>1, <1>2, <1>3, <1>4, <1>5

\* The session's jobs keep the promises of JobLease, for any number of
\* submissions: one holder at a time, at most MaxAttempts attempts, failure
\* only after the last of them, and no life after the end, though recovery
\* completes the jobs of a resolution that is done.
THEOREM ResolutionImplementsJobLease == Spec => ImplementsJobLease
<1>1. Init => Lease!Init
  <2>1. ASSUME Init, NEW j \in 1 .. MaxJobs PROVE RowIn(jobs, j) = AbsentRow
    BY <2>1 DEF Init, RowIn
  <2>2. /\ PhaseOf(AbsentRow) = "absent" /\ AbsentRow.owner = NoOwner /\ AbsentRow.attempts = 0
    BY Phases DEF AbsentRow
  <2> QED  BY <2>1, <2>2 DEF Lease!Init
<1> QED  BY <1>1, Invariant, LeaseStep, PTL DEF Spec, ImplementsJobLease, Lease!Spec

(***************************************************************************)
(* Import evidence: active signals are earned                              *)
(***************************************************************************)

\* The stages of an upload.
Stages == {"none", "judge", "aggregate", "save", "preview", "apply", "finish", "done", "raised"}

\* Aggregates that can be built: some shipments, each judged.
Buildable ==
  {a \in [day : Days, on : UNION {[held -> Judgements] : held \in SUBSET Shipments}] :
     IsFiniteSet(DOMAIN a.on)}

\* Rows that shipments can be held by: one of each, that is the company's.
RowsFit(row, shipments) ==
  /\ DOMAIN row = shipments
  /\ \A s \in shipments : row[s].shipment = s /\ row[s].name = "same" /\ row[s].sited

UploadType ==
  [stage : Stages, file : Files \union {NoFile}, day : Days \union {0}, todo : SUBSET Nat,
   mine : Buildable \union {NoAggregate}, stale : BOOLEAN,
   job : {"none", "running", "needs_review", "partial", "completed"}]

\* What an upload relies on at each stage: the shipments of the rows it is
\* through with were judged, the aggregate it stores is of the shipments of its
\* file, and the one it previews and applies is stored.
UploadOK(u) ==
  /\ upload[u].stage \in {"judge", "aggregate", "save", "preview", "apply"} =>
       upload[u].file \in Files /\ upload[u].day \in Days
  /\ upload[u].stage \in {"judge", "aggregate"} =>
       \A i \in Matched(upload[u].file) \ upload[u].todo :
         judged[upload[u].file.rows[i].shipment] \in Judgements
  /\ upload[u].stage = "judge" =>
       upload[u].todo # {} /\ upload[u].todo \subseteq Matched(upload[u].file)
  /\ upload[u].stage = "aggregate" => upload[u].todo = {}
  /\ upload[u].stage = "save" =>
       /\ upload[u].mine \in Buildable
       /\ DOMAIN upload[u].mine.on = DOMAIN Deduplicated(upload[u].file)
  /\ upload[u].stage \in {"preview", "apply"} => upload[u].mine \in DOMAIN aggregates

UploadsOK ==
  /\ upload \in [Uploads -> UploadType]
  /\ judged \in [Shipments -> Judgements \union {NoJudgement}]
  /\ DOMAIN aggregates \subseteq Buildable
  /\ \A a \in DOMAIN aggregates : RowsFit(aggregates[a], DOMAIN a.on)
  /\ leading \in DOMAIN aggregates \union {NoAggregate}
  /\ \A u \in Uploads : UploadOK(u)

\* A batch of the ledger has a signal of a kind, active or not, exactly when
\* the rules promote its aggregate, and is what it is called.
EntryOK(b) ==
  /\ b.of \in DOMAIN aggregates /\ b.stale \in BOOLEAN
  /\ promotions[b].by \in DOMAIN promotions \union {NoBatch}
  /\ promotions[b].current \in BOOLEAN
  /\ promotions[b].by = NoBatch <=> promotions[b].current
  /\ \A k \in PromotedKinds :
       /\ promotions[b].signal[k] = "active" <=> promotions[b].status[k] = "PROMOTED"
       /\ promotions[b].signal[k] = "active" => promotions[b].current
       /\ promotions[b].signal[k] # "none" <=> PromotionStatus(b, k) = "PROMOTED"

\* One batch is current at most, and from any batches the pointers lead out.
OneCurrent ==
  \A b, c \in DOMAIN promotions : promotions[b].current /\ promotions[c].current => b = c

NoLoops ==
  \A loop \in (SUBSET DOMAIN promotions) \ {{}} : \E b \in loop : promotions[b].by \notin loop

LedgerOK == (\A b \in DOMAIN promotions : EntryOK(b)) /\ OneCurrent /\ NoLoops

\* The inductive invariant.
UInv == UploadsOK /\ LedgerOK

\* The least of some numbers.
LEMMA MinIsLeast ==
  ASSUME NEW S, S \subseteq Nat, S # {}
  PROVE  Min(S) \in S /\ \A y \in S : Min(S) <= y
<1>1. \E x \in S : \A y \in S : x <= y
  BY Least
<1>  QED
  BY <1>1 DEF Min

\* What is known of an aggregate that can be built.
LEMMA BuildableIs ==
  ASSUME NEW a \in Buildable
  PROVE  /\ a.day \in Days /\ a.day \in Nat /\ a # NoAggregate
         /\ DOMAIN a.on \subseteq Shipments /\ IsFiniteSet(DOMAIN a.on)
         /\ \A s \in DOMAIN a.on : a.on[s] \in Judgements /\ a.on[s].day \in Nat
<1>1. /\ a.day \in Days /\ a.on \in UNION {[held -> Judgements] : held \in SUBSET Shipments}
      /\ IsFiniteSet(DOMAIN a.on)
  BY DEF Buildable
<1>2. PICK held \in SUBSET Shipments : a.on \in [held -> Judgements]
  BY <1>1
<1>3. a.day # 0 /\ a.day \in Nat
  BY <1>1, UploadAssumption
<1>4. \A s \in DOMAIN a.on : a.on[s] \in Judgements /\ a.on[s].day \in Nat
  BY <1>2, UploadAssumption DEF Judgements
<1>  QED
  BY <1>1, <1>2, <1>3, <1>4 DEF NoAggregate

\* What is known of the papers of a shipment.
LEMMA BillIs ==
  ASSUME NEW s \in Shipments
  PROVE  Bill[s].arrival \in Nat
  BY UploadAssumption DEF ShipmentType

\* A row is the company's when its name and its site are.
LEMMA MatchedIs ==
  ASSUME NEW file \in Files
  PROVE  /\ Matched(file) \subseteq Nat /\ IsFiniteSet(Matched(file))
         /\ \A i \in Matched(file) :
              /\ file.rows[i].shipment \in Shipments
              /\ file.rows[i].name = "same" /\ file.rows[i].sited
<1>1. file.rows \in Seq(RecordType)
  BY UploadAssumption DEF FileType
<1>2. Matched(file) \subseteq 1 .. Len(file.rows) /\ Len(file.rows) \in Nat
  BY <1>1 DEF Matched, Received
<1>3. IsFiniteSet(Matched(file))
  <2>1. IsFiniteSet(1 .. Len(file.rows))
    BY <1>2, FS_Interval
  <2>  QED
    BY <2>1, <1>2, FS_Subset
<1>4. ASSUME NEW i \in Matched(file)
      PROVE  /\ file.rows[i].shipment \in Shipments
             /\ file.rows[i].name = "same" /\ file.rows[i].sited
  <2> DEFINE row == file.rows[i]
  <2>1. row \in RecordType
    BY <1>1, <1>2
  <2>2. Resolution(row) = "auto_match"
    BY DEF Matched
  <2>3. /\ row.name \in {"same", "near", "like", "other"} /\ row.shipment \in Shipments
        /\ row.sited \in BOOLEAN /\ row.country \in BOOLEAN
    BY <2>1 DEF RecordType
  <2> HIDE DEF row
  <2>4. Resemblance(row) <= 63
    <3>1. NamePoints[row.name] \in 0 .. 25
      BY <2>3 DEF NamePoints
    <3> DEFINE n == NamePoints[row.name]
    <3>2. Resemblance(row) = n + (IF row.sited THEN 35 ELSE 0) + (IF row.country THEN 3 ELSE 0)
      BY DEF Resemblance
    <3> HIDE DEF n
    <3>  QED
      BY <3>1, <3>2 DEF n
  <2>5. Resemblance(row) \in Int
    <3>1. NamePoints[row.name] \in Int
      BY <2>3 DEF NamePoints
    <3>  QED
      BY <3>1 DEF Resemblance
  <2>6. row.name = "same" /\ row.sited
    BY <2>2, <2>3, <2>4, <2>5 DEF Resolution
  <2>  QED
    BY <2>3, <2>6 DEF row
<1>  QED
  BY <1>2, <1>3, <1>4

\* What a file holds: of each shipment of its own rows one of them, but for the
\* containers.
LEMMA DeduplicatedIs ==
  ASSUME NEW file \in Files
  PROVE  /\ DOMAIN Deduplicated(file) = {file.rows[i].shipment : i \in Matched(file)}
         /\ DOMAIN Deduplicated(file) \subseteq Shipments /\ IsFiniteSet(DOMAIN Deduplicated(file))
         /\ RowsFit(Deduplicated(file), DOMAIN Deduplicated(file))
<1> DEFINE held == {file.rows[i].shipment : i \in Matched(file)}
           first(s) == file.rows[Min(RowsOf(file, s))]
<1>1. DOMAIN Deduplicated(file) = held
  BY DEF Deduplicated
<1>2. held \subseteq Shipments
  BY MatchedIs
<1>3. IsFiniteSet(held)
  <2> DEFINE f == [i \in Matched(file) |-> file.rows[i].shipment]
  <2>1. f \in Surjection(Matched(file), held)
    BY DEF Surjection
  <2> HIDE DEF f, held
  <2>  QED
    BY <2>1, MatchedIs, FS_Surjection
<1>4. ASSUME NEW s \in held
      PROVE  /\ Deduplicated(file)[s].shipment = s
             /\ Deduplicated(file)[s].name = "same" /\ Deduplicated(file)[s].sited
  <2>1. RowsOf(file, s) \subseteq Matched(file) /\ RowsOf(file, s) # {}
    BY DEF RowsOf
  <2>2. PICK i : i = Min(RowsOf(file, s))
    OBVIOUS
  <2>3. i \in RowsOf(file, s)
    BY <2>1, <2>2, MatchedIs, MinIsLeast
  <2>4. /\ file.rows[i] \in RecordType /\ file.rows[i].shipment = s
        /\ file.rows[i].name = "same" /\ file.rows[i].sited
    <3>1. file.rows \in Seq(RecordType) /\ i \in DOMAIN file.rows
      BY <2>1, <2>3, UploadAssumption DEF FileType, Matched, Received
    <3>  QED
      BY <3>1, <2>1, <2>3, MatchedIs DEF RowsOf
  <2>5. PICK boxes : Deduplicated(file)[s] = [file.rows[i] EXCEPT !.containers = boxes]
    BY <2>2 DEF Deduplicated
  <2>  QED
    BY <2>4, <2>5 DEF RecordType
<1> HIDE DEF held
<1>  QED
  BY <1>1, <1>2, <1>3, <1>4 DEF RowsFit, held

\* What contributes to an aggregate that is not blocked is all of it, and had
\* arrived.
LEMMA UnblockedIs ==
  ASSUME NEW a \in Buildable, ~Blocked(a)
  PROVE  /\ \A s \in DOMAIN a.on : Bill[s].arrival <= a.day /\ Bill[s].arrival <= a.on[s].day
         /\ Contributing(a) \subseteq DOMAIN a.on
         /\ IsFiniteSet(Contributing(a)) /\ Cardinality(Contributing(a)) \in Nat
<1>1. a.day \in Nat /\ DOMAIN a.on \subseteq Shipments /\ IsFiniteSet(DOMAIN a.on)
      /\ \A s \in DOMAIN a.on : a.on[s].day \in Nat /\ Bill[s].arrival \in Nat
  BY BuildableIs, BillIs
<1>2. \A s \in DOMAIN a.on : ~(Bill[s].arrival > a.day) /\ ~(Bill[s].arrival > a.on[s].day)
  BY DEF Blocked, Excluded
<1>3. Contributing(a) \subseteq DOMAIN a.on
  BY DEF Contributing
<1>4. IsFiniteSet(Contributing(a)) /\ Cardinality(Contributing(a)) \in Nat
  BY <1>1, <1>3, FS_Subset, FS_CardinalityType
<1>  QED
  BY <1>1, <1>2, <1>3, <1>4

\* The values that a column has in some shipments.
ValuesOf(column, S) == {column[s] : s \in S}

\* Distinct values of some shipments are values of more of them.
LEMMA DistinctGrow ==
  ASSUME NEW S, NEW T, T \subseteq S, IsFiniteSet(S), NEW column, NEW n \in Nat,
         Cardinality(ValuesOf(column, T) \ {Nothing}) >= n
  PROVE  Cardinality(ValuesOf(column, S)) \in Nat /\ Cardinality(ValuesOf(column, S)) >= n
<1> DEFINE all == ValuesOf(column, S)
           some == ValuesOf(column, T) \ {Nothing}
           f == [s \in S |-> column[s]]
<1>1. f \in Surjection(S, all)
  BY DEF Surjection, ValuesOf
<1>2. IsFiniteSet(all)
  BY <1>1, FS_Surjection
<1>3. some \subseteq all
  BY DEF ValuesOf
<1>4. IsFiniteSet(some) /\ Cardinality(some) <= Cardinality(all)
      /\ Cardinality(all) \in Nat /\ Cardinality(some) \in Nat
  <2> HIDE DEF all, some
  <2>  QED
    BY <1>2, <1>3, FS_Subset, FS_CardinalityType
<1>  QED
  BY <1>4

\* Half of three shipments are two.
LEMMA MostAreTwo ==
  ASSUME NEW m \in Nat, NEW n \in Nat, m >= 3, 2 * n >= m
  PROVE  n >= 2
  OBVIOUS

\* A pair has two elements at most.
LEMMA PairSize ==
  ASSUME NEW x, NEW y
  PROVE  /\ IsFiniteSet({x, y}) /\ Cardinality({x, y}) \in Nat /\ Cardinality({x, y}) <= 2
<1>1. IsFiniteSet({x}) /\ Cardinality({x}) = 1
  BY FS_Singleton
<1>2. /\ IsFiniteSet({x} \union {y})
      /\ Cardinality({x} \union {y}) = IF y \in {x} THEN Cardinality({x}) ELSE Cardinality({x}) + 1
  BY <1>1, FS_AddElement
<1>3. {x} \union {y} = {x, y}
  OBVIOUS
<1>  QED
  BY <1>1, <1>2, <1>3

\* Different months of arrival are of different days.
LEMMA MonthsAreDays ==
  ASSUME NEW S, NEW T, T \subseteq S, IsFiniteSet(S), NEW n \in Nat,
         Cardinality({Month(Bill[s].arrival) : s \in T}) >= n
  PROVE  /\ Cardinality({Bill[s]["arrival"] : s \in S}) \in Nat
         /\ Cardinality({Bill[s]["arrival"] : s \in S}) >= n
<1> DEFINE days == {Bill[s]["arrival"] : s \in S}
           held == {Bill[s]["arrival"] : s \in T}
           months == {Month(Bill[s].arrival) : s \in T}
           f == [d \in held |-> Month(d)]
           g == [s \in S |-> Bill[s]["arrival"]]
<1>1. g \in Surjection(S, days)
  BY DEF Surjection
<1>2. IsFiniteSet(days)
  BY <1>1, FS_Surjection
<1>3. held \subseteq days
  OBVIOUS
<1>4. f \in Surjection(held, months)
  BY DEF Surjection
<1> HIDE DEF days, held, months, f, g
<1>5. IsFiniteSet(held) /\ Cardinality(held) <= Cardinality(days)
  BY <1>2, <1>3, FS_Subset
<1>6. Cardinality(months) <= Cardinality(held) /\ IsFiniteSet(months)
  BY <1>4, <1>5, FS_Surjection
<1>7. Cardinality(days) \in Nat /\ Cardinality(held) \in Nat /\ Cardinality(months) \in Nat
  BY <1>2, <1>5, <1>6, FS_CardinalityType
<1>8. Cardinality(months) >= n
  BY DEF months
<1>9. Cardinality(days) >= n
  BY <1>5, <1>6, <1>7, <1>8
<1>  QED
  BY <1>7, <1>9 DEF days

\* What backs a promotion.
LEMMA PromotedIsBacked ==
  ASSUME NEW a \in Buildable, ~Blocked(a), NEW k \in PromotedKinds, EligibleSignal(a, k)
  PROVE  Backed(a, k)
<1>1. /\ \A s \in DOMAIN a.on : Bill[s].arrival <= a.day /\ Bill[s].arrival <= a.on[s].day
      /\ Contributing(a) \subseteq DOMAIN a.on
      /\ IsFiniteSet(Contributing(a)) /\ Cardinality(Contributing(a)) \in Nat
  BY UnblockedIs
<1>2. /\ a.day \in Nat /\ DOMAIN a.on \subseteq Shipments /\ IsFiniteSet(DOMAIN a.on)
      /\ \A s \in DOMAIN a.on : Bill[s].arrival \in Nat
  BY BuildableIs, BillIs
<1>3. CASE k = "import_activity"
  <2>1. ArrivedWithin(a, 365) # {} \/ ArrivedWithin(a, 90) # {}
    BY <1>3, FS_EmptySet DEF EligibleSignal
  <2>2. PICK s \in Contributing(a) :
          \/ Bill[s].arrival \in (a.day - 365 + 1) .. a.day
          \/ Bill[s].arrival \in (a.day - 90 + 1) .. a.day
    BY <2>1 DEF ArrivedWithin
  <2>3. Bill[s].arrival > a.day - 365
    BY <2>2, <1>1, <1>2
  <2>  QED
    BY <1>1, <2>3, <1>3 DEF Backed
<1>4. CASE k = "china_dependency"
  <2> DEFINE from == {s \in DOMAIN a.on : aggregates[a][s].origin # Nothing}
             china == {s \in from : aggregates[a][s].origin = "CN"}
  <2>1. /\ Cardinality(Known(a)) >= 3 /\ 2 * Cardinality(FromChina(a)) >= Cardinality(Known(a))
    BY <1>4 DEF EligibleSignal
  <2>2. /\ Known(a) \subseteq DOMAIN a.on
        /\ FromChina(a) \subseteq china /\ china \subseteq DOMAIN a.on
        /\ FromChina(a) \subseteq DOMAIN a.on
    BY <1>1 DEF Known, FromChina
  <2>3. IsFiniteSet(Known(a)) /\ IsFiniteSet(FromChina(a)) /\ IsFiniteSet(china)
    BY <2>2, <1>2, FS_Subset
  <2>4. /\ Cardinality(Known(a)) \in Nat /\ Cardinality(FromChina(a)) \in Nat
        /\ Cardinality(china) \in Nat /\ Cardinality(FromChina(a)) <= Cardinality(china)
    BY <2>2, <2>3, FS_Subset, FS_CardinalityType
  <2>5. Cardinality(FromChina(a)) >= 2
    BY <2>1, <2>4, MostAreTwo
  <2>6. Cardinality(china) >= 2
    BY <2>4, <2>5
  <2>  QED
    BY <2>6, <1>4 DEF Backed
<1>5. CASE k = "logistics_complexity"
  <2>1. Cardinality(Met(a)) >= 3 /\ Cardinality({Categories[c] : c \in Met(a)}) >= 2
    BY <1>5 DEF EligibleSignal
  <2>2. Met(a) \subseteq {"suppliers", "carriers", "ports", "shipments", "containers", "months"}
    BY DEF Met
  <2>3. Met(a) \intersect {"suppliers", "carriers", "ports", "months"} # {}
    <3>1. SUFFICES ASSUME Met(a) \subseteq {"shipments", "containers"} PROVE FALSE
      BY <2>2
    <3>2. /\ IsFiniteSet({"shipments", "containers"})
          /\ Cardinality({"shipments", "containers"}) <= 2
          /\ Cardinality({"shipments", "containers"}) \in Nat
      BY PairSize
    <3>3. /\ Cardinality(Met(a)) <= Cardinality({"shipments", "containers"})
          /\ Cardinality(Met(a)) \in Nat
      BY <3>1, <3>2, FS_Subset, FS_CardinalityType
    <3>  QED
      BY <2>1, <3>2, <3>3
  <2>4. /\ "suppliers" \in Met(a) => Cardinality(Suppliers(a)) >= 3
        /\ "carriers" \in Met(a) => Cardinality(Distinct(a, "carrier")) >= 2
        /\ "ports" \in Met(a) => Cardinality(Distinct(a, "port")) >= 2
        /\ "months" \in Met(a) => Cardinality({Month(Bill[s].arrival) :
                                      s \in {t \in Contributing(a) : Bill[t].arrival # 0}}) >= 3
    BY DEF Met
  <2>5. ASSUME NEW column, NEW n \in {2, 3},
               Cardinality(ValuesOf(column, Contributing(a)) \ {Nothing}) >= n
        PROVE  Cardinality(ValuesOf(column, DOMAIN a.on)) >= 2
    <3>1. /\ Cardinality(ValuesOf(column, DOMAIN a.on)) \in Nat
          /\ Cardinality(ValuesOf(column, DOMAIN a.on)) >= n
      BY <2>5, <1>1, <1>2, DistinctGrow
    <3>  QED
      BY <3>1
  <2>6. ASSUME "months" \in Met(a)
        PROVE  Cardinality({Bill[s]["arrival"] : s \in DOMAIN a.on}) >= 2
    <3> DEFINE T == {t \in Contributing(a) : Bill[t].arrival # 0}
    <3>1. Cardinality({Month(Bill[s].arrival) : s \in T}) >= 3
      BY <2>4, <2>6
    <3>2. T \subseteq DOMAIN a.on
      BY <1>1
    <3> HIDE DEF T
    <3>3. /\ Cardinality({Bill[s]["arrival"] : s \in DOMAIN a.on}) \in Nat
          /\ Cardinality({Bill[s]["arrival"] : s \in DOMAIN a.on}) >= 3
      BY <3>1, <3>2, <1>2, MonthsAreDays
    <3>  QED
      BY <3>3
  <2>7. ASSUME "suppliers" \in Met(a)
        PROVE  Cardinality({aggregates[a][s].supplier : s \in DOMAIN a.on}) >= 2
    <3> DEFINE column == [s \in DOMAIN a.on |-> aggregates[a][s].supplier]
    <3>1. /\ ValuesOf(column, Contributing(a)) = {aggregates[a][s].supplier : s \in Contributing(a)}
          /\ ValuesOf(column, DOMAIN a.on) = {aggregates[a][s].supplier : s \in DOMAIN a.on}
      BY <1>1 DEF ValuesOf
    <3> HIDE DEF column
    <3>2. Cardinality(ValuesOf(column, Contributing(a)) \ {Nothing}) >= 3
      BY <2>4, <2>7, <3>1 DEF Suppliers
    <3>  QED
      BY <2>5, <3>1, <3>2
  <2>8. ASSUME NEW name, Cardinality(Distinct(a, name)) >= 2
        PROVE  Cardinality({Bill[s][name] : s \in DOMAIN a.on}) >= 2
    <3> DEFINE column == [s \in DOMAIN a.on |-> Bill[s][name]]
    <3>1. /\ ValuesOf(column, Contributing(a)) = {Bill[s][name] : s \in Contributing(a)}
          /\ ValuesOf(column, DOMAIN a.on) = {Bill[s][name] : s \in DOMAIN a.on}
      BY <1>1 DEF ValuesOf
    <3> HIDE DEF column
    <3>2. Cardinality(ValuesOf(column, Contributing(a)) \ {Nothing}) >= 2
      BY <2>8, <3>1 DEF Distinct
    <3>  QED
      BY <2>5, <3>1, <3>2
  <2>9. \/ Cardinality({aggregates[a][s].supplier : s \in DOMAIN a.on}) >= 2
        \/ \E column \in {"carrier", "port", "arrival"} :
             Cardinality({Bill[s][column] : s \in DOMAIN a.on}) >= 2
    BY <2>3, <2>4, <2>6, <2>7, <2>8
  <2>  QED
    BY <2>9, <1>5 DEF Backed
<1>  QED
  BY <1>3, <1>4, <1>5 DEF PromotedKinds

\* What the rules make of a batch depends on its aggregate as it is stored.
LEMMA StatusKept ==
  ASSUME NEW b, NEW k \in PromotedKinds, aggregates'[b.of] = aggregates[b.of]
  PROVE  PromotionStatus(b, k)' = PromotionStatus(b, k)
<1> DEFINE a == b.of
<1>1. PICK row : row = aggregates[a]
  OBVIOUS
<1>2. aggregates'[a] = row
  BY <1>1
<1>3. Blocked(a)' <=> Blocked(a)
  BY <1>1, <1>2 DEF Blocked, Excluded
<1>4. Contributing(a)' = Contributing(a)
  BY <1>1, <1>2 DEF Contributing, Excluded
<1>5. PICK of : of = Contributing(a)
  OBVIOUS
<1>6. Contributing(a)' = of
  BY <1>4, <1>5
<1>7. Known(a)' = Known(a)
  BY <1>1, <1>2, <1>5, <1>6 DEF Known
<1>8. FromChina(a)' = FromChina(a)
  BY <1>1, <1>2, <1>7 DEF FromChina
<1>9. Met(a)' = Met(a)
  <2>1. Suppliers(a)' = Suppliers(a)
    <3>1. Suppliers(a) = {row[s].supplier : s \in of} \ {Nothing}
      BY <1>1, <1>5 DEF Suppliers
    <3>2. Suppliers(a)' = {row[s].supplier : s \in of} \ {Nothing}
      BY <1>2, <1>6 DEF Suppliers
    <3>  QED
      BY <3>1, <3>2
  <2>2. /\ Distinct(a, "carrier")' = Distinct(a, "carrier")
        /\ Distinct(a, "port")' = Distinct(a, "port")
    BY <1>5, <1>6 DEF Distinct
  <2>3. UNION {{s} \X aggregates'[a][s].containers : s \in Contributing(a)'}
          = UNION {{s} \X aggregates[a][s].containers : s \in Contributing(a)}
    BY <1>1, <1>2, <1>5, <1>6
  <2>  QED
    BY <1>4, <2>1, <2>2, <2>3 DEF Met
<1>10. EligibleSignal(a, k)' <=> EligibleSignal(a, k)
  <2>1. /\ ArrivedWithin(a, 365)' = ArrivedWithin(a, 365)
        /\ ArrivedWithin(a, 90)' = ArrivedWithin(a, 90)
    BY <1>4 DEF ArrivedWithin
  <2>2. (\E s \in Contributing(a) : QualityOf(Bill[s], a.on[s]) = "VERIFIED")'
          <=> \E s \in Contributing(a) : QualityOf(Bill[s], a.on[s]) = "VERIFIED"
    BY <1>5, <1>6
  <2>3. CASE k = "import_activity"
    BY <2>1, <2>2, <2>3 DEF EligibleSignal
  <2>4. CASE k = "china_dependency"
    BY <1>4, <1>7, <1>8, <2>4 DEF EligibleSignal
  <2>5. CASE k = "logistics_complexity"
    BY <1>9, <2>5 DEF EligibleSignal
  <2>  QED
    BY <2>3, <2>4, <2>5 DEF PromotedKinds
<1>11. Promotable(a)' <=> Promotable(a)
  BY <1>3, <1>4 DEF Promotable
<1>  QED
  BY <1>3, <1>4, <1>10, <1>11 DEF PromotionStatus

\* An upload that has not begun.
LEMMA NoUploadIs == NoUpload \in UploadType
  BY DEF NoUpload, UploadType, Stages

\* Nothing is stored at first.
LEMMA EvidenceInitOK == EvidenceInit => UInv
<1> SUFFICES ASSUME EvidenceInit PROVE UInv
  OBVIOUS
<1> USE DEF EvidenceInit
<1>1. NoUpload \in UploadType
  BY NoUploadIs
<1>2. DOMAIN aggregates = {} /\ DOMAIN promotions = {}
  OBVIOUS
<1>3. UploadsOK
  <2>1. \A u \in Uploads : UploadOK(u)
    BY DEF UploadOK, NoUpload
  <2>  QED
    BY <1>1, <1>2, <2>1 DEF UploadsOK
<1>4. LedgerOK
  <2> HIDE DEF EvidenceInit
  <2>1. \A loop \in SUBSET DOMAIN promotions : loop = {}
    BY <1>2
  <2>  QED
    BY <1>2, <2>1 DEF LedgerOK, OneCurrent, NoLoops
<1>  QED
  BY <1>3, <1>4 DEF UInv

\* What is stored of aggregates stays.
LEMMA AggregatesGrow ==
  ASSUME UInv, EvidenceNext
  PROVE  /\ DOMAIN aggregates \subseteq DOMAIN aggregates'
         /\ \A a \in DOMAIN aggregates : aggregates'[a] = aggregates[a]
<1>1. CASE UNCHANGED aggregates
  BY <1>1
<1>2. CASE \E u \in Uploads : SaveAggregate(u)
  <2>1. PICK u \in Uploads : SaveAggregate(u)
    BY <1>2
  <2>2. CASE upload[u].mine \in DOMAIN aggregates
    BY <2>1, <2>2 DEF SaveAggregate
  <2>3. CASE upload[u].mine \notin DOMAIN aggregates
    <3> DEFINE a == upload[u].mine
               y == Deduplicated(upload[u].file)
    <3>1. aggregates' = With(aggregates, a, y)
      BY <2>1, <2>3 DEF SaveAggregate
    <3> HIDE DEF a, y
    <3>2. a \notin DOMAIN aggregates
      BY <2>3 DEF a
    <3>  QED
      BY <3>1, <3>2 DEF With
  <2>  QED
    BY <2>2, <2>3
<1>  QED
  BY <1>1, <1>2 DEF EvidenceNext, Receive, Judge, Aggregate, Preview, Apply, FinishJob, RaiseUpload

\* A judgement is of the first of the rows that are left, and of its shipment.
LEMMA JudgeIs ==
  ASSUME UInv, NEW u \in Uploads, Judge(u)
  PROVE  \E i \in upload[u].todo :
           LET s == upload[u].file.rows[i].shipment
               left == upload[u].todo \ {i}
           IN  /\ \E j \in Judgements : judged' = [judged EXCEPT ![s] = j]
               /\ s \in Shipments
               /\ upload' = [upload EXCEPT ![u] =
                    [@ EXCEPT !.stage = IF left = {} THEN "aggregate" ELSE "judge", !.todo = left]]
<1>1. /\ upload[u].file \in Files /\ upload[u].day \in Days
      /\ upload[u].todo # {} /\ upload[u].todo \subseteq Matched(upload[u].file)
  BY DEF UInv, UploadsOK, UploadOK, Judge, InStage
<1>2. PICK i : i = Min(upload[u].todo)
  OBVIOUS
<1>3. upload[u].todo \subseteq Nat
  BY <1>1, MatchedIs
<1>4. i \in upload[u].todo /\ i \in Matched(upload[u].file)
  BY <1>1, <1>2, <1>3, MinIsLeast
<1>5. PICK record : record = upload[u].file.rows[i]
  OBVIOUS
<1>6. record.shipment \in Shipments
  BY <1>1, <1>4, <1>5, MatchedIs
<1>7. PICK j : j = Judgement(upload[u].file, record, upload[u].day)
  OBVIOUS
<1>8. j \in Judgements
  <2>1. upload[u].file.provider \in DOMAIN Reliability
    BY <1>1, UploadAssumption DEF FileType
  <2>  QED
    BY <1>1, <1>7, <2>1 DEF Judgement, Judgements
<1>9. /\ judged' = [judged EXCEPT ![record.shipment] = j]
      /\ LET left == upload[u].todo \ {i}
         IN  upload' = [upload EXCEPT ![u] =
               [@ EXCEPT !.stage = IF left = {} THEN "aggregate" ELSE "judge", !.todo = left]]
  BY <1>2, <1>5, <1>7 DEF Judge
<1>  QED
  BY <1>4, <1>5, <1>6, <1>8, <1>9

\* A judgement is never withdrawn.
LEMMA JudgedStays ==
  ASSUME UInv, EvidenceNext
  PROVE  /\ judged' \in [Shipments -> Judgements \union {NoJudgement}]
         /\ \A s \in Shipments : judged[s] \in Judgements => judged'[s] \in Judgements
<1> USE DEF UInv, UploadsOK
<1>1. CASE UNCHANGED judged
  BY <1>1
<1>2. CASE \E u \in Uploads : Judge(u)
  <2>1. PICK u \in Uploads : Judge(u)
    BY <1>2
  <2>2. PICK s \in Shipments, j \in Judgements : judged' = [judged EXCEPT ![s] = j]
    BY <2>1, JudgeIs
  <2>  QED
    BY <2>2
<1>  QED
  BY <1>1, <1>2
  DEF EvidenceNext, Receive, SaveAggregate, Aggregate, Preview, Apply, FinishJob, RaiseUpload

\* The other uploads rely on what stays.
LEMMA OthersStayOK ==
  ASSUME UInv, EvidenceNext, NEW u \in Uploads, upload'[u] = upload[u]
  PROVE  upload'[u] \in UploadType /\ UploadOK(u)'
<1>1. /\ DOMAIN aggregates \subseteq DOMAIN aggregates'
      /\ \A s \in Shipments : judged[s] \in Judgements => judged'[s] \in Judgements
  BY AggregatesGrow, JudgedStays
<1>2. upload[u] \in UploadType /\ UploadOK(u)
  BY DEF UInv, UploadsOK
<1>3. upload[u].stage \in {"judge", "aggregate"} =>
        \A i \in Matched(upload[u].file) : upload[u].file.rows[i].shipment \in Shipments
  BY <1>2, MatchedIs DEF UploadOK
<1>  QED
  BY <1>1, <1>2, <1>3 DEF UploadOK

\* The judgements that are current are what an aggregate is built from.
LEMMA BuiltIsBuildable ==
  ASSUME NEW file \in Files, NEW day \in Days,
         judged \in [Shipments -> Judgements \union {NoJudgement}],
         \A i \in Matched(file) : judged[file.rows[i].shipment] \in Judgements,
         NEW a, a = [day |-> day, on |-> Restrict(judged, DOMAIN Deduplicated(file))]
  PROVE  a \in Buildable /\ DOMAIN a.on = DOMAIN Deduplicated(file)
<1>1. PICK held : held = DOMAIN Deduplicated(file)
  OBVIOUS
<1>2. held \in SUBSET Shipments /\ IsFiniteSet(held) /\ \A s \in held : judged[s] \in Judgements
  <2>1. held = {file.rows[i].shipment : i \in Matched(file)}
    BY <1>1, DeduplicatedIs
  <2>2. \A s \in held : judged[s] \in Judgements
    BY <2>1
  <2>  QED
    BY <1>1, <2>2, DeduplicatedIs
<1>3. a.day = day /\ a.on = [s \in held |-> judged[s]] /\ a = [day |-> a.day, on |-> a.on]
  BY <1>1 DEF Restrict
<1>4. a.on \in [held -> Judgements] /\ DOMAIN a.on = held
  BY <1>2, <1>3
<1>5. a \in [day : Days, on : UNION {[h -> Judgements] : h \in SUBSET Shipments}]
  BY <1>2, <1>3, <1>4
<1>  QED
  BY <1>1, <1>2, <1>4, <1>5 DEF Buildable

\* One step of an upload, and what it relies on afterwards.
LEMMA UploadStepOK ==
  ASSUME UInv, NEW u \in Uploads,
         \/ Receive(u) \/ Judge(u) \/ Aggregate(u) \/ SaveAggregate(u) \/ Preview(u)
         \/ Apply(u) \/ FinishJob(u) \/ RaiseUpload(u)
  PROVE  /\ upload'[u] \in UploadType /\ UploadOK(u)'
         /\ upload' = [upload EXCEPT ![u] = upload'[u]]
         /\ DOMAIN aggregates' \subseteq Buildable
         /\ \A a \in DOMAIN aggregates' : RowsFit(aggregates'[a], DOMAIN a.on)
         /\ leading' \in DOMAIN aggregates' \union {NoAggregate}
<1> USE DEF InStage
<1> DEFINE up == upload[u]
<1>0. /\ up \in UploadType /\ UploadOK(u) /\ upload \in [Uploads -> UploadType]
      /\ judged \in [Shipments -> Judgements \union {NoJudgement}]
      /\ DOMAIN aggregates \subseteq Buildable /\ leading \in DOMAIN aggregates \union {NoAggregate}
      /\ \A a \in DOMAIN aggregates : RowsFit(aggregates[a], DOMAIN a.on)
  BY DEF UInv, UploadsOK
<1>1. CASE Receive(u)
  <2>1. PICK file \in Files, day \in Days :
          upload' = [upload EXCEPT ![u] =
            [@ EXCEPT !.stage = IF Matched(file) = {} THEN "finish" ELSE "judge",
                      !.file = file, !.day = day, !.todo = Matched(file), !.job = "running"]]
    BY <1>1 DEF Receive
  <2>2. Matched(file) \in SUBSET Nat
    BY MatchedIs
  <2>3. upload'[u] = [up EXCEPT !.stage = IF Matched(file) = {} THEN "finish" ELSE "judge",
                      !.file = file, !.day = day, !.todo = Matched(file), !.job = "running"]
    BY <2>1, <1>0
  <2>4. upload'[u] \in UploadType
    BY <2>2, <2>3, <1>0 DEF UploadType, Stages
  <2>5. UploadOK(u)'
    BY <2>3, <1>0 DEF UploadOK, UploadType
  <2>  QED
    BY <1>0, <1>1, <2>1, <2>3, <2>4, <2>5 DEF Receive
<1>2. CASE Judge(u)
  <2>1. PICK i \in up.todo :
          LET s == up.file.rows[i].shipment
              left == up.todo \ {i}
          IN  /\ \E j \in Judgements : judged' = [judged EXCEPT ![s] = j]
              /\ s \in Shipments
              /\ upload' = [upload EXCEPT ![u] =
                   [@ EXCEPT !.stage = IF left = {} THEN "aggregate" ELSE "judge", !.todo = left]]
    BY <1>2, JudgeIs
  <2>2. PICK s, left : s = up.file.rows[i].shipment /\ left = up.todo \ {i}
    OBVIOUS
  <2>3. PICK j \in Judgements : judged' = [judged EXCEPT ![s] = j]
    BY <2>1, <2>2
  <2>4. /\ s \in Shipments
        /\ upload' = [upload EXCEPT ![u] =
             [@ EXCEPT !.stage = IF left = {} THEN "aggregate" ELSE "judge", !.todo = left]]
    BY <2>1, <2>2
  <2>5. upload'[u] = [up EXCEPT !.stage = IF left = {} THEN "aggregate" ELSE "judge", !.todo = left]
    BY <2>4, <1>0
  <2>6. /\ up.stage = "judge" /\ up.day \in Days /\ up.file \in Files
        /\ up.todo \subseteq Matched(up.file) /\ up.todo \in SUBSET Nat
    BY <1>0, <1>2 DEF Judge, UploadOK, UploadType
  <2>7. upload'[u] \in UploadType
    <3>1. left \in SUBSET Nat
      BY <2>2, <2>6
    <3>  QED
      BY <2>5, <3>1, <1>0 DEF UploadType, Stages
  <2>8. \A h \in Matched(up.file) \ left : judged'[up.file.rows[h].shipment] \in Judgements
    <3> SUFFICES ASSUME NEW h \in Matched(up.file) \ left
                 PROVE  judged'[up.file.rows[h].shipment] \in Judgements
      OBVIOUS
    <3>1. up.file.rows[h].shipment \in Shipments
      BY <2>6, MatchedIs
    <3>2. CASE h = i
      BY <3>1, <3>2, <2>2, <2>3, <1>0
    <3>3. CASE h # i
      <4>1. judged[up.file.rows[h].shipment] \in Judgements
        BY <3>3, <2>2, <2>6, <1>0 DEF UploadOK
      <4>  QED
        BY <4>1, <3>1, <2>3, <1>0
    <3>  QED
      BY <3>2, <3>3
  <2>9. UploadOK(u)'
    <3>1. upload'[u].file = up.file /\ upload'[u].day = up.day /\ upload'[u].todo = left
          /\ upload'[u].stage = IF left = {} THEN "aggregate" ELSE "judge"
      BY <2>5, <1>0 DEF UploadType
    <3>2. left \subseteq Matched(up.file)
      BY <2>2, <2>6
    <3>  QED
      BY <3>1, <3>2, <2>6, <2>8 DEF UploadOK
  <2>10. upload' = [upload EXCEPT ![u] = upload'[u]]
    BY <2>4, <2>5, <1>0
  <2>  QED
    BY <1>0, <1>2, <2>7, <2>9, <2>10 DEF Judge
<1>3. CASE Aggregate(u)
  <2> DEFINE mine == [day |-> up.day, on |-> Restrict(judged, DOMAIN Deduplicated(up.file))]
  <2>1. upload' = [upload EXCEPT ![u] = [@ EXCEPT !.stage = "save", !.mine = mine]]
    BY <1>3 DEF Aggregate
  <2>2. upload'[u] = [up EXCEPT !.stage = "save", !.mine = mine]
    BY <2>1, <1>0
  <2>3. /\ up.day \in Days /\ up.file \in Files
        /\ \A i \in Matched(up.file) : judged[up.file.rows[i].shipment] \in Judgements
    BY <1>0, <1>3 DEF Aggregate, UploadOK
  <2>4. mine \in Buildable /\ DOMAIN mine.on = DOMAIN Deduplicated(up.file)
    BY <2>3, <1>0, BuiltIsBuildable
  <2> HIDE DEF mine
  <2>5. upload'[u] \in UploadType /\ UploadOK(u)'
    BY <2>2, <2>3, <2>4, <1>0 DEF UploadType, Stages, UploadOK
  <2>  QED
    BY <1>0, <1>3, <2>1, <2>2, <2>5 DEF Aggregate
<1>4. CASE SaveAggregate(u)
  <2> DEFINE a == up.mine
  <2>1. upload' = [upload EXCEPT ![u].stage = "preview"] /\ leading' = a
    BY <1>4 DEF SaveAggregate, Step
  <2>2. upload'[u] = [up EXCEPT !.stage = "preview"]
    BY <2>1, <1>0
  <2>3. a \in Buildable /\ DOMAIN a.on = DOMAIN Deduplicated(up.file) /\ up.file \in Files
    BY <1>0, <1>4 DEF SaveAggregate, UploadOK
  <2>4. DOMAIN aggregates' = DOMAIN aggregates \union {a}
    <3>1. CASE a \in DOMAIN aggregates
      BY <3>1, <1>4 DEF SaveAggregate
    <3>2. CASE a \notin DOMAIN aggregates
      BY <3>2, <1>4 DEF SaveAggregate, With
    <3>  QED
      BY <3>1, <3>2
  <2>10. ASSUME NEW c \in DOMAIN aggregates' PROVE RowsFit(aggregates'[c], DOMAIN c.on)
    <3>1. CASE a \in DOMAIN aggregates
      BY <3>1, <1>0, <1>4 DEF SaveAggregate
    <3>2. CASE a \notin DOMAIN aggregates
      <4>1. aggregates' = With(aggregates, a, Deduplicated(up.file))
        BY <3>2, <1>4 DEF SaveAggregate
      <4> HIDE DEF a
      <4>2. aggregates'[c] = IF c = a THEN Deduplicated(up.file) ELSE aggregates[c]
        BY <4>1, <2>4 DEF With
      <4>3. RowsFit(Deduplicated(up.file), DOMAIN a.on)
        BY <2>3, DeduplicatedIs
      <4>  QED
        BY <4>2, <4>3, <2>4, <1>0
    <3>  QED
      BY <3>1, <3>2
  <2>7. upload'[u].stage = "preview" /\ upload'[u].mine = a
    BY <2>2, <1>0 DEF UploadType
  <2>8. upload'[u] \in UploadType
    BY <2>2, <1>0 DEF UploadType, Stages
  <2>9. UploadOK(u)'
    <3>1. up.file \in Files /\ up.day \in Days
      BY <1>0, <1>4 DEF SaveAggregate, UploadOK
    <3>2. upload'[u].file = up.file /\ upload'[u].day = up.day
      BY <2>2, <1>0 DEF UploadType
    <3>  QED
      BY <3>1, <3>2, <2>4, <2>7 DEF UploadOK
  <2>5. upload'[u] \in UploadType /\ UploadOK(u)'
    BY <2>8, <2>9
  <2>6. upload' = [upload EXCEPT ![u] = upload'[u]]
    BY <2>1, <2>2, <1>0
  <2>  QED
    BY <1>0, <2>1, <2>3, <2>4, <2>5, <2>6, <2>10
<1>5. CASE Preview(u)
  <2>1. /\ UNCHANGED <<aggregates, leading>> /\ up.stage = "preview"
        /\ \/ upload' = [upload EXCEPT ![u].stage = "finish"]
           \/ \E stale \in BOOLEAN :
                upload' = [upload EXCEPT ![u] = [@ EXCEPT !.stage = "apply", !.stale = stale]]
    BY <1>5 DEF Preview, Step
  <2>2. \/ upload'[u] = [up EXCEPT !.stage = "finish"]
        \/ \E stale \in BOOLEAN : upload'[u] = [up EXCEPT !.stage = "apply", !.stale = stale]
    BY <2>1, <1>0
  <2>3. upload'[u] \in UploadType /\ UploadOK(u)'
    BY <2>1, <2>2, <1>0 DEF UploadType, Stages, UploadOK
  <2>4. upload' = [upload EXCEPT ![u] = upload'[u]]
    BY <2>1, <1>0
  <2>  QED
    BY <1>0, <2>1, <2>3, <2>4
<1>6. CASE Apply(u)
  <2>1. /\ UNCHANGED <<aggregates, leading>> /\ up.stage = "apply"
        /\ upload' = [upload EXCEPT ![u].stage = "finish"]
    BY <1>6 DEF Apply, Step
  <2>2. upload'[u] = [up EXCEPT !.stage = "finish"]
    BY <2>1, <1>0
  <2>3. upload'[u] \in UploadType /\ UploadOK(u)'
    BY <2>1, <2>2, <1>0 DEF UploadType, Stages, UploadOK
  <2>  QED
    BY <1>0, <2>1, <2>2, <2>3
<1>7. CASE FinishJob(u) \/ RaiseUpload(u)
  <2>1. /\ UNCHANGED <<aggregates, leading>>
        /\ \E stage \in {"done", "raised"},
              job \in {"needs_review", "partial", "completed", "running"} :
             upload' = [upload EXCEPT ![u] = [NoUpload EXCEPT !.stage = stage, !.job = job]]
    BY <1>7 DEF FinishJob, RaiseUpload, End
  <2>2. PICK stage \in {"done", "raised"},
             job \in {"needs_review", "partial", "completed", "running"} :
          upload' = [upload EXCEPT ![u] = [NoUpload EXCEPT !.stage = stage, !.job = job]]
    BY <2>1
  <2>3. upload'[u] = [NoUpload EXCEPT !.stage = stage, !.job = job]
    BY <2>2, <1>0
  <2>5. NoUpload \in UploadType
    BY NoUploadIs
  <2>6. upload'[u] \in UploadType
    BY <2>3, <2>5 DEF UploadType, Stages
  <2>7. upload'[u].stage = stage
    BY <2>3, <2>5 DEF UploadType
  <2>4. UploadOK(u)'
    BY <2>7 DEF UploadOK
  <2>  QED
    BY <1>0, <2>1, <2>2, <2>3, <2>4, <2>6
<1>  QED
  BY <1>1, <1>2, <1>3, <1>4, <1>5, <1>6, <1>7

\* Uploads keep to what they rely on.
LEMMA UploadsStepOK ==
  ASSUME UInv, EvidenceNext
  PROVE  UploadsOK'
<1>1. PICK u \in Uploads :
        \/ Receive(u) \/ Judge(u) \/ Aggregate(u) \/ SaveAggregate(u) \/ Preview(u)
        \/ Apply(u) \/ FinishJob(u) \/ RaiseUpload(u)
  BY DEF EvidenceNext
<1>2. /\ upload'[u] \in UploadType /\ UploadOK(u)'
      /\ upload' = [upload EXCEPT ![u] = upload'[u]]
      /\ DOMAIN aggregates' \subseteq Buildable
      /\ \A a \in DOMAIN aggregates' : RowsFit(aggregates'[a], DOMAIN a.on)
      /\ leading' \in DOMAIN aggregates' \union {NoAggregate}
  BY <1>1, UploadStepOK
<1>3. upload \in [Uploads -> UploadType]
  BY DEF UInv, UploadsOK
<1>4. \A v \in Uploads \ {u} : upload'[v] = upload[v]
  BY <1>2, <1>3
<1>5. \A v \in Uploads : upload'[v] \in UploadType /\ UploadOK(v)'
  BY <1>2, <1>4, OthersStayOK
<1>6. upload' \in [Uploads -> UploadType]
  BY <1>2, <1>3
<1>7. judged' \in [Shipments -> Judgements \union {NoJudgement}]
  BY JudgedStays
<1>  QED
  BY <1>2, <1>5, <1>6, <1>7 DEF UploadsOK

\* An entry of the ledger that is not touched stays what it is.
LEMMA EntryStays ==
  ASSUME UInv, EvidenceNext, NEW b \in DOMAIN promotions,
         DOMAIN promotions \subseteq DOMAIN promotions', promotions'[b] = promotions[b]
  PROVE  EntryOK(b)'
<1>1. EntryOK(b)
  BY DEF UInv, LedgerOK
<1>2. b.of \in DOMAIN aggregates' /\ aggregates'[b.of] = aggregates[b.of]
  BY <1>1, AggregatesGrow DEF EntryOK
<1>3. \A k \in PromotedKinds : PromotionStatus(b, k)' = PromotionStatus(b, k)
  BY <1>2, StatusKept
<1>  QED
  BY <1>1, <1>2, <1>3 DEF EntryOK

\* Nothing is promoted of the aggregate that is none.
LEMMA NoBatchIsNone ==
  ASSUME UInv
  PROVE  NoBatch \notin DOMAIN promotions
<1>1. NoAggregate \notin Buildable
  BY BuildableIs
<1>2. NoBatch.of = NoAggregate
  BY DEF NoBatch
<1>  QED
  BY <1>1, <1>2 DEF UInv, UploadsOK, LedgerOK, EntryOK

\* A batch that becomes the current one.
LEMMA BecomesCurrent ==
  ASSUME UInv, EvidenceNext, NEW b, b.of \in DOMAIN aggregates, b.stale \in BOOLEAN, NEW entry,
         promotions' = With(Superseded(promotions, b), b, entry),
         entry.current = TRUE, entry.by = NoBatch,
         \A k \in PromotedKinds :
           /\ entry.signal[k] \in {"active", "none"}
           /\ entry.signal[k] = "active" <=> entry.status[k] = "PROMOTED"
           /\ entry.signal[k] # "none" <=> PromotionStatus(b, k) = "PROMOTED"
  PROVE  LedgerOK'
<1>1. /\ DOMAIN promotions' = DOMAIN promotions \union {b} /\ promotions'[b] = entry
      /\ \A c \in DOMAIN promotions : c # b => promotions'[c] = Superseded(promotions, b)[c]
  <2>1. DOMAIN Superseded(promotions, b) = DOMAIN promotions
    BY DEF Superseded
  <2>  QED
    BY <2>1 DEF With
<1>2. EntryOK(b)'
  <2>1. b.of \in DOMAIN aggregates' /\ aggregates'[b.of] = aggregates[b.of]
    BY AggregatesGrow
  <2>2. \A k \in PromotedKinds : PromotionStatus(b, k)' = PromotionStatus(b, k)
    BY <2>1, StatusKept
  <2>3. promotions'[b] = entry /\ b \in DOMAIN promotions'
    BY <1>1
  <2>4. \A k \in PromotedKinds :
          /\ entry.signal[k] # "none" <=> PromotionStatus(b, k)' = "PROMOTED"
          /\ entry.signal[k] = "active" => entry.current
    BY <2>2
  <2>  QED
    BY <2>1, <2>3, <2>4 DEF EntryOK
<1>3. ASSUME NEW c \in DOMAIN promotions, c # b, ~promotions[c].current
      PROVE  promotions'[c] = promotions[c] /\ EntryOK(c)'
  <2>1. Superseded(promotions, b)[c] = promotions[c]
    BY <1>3 DEF Superseded
  <2>2. promotions'[c] = promotions[c] /\ DOMAIN promotions \subseteq DOMAIN promotions'
    BY <1>1, <1>3, <2>1
  <2>  QED
    BY <2>2, EntryStays
<1>4. ASSUME NEW c \in DOMAIN promotions, c # b, promotions[c].current
      PROVE  ~promotions'[c].current /\ promotions'[c].by = b /\ EntryOK(c)'
  <2>0. promotions'[c] =
          [current |-> FALSE, by |-> b, status |-> [k \in PromotedKinds |-> "SUPERSEDED"],
           signal |-> [k \in PromotedKinds |->
                         IF promotions[c].signal[k] = "active" THEN "inactive"
                         ELSE promotions[c].signal[k]]]
    <3>1. promotions'[c] = Superseded(promotions, b)[c]
      BY <1>1, <1>4
    <3>  QED
      BY <3>1, <1>4 DEF Superseded
  <2>1. /\ promotions'[c].current = FALSE /\ promotions'[c].by = b
        /\ \A k \in PromotedKinds :
             /\ promotions'[c].status[k] = "SUPERSEDED"
             /\ promotions'[c].signal[k] = IF promotions[c].signal[k] = "active" THEN "inactive"
                                          ELSE promotions[c].signal[k]
    BY <2>0
  <2>2. EntryOK(c)
    BY DEF UInv, LedgerOK
  <2>3. c.of \in DOMAIN aggregates' /\ aggregates'[c.of] = aggregates[c.of]
    BY <2>2, AggregatesGrow DEF EntryOK
  <2>4. \A k \in PromotedKinds : PromotionStatus(c, k)' = PromotionStatus(c, k)
    BY <2>3, StatusKept
  <2>5. b # NoBatch
    <3>1. NoAggregate \notin Buildable
      BY BuildableIs
    <3>  QED
      BY <3>1 DEF UInv, UploadsOK, NoBatch
  <2>6. \A k \in PromotedKinds :
          /\ promotions'[c].signal[k] # "active" /\ promotions'[c].status[k] # "PROMOTED"
          /\ promotions'[c].signal[k] # "none" <=> PromotionStatus(c, k)' = "PROMOTED"
    BY <2>1, <2>2, <2>4 DEF EntryOK
  <2>7. c.of \in DOMAIN aggregates' /\ c.stale \in BOOLEAN
    BY <2>2, <2>3 DEF EntryOK
  <2>8. /\ promotions'[c].current = FALSE /\ promotions'[c].by = b
        /\ b \in DOMAIN promotions'
    BY <1>1, <2>1
  <2>9. EntryOK(c)'
    BY <2>5, <2>6, <2>7, <2>8 DEF EntryOK
  <2>  QED
    BY <2>8, <2>9
<1>5. \A c \in DOMAIN promotions' : EntryOK(c)' /\ (promotions'[c].current => c = b)
  BY <1>1, <1>2, <1>3, <1>4
<1>6. NoLoops'
  <2> SUFFICES ASSUME NEW loop \in (SUBSET DOMAIN promotions') \ {{}}
               PROVE  \E c \in loop : promotions'[c].by \notin loop
    BY DEF NoLoops
  <2>1. CASE b \in loop
    <3>1. NoBatch \notin DOMAIN promotions' 
      <4>1. b # NoBatch
        <5>1. NoAggregate \notin Buildable
          BY BuildableIs
        <5>  QED
          BY <5>1 DEF UInv, UploadsOK, NoBatch
      <4>  QED
        BY <4>1, <1>1, NoBatchIsNone
    <3>  QED
      BY <2>1, <3>1, <1>1
  <2>2. CASE b \notin loop
    <3>1. loop \in (SUBSET DOMAIN promotions) \ {{}}
      BY <2>2, <1>1
    <3>2. PICK c \in loop : promotions[c].by \notin loop
      BY <3>1 DEF UInv, LedgerOK, NoLoops
    <3>  QED
      BY <3>1, <3>2, <2>2, <1>3, <1>4
  <2>  QED
    BY <2>1, <2>2
<1>  QED
  BY <1>5, <1>6 DEF LedgerOK, OneCurrent

\* The ledger stays in order.
LEMMA LedgerStepOK ==
  ASSUME UInv, EvidenceNext
  PROVE  LedgerOK'
<1>1. CASE UNCHANGED promotions
  <2>1. \A b \in DOMAIN promotions : EntryOK(b)'
    BY <1>1, EntryStays
  <2>2. OneCurrent /\ NoLoops
    BY DEF UInv, LedgerOK
  <2>  QED
    BY <1>1, <2>1, <2>2 DEF LedgerOK, OneCurrent, NoLoops
<1>2. CASE \E u \in Uploads : Apply(u)
  <2>1. PICK u \in Uploads : Apply(u)
    BY <1>2
  <2> DEFINE b == [of |-> upload[u].mine, stale |-> upload[u].stale]
  <2>2. b.of \in DOMAIN aggregates /\ b.stale \in BOOLEAN
    BY <2>1 DEF Apply, InStage, UInv, UploadsOK, UploadOK, UploadType
  <2>3. \/ UNCHANGED promotions
        \/ /\ b \in DOMAIN promotions /\ ~promotions[b].current
           /\ promotions' = With(Superseded(promotions, b), b, Reactivated(b, promotions[b]))
        \/ /\ b \notin DOMAIN promotions
           /\ promotions' = With(Superseded(promotions, b), b, CreatedBatch(b))
    BY <2>1 DEF Apply
  <2> HIDE DEF b
  <2>4. CASE b \notin DOMAIN promotions
             /\ promotions' = With(Superseded(promotions, b), b, CreatedBatch(b))
    <3> DEFINE entry == CreatedBatch(b)
    <3>1. /\ entry.current = TRUE /\ entry.by = NoBatch
          /\ \A k \in PromotedKinds :
               /\ entry.signal[k] \in {"active", "none"}
               /\ entry.signal[k] = "active" <=> entry.status[k] = "PROMOTED"
               /\ entry.signal[k] # "none" <=> PromotionStatus(b, k) = "PROMOTED"
      BY DEF CreatedBatch
    <3> HIDE DEF entry
    <3>2. promotions' = With(Superseded(promotions, b), b, entry)
      BY <2>4 DEF entry
    <3>  QED
      BY <3>1, <3>2, <2>2, BecomesCurrent
  <2>5. CASE b \in DOMAIN promotions /\ ~promotions[b].current
             /\ promotions' = With(Superseded(promotions, b), b, Reactivated(b, promotions[b]))
    <3> DEFINE entry == Reactivated(b, promotions[b])
    <3>1. \A k \in PromotedKinds :
            promotions[b].signal[k] # "none" <=> PromotionStatus(b, k) = "PROMOTED"
      BY <2>5 DEF UInv, LedgerOK, EntryOK
    <3>2. /\ entry.current = TRUE /\ entry.by = NoBatch
          /\ \A k \in PromotedKinds :
               /\ entry.signal[k] \in {"active", "none"}
               /\ entry.signal[k] = "active" <=> entry.status[k] = "PROMOTED"
               /\ entry.signal[k] # "none" <=> PromotionStatus(b, k) = "PROMOTED"
      BY <3>1 DEF Reactivated
    <3> HIDE DEF entry
    <3>3. promotions' = With(Superseded(promotions, b), b, entry)
      BY <2>5 DEF entry
    <3>  QED
      BY <3>2, <3>3, <2>2, BecomesCurrent
  <2>  QED
    BY <1>1, <2>3, <2>4, <2>5
<1>  QED
  BY <1>1, <1>2
  DEF EvidenceNext, Receive, Judge, SaveAggregate, Aggregate, Preview, FinishJob, RaiseUpload

\* What is active was earned.
LEMMA ActiveIsEarned ==
  ASSUME UInv, NEW b \in DOMAIN promotions, NEW k \in PromotedKinds,
         promotions[b].signal[k] = "active"
  PROVE  /\ promotions[b].current /\ Backed(b.of, k)
         /\ \A s \in DOMAIN b.of.on :
              /\ aggregates[b.of][s].name = "same" /\ aggregates[b.of][s].sited
              /\ Bill[s].arrival <= b.of.day /\ Bill[s].arrival <= b.of.on[s].day
<1> DEFINE a == b.of
<1>1. EntryOK(b) /\ a \in Buildable
  BY DEF UInv, UploadsOK, LedgerOK, EntryOK
<1>2. promotions[b].current /\ PromotionStatus(b, k) = "PROMOTED"
  BY <1>1 DEF EntryOK
<1>3. Promotable(a) /\ EligibleSignal(a, k)
  BY <1>2 DEF PromotionStatus
<1>4. ~Blocked(a)
  BY <1>3 DEF Promotable
<1>5. Backed(a, k)
  BY <1>1, <1>3, <1>4, PromotedIsBacked
<1>6. \A s \in DOMAIN a.on : Bill[s].arrival <= a.day /\ Bill[s].arrival <= a.on[s].day
  BY <1>1, <1>4, UnblockedIs
<1>7. \A s \in DOMAIN a.on : aggregates[a][s].name = "same" /\ aggregates[a][s].sited
  BY <1>1 DEF UInv, UploadsOK, EntryOK, RowsFit
<1>  QED
  BY <1>2, <1>5, <1>6, <1>7

\* A set in which any two elements are one has one at most.
LEMMA AtMostOne ==
  ASSUME NEW S, \A x, y \in S : x = y
  PROVE  Cardinality(S) <= 1
<1>1. CASE S = {}
  BY <1>1, FS_EmptySet
<1>2. CASE S # {}
  <2>1. PICK x : S = {x}
    BY <1>2
  <2>  QED
    BY <2>1, FS_Singleton
<1>  QED
  BY <1>1, <1>2

\* The invariant says what SignalsAreEarned does.
LEMMA SignalsFollow == UInv => SignalsAreEarned
<1> SUFFICES ASSUME UInv PROVE SignalsAreEarned
  OBVIOUS
<1>1. EvidenceTypeOK
  <2>1. \A a \in DOMAIN aggregates : IsAggregate(a)
    BY BuildableIs DEF UInv, UploadsOK, RowsFit, IsAggregate
  <2>2. \A b \in DOMAIN promotions : IsBatch(b)
    BY DEF UInv, LedgerOK, EntryOK, IsBatch
  <2>  QED
    BY <2>1, <2>2 DEF UInv, UploadsOK, EvidenceTypeOK
<1>2. Cardinality({b \in DOMAIN promotions : promotions[b].current}) <= 1
  <2> DEFINE S == {b \in DOMAIN promotions : promotions[b].current}
  <2>1. \A x, y \in S : x = y
    BY DEF UInv, LedgerOK, OneCurrent
  <2> HIDE DEF S
  <2>2. Cardinality(S) <= 1
    BY <2>1, AtMostOne
  <2>  QED
    BY <2>2 DEF S
<1>3. \A b \in DOMAIN promotions : promotions[b].by = NoBatch <=> promotions[b].current
  BY DEF UInv, LedgerOK, EntryOK
<1>4. NoLoops
  BY DEF UInv, LedgerOK
<1>  QED
  BY <1>1, <1>2, <1>3, <1>4, ActiveIsEarned DEF SignalsAreEarned, NoLoops

\* Every active signal hangs on the one current batch and is backed by shipments
\* that are the company's, arrived and judged in time; of the batches one is
\* current at most, and following the pointers of replaced ones ends at it.
THEOREM SignalsAreEarnedHolds == EvidenceSpec => []SignalsAreEarned
<1>1. EvidenceInit => UInv
  BY EvidenceInitOK
<1>2. UInv /\ [EvidenceNext]_evidenceVars => UInv'
  <2> SUFFICES ASSUME UInv, [EvidenceNext]_evidenceVars PROVE UInv'
    OBVIOUS
  <2>1. CASE EvidenceNext
    BY <2>1, UploadsStepOK, LedgerStepOK DEF UInv
  <2>2. CASE UNCHANGED evidenceVars
    <3>1. UploadsOK'
      BY <2>2 DEF evidenceVars, UInv, UploadsOK, UploadOK
    <3>2. LedgerOK'
      <4>1. \A b : \A k \in PromotedKinds : PromotionStatus(b, k)' = PromotionStatus(b, k)
        BY <2>2, StatusKept DEF evidenceVars
      <4>  QED
        BY <4>1, <2>2 DEF evidenceVars, UInv, LedgerOK, EntryOK, OneCurrent, NoLoops
    <3>  QED
      BY <3>1, <3>2 DEF UInv
  <2>  QED
    BY <2>1, <2>2
<1>3. UInv => SignalsAreEarned
  BY SignalsFollow
<1>  QED
  BY <1>1, <1>2, <1>3, PTL DEF EvidenceSpec

(***************************************************************************)
(* Discovery: tasks, candidates and companies add up                       *)
(***************************************************************************)

\* A request has a task between its creation and its end, and takes one of its
\* candidates in until it has decided.
TaskStages == {"start", "search", "match", "add", "save", "decide", "finish"}
CandidateStages == {"match", "add", "save", "decide"}

CompanyType ==
  [name : STRING \union {""}, url : Urls, aliases : SUBSET STRING, sources : Seq(STRING)]

SearchType ==
  [at : {"idle", "create"} \union TaskStages, prompt : Prompts \union {""}, task : Nat,
   candidate : Nat, company : Nat, seen : CompanyType,
   outcome : {"", "failed", "ingested", "duplicate"}]

DiscoveryTypes ==
  /\ tasks \in Seq(TaskType) /\ companies \in Seq(CompanyType)
  /\ \A c \in DOMAIN companies : companies[c].sources # <<>>
  /\ searches \in [Searchers -> SearchType]

\* A candidate repeats an earlier one and has no company of its own, or it has
\* one exactly when it was taken in.
CandidateOK(candidates, i) ==
  LET candidate == candidates[i]
  IN  IF candidate.original = 0
      THEN /\ candidate.status \in {"discovered", "failed"} => candidate.company = 0
           /\ candidate.status \in {"ingested", "duplicate"} =>
                candidate.company \in DOMAIN companies
      ELSE /\ candidate.original \in DOMAIN candidates
           /\ candidates[candidate.original].original = 0
           /\ candidate.status = "duplicate" /\ candidate.company = 0

TaskOK(task) ==
  /\ \A i \in DOMAIN task.candidates : CandidateOK(task.candidates, i)
  /\ ~IsActive(task) => EndedIsSettled(task)

\* What a request relies on: its task is active, the candidates before the one
\* it is at are decided and the others open.
SearchOK(r) ==
  LET search == searches[r]
      candidates == TaskOf(r).candidates
  IN  /\ search.at = "create" => search.prompt \in Prompts
      /\ search.at \in TaskStages => search.task \in DOMAIN tasks /\ IsActive(TaskOf(r))
      /\ search.at \in {"start", "search"} => candidates = <<>>
      /\ search.at \in CandidateStages =>
           /\ search.candidate \in DOMAIN candidates /\ candidates[search.candidate].original = 0
           /\ \A j \in DOMAIN candidates : candidates[j].original = 0 =>
                (candidates[j].status = "discovered" <=> j >= search.candidate)
      /\ search.at = "finish" => Having(TaskOf(r), {"discovered"}) = {}
      /\ search.at \in {"match", "add"} => search.company = 0
      /\ search.at = "save" =>
           /\ search.company \in DOMAIN companies
           /\ Len(search.seen.sources) <= Len(companies[search.company].sources)
      /\ search.at = "decide" =>
           IF search.outcome = "failed" THEN search.company = 0
           ELSE search.outcome \in {"ingested", "duplicate"} /\ search.company \in DOMAIN companies

\* Requests that created a company and have not said so yet; a task that has a
\* request, and one that has lost it.
Pending == {r \in Searchers : searches[r].at = "decide" /\ searches[r].outcome = "ingested"}
Served == {r \in Searchers : searches[r].at \in TaskStages}
Orphans == {t \in ActiveTasks : \A r \in Served : searches[r].task # t}

\* Companies no candidate tells of, and those nobody ever will.
Unclaimed == {c \in DOMAIN companies : \A t \in DOMAIN tasks :
                \A i \in DOMAIN tasks[t].candidates : tasks[t].candidates[i].company # c}
Lost == {c \in Unclaimed : \A r \in Pending : searches[r].company # c}

ApartOK ==
  /\ \A r, q \in Served : r # q => searches[r].task # searches[q].task
  /\ \A t, u \in ActiveTasks : t # u => tasks[t].prompt # tasks[u].prompt

\* No company is claimed to be new twice, by candidates or requests.
IngestedAt(t, i) == tasks[t].candidates[i].status = "ingested"
CreatorsOK ==
  /\ \A t, u \in DOMAIN tasks :
       \A i \in DOMAIN tasks[t].candidates, j \in DOMAIN tasks[u].candidates :
         IngestedAt(t, i) /\ IngestedAt(u, j) /\ <<t, i>> # <<u, j>> =>
           tasks[t].candidates[i].company # tasks[u].candidates[j].company
  /\ \A r \in Pending : \A t \in DOMAIN tasks : \A i \in DOMAIN tasks[t].candidates :
       IngestedAt(t, i) => tasks[t].candidates[i].company # searches[r].company
  /\ \A r, q \in Pending : r # q => searches[r].company # searches[q].company

DShape ==
  /\ DiscoveryTypes
  /\ \A t \in DOMAIN tasks : TaskOK(tasks[t])
  /\ \A r \in Searchers : SearchOK(r)
  /\ ApartOK /\ CreatorsOK

\* The inductive invariant.
DInv == DShape /\ Cardinality(Lost) <= Cardinality(Orphans)

\* The claims that are read of an answer.
LEMMA LimitedIs ==
  ASSUME NEW rows \in Answers, NEW n \in Nat
  PROVE  Limited(rows, n) \in Seq(CompanyClaims)
<1> DEFINE S == Readable(rows)
           R == {p \in Nat \X Nat : p[1] < p[2]}
           size == Min({n, Cardinality(S)})
<1>1. rows \in Seq(CompanyClaims \union {Unreadable}) /\ DOMAIN rows = 1 .. Len(rows)
      /\ Len(rows) \in Nat
  BY DiscoveryAssumption
<1>2. IsFiniteSet(S) /\ S \subseteq Nat /\ Cardinality(S) \in Nat
  <2>1. S \subseteq 1 .. Len(rows) /\ IsFiniteSet(1 .. Len(rows))
    BY <1>1, FS_Interval DEF Readable
  <2>2. IsFiniteSet(S)
    BY <2>1, FS_Subset
  <2>3. S \subseteq Nat
    BY <2>1
  <2>  QED
    BY <2>2, <2>3, FS_CardinalityType
<1>3. Total2(S, R)
  BY <1>2 DEF Total2
<1>4. \A i \in S : Before(rows, i) = RankIn(S, R, i)
  <2> SUFFICES ASSUME NEW i \in S PROVE Before(rows, i) = RankIn(S, R, i)
    OBVIOUS
  <2>1. {j \in S : j < i} = {y \in S : <<y, i>> \in R}
    BY <1>2
  <2>  QED
    BY <2>1 DEF Before, RankIn
<1>5. \A k \in 0 .. Cardinality(S) - 1 : \E i \in S : Before(rows, i) = k
  BY <1>2, <1>3, <1>4, RankIsBijective
<1>6. size \in Nat /\ size <= Cardinality(S)
  <2>1. size \in {n, Cardinality(S)} /\ size <= Cardinality(S)
    BY <1>2, MinIsLeast
  <2>  QED
    BY <2>1, <1>2
<1>7. ASSUME NEW k \in 1 .. size
      PROVE  rows[CHOOSE i \in S : Before(rows, i) = k - 1] \in CompanyClaims
  <2> DEFINE x == CHOOSE i \in S : Before(rows, i) = k - 1
  <2>1. k - 1 \in 0 .. Cardinality(S) - 1
    BY <1>2, <1>6, <1>7
  <2>2. x \in S
    BY <1>5, <2>1
  <2> HIDE DEF x
  <2>3. rows[x] # Unreadable /\ x \in 1 .. Len(rows)
    BY <2>2, <1>1 DEF Readable
  <2>4. rows[x] \in CompanyClaims
    BY <2>3, <1>1
  <2>  QED
    BY <2>4 DEF x
<1>  QED
  <2> DEFINE f == [k \in 1 .. size |-> rows[CHOOSE i \in S : Before(rows, i) = k - 1]]
  <2>1. f \in [1 .. size -> CompanyClaims]
    BY <1>7
  <2>2. f = Limited(rows, n)
    BY DEF Limited
  <2> HIDE DEF f, size
  <2>  QED
    BY <2>1, <2>2, <1>6, SeqDef

\* What the candidates of an answer are at first: open, or a repetition.
LEMMA PreparedIs ==
  ASSUME NEW claims \in Seq(CompanyClaims)
  PROVE  /\ Prepared(claims) \in Seq(CandidateType)
         /\ \A i \in DOMAIN Prepared(claims) :
              /\ CandidateOK(Prepared(claims), i)
              /\ Prepared(claims)[i].original = 0 => Prepared(claims)[i].status = "discovered"
              /\ Prepared(claims)[i].company = 0 /\ Prepared(claims)[i].status # "ingested"
<1> DEFINE P == Prepared(claims)
           Earlier(i) == {j \in 1 .. (i - 1) : ClaimKey(claims[j]) = ClaimKey(claims[i])}
<1>1. DOMAIN claims = 1 .. Len(claims) /\ Len(claims) \in Nat /\ DOMAIN P = 1 .. Len(claims)
  BY DEF Prepared
<1>2. ASSUME NEW i \in 1 .. Len(claims)
      PROVE  /\ Earlier(i) = {} =>
                  P[i] = [claim |-> claims[i], company |-> 0, status |-> "discovered",
                          original |-> 0]
             /\ Earlier(i) # {} =>
                  P[i] = [claim |-> claims[i], company |-> 0, status |-> "duplicate",
                          original |-> Min(Earlier(i))]
  BY <1>1 DEF Prepared
<1>3. ASSUME NEW i \in 1 .. Len(claims), Earlier(i) # {}
      PROVE  /\ Min(Earlier(i)) \in 1 .. (i - 1) /\ Earlier(Min(Earlier(i))) = {}
  <2> DEFINE m == Min(Earlier(i))
  <2>0. Earlier(i) \subseteq Nat
    BY <1>1
  <2>1. m \in Earlier(i) /\ \A y \in Earlier(i) : m <= y
    BY <2>0, <1>3, MinIsLeast
  <2>2. m \in 1 .. (i - 1) /\ ClaimKey(claims[m]) = ClaimKey(claims[i])
    BY <2>1
  <2> HIDE DEF m
  <2>3. ASSUME NEW j \in Earlier(m) PROVE FALSE
    <3>1. j \in 1 .. (m - 1) /\ ClaimKey(claims[j]) = ClaimKey(claims[i])
      BY <2>2
    <3>2. j \in Earlier(i) /\ j < m
      BY <3>1, <2>2, <1>1
    <3>  QED
      BY <3>2, <2>1, <2>2, <1>1
  <2>4. Earlier(m) = {}
    BY <2>3
  <2>  QED
    BY <2>2, <2>4 DEF m
<1> HIDE DEF P, Earlier
<1>4. ASSUME NEW i \in 1 .. Len(claims)
      PROVE  /\ P[i] \in CandidateType /\ CandidateOK(P, i)
             /\ P[i].original = 0 => P[i].status = "discovered"
             /\ P[i].company = 0 /\ P[i].status # "ingested"
  <2>1. claims[i] \in CompanyClaims
    OBVIOUS
  <2>2. CASE Earlier(i) = {}
    <3>1. P[i] = [claim |-> claims[i], company |-> 0, status |-> "discovered", original |-> 0]
      BY <2>2, <1>2
    <3>  QED
      BY <3>1, <2>1 DEF CandidateType, CandidateOK
  <2>3. CASE Earlier(i) # {}
    <3>1. PICK m : m = Min(Earlier(i)) /\ m \in 1 .. (i - 1) /\ Earlier(m) = {}
      BY <1>3, <2>3
    <3>2. m \in 1 .. Len(claims) /\ m # 0 /\ m \in Nat
      BY <3>1, <1>1
    <3>3. P[m] = [claim |-> claims[m], company |-> 0, status |-> "discovered", original |-> 0]
      <4>1. m \in 1 .. Len(claims) /\ Earlier(m) = {}
        BY <3>1, <3>2
      <4>  QED
        BY <4>1, <1>2
    <3>4. P[i] = [claim |-> claims[i], company |-> 0, status |-> "duplicate", original |-> m]
      <4>1. Earlier(i) # {} /\ m = Min(Earlier(i))
        BY <3>1, <2>3
      <4>  QED
        BY <4>1, <1>2
    <3>  QED
      BY <2>1, <3>2, <3>3, <3>4, <1>1 DEF CandidateType, CandidateOK
  <2>  QED
    BY <2>2, <2>3
<1>5. P \in Seq(CandidateType)
  <2>1. P \in [1 .. Len(claims) -> CandidateType]
    BY <1>1, <1>4 DEF P, Prepared
  <2>  QED
    BY <2>1, <1>1, SeqDef
<1>  QED
  BY <1>1, <1>4, <1>5 DEF P

\* The candidate after the i-th that is to be taken in.
LEMMA FollowingIs ==
  ASSUME NEW candidates \in Seq(CandidateType), NEW i \in Nat
  PROVE  /\ Following(candidates, i) \in Nat
         /\ Following(candidates, i) = 0 =>
              \A j \in DOMAIN candidates : candidates[j].original = 0 => j <= i
         /\ Following(candidates, i) # 0 =>
              /\ Following(candidates, i) \in DOMAIN candidates
              /\ candidates[Following(candidates, i)].original = 0
              /\ \A j \in DOMAIN candidates : candidates[j].original = 0 =>
                   (j > i <=> j >= Following(candidates, i))
<1> DEFINE later == {j \in DOMAIN candidates : j > i /\ candidates[j].original = 0}
<1>1. DOMAIN candidates \subseteq Nat /\ 0 \notin DOMAIN candidates
  OBVIOUS
<1>2. CASE later = {}
  BY <1>1, <1>2 DEF Following
<1>3. CASE later # {}
  <2> DEFINE m == Min(later)
  <2>1. m \in later /\ \A y \in later : m <= y
    BY <1>1, <1>3, MinIsLeast
  <2>2. Following(candidates, i) = m
    BY <1>3 DEF Following
  <2> HIDE DEF m
  <2>3. m \in DOMAIN candidates /\ m > i /\ candidates[m].original = 0 /\ m # 0 /\ m \in Nat
    BY <2>1, <1>1
  <2>4. \A j \in DOMAIN candidates : candidates[j].original = 0 => (j > i <=> j >= m)
    BY <2>1, <2>3, <1>1
  <2>  QED
    BY <2>2, <2>3, <2>4
<1>  QED
  BY <1>2, <1>3

\* Searches are made of these fields.
LEMMA SearchIs ==
  ASSUME NEW at \in {"idle", "create"} \union TaskStages, NEW prompt \in Prompts \union {""},
         NEW task \in Nat, NEW candidate \in Nat, NEW company \in Nat, NEW seen \in CompanyType,
         NEW outcome \in {"", "failed", "ingested", "duplicate"}
  PROVE  [at |-> at, prompt |-> prompt, task |-> task, candidate |-> candidate,
          company |-> company, seen |-> seen, outcome |-> outcome] \in SearchType
  BY DEF SearchType

\* A request that goes on after its i-th candidate finds the rest open.
LEMMA GoesOn ==
  ASSUME DiscoveryTypes, NEW r \in Searchers, NEW candidates \in Seq(CandidateType), NEW i \in Nat,
         GoOn(r, candidates, i), searches[r].at \in TaskStages,
         searches[r].task \in DOMAIN tasks', IsActive(tasks'[searches[r].task]),
         NEW new, new = tasks'[searches[r].task].candidates, DOMAIN new = DOMAIN candidates,
         \A j \in DOMAIN new : /\ new[j].original = candidates[j].original
                               /\ new[j].original = 0 => (new[j].status = "discovered" <=> j > i)
                               /\ new[j].original # 0 => new[j].status = "duplicate"
  PROVE  /\ SearchOK(r)'
         /\ searches' = [searches EXCEPT ![r] = searches'[r]] /\ searches'[r] \in SearchType
         /\ searches'[r].at \in {"match", "finish"} /\ searches'[r].task = searches[r].task
<1> DEFINE k == Following(candidates, i)
<1>1. searches[r] \in SearchType /\ searches \in [Searchers -> SearchType]
  BY DEF DiscoveryTypes
<1>2. searches'[r] = [searches[r] EXCEPT !.at = IF k = 0 THEN "finish" ELSE "match",
                                         !.candidate = k, !.company = 0, !.seen = NoCompany,
                                         !.outcome = ""]
      /\ searches' = [searches EXCEPT ![r] = searches'[r]]
  BY <1>1 DEF GoOn
<1>3. NoCompany \in CompanyType
  <2>1. NoUrl \in Urls /\ <<>> \in Seq(STRING) /\ {} \in SUBSET STRING /\ "" \in STRING \union {""}
    BY DiscoveryAssumption
  <2>  QED
    BY <2>1 DEF NoCompany, CompanyType
<1>4. k \in Nat
  BY FollowingIs
<1>5. k = 0 => \A j \in DOMAIN new : new[j].original = 0 => ~(j > i)
  <2>1. k = 0 => \A j \in DOMAIN candidates : candidates[j].original = 0 => j <= i
    BY FollowingIs
  <2>2. DOMAIN candidates \subseteq Nat
    OBVIOUS
  <2>  QED
    BY <2>1, <2>2
<1>6. k # 0 => /\ k \in DOMAIN new /\ new[k].original = 0
               /\ \A j \in DOMAIN new : new[j].original = 0 =>
                    (new[j].status = "discovered" <=> j >= k)
  <2>1. k # 0 => /\ k \in DOMAIN candidates /\ k > i /\ candidates[k].original = 0
                 /\ \A j \in DOMAIN candidates :
                      j > i /\ candidates[j].original = 0 => k <= j
    BY FollowingIs
  <2>2. DOMAIN candidates \subseteq Nat
    OBVIOUS
  <2> HIDE DEF k
  <2>3. ASSUME k # 0, NEW j \in DOMAIN new, new[j].original = 0
        PROVE  j > i <=> j >= k
    <3>1. j \in Nat /\ candidates[j].original = 0
      BY <2>2, <2>3
    <3>  QED
      BY <2>1, <2>3, <3>1, <1>4
  <2>  QED
    BY <2>1, <2>3
<1> HIDE DEF k
<1>7. /\ searches'[r] \in SearchType /\ searches'[r].at = IF k = 0 THEN "finish" ELSE "match"
      /\ searches'[r].task = searches[r].task /\ searches'[r].candidate = k
      /\ searches'[r].company = 0
  <2>1. searches'[r].at = IF k = 0 THEN "finish" ELSE "match"
    BY <1>1, <1>2 DEF SearchType
  <2>2. searches'[r].at \in {"idle", "create"} \union TaskStages
    BY <2>1 DEF TaskStages
  <2>3. /\ searches'[r].task = searches[r].task /\ searches'[r].candidate = k
        /\ searches'[r].company = 0 /\ searches'[r].seen = NoCompany
        /\ searches'[r].outcome = "" /\ searches'[r].prompt = searches[r].prompt
    BY <1>1, <1>2 DEF SearchType
  <2>4. searches'[r] = [at |-> searches'[r].at, prompt |-> searches[r].prompt,
                        task |-> searches[r].task, candidate |-> k, company |-> 0,
                        seen |-> NoCompany, outcome |-> ""]
    BY <1>1, <1>2 DEF SearchType
  <2>5. searches[r].prompt \in Prompts \union {""} /\ searches[r].task \in Nat /\ 0 \in Nat
    BY <1>1 DEF SearchType
  <2>6. searches'[r] \in SearchType
    <3>1. PICK at : at = searches'[r].at
      OBVIOUS
    <3>2. searches'[r] = [at |-> at, prompt |-> searches[r].prompt, task |-> searches[r].task,
                          candidate |-> k, company |-> 0, seen |-> NoCompany, outcome |-> ""]
      BY <2>4, <3>1
    <3>3. at \in {"idle", "create"} \union TaskStages
      BY <2>2, <3>1
    <3>4. [at |-> at, prompt |-> searches[r].prompt, task |-> searches[r].task,
           candidate |-> k, company |-> 0, seen |-> NoCompany, outcome |-> ""] \in SearchType
      BY <3>3, <2>5, <1>3, <1>4, SearchIs
    <3>  QED
      BY <3>2, <3>4
  <2>  QED
    BY <2>1, <2>3, <2>6
<1>8. TaskOf(r)' = tasks'[searches[r].task]
  BY <1>7 DEF TaskOf
<1>9. SearchOK(r)'
  <2>1. CASE k = 0
    <3>1. searches'[r].at = "finish"
      BY <1>7, <2>1
    <3>2. \A j \in DOMAIN new : new[j].status # "discovered"
      BY <1>5, <2>1
    <3>3. (Having(TaskOf(r), {"discovered"}))' = {}
      BY <3>2, <1>8 DEF Having
    <3>  QED
      BY <3>1, <3>3, <1>7, <1>8 DEF SearchOK, TaskStages, CandidateStages
  <2>2. CASE k # 0
    <3>1. searches'[r].at = "match"
      BY <1>7, <2>2
    <3>  QED
      BY <3>1, <2>2, <1>6, <1>7, <1>8 DEF SearchOK, TaskStages, CandidateStages
  <2>  QED
    BY <2>1, <2>2
<1>  QED
  BY <1>2, <1>7, <1>9

\* Only request r and task t change, t is nobody else's, and companies and their
\* sources only grow.
OnlyOneChanges(r, t) ==
  /\ \A q \in Searchers : q # r => searches'[q] = searches[q]
  /\ \A q \in Served : q # r => searches[q].task # t
  /\ DOMAIN tasks \subseteq DOMAIN tasks'
  /\ \A u \in DOMAIN tasks : u # t => tasks'[u] = tasks[u]
  /\ DOMAIN companies \subseteq DOMAIN companies'
  /\ \A c \in DOMAIN companies : Len(companies[c].sources) <= Len(companies'[c].sources)
  /\ companies' \in Seq(CompanyType)

\* Then the others keep what they rely on.
LEMMA OthersKeep ==
  ASSUME DShape, NEW r \in Searchers, NEW t, OnlyOneChanges(r, t)
  PROVE  /\ \A q \in Searchers : q # r => SearchOK(q)'
         /\ \A u \in DOMAIN tasks : u # t => TaskOK(tasks[u])'
<1>0. /\ \A q \in Searchers : q # r => searches'[q] = searches[q]
      /\ \A q \in Served : q # r => searches[q].task # t
      /\ DOMAIN tasks \subseteq DOMAIN tasks'
      /\ \A u \in DOMAIN tasks : u # t => tasks'[u] = tasks[u]
      /\ DOMAIN companies \subseteq DOMAIN companies'
      /\ \A c \in DOMAIN companies : Len(companies[c].sources) <= Len(companies'[c].sources)
      /\ companies' \in Seq(CompanyType)
  BY DEF OnlyOneChanges
<1>1. ASSUME NEW q \in Searchers, q # r PROVE SearchOK(q)'
  <2>1. searches'[q] = searches[q] /\ SearchOK(q) /\ searches[q] \in SearchType
    BY <1>0, <1>1 DEF DShape, DiscoveryTypes
  <2>2. searches[q].at \in TaskStages =>
          /\ searches[q].task \in DOMAIN tasks' /\ tasks'[searches[q].task] = TaskOf(q)
          /\ TaskOf(q)' = TaskOf(q)
    BY <1>0, <1>1, <2>1 DEF SearchOK, Served, TaskOf
  <2>3. searches[q].at = "save" =>
          /\ searches[q].company \in DOMAIN companies'
          /\ Len(searches[q].seen.sources) <= Len(companies'[searches[q].company].sources)
    <3> SUFFICES ASSUME searches[q].at = "save"
                 PROVE  /\ searches[q].company \in DOMAIN companies'
                        /\ Len(searches[q].seen.sources)
                             <= Len(companies'[searches[q].company].sources)
      OBVIOUS
    <3>0. PICK c : c = searches[q].company
      OBVIOUS
    <3>1. c \in DOMAIN companies /\ Len(searches[q].seen.sources) <= Len(companies[c].sources)
      BY <2>1, <3>0 DEF SearchOK
    <3>2. companies[c] \in CompanyType /\ companies'[c] \in CompanyType /\ c \in DOMAIN companies'
      BY <1>0, <3>1 DEF DShape, DiscoveryTypes
    <3>3. /\ Len(searches[q].seen.sources) \in Nat /\ Len(companies[c].sources) \in Nat
          /\ Len(companies'[c].sources) \in Nat
      <4>1. searches[q].seen \in CompanyType
        BY <2>1 DEF SearchType
      <4>2. /\ searches[q].seen.sources \in Seq(STRING) /\ companies[c].sources \in Seq(STRING)
            /\ companies'[c].sources \in Seq(STRING)
        BY <4>1, <3>2 DEF CompanyType
      <4>  QED
        BY <4>2, LenProperties
    <3>4. Len(companies[c].sources) <= Len(companies'[c].sources)
      BY <1>0, <3>1
    <3>5. Len(searches[q].seen.sources) <= Len(companies'[c].sources)
      <4>1. PICK seen, had, has : /\ seen = Len(searches[q].seen.sources)
                                  /\ had = Len(companies[c].sources)
                                  /\ has = Len(companies'[c].sources)
        OBVIOUS
      <4>2. seen \in Nat /\ had \in Nat /\ has \in Nat /\ seen <= had /\ had <= has
        BY <3>1, <3>3, <3>4, <4>1
      <4>3. seen <= has
        BY <4>2
      <4>  QED
        BY <4>1, <4>3
    <3>  QED
      BY <3>0, <3>2, <3>5
  <2>4. searches[q].at \notin TaskStages => SearchOK(q)'
    BY <2>1 DEF SearchOK, TaskStages, CandidateStages
  <2>5. ASSUME searches[q].at \in TaskStages PROVE SearchOK(q)'
    <3>1. TaskOf(q)' = TaskOf(q) /\ searches[q].task \in DOMAIN tasks'
      BY <2>2, <2>5
    <3>  QED
      BY <1>0, <1>1, <2>1, <2>3, <2>5, <3>1 DEF SearchOK, Having
  <2>  QED
    BY <2>4, <2>5
<1>2. ASSUME NEW u \in DOMAIN tasks, u # t PROVE TaskOK(tasks[u])'
  <2>1. tasks'[u] = tasks[u] /\ TaskOK(tasks[u])
    BY <1>0, <1>2 DEF DShape
  <2>2. \A i \in DOMAIN tasks[u].candidates : CandidateOK(tasks[u].candidates, i)'
    BY <1>0, <1>2, <2>1 DEF TaskOK, CandidateOK
  <2>3. ~IsActive(tasks[u]) => EndedIsSettled(tasks[u])'
    BY <1>0, <1>2, <2>1 DEF TaskOK, EndedIsSettled, Having, IsActive
  <2>  QED
    BY <2>1, <2>2, <2>3 DEF TaskOK, IsActive
<1>  QED
  BY <1>1, <1>2

\* Tasks and companies are finitely many.
LEMMA FinitelyMany ==
  ASSUME DiscoveryTypes
  PROVE  /\ IsFiniteSet(ActiveTasks) /\ IsFiniteSet(Lost) /\ IsFiniteSet(Orphans)
         /\ IsFiniteSet(Untold)
<1>1. /\ DOMAIN tasks = 1 .. Len(tasks) /\ Len(tasks) \in Nat
      /\ DOMAIN companies = 1 .. Len(companies) /\ Len(companies) \in Nat
  BY DEF DiscoveryTypes
<1>2. IsFiniteSet(DOMAIN tasks) /\ IsFiniteSet(DOMAIN companies)
  BY <1>1, FS_Interval
<1>3. IsFiniteSet(ActiveTasks)
  <2>1. ActiveTasks \subseteq DOMAIN tasks
    BY DEF ActiveTasks
  <2>  QED
    BY <2>1, <1>2, FS_Subset
<1>4. IsFiniteSet(Orphans)
  <2>1. Orphans \subseteq ActiveTasks
    BY DEF Orphans
  <2>  QED
    BY <2>1, <1>3, FS_Subset
<1>5. IsFiniteSet(Lost) /\ IsFiniteSet(Untold)
  <2>1. Lost \subseteq DOMAIN companies /\ Untold \subseteq DOMAIN companies
    BY DEF Lost, Unclaimed, Untold
  <2>  QED
    BY <2>1, <1>2, FS_Subset
<1>  QED
  BY <1>3, <1>4, <1>5

\* A company is lost only when a request that created it drops it: what is
\* told stays told, and new companies have a request that will tell of them.
LEMMA LostStays ==
  ASSUME DiscoveryTypes, NEW dropped,
         DOMAIN tasks \subseteq DOMAIN tasks',
         \A t \in DOMAIN tasks : \A i \in DOMAIN tasks[t].candidates :
           tasks[t].candidates[i].company # 0 =>
             /\ i \in DOMAIN tasks'[t].candidates
             /\ tasks'[t].candidates[i].company = tasks[t].candidates[i].company,
         \A c \in DOMAIN companies' :
           c \in DOMAIN companies \/ \E r \in Pending' : searches'[r].company = c,
         \A r \in Pending :
           \/ r \in Pending' /\ searches'[r].company = searches[r].company
           \/ searches[r].company \notin Unclaimed'
           \/ searches[r].company \in dropped
  PROVE  Lost' \subseteq Lost \union dropped
<1> SUFFICES ASSUME NEW c \in Lost', c \notin dropped PROVE c \in Lost
  OBVIOUS
<1>1. c \in Unclaimed' /\ \A r \in Pending' : searches'[r].company # c
  BY DEF Lost
<1>2. c \in DOMAIN companies'
      /\ \A t \in DOMAIN tasks' : \A i \in DOMAIN tasks'[t].candidates :
           tasks'[t].candidates[i].company # c
  BY <1>1 DEF Unclaimed
<1>3. c \in DOMAIN companies /\ c # 0
  <2>1. c \in DOMAIN companies
    BY <1>1, <1>2
  <2>  QED
    BY <2>1 DEF DiscoveryTypes
<1>4. ASSUME NEW t \in DOMAIN tasks, NEW i \in DOMAIN tasks[t].candidates
      PROVE  tasks[t].candidates[i].company # c
  BY <1>2, <1>3
<1>5. c \in Unclaimed
  BY <1>3, <1>4 DEF Unclaimed
<1>6. ASSUME NEW r \in Pending PROVE searches[r].company # c
  BY <1>1
<1>  QED
  BY <1>5, <1>6 DEF Lost

\* A task is lost to its request for good.
LEMMA OrphansStay ==
  ASSUME DiscoveryTypes, NEW r \in Searchers,
         DOMAIN tasks \subseteq DOMAIN tasks',
         \A t \in Orphans : tasks'[t] = tasks[t],
         \A q \in Served' : searches'[q].task \in DOMAIN tasks =>
           q \in Served /\ searches'[q].task = searches[q].task
  PROVE  Orphans \subseteq Orphans'
<1> SUFFICES ASSUME NEW t \in Orphans PROVE t \in Orphans'
  OBVIOUS
<1>1. t \in ActiveTasks' /\ t \in DOMAIN tasks
  BY DEF Orphans, ActiveTasks, IsActive
<1>2. ASSUME NEW q \in Served' PROVE searches'[q].task # t
  BY <1>1 DEF Orphans
<1>  QED
  BY <1>1, <1>2 DEF Orphans

\* No two claim to have created a company when nobody claims more than before.
LEMMA CreatorsStay ==
  ASSUME CreatorsOK,
         \A t \in DOMAIN tasks' : \A i \in DOMAIN tasks'[t].candidates :
           tasks'[t].candidates[i].status = "ingested" =>
             /\ t \in DOMAIN tasks /\ i \in DOMAIN tasks[t].candidates
             /\ tasks[t].candidates[i].status = "ingested"
             /\ tasks'[t].candidates[i].company = tasks[t].candidates[i].company,
         \A r \in Pending' : r \in Pending /\ searches'[r].company = searches[r].company
  PROVE  CreatorsOK'
<1>1. ASSUME NEW t \in DOMAIN tasks', NEW u \in DOMAIN tasks',
             NEW i \in DOMAIN tasks'[t].candidates, NEW j \in DOMAIN tasks'[u].candidates,
             IngestedAt(t, i)', IngestedAt(u, j)', <<t, i>> # <<u, j>>
      PROVE  tasks'[t].candidates[i].company # tasks'[u].candidates[j].company
  BY <1>1 DEF CreatorsOK, IngestedAt
<1>2. ASSUME NEW r \in Pending', NEW t \in DOMAIN tasks', NEW i \in DOMAIN tasks'[t].candidates,
             IngestedAt(t, i)'
      PROVE  tasks'[t].candidates[i].company # searches'[r].company
  BY <1>2 DEF CreatorsOK, IngestedAt
<1>3. ASSUME NEW r \in Pending', NEW q \in Pending', r # q
      PROVE  searches'[r].company # searches'[q].company
  BY <1>3 DEF CreatorsOK
<1>  QED
  BY <1>1, <1>2, <1>3 DEF CreatorsOK

\* Tasks and their requests stay apart when no task is taken up.
LEMMA ApartStay ==
  ASSUME ApartOK,
         \A q \in Served' : q \in Served /\ searches'[q].task = searches[q].task,
         \A t \in ActiveTasks' : t \in ActiveTasks /\ tasks'[t].prompt = tasks[t].prompt
  PROVE  ApartOK'
<1>1. ASSUME NEW r \in Served', NEW q \in Served', r # q
      PROVE  searches'[r].task # searches'[q].task
  BY <1>1 DEF ApartOK
<1>2. ASSUME NEW t \in ActiveTasks', NEW u \in ActiveTasks', t # u
      PROVE  tasks'[t].prompt # tasks'[u].prompt
  BY <1>2 DEF ApartOK
<1>  QED
  BY <1>1, <1>2 DEF ApartOK

\* Nothing is lost while nobody drops anything.
LEMMA CountStays ==
  ASSUME DInv, DiscoveryTypes', Lost' \subseteq Lost, Orphans \subseteq Orphans'
  PROVE  Cardinality(Lost') <= Cardinality(Orphans')
<1>1. IsFiniteSet(Lost) /\ IsFiniteSet(Orphans)
  BY FinitelyMany DEF DInv, DShape
<1>2. IsFiniteSet(Orphans')
  <2>1. tasks' \in Seq(TaskType)
    BY DEF DiscoveryTypes
  <2>2. DOMAIN tasks' = 1 .. Len(tasks') /\ Len(tasks') \in Nat
    BY <2>1
  <2>3. IsFiniteSet(DOMAIN tasks')
    BY <2>2, FS_Interval
  <2>4. Orphans' \subseteq DOMAIN tasks'
    BY DEF Orphans, ActiveTasks
  <2>  QED
    BY <2>3, <2>4, FS_Subset
<1>3. /\ Cardinality(Lost') <= Cardinality(Lost) /\ Cardinality(Lost') \in Nat
      /\ Cardinality(Lost) \in Nat
  BY <1>1, FS_Subset, FS_CardinalityType
<1>4. /\ Cardinality(Orphans) <= Cardinality(Orphans') /\ Cardinality(Orphans) \in Nat
      /\ Cardinality(Orphans') \in Nat
  BY <1>1, <1>2, FS_Subset, FS_CardinalityType
<1>5. Cardinality(Lost) <= Cardinality(Orphans)
  BY DEF DInv
<1>  QED
  BY <1>3, <1>4, <1>5

\* Steps of a request that leave the tasks as they are.
LEMMA TasksStay ==
  ASSUME DInv, NEW r \in Searchers, NEW dropped, tasks' = tasks,
         companies' \in Seq(CompanyType), \A c \in DOMAIN companies' : companies'[c].sources # <<>>,
         DOMAIN companies' = DOMAIN companies,
         \A c \in DOMAIN companies : Len(companies[c].sources) <= Len(companies'[c].sources),
         searches' = [searches EXCEPT ![r] = searches'[r]], searches'[r] \in SearchType,
         SearchOK(r)',
         searches'[r].at \in TaskStages =>
           searches[r].at \in TaskStages /\ searches'[r].task = searches[r].task,
         ~(searches'[r].at = "decide" /\ searches'[r].outcome = "ingested"),
         r \in Pending => searches[r].company \in dropped
  PROVE  DShape' /\ Lost' \subseteq Lost \union dropped /\ Orphans \subseteq Orphans'
<1>1. DShape /\ DiscoveryTypes
  BY DEF DInv, DShape
<1>2. DiscoveryTypes'
  <2>1. searches' \in [Searchers -> SearchType]
    BY <1>1 DEF DiscoveryTypes
  <2>  QED
    BY <1>1, <2>1 DEF DiscoveryTypes
<1>3. \A q \in Searchers : q # r => searches'[q] = searches[q]
  BY <1>1 DEF DiscoveryTypes
<1>4. /\ \A q \in Served' : q \in Served /\ searches'[q].task = searches[q].task
      /\ \A q \in Pending' : q # r /\ q \in Pending /\ searches'[q].company = searches[q].company
      /\ \A q \in Pending : q # r => q \in Pending' /\ searches'[q].company = searches[q].company
  BY <1>3 DEF Served, Pending
<1>5. /\ \A q \in Searchers : q # r => SearchOK(q)'
      /\ \A u \in DOMAIN tasks : TaskOK(tasks[u])'
  <2>1. 0 \notin DOMAIN tasks
    BY <1>1 DEF DiscoveryTypes
  <2>2. \A q \in Served : q # r => searches[q].task # 0
    BY <1>1, <2>1 DEF Served, DShape, SearchOK
  <2>3. \A u \in DOMAIN tasks : u # 0
    BY <2>1
  <2>4. OnlyOneChanges(r, 0)
    BY <1>1, <1>2, <1>3, <2>2, <2>3 DEF OnlyOneChanges, DiscoveryTypes
  <2>  QED
    BY <1>1, <2>3, <2>4, OthersKeep
<1>6. ApartOK'
  <2>1. \A t \in ActiveTasks' : t \in ActiveTasks /\ tasks'[t].prompt = tasks[t].prompt
    BY DEF ActiveTasks, IsActive
  <2>2. ApartOK
    BY <1>1 DEF DShape
  <2>  QED
    BY <1>4, <2>1, <2>2, ApartStay
<1>7. CreatorsOK'
  <2>1. CreatorsOK
    BY <1>1 DEF DShape
  <2>  QED
    BY <1>4, <2>1, CreatorsStay
<1>8. DShape'
  BY <1>2, <1>5, <1>6, <1>7 DEF DShape
<1>9. Lost' \subseteq Lost \union dropped
  <2>1. \A q \in Pending : \/ q \in Pending' /\ searches'[q].company = searches[q].company
                           \/ searches[q].company \in dropped
    BY <1>4
  <2>  QED
    BY <1>1, <2>1, LostStays
<1>10. Orphans \subseteq Orphans'
  BY <1>1, <1>4, OrphansStay
<1>  QED
  BY <1>8, <1>9, <1>10

\* Steps of a request that change its task and no company.
LEMMA TaskChanges ==
  ASSUME DInv, NEW r \in Searchers, searches[r].at \in TaskStages,
         NEW task, task \in TaskType, tasks' = [tasks EXCEPT ![searches[r].task] = task],
         companies' = companies, task.prompt = TaskOf(r).prompt, TaskOK(task),
         \A i \in DOMAIN TaskOf(r).candidates : TaskOf(r).candidates[i].company # 0 =>
           /\ i \in DOMAIN task.candidates
           /\ task.candidates[i].company = TaskOf(r).candidates[i].company,
         searches' = [searches EXCEPT ![r] = searches'[r]], searches'[r] \in SearchType,
         SearchOK(r)',
         searches'[r].at \in TaskStages => searches'[r].task = searches[r].task,
         searches'[r].at # "decide", r \in Pending => searches[r].company \notin Unclaimed',
         CreatorsOK'
  PROVE  DInv'
<1>0. PICK t : t = searches[r].task
  OBVIOUS
<1>1. DShape /\ DiscoveryTypes
  BY DEF DInv, DShape
<1>2. t \in DOMAIN tasks /\ IsActive(tasks[t]) /\ tasks[t] = TaskOf(r)
  BY <1>0, <1>1 DEF DShape, SearchOK, TaskOf
<1>3. DiscoveryTypes' /\ DOMAIN tasks' = DOMAIN tasks
  <2>1. searches' \in [Searchers -> SearchType]
    BY <1>1 DEF DiscoveryTypes
  <2>2. tasks' \in Seq(TaskType) /\ DOMAIN tasks' = DOMAIN tasks
    BY <1>0, <1>1, <1>2 DEF DiscoveryTypes
  <2>  QED
    BY <1>1, <2>1, <2>2 DEF DiscoveryTypes
<1>4. /\ \A q \in Searchers : q # r => searches'[q] = searches[q]
      /\ \A u \in DOMAIN tasks : u # t => tasks'[u] = tasks[u]
      /\ tasks'[t] = task
  BY <1>0, <1>1, <1>2 DEF DiscoveryTypes
<1>5. \A q \in Served : q # r => searches[q].task # t
  BY <1>0, <1>1 DEF DShape, ApartOK, Served
<1>6. /\ \A q \in Served' : q \in Served /\ searches'[q].task = searches[q].task
      /\ \A q \in Pending' : q # r /\ q \in Pending /\ searches'[q].company = searches[q].company
      /\ \A q \in Pending : q # r => q \in Pending' /\ searches'[q].company = searches[q].company
  BY <1>4 DEF Served, Pending
<1>7. /\ \A q \in Searchers : q # r => SearchOK(q)'
      /\ \A u \in DOMAIN tasks : u # t => TaskOK(tasks[u])'
  <2>1. \A c \in DOMAIN companies : Len(companies[c].sources) <= Len(companies'[c].sources)
    <3> SUFFICES ASSUME NEW c \in DOMAIN companies
                 PROVE  Len(companies[c].sources) <= Len(companies[c].sources)
      OBVIOUS
    <3>1. companies[c].sources \in Seq(STRING)
      <4>1. companies[c] \in CompanyType
        BY <1>1 DEF DiscoveryTypes
      <4>  QED
        BY <4>1 DEF CompanyType
    <3>2. Len(companies[c].sources) \in Nat
      BY <3>1, LenProperties
    <3>  QED
      BY <3>2
  <2>2. companies' \in Seq(CompanyType)
    BY <1>3 DEF DiscoveryTypes
  <2>  QED
    <3>1. DOMAIN tasks \subseteq DOMAIN tasks' /\ DOMAIN companies \subseteq DOMAIN companies'
      BY <1>3
    <3>  QED
      <4>1. /\ \A q \in Searchers : q # r => searches'[q] = searches[q]
            /\ \A u \in DOMAIN tasks : u # t => tasks'[u] = tasks[u]
        BY <1>4
      <4>2. DShape
        BY <1>1
      <4>3. OnlyOneChanges(r, t)
        BY <1>5, <2>1, <2>2, <3>1, <4>1 DEF OnlyOneChanges
      <4>  QED
        BY <4>2, <4>3, OthersKeep
<1>8. ASSUME NEW u \in DOMAIN tasks, u = t PROVE TaskOK(tasks[u])'
  <2>1. tasks'[u] = task
    BY <1>4, <1>8
  <2>2. \A i \in DOMAIN task.candidates : CandidateOK(task.candidates, i)'
    BY DEF TaskOK, CandidateOK
  <2>3. ~IsActive(task) => EndedIsSettled(tasks[u])'
    BY <2>1 DEF TaskOK, EndedIsSettled, Having
  <2>  QED
    BY <2>1, <2>2, <2>3 DEF TaskOK, CandidateOK, IsActive
<1>9. ApartOK'
  <2>1. \A u \in ActiveTasks' : u \in ActiveTasks /\ tasks'[u].prompt = tasks[u].prompt
    <3> SUFFICES ASSUME NEW u \in ActiveTasks'
                 PROVE  u \in ActiveTasks /\ tasks'[u].prompt = tasks[u].prompt
      OBVIOUS
    <3>1. CASE u = t
      BY <3>1, <1>2, <1>4 DEF ActiveTasks
    <3>2. CASE u # t
      BY <3>2, <1>3, <1>4 DEF ActiveTasks
    <3>  QED
      BY <3>1, <3>2
  <2>2. ApartOK
    BY <1>1 DEF DShape
  <2>  QED
    BY <1>6, <2>1, <2>2, ApartStay
<1>10. DShape'
  <2>1. \A u \in DOMAIN tasks' : TaskOK(tasks[u])'
    BY <1>3, <1>7, <1>8
  <2>  QED
    BY <1>3, <1>7, <1>9, <2>1 DEF DShape
<1>11. Lost' \subseteq Lost
  <2>1. \A u \in DOMAIN tasks : \A i \in DOMAIN tasks[u].candidates :
          tasks[u].candidates[i].company # 0 =>
            /\ i \in DOMAIN tasks'[u].candidates
            /\ tasks'[u].candidates[i].company = tasks[u].candidates[i].company
    <3> SUFFICES ASSUME NEW u \in DOMAIN tasks, NEW i \in DOMAIN tasks[u].candidates,
                        tasks[u].candidates[i].company # 0
                 PROVE  /\ i \in DOMAIN tasks'[u].candidates
                        /\ tasks'[u].candidates[i].company = tasks[u].candidates[i].company
      OBVIOUS
    <3>1. CASE u = t
      BY <3>1, <1>2, <1>4
    <3>2. CASE u # t
      BY <3>2, <1>4
    <3>  QED
      BY <3>1, <3>2
  <2>2. \A q \in Pending : \/ q \in Pending' /\ searches'[q].company = searches[q].company
                           \/ searches[q].company \notin Unclaimed'
    BY <1>6
  <2>3. Lost' \subseteq Lost \union {}
    BY <1>1, <1>3, <2>1, <2>2, LostStays
  <2>  QED
    BY <2>3
<1>12. Orphans \subseteq Orphans'
  <2>1. \A u \in Orphans : tasks'[u] = tasks[u]
    <3>1. \A u \in Orphans : u # t /\ u \in DOMAIN tasks
      BY <1>0, <1>2 DEF Orphans, ActiveTasks, Served
    <3>  QED
      BY <3>1, <1>4
  <2>  QED
    BY <1>1, <1>3, <1>6, <2>1, OrphansStay
<1>  QED
  BY <1>3, <1>10, <1>11, <1>12, CountStays DEF DInv

\* Steps of a request that change neither tasks nor companies.
LEMMA OnlySearches ==
  ASSUME DInv, NEW r \in Searchers, NEW dropped, tasks' = tasks, companies' = companies,
         searches' = [searches EXCEPT ![r] = searches'[r]], searches'[r] \in SearchType,
         SearchOK(r)',
         searches'[r].at \in TaskStages =>
           searches[r].at \in TaskStages /\ searches'[r].task = searches[r].task,
         ~(searches'[r].at = "decide" /\ searches'[r].outcome = "ingested"),
         r \in Pending => searches[r].company \in dropped
  PROVE  DShape' /\ Lost' \subseteq Lost \union dropped /\ Orphans \subseteq Orphans'
<1>1. DiscoveryTypes
  BY DEF DInv, DShape
<1>2. /\ companies' \in Seq(CompanyType)
      /\ \A c \in DOMAIN companies' : companies'[c].sources # <<>>
      /\ DOMAIN companies' = DOMAIN companies
  BY <1>1 DEF DiscoveryTypes
<1>3. \A c \in DOMAIN companies : Len(companies[c].sources) <= Len(companies'[c].sources)
  <2> SUFFICES ASSUME NEW c \in DOMAIN companies
               PROVE  Len(companies[c].sources) <= Len(companies[c].sources)
    OBVIOUS
  <2>1. companies[c] \in CompanyType
    BY <1>1 DEF DiscoveryTypes
  <2>2. companies[c].sources \in Seq(STRING)
    BY <2>1 DEF CompanyType
  <2>3. Len(companies[c].sources) \in Nat
    BY <2>2, LenProperties
  <2>  QED
    BY <2>3
<1>  QED
  BY <1>2, <1>3, TasksStay

\* Nobody is served by a request that has not begun.
LEMMA NoSearchIs == NoSearch \in SearchType
<1>1. NoCompany \in CompanyType
  <2>1. NoUrl \in Urls /\ <<>> \in Seq(STRING) /\ {} \in SUBSET STRING /\ "" \in STRING \union {""}
    BY DiscoveryAssumption
  <2>  QED
    BY <2>1 DEF NoCompany, CompanyType
<1>2. "idle" \in {"idle", "create"} \union TaskStages /\ "" \in Prompts \union {""}
  OBVIOUS
<1>3. [at |-> "idle", prompt |-> "", task |-> 0, candidate |-> 0, company |-> 0,
       seen |-> NoCompany, outcome |-> ""] \in SearchType
  BY <1>1, <1>2, SearchIs
<1>  QED
  BY <1>3 DEF NoSearch

\* A request ends, with its answer or without.
LEMMA EndsOK ==
  ASSUME DInv, NEW r \in Searchers, searches' = [searches EXCEPT ![r] = NoSearch]
  PROVE  /\ SearchOK(r)' /\ searches'[r] = NoSearch /\ searches'[r] \in SearchType
         /\ searches'[r].at \notin TaskStages /\ searches'[r].at # "decide"
<1>1. searches'[r] = NoSearch
  BY DEF DInv, DShape, DiscoveryTypes
<1>2. searches'[r].at = "idle"
  <2>1. NoSearch.at = "idle"
    BY DEF NoSearch
  <2>  QED
    BY <1>1, <2>1
<1>3. SearchOK(r)'
  BY <1>2 DEF SearchOK, TaskStages, CandidateStages
<1>  QED
  BY <1>1, <1>2, <1>3, NoSearchIs DEF TaskStages

\* A request finds its prompt free.
LEMMA ReadKeysOK ==
  ASSUME DInv, NEW r \in Searchers, NEW p \in Prompts, ReadKeys(r, p)
  PROVE  DInv'
<1>1. searches[r] \in SearchType /\ searches \in [Searchers -> SearchType]
  BY DEF DInv, DShape, DiscoveryTypes
<1>2. searches'[r] = [searches[r] EXCEPT !.at = "create", !.prompt = p]
      /\ searches' = [searches EXCEPT ![r] = searches'[r]]
  BY <1>1 DEF ReadKeys
<1>3. searches'[r] \in SearchType /\ searches'[r].at = "create" /\ searches'[r].prompt = p
  BY <1>1, <1>2 DEF SearchType
<1>4. SearchOK(r)'
  BY <1>3 DEF SearchOK, TaskStages, CandidateStages
<1>5. tasks' = tasks /\ companies' = companies /\ r \notin Pending
  BY DEF ReadKeys, Pending
<1>6. DShape' /\ Lost' \subseteq Lost \union {} /\ Orphans \subseteq Orphans'
  BY <1>2, <1>3, <1>4, <1>5, OnlySearches DEF TaskStages
<1>  QED
  BY <1>6, CountStays DEF DInv, DShape

\* A claim is looked up, or cannot be stored.
LEMMA MatchOK ==
  ASSUME DInv, NEW r \in Searchers, Match(r)
  PROVE  DInv'
<1>1. searches[r] \in SearchType /\ searches \in [Searchers -> SearchType] /\ SearchOK(r)
      /\ companies \in Seq(CompanyType)
  BY DEF DInv, DShape, DiscoveryTypes
<1>2. /\ tasks' = tasks /\ companies' = companies /\ searches[r].at = "match" /\ r \notin Pending
      /\ searches[r].company = 0
  BY <1>1 DEF Match, Pending, SearchOK
<1>3. CASE searches' = [searches EXCEPT ![r] = [@ EXCEPT !.at = "decide", !.outcome = "failed"]]
  <2>1. searches'[r] = [searches[r] EXCEPT !.at = "decide", !.outcome = "failed"]
        /\ searches' = [searches EXCEPT ![r] = searches'[r]]
    BY <1>1, <1>3
  <2>2. /\ searches'[r] \in SearchType /\ searches'[r].at = "decide"
        /\ searches'[r].outcome = "failed" /\ searches'[r].company = 0
        /\ searches'[r].task = searches[r].task /\ searches'[r].candidate = searches[r].candidate
    BY <1>1, <1>2, <2>1 DEF SearchType, TaskStages
  <2>3. SearchOK(r)'
    BY <1>1, <1>2, <2>2 DEF SearchOK, TaskStages, CandidateStages, TaskOf
  <2>4. DShape' /\ Lost' \subseteq Lost \union {} /\ Orphans \subseteq Orphans'
    BY <1>2, <2>1, <2>2, <2>3, OnlySearches DEF TaskStages
  <2>  QED
    BY <2>4, CountStays DEF DInv, DShape
<1>4. ASSUME NEW c \in Canonical(ClaimOf(r)),
             searches' = [searches EXCEPT ![r] =
               [@ EXCEPT !.at = IF c = 0 THEN "add" ELSE "save", !.company = c,
                         !.seen = IF c = 0 THEN NoCompany ELSE companies[c]]]
      PROVE  DInv'
  <2>1. c \in DOMAIN companies \/ c = 0
    <3> DEFINE claim == ClaimOf(r)
               ofHost == {d \in DOMAIN companies :
                            Usable(claim) /\ Host[companies[d].url] = Host[claim.url]}
               named == {d \in DOMAIN companies : companies[d].name = claim.name}
    <3>1. named # {} => Min(named) \in named
      <4>1. named \subseteq Nat
        BY <1>1
      <4>  QED
        BY <4>1, MinIsLeast
    <3>2. c \in ofHost \/ (named # {} /\ c = Min(named)) \/ c = 0
      BY <1>4 DEF Canonical
    <3>  QED
      BY <3>1, <3>2
  <2> DEFINE at == IF c = 0 THEN "add" ELSE "save"
             seen == IF c = 0 THEN NoCompany ELSE companies[c]
  <2>2. c \in Nat /\ seen \in CompanyType
    <3>1. NoCompany \in CompanyType
      BY NoSearchIs DEF NoSearch, SearchType
    <3>  QED
      BY <1>1, <2>1, <3>1
  <2>3. searches'[r] = [searches[r] EXCEPT !.at = at, !.company = c, !.seen = seen]
        /\ searches' = [searches EXCEPT ![r] = searches'[r]]
    BY <1>1, <1>4
  <2>4. at \in {"idle", "create"} \union TaskStages /\ at \in TaskStages
    BY DEF TaskStages
  <2> HIDE DEF seen
  <2>5. /\ searches'[r] \in SearchType /\ searches'[r].at = at
        /\ searches'[r].company = c /\ searches'[r].seen = seen
        /\ searches'[r].task = searches[r].task /\ searches'[r].candidate = searches[r].candidate
    <3> HIDE DEF at
    <3>  QED
      BY <1>1, <2>2, <2>3, <2>4 DEF SearchType
  <2>6. SearchOK(r)'
    <3>1. TaskOf(r)' = TaskOf(r)
      BY <1>2, <2>5 DEF TaskOf
    <3>2. at = "save" => c \in DOMAIN companies' /\ Len(seen.sources) <= Len(companies'[c].sources)
      <4> SUFFICES ASSUME at = "save"
                   PROVE  c \in DOMAIN companies /\ Len(seen.sources) <= Len(companies[c].sources)
        BY <1>2
      <4>1. c \in DOMAIN companies /\ seen = companies[c]
        BY <2>1 DEF seen
      <4>2. companies[c].sources \in Seq(STRING)
        <5>1. companies[c] \in CompanyType
          BY <1>1, <4>1
        <5>  QED
          BY <5>1 DEF CompanyType
      <4>3. Len(companies[c].sources) \in Nat
        BY <4>2, LenProperties
      <4>  QED
        BY <4>1, <4>3
    <3>3. at = "add" => c = 0
      OBVIOUS
    <3>4. at \in {"add", "save"}
      OBVIOUS
    <3> HIDE DEF at
    <3>  QED
      BY <1>1, <1>2, <2>5, <3>1, <3>2, <3>3, <3>4 DEF SearchOK, TaskStages, CandidateStages
  <2>7. DShape' /\ Lost' \subseteq Lost \union {} /\ Orphans \subseteq Orphans'
    BY <1>2, <2>3, <2>5, <2>6, OnlySearches DEF TaskStages
  <2>  QED
    BY <2>7, CountStays DEF DInv, DShape
<1>  QED
  BY <1>3, <1>4 DEF Match

\* Taking a claim in raises.
LEMMA RefuseOK ==
  ASSUME DInv, NEW r \in Searchers, RefuseClaim(r)
  PROVE  DInv'
<1>1. searches[r] \in SearchType /\ searches \in [Searchers -> SearchType] /\ SearchOK(r)
  BY DEF DInv, DShape, DiscoveryTypes
<1>2. /\ tasks' = tasks /\ companies' = companies /\ searches[r].at \in {"match", "add", "save"}
      /\ r \notin Pending
  BY DEF RefuseClaim, Pending
<1>3. searches'[r] = [searches[r] EXCEPT !.at = "decide", !.outcome = "failed", !.company = 0]
      /\ searches' = [searches EXCEPT ![r] = searches'[r]]
  BY <1>1 DEF RefuseClaim
<1>4. /\ searches'[r] \in SearchType /\ searches'[r].at = "decide"
      /\ searches'[r].outcome = "failed" /\ searches'[r].company = 0
      /\ searches'[r].task = searches[r].task /\ searches'[r].candidate = searches[r].candidate
  <2>1. "decide" \in {"idle", "create"} \union TaskStages
    BY DEF TaskStages
  <2>2. searches'[r] = [at |-> "decide", prompt |-> searches[r].prompt, task |-> searches[r].task,
                        candidate |-> searches[r].candidate, company |-> 0,
                        seen |-> searches[r].seen, outcome |-> "failed"]
    BY <1>1, <1>3 DEF SearchType
  <2>3. /\ searches[r].prompt \in Prompts \union {""} /\ searches[r].task \in Nat
        /\ searches[r].candidate \in Nat /\ searches[r].seen \in CompanyType
    BY <1>1 DEF SearchType
  <2>4. [at |-> "decide", prompt |-> searches[r].prompt, task |-> searches[r].task,
         candidate |-> searches[r].candidate, company |-> 0,
         seen |-> searches[r].seen, outcome |-> "failed"] \in SearchType
    BY <2>1, <2>3, SearchIs
  <2>  QED
    BY <2>2, <2>4
<1>5. SearchOK(r)'
  BY <1>1, <1>2, <1>4 DEF SearchOK, TaskStages, CandidateStages, TaskOf
<1>6. DShape' /\ Lost' \subseteq Lost \union {} /\ Orphans \subseteq Orphans'
  BY <1>2, <1>3, <1>4, <1>5, OnlySearches DEF TaskStages
<1>  QED
  BY <1>6, CountStays DEF DInv, DShape

\* Companies whose sources do not change keep their number.
LEMMA SourcesCount ==
  ASSUME DiscoveryTypes, NEW c \in DOMAIN companies
  PROVE  Len(companies[c].sources) \in Nat /\ Len(companies[c].sources) <= Len(companies[c].sources)
<1>1. companies[c] \in CompanyType
  BY DEF DiscoveryTypes
<1>2. companies[c].sources \in Seq(STRING)
  BY <1>1 DEF CompanyType
<1>3. Len(companies[c].sources) \in Nat
  BY <1>2, LenProperties
<1>  QED
  BY <1>3

\* The index decides between requests for one prompt.
LEMMA CreateOK ==
  ASSUME DInv, NEW r \in Searchers, CreateTasks(r)
  PROVE  DInv'
<1>1. /\ searches[r] \in SearchType /\ searches \in [Searchers -> SearchType] /\ SearchOK(r)
      /\ tasks \in Seq(TaskType) /\ DShape /\ DiscoveryTypes
  BY DEF DInv, DShape, DiscoveryTypes
<1>2. /\ searches[r].at = "create" /\ companies' = companies /\ r \notin Pending /\ r \notin Served
      /\ searches[r].prompt \in Prompts
  BY <1>1 DEF CreateTasks, Pending, Served, TaskStages, SearchOK
<1>3. CASE tasks' = tasks /\ searches' = [searches EXCEPT ![r] = NoSearch]
  <2>1. /\ SearchOK(r)' /\ searches'[r] = NoSearch /\ searches'[r] \in SearchType
        /\ searches'[r].at \notin TaskStages /\ searches'[r].at # "decide"
    BY <1>3, EndsOK
  <2>2. searches' = [searches EXCEPT ![r] = searches'[r]]
    BY <1>3, <2>1
  <2>3. DShape' /\ Lost' \subseteq Lost \union {} /\ Orphans \subseteq Orphans'
    BY <1>2, <1>3, <2>1, <2>2, OnlySearches
  <2>  QED
    BY <2>3, CountStays DEF DInv, DShape
<1>4. ASSUME searches[r].prompt \notin ActivePrompts, NEW new,
             new = [prompt |-> searches[r].prompt, status |-> "pending",
                    execution |-> "created", candidates |-> <<>>, failures |-> 0],
             tasks' = Append(tasks, new),
             searches' = [searches EXCEPT ![r] = [@ EXCEPT !.at = "start", !.task = Len(tasks) + 1]]
      PROVE  DInv'
  <2> DEFINE n == Len(tasks) + 1
  <2>1. /\ new \in TaskType /\ new.candidates = <<>> /\ DOMAIN new.candidates = {}
        /\ new.execution = "created" /\ new.prompt = searches[r].prompt /\ IsActive(new)
    BY <1>2, <1>4 DEF TaskType, IsActive
  <2>2. n \in Nat /\ n \notin DOMAIN tasks
    BY <1>1
  <2>3. /\ tasks' \in Seq(TaskType) /\ DOMAIN tasks' = DOMAIN tasks \union {n} /\ tasks'[n] = new
        /\ \A u \in DOMAIN tasks : tasks'[u] = tasks[u]
    BY <1>1, <1>4, <2>1
  <2> HIDE DEF n
  <2>4. searches'[r] = [searches[r] EXCEPT !.at = "start", !.task = n]
        /\ searches' = [searches EXCEPT ![r] = searches'[r]]
    BY <1>1, <1>4 DEF n
  <2>5. /\ searches'[r] \in SearchType /\ searches'[r].at = "start" /\ searches'[r].task = n
    BY <1>1, <2>2, <2>4 DEF SearchType, TaskStages
  <2>6. DiscoveryTypes'
    <3>1. searches' \in [Searchers -> SearchType]
      BY <1>1, <2>4, <2>5
    <3>  QED
      BY <1>1, <1>2, <2>3, <3>1 DEF DiscoveryTypes
  <2>7. \A q \in Searchers : q # r => searches'[q] = searches[q]
    BY <1>1, <2>4
  <2>8. SearchOK(r)'
    <3>1. TaskOf(r)' = new
      BY <2>3, <2>5 DEF TaskOf
    <3>  QED
      BY <2>1, <2>3, <2>5, <3>1 DEF SearchOK, TaskStages, CandidateStages
  <2>9. /\ \A q \in Searchers : q # r => SearchOK(q)'
        /\ \A u \in DOMAIN tasks : TaskOK(tasks[u])'
    <3>1. 0 \notin DOMAIN tasks /\ DOMAIN tasks \subseteq DOMAIN tasks'
      BY <1>1, <2>3
    <3>2. \A q \in Served : q # r => searches[q].task # 0
      BY <1>1, <3>1 DEF Served, DShape, SearchOK
    <3>3. /\ companies' \in Seq(CompanyType) /\ DOMAIN companies \subseteq DOMAIN companies'
          /\ \A c \in DOMAIN companies : Len(companies[c].sources) <= Len(companies'[c].sources)
      BY <1>1, <1>2, <2>6, SourcesCount DEF DiscoveryTypes
    <3>4. /\ \A u \in DOMAIN tasks : u # 0 => tasks'[u] = tasks[u]
          /\ \A u \in DOMAIN tasks : u # 0
      BY <2>3, <3>1
    <3>5. OnlyOneChanges(r, 0)
      BY <2>7, <3>1, <3>2, <3>3, <3>4 DEF OnlyOneChanges
    <3>  QED
      BY <1>1, <3>4, <3>5, OthersKeep
  <2>10. \A u \in DOMAIN tasks' : TaskOK(tasks[u])'
    <3>1. \A u \in DOMAIN tasks' : u \notin DOMAIN tasks => TaskOK(tasks[u])'
      BY <2>1, <2>3 DEF TaskOK
    <3>  QED
      BY <2>9, <3>1
  <2>11. /\ Pending' = Pending /\ \A q \in Pending : searches'[q].company = searches[q].company
         /\ \A q \in Served' : q # r => q \in Served /\ searches'[q].task = searches[q].task
    BY <1>2, <2>5, <2>7 DEF Pending, Served
  <2>12. ApartOK'
    <3>1. \A q \in Served : searches[q].task \in DOMAIN tasks
      BY <1>1 DEF Served, DShape, SearchOK
    <3>2. ASSUME NEW p \in Served', NEW q \in Served', p # q
          PROVE  searches'[p].task # searches'[q].task
      BY <3>1, <3>2, <1>1, <2>2, <2>5, <2>11 DEF DShape, ApartOK
    <3>3. ASSUME NEW t \in ActiveTasks', NEW u \in ActiveTasks', t # u
          PROVE  tasks'[t].prompt # tasks'[u].prompt
      <4>1. \A v \in ActiveTasks : tasks[v].prompt # new.prompt
        BY <1>4, <2>1 DEF ActivePrompts, ActiveTasks
      <4>2. \A v \in ActiveTasks' : v # n => v \in ActiveTasks /\ tasks'[v] = tasks[v]
        BY <2>3 DEF ActiveTasks
      <4>  QED
        BY <3>3, <4>1, <4>2, <1>1, <2>3 DEF DShape, ApartOK
    <3>  QED
      BY <3>2, <3>3 DEF ApartOK
  <2>13. CreatorsOK'
    <3>1. CreatorsOK
      BY <1>1 DEF DShape
    <3>2. \A t \in DOMAIN tasks' : \A i \in DOMAIN tasks'[t].candidates :
            t \in DOMAIN tasks /\ tasks'[t] = tasks[t]
      BY <2>1, <2>3
    <3>  QED
      BY <2>11, <3>1, <3>2, CreatorsStay
  <2>14. Lost' \subseteq Lost \union {}
    BY <1>1, <1>2, <2>3, <2>11, LostStays
  <2>15. Orphans \subseteq Orphans'
    <3>1. \A t \in Orphans : tasks'[t] = tasks[t]
      BY <2>3 DEF Orphans, ActiveTasks
    <3>2. \A q \in Served' : searches'[q].task \in DOMAIN tasks =>
            q \in Served /\ searches'[q].task = searches[q].task
      BY <2>2, <2>5, <2>11
    <3>3. DOMAIN tasks \subseteq DOMAIN tasks'
      BY <2>3
    <3>  QED
      BY <1>1, <3>1, <3>2, <3>3, OrphansStay
  <2>16. DShape'
    BY <2>6, <2>7, <2>8, <2>9, <2>10, <2>12, <2>13 DEF DShape
  <2>  QED
    BY <2>6, <2>14, <2>15, <2>16, CountStays DEF DInv
<1>  QED
  BY <1>3, <1>4 DEF CreateTasks, KeyIsTaken

\* The task of a request starts.
LEMMA StartOK ==
  ASSUME DInv, NEW r \in Searchers, StartTasks(r)
  PROVE  DInv'
<1>1. /\ searches[r] \in SearchType /\ searches \in [Searchers -> SearchType] /\ SearchOK(r)
      /\ tasks \in Seq(TaskType) /\ DShape /\ searches[r].at = "start" /\ r \notin Pending
      /\ companies' = companies
  BY DEF DInv, DShape, DiscoveryTypes, StartTasks, Pending
<1>2. PICK task : task = [TaskOf(r) EXCEPT !.status = "running", !.execution = "running"]
  OBVIOUS
<1>3. searches[r].task \in DOMAIN tasks /\ TaskOf(r) \in TaskType /\ TaskOf(r).candidates = <<>>
  BY <1>1 DEF SearchOK, TaskOf, TaskStages
<1>4. /\ task \in TaskType /\ task.candidates = <<>> /\ task.prompt = TaskOf(r).prompt
      /\ task.execution = "running" /\ IsActive(task)
  BY <1>2, <1>3 DEF TaskType, IsActive
<1>5. tasks' = [tasks EXCEPT ![searches[r].task] = task]
  BY <1>2 DEF StartTasks, TaskOf
<1>6. searches'[r] = [searches[r] EXCEPT !.at = "search"]
      /\ searches' = [searches EXCEPT ![r] = searches'[r]]
  BY <1>1 DEF StartTasks
<1>7. /\ searches'[r] \in SearchType /\ searches'[r].at = "search"
      /\ searches'[r].task = searches[r].task
  BY <1>1, <1>6 DEF SearchType, TaskStages
<1>8. DOMAIN tasks' = DOMAIN tasks /\ tasks'[searches[r].task] = task
      /\ \A u \in DOMAIN tasks : u # searches[r].task => tasks'[u] = tasks[u]
  BY <1>1, <1>3, <1>5
<1>9. SearchOK(r)'
  <2>1. TaskOf(r)' = task
    BY <1>7, <1>8 DEF TaskOf
  <2>  QED
    BY <1>3, <1>4, <1>7, <1>8, <2>1 DEF SearchOK, TaskStages, CandidateStages
<1>10. TaskOK(task)
  BY <1>4 DEF TaskOK
<1>11. CreatorsOK'
  <2>1. CreatorsOK /\ \A q \in Searchers : q # r => searches'[q] = searches[q]
    BY <1>1, <1>6 DEF DShape
  <2>2. \A q \in Pending' : q \in Pending /\ searches'[q].company = searches[q].company
    BY <1>7, <2>1 DEF Pending
  <2>3. \A t \in DOMAIN tasks' : t \in DOMAIN tasks /\ tasks'[t].candidates = tasks[t].candidates
    BY <1>3, <1>4, <1>8 DEF TaskOf
  <2>  QED
    BY <2>1, <2>2, <2>3, CreatorsStay
<1>12. \A i \in DOMAIN TaskOf(r).candidates : FALSE
  BY <1>3
<1>  QED
  BY <1>1, <1>4, <1>5, <1>6, <1>7, <1>9, <1>10, <1>11, <1>12, TaskChanges DEF TaskStages

\* The search itself fails.
LEMMA FailOK ==
  ASSUME DInv, NEW r \in Searchers, FailTasks(r)
  PROVE  DInv'
<1>1. /\ searches[r] \in SearchType /\ searches \in [Searchers -> SearchType] /\ SearchOK(r)
      /\ tasks \in Seq(TaskType) /\ DShape /\ searches[r].at = "search" /\ r \notin Pending
      /\ companies' = companies
  BY DEF DInv, DShape, DiscoveryTypes, FailTasks, Pending
<1>2. PICK task :
        task = [TaskOf(r) EXCEPT !.status = "failed", !.execution = "failed", !.failures = 1]
  OBVIOUS
<1>3. searches[r].task \in DOMAIN tasks /\ TaskOf(r) \in TaskType /\ TaskOf(r).candidates = <<>>
  BY <1>1 DEF SearchOK, TaskOf, TaskStages
<1>4. /\ task \in TaskType /\ task.candidates = <<>> /\ task.prompt = TaskOf(r).prompt
      /\ task.execution = "failed" /\ task.status = "failed"
  BY <1>2, <1>3 DEF TaskType
<1>5. tasks' = [tasks EXCEPT ![searches[r].task] = task]
  BY <1>2 DEF FailTasks, TaskOf
<1>6. searches' = [searches EXCEPT ![r] = NoSearch]
  BY DEF FailTasks
<1>7. /\ SearchOK(r)' /\ searches'[r] \in SearchType /\ searches'[r].at \notin TaskStages
      /\ searches'[r].at # "decide" /\ searches' = [searches EXCEPT ![r] = searches'[r]]
  BY <1>6, EndsOK
<1>8. DOMAIN tasks' = DOMAIN tasks /\ tasks'[searches[r].task] = task
      /\ \A u \in DOMAIN tasks : u # searches[r].task => tasks'[u] = tasks[u]
  BY <1>1, <1>3, <1>5
<1>9. TaskOK(task)
  <2>1. DOMAIN task.candidates = {}
    BY <1>4
  <2>2. Having(task, {"discovered"}) = {}
    BY <2>1 DEF Having
  <2>3. EndedIsSettled(task)
    BY <1>4, <2>1, <2>2 DEF EndedIsSettled
  <2>  QED
    BY <2>1, <2>3 DEF TaskOK
<1>10. CreatorsOK'
  <2>1. CreatorsOK /\ \A q \in Searchers : q # r => searches'[q] = searches[q]
    BY <1>1, <1>6 DEF DShape
  <2>2. \A q \in Pending' : q \in Pending /\ searches'[q].company = searches[q].company
    BY <1>7, <2>1 DEF Pending
  <2>3. \A t \in DOMAIN tasks' : t \in DOMAIN tasks /\ tasks'[t].candidates = tasks[t].candidates
    BY <1>3, <1>4, <1>8 DEF TaskOf
  <2>  QED
    BY <2>1, <2>2, <2>3, CreatorsStay
<1>11. \A i \in DOMAIN TaskOf(r).candidates : FALSE
  BY <1>3
<1>12. searches[r].at \in TaskStages
  BY <1>1 DEF TaskStages
<1>  QED
  BY <1>1, <1>4, <1>5, <1>7, <1>9, <1>10, <1>11, <1>12, TaskChanges

\* The verdict on a task whose candidates are all decided.
LEMMA CompleteOK ==
  ASSUME DInv, NEW r \in Searchers, CompleteTasks(r)
  PROVE  DInv'
<1>1. /\ searches[r] \in SearchType /\ searches \in [Searchers -> SearchType] /\ SearchOK(r)
      /\ tasks \in Seq(TaskType) /\ DShape /\ searches[r].at = "finish" /\ r \notin Pending
      /\ companies' = companies
  BY DEF DInv, DShape, DiscoveryTypes, CompleteTasks, Pending
<1>2. PICK verdict : verdict = Verdict(TaskOf(r))
  OBVIOUS
<1>3. PICK execution : execution = IF verdict = "failed" THEN "failed" ELSE "completed"
  OBVIOUS
<1>4. PICK task : task = [TaskOf(r) EXCEPT !.status = verdict, !.execution = execution]
  OBVIOUS
<1>5. /\ searches[r].task \in DOMAIN tasks /\ TaskOf(r) \in TaskType
      /\ Having(TaskOf(r), {"discovered"}) = {} /\ TaskOK(TaskOf(r))
  BY <1>1 DEF DShape, SearchOK, TaskOf, TaskStages
<1>6. verdict \in {"partial_failed", "failed", "completed"}
  BY <1>2 DEF Verdict
<1>7. /\ task \in TaskType /\ task.candidates = TaskOf(r).candidates
      /\ task.prompt = TaskOf(r).prompt /\ task.execution = execution /\ task.status = verdict
  BY <1>3, <1>4, <1>5, <1>6 DEF TaskType
<1>8. tasks' = [tasks EXCEPT ![searches[r].task] = task]
  BY <1>2, <1>3, <1>4 DEF CompleteTasks, TaskOf
<1>9. searches' = [searches EXCEPT ![r] = NoSearch]
  BY DEF CompleteTasks
<1>10. /\ SearchOK(r)' /\ searches'[r] \in SearchType /\ searches'[r].at \notin TaskStages
       /\ searches'[r].at # "decide" /\ searches' = [searches EXCEPT ![r] = searches'[r]]
  BY <1>9, EndsOK
<1>11. DOMAIN tasks' = DOMAIN tasks /\ tasks'[searches[r].task] = task
       /\ \A u \in DOMAIN tasks : u # searches[r].task => tasks'[u] = tasks[u]
  BY <1>1, <1>5, <1>8
<1> DEFINE old == TaskOf(r)
<1>12. \A i \in DOMAIN old.candidates :
         /\ CandidateOK(old.candidates, i) /\ old.candidates[i] \in CandidateType
         /\ old.candidates[i].status # "discovered"
  <2>1. old.candidates \in Seq(CandidateType)
    BY <1>5 DEF TaskType
  <2>2. \A i \in DOMAIN old.candidates : old.candidates[i].status # "discovered"
    BY <1>5 DEF Having
  <2>  QED
    BY <1>5, <2>1, <2>2 DEF TaskOK
<1>13. EndedIsSettled(task)
  <2>1. (task.execution = "failed") = (task.status = "failed")
    BY <1>3, <1>7
  <2>2. Having(task, {"discovered"}) = {}
    BY <1>5, <1>7 DEF Having
  <2>3. ASSUME NEW i \in DOMAIN task.candidates, NEW taken,
               taken = IF task.candidates[i].original = 0 THEN task.candidates[i]
                       ELSE task.candidates[task.candidates[i].original]
        PROVE  /\ task.status = "failed" => taken.company = 0
               /\ task.status = "completed" => taken.company \in DOMAIN companies
    <3>1. PICK k \in DOMAIN old.candidates :
            taken = old.candidates[k] /\ old.candidates[k].original = 0
            /\ (task.candidates[i].original # 0 => old.candidates[i].status = "duplicate")
      BY <1>7, <1>12, <2>3 DEF CandidateOK
    <3>2. /\ taken.status \in {"ingested", "duplicate", "failed"}
          /\ taken.status = "failed" => taken.company = 0
          /\ taken.status # "failed" => taken.company \in DOMAIN companies
      BY <3>1, <1>12 DEF CandidateOK, CandidateType
    <3>3. ASSUME task.status = "failed" PROVE taken.status = "failed"
      <4>1. Having(old, {"ingested", "duplicate"}) = {}
        BY <1>2, <1>7, <3>3 DEF Verdict
      <4>2. k \notin Having(old, {"ingested", "duplicate"})
        BY <4>1
      <4>  QED
        BY <4>2, <3>1, <3>2 DEF Having
    <3>4. ASSUME task.status = "completed" PROVE taken.status # "failed"
      <4>1. Having(old, {"failed"}) = {}
        BY <1>2, <1>7, <3>4 DEF Verdict
      <4>2. k \notin Having(old, {"failed"})
        BY <4>1
      <4>  QED
        BY <4>2, <3>1 DEF Having
    <3>  QED
      BY <3>2, <3>3, <3>4
  <2>  QED
    BY <2>1, <2>2, <2>3 DEF EndedIsSettled
<1>14. TaskOK(task)
  <2>1. \A i \in DOMAIN task.candidates : CandidateOK(task.candidates, i)
    BY <1>5, <1>7 DEF TaskOK
  <2>  QED
    BY <2>1, <1>13 DEF TaskOK
<1>15. CreatorsOK'
  <2>1. CreatorsOK /\ \A q \in Searchers : q # r => searches'[q] = searches[q]
    BY <1>1, <1>9 DEF DShape
  <2>2. \A q \in Pending' : q \in Pending /\ searches'[q].company = searches[q].company
    BY <1>10, <2>1 DEF Pending
  <2>3. \A t \in DOMAIN tasks' : t \in DOMAIN tasks /\ tasks'[t].candidates = tasks[t].candidates
    BY <1>5, <1>7, <1>11 DEF TaskOf
  <2>  QED
    BY <2>1, <2>2, <2>3, CreatorsStay
<1>16. searches[r].at \in TaskStages
  BY <1>1 DEF TaskStages
<1>  QED
  BY <1>1, <1>7, <1>8, <1>10, <1>14, <1>15, <1>16, TaskChanges

\* A request that dies leaves its task behind, and perhaps one company.
LEMMA RaiseOK ==
  ASSUME DInv, NEW r \in Searchers, RaiseDiscovery(r)
  PROVE  DInv'
<1>1. /\ searches \in [Searchers -> SearchType] /\ SearchOK(r) /\ DShape /\ DiscoveryTypes
      /\ tasks' = tasks /\ companies' = companies /\ searches' = [searches EXCEPT ![r] = NoSearch]
  BY DEF DInv, DShape, DiscoveryTypes, RaiseDiscovery
<1>2. /\ SearchOK(r)' /\ searches'[r] \in SearchType /\ searches'[r].at \notin TaskStages
      /\ searches'[r].at # "decide" /\ searches' = [searches EXCEPT ![r] = searches'[r]]
  BY <1>1, EndsOK
<1>3. CASE r \notin Pending
  <2>1. DShape' /\ Lost' \subseteq Lost \union {} /\ Orphans \subseteq Orphans'
    BY <1>1, <1>2, <1>3, OnlySearches
  <2>  QED
    BY <2>1, CountStays DEF DInv, DShape
<1>4. CASE r \in Pending
  <2>1. PICK c : c = searches[r].company
    OBVIOUS
  <2>2. DShape' /\ Lost' \subseteq Lost \union {c} /\ Orphans \subseteq Orphans'
    BY <1>1, <1>2, <1>4, <2>1, OnlySearches
  <2>3. PICK t : t = searches[r].task
    OBVIOUS
  <2>4. t \in ActiveTasks /\ r \in Served /\ t \notin Orphans
    <3>1. searches[r].at \in TaskStages
      BY <1>4 DEF Pending, TaskStages
    <3>2. t \in DOMAIN tasks /\ IsActive(tasks[t])
      BY <1>1, <2>3, <3>1 DEF SearchOK, TaskOf
    <3>  QED
      BY <2>3, <3>1, <3>2 DEF ActiveTasks, Served, Orphans
  <2>5. t \in Orphans'
    <3>1. \A q \in Served' : q # r /\ q \in Served /\ searches'[q] = searches[q]
      BY <1>1, <1>2 DEF Served
    <3>2. \A q \in Served : q # r => searches[q].task # t
      BY <1>1, <2>3, <2>4 DEF DShape, ApartOK
    <3>3. t \in ActiveTasks'
      BY <1>1, <2>4 DEF ActiveTasks
    <3>  QED
      BY <3>1, <3>2, <3>3 DEF Orphans
  <2>6. /\ IsFiniteSet(Lost) /\ IsFiniteSet(Orphans) /\ IsFiniteSet(ActiveTasks)
    BY <1>1, FinitelyMany
  <2>7. IsFiniteSet(Orphans')
    <3>1. Orphans' \subseteq ActiveTasks
      BY <1>1 DEF Orphans, ActiveTasks
    <3>  QED
      BY <2>6, <3>1, FS_Subset
  <2>8. /\ Cardinality(Lost') <= Cardinality(Lost) + 1 /\ Cardinality(Lost') \in Nat
        /\ Cardinality(Lost) \in Nat
    <3>1. /\ IsFiniteSet(Lost \union {c}) /\ Cardinality(Lost) \in Nat
          /\ Cardinality(Lost \union {c}) <= Cardinality(Lost) + 1
          /\ Cardinality(Lost \union {c}) \in Nat
      <4>1. /\ Cardinality(Lost) \in Nat /\ IsFiniteSet(Lost \union {c})
            /\ Cardinality(Lost \union {c}) =
                 IF c \in Lost THEN Cardinality(Lost) ELSE Cardinality(Lost) + 1
        BY <2>6, FS_AddElement, FS_CardinalityType
      <4>  QED
        BY <4>1
    <3>2. Cardinality(Lost') <= Cardinality(Lost \union {c}) /\ Cardinality(Lost') \in Nat
      BY <2>2, <3>1, FS_Subset, FS_CardinalityType
    <3>  QED
      BY <3>1, <3>2
  <2>9. /\ Cardinality(Orphans) + 1 <= Cardinality(Orphans') /\ Cardinality(Orphans) \in Nat
        /\ Cardinality(Orphans') \in Nat
    <3>1. /\ IsFiniteSet(Orphans \union {t}) /\ Cardinality(Orphans) \in Nat
          /\ Cardinality(Orphans \union {t}) = Cardinality(Orphans) + 1
      BY <2>4, <2>6, FS_AddElement, FS_CardinalityType
    <3>2. Orphans \union {t} \subseteq Orphans'
      BY <2>2, <2>5
    <3>3. Cardinality(Orphans \union {t}) <= Cardinality(Orphans') /\ Cardinality(Orphans') \in Nat
      BY <2>7, <3>2, FS_Subset, FS_CardinalityType
    <3>  QED
      BY <3>1, <3>3
  <2>10. Cardinality(Lost) <= Cardinality(Orphans)
    BY DEF DInv
  <2>11. Cardinality(Lost') <= Cardinality(Orphans')
    BY <2>8, <2>9, <2>10
  <2>  QED
    BY <2>2, <2>11 DEF DInv
<1>  QED
  BY <1>3, <1>4

\* The answer becomes the candidates.
LEMMA SearchStepOK ==
  ASSUME DInv, NEW r \in Searchers, NEW rows \in Answers, Search(r, rows)
  PROVE  DInv'
<1>1. /\ searches[r] \in SearchType /\ searches \in [Searchers -> SearchType] /\ SearchOK(r)
      /\ tasks \in Seq(TaskType) /\ DShape /\ DiscoveryTypes /\ searches[r].at = "search"
      /\ r \notin Pending /\ companies' = companies /\ searches[r].at \in TaskStages
  BY DEF DInv, DShape, DiscoveryTypes, Search, Pending, TaskStages
<1>2. searches[r].task \in DOMAIN tasks /\ TaskOf(r) \in TaskType /\ TaskOf(r).candidates = <<>>
      /\ IsActive(TaskOf(r))
  BY <1>1 DEF SearchOK, TaskOf, TaskStages
<1>3. PICK wanted : wanted = Wanted[TaskOf(r).prompt]
  OBVIOUS
<1>4. wanted \in Nat
  <2>1. TaskOf(r).prompt \in Prompts
    BY <1>2 DEF TaskType
  <2>  QED
    BY <1>3, <2>1, DiscoveryAssumption
<1>5. PICK candidates : candidates = Prepared(Limited(rows, wanted))
  OBVIOUS
<1>6. /\ candidates \in Seq(CandidateType)
      /\ \A i \in DOMAIN candidates :
           /\ CandidateOK(candidates, i)
           /\ candidates[i].original = 0 => candidates[i].status = "discovered"
           /\ candidates[i].company = 0 /\ candidates[i].status # "ingested"
  BY <1>4, <1>5, LimitedIs, PreparedIs
<1>7. PICK failures : failures = FailuresIn(rows, wanted)
  OBVIOUS
<1>8. failures \in Nat
  <2>1. DOMAIN rows = 1 .. Len(rows) /\ Len(rows) \in Nat
    BY DiscoveryAssumption
  <2>2. IsFiniteSet(DOMAIN rows)
    BY <2>1, FS_Interval
  <2>3. IsFiniteSet({i \in DOMAIN rows : rows[i] = Unreadable /\ Before(rows, i) < wanted})
    BY <2>2, FS_Subset
  <2>  QED
    BY <1>7, <2>3, FS_CardinalityType DEF FailuresIn
<1>9. PICK task : task = [TaskOf(r) EXCEPT !.candidates = candidates, !.failures = failures]
  OBVIOUS
<1>10. /\ task \in TaskType /\ task.candidates = candidates /\ task.prompt = TaskOf(r).prompt
       /\ IsActive(task)
  BY <1>2, <1>6, <1>8, <1>9 DEF TaskType, IsActive
<1>11. tasks' = [tasks EXCEPT ![searches[r].task] = task]
  BY <1>3, <1>5, <1>7, <1>9 DEF Search, TaskOf
<1>12. DOMAIN tasks' = DOMAIN tasks /\ tasks'[searches[r].task] = task
       /\ \A u \in DOMAIN tasks : u # searches[r].task => tasks'[u] = tasks[u]
  BY <1>1, <1>2, <1>11
<1>13. GoOn(r, candidates, 0)
  BY <1>3, <1>5 DEF Search
<1>14. /\ SearchOK(r)'
       /\ searches' = [searches EXCEPT ![r] = searches'[r]] /\ searches'[r] \in SearchType
       /\ searches'[r].at \in {"match", "finish"} /\ searches'[r].task = searches[r].task
  <2>1. \A j \in DOMAIN candidates :
          /\ candidates[j].original = 0 => (candidates[j].status = "discovered" <=> j > 0)
          /\ candidates[j].original # 0 => candidates[j].status = "duplicate"
    <3>1. \A j \in DOMAIN candidates : j > 0
      BY <1>6
    <3>  QED
      BY <1>6, <3>1 DEF CandidateOK
  <2>2. candidates = tasks'[searches[r].task].candidates
    BY <1>10, <1>12
  <2>3. searches[r].task \in DOMAIN tasks' /\ IsActive(tasks'[searches[r].task])
    BY <1>2, <1>10, <1>12
  <2>  QED
    BY <1>1, <1>6, <1>13, <2>1, <2>2, <2>3, GoesOn
<1>15. TaskOK(task)
  BY <1>6, <1>10 DEF TaskOK
<1>16. CreatorsOK'
  <2>1. CreatorsOK /\ \A q \in Searchers : q # r => searches'[q] = searches[q]
    BY <1>1, <1>14 DEF DShape
  <2>2. \A q \in Pending' : q \in Pending /\ searches'[q].company = searches[q].company
    BY <1>14, <2>1 DEF Pending
  <2>3. \A t \in DOMAIN tasks' : \A i \in DOMAIN tasks'[t].candidates :
          tasks'[t].candidates[i].status = "ingested" => t \in DOMAIN tasks /\ tasks'[t] = tasks[t]
    BY <1>6, <1>10, <1>12
  <2>  QED
    BY <2>1, <2>2, <2>3, CreatorsStay
<1>17. \A i \in DOMAIN TaskOf(r).candidates : FALSE
  BY <1>2
<1>18. searches'[r].at # "decide"
  BY <1>14
<1>  QED
  BY <1>1, <1>10, <1>11, <1>14, <1>15, <1>16, <1>17, <1>18, TaskChanges

\* What became of a candidate is told.
LEMMA DecideOK ==
  ASSUME DInv, NEW r \in Searchers, DecideCandidate(r)
  PROVE  DInv'
<1>1. /\ searches[r] \in SearchType /\ searches \in [Searchers -> SearchType] /\ SearchOK(r)
      /\ tasks \in Seq(TaskType) /\ DShape /\ DiscoveryTypes /\ searches[r].at = "decide"
      /\ companies' = companies /\ searches[r].at \in TaskStages
      /\ searches[r].at \in CandidateStages
  BY DEF DInv, DShape, DiscoveryTypes, DecideCandidate, TaskStages, CandidateStages
<1>2. PICK old, i, status, company :
        /\ old = TaskOf(r).candidates /\ i = searches[r].candidate
        /\ status = searches[r].outcome /\ company = searches[r].company
  OBVIOUS
<1>3. /\ searches[r].task \in DOMAIN tasks /\ TaskOf(r) \in TaskType /\ IsActive(TaskOf(r))
      /\ TaskOK(TaskOf(r)) /\ old \in Seq(CandidateType)
      /\ i \in DOMAIN old /\ i \in Nat /\ old[i].original = 0 /\ old[i].status = "discovered"
      /\ \A j \in DOMAIN old : old[j].original = 0 => (old[j].status = "discovered" <=> j >= i)
  <2>1. /\ searches[r].task \in DOMAIN tasks /\ IsActive(TaskOf(r))
        /\ i \in DOMAIN old /\ old[i].original = 0
        /\ \A j \in DOMAIN old : old[j].original = 0 => (old[j].status = "discovered" <=> j >= i)
    BY <1>1, <1>2 DEF SearchOK
  <2>2. TaskOf(r) \in TaskType /\ TaskOK(TaskOf(r))
    BY <1>1, <2>1 DEF TaskOf, DShape
  <2>3. old \in Seq(CandidateType) /\ i \in Nat
    BY <1>1, <1>2, <2>2 DEF TaskType, SearchType
  <2>4. i >= i
    BY <2>3
  <2>  QED
    BY <2>1, <2>2, <2>3, <2>4
<1>4. /\ status \in {"failed", "ingested", "duplicate"} /\ company \in Nat
      /\ status = "failed" => company = 0
      /\ status # "failed" => company \in DOMAIN companies
  BY <1>1, <1>2 DEF SearchOK, SearchType
<1>5. PICK new : new = [old EXCEPT ![i] = [old[i] EXCEPT !.status = status, !.company = company]]
  OBVIOUS
<1>6. /\ new \in Seq(CandidateType) /\ DOMAIN new = DOMAIN old
      /\ new[i].original = 0 /\ new[i].status = status /\ new[i].company = company
      /\ \A j \in DOMAIN old : j # i => new[j] = old[j]
  <2>1. [old[i] EXCEPT !.status = status, !.company = company] \in CandidateType
    <3>1. old[i] \in CandidateType
      BY <1>3
    <3>  QED
      BY <3>1, <1>4 DEF CandidateType
  <2>2. new[i] = [old[i] EXCEPT !.status = status, !.company = company]
    BY <1>3, <1>5
  <2>3. old[i] \in CandidateType
    BY <1>3
  <2>4. new[i].original = 0 /\ new[i].status = status /\ new[i].company = company
    BY <1>3, <2>2, <2>3 DEF CandidateType
  <2>  QED
    BY <1>3, <1>5, <2>1, <2>4
<1>7. PICK task : task = [TaskOf(r) EXCEPT !.candidates = new]
  OBVIOUS
<1>8. /\ task \in TaskType /\ task.candidates = new /\ task.prompt = TaskOf(r).prompt
      /\ IsActive(task)
  BY <1>3, <1>6, <1>7 DEF TaskType, IsActive
<1>9. tasks' = [tasks EXCEPT ![searches[r].task] = task]
  <2>1. tasks' = [tasks EXCEPT ![searches[r].task] = Decided(@, i, searches[r])]
    BY <1>2 DEF DecideCandidate
  <2>2. Decided(TaskOf(r), i, searches[r]) = task
    <3>1. TaskOf(r).candidates = old
      BY <1>2
    <3>2. new = [TaskOf(r).candidates EXCEPT ![i] =
                   [TaskOf(r).candidates[i] EXCEPT !.status = searches[r].outcome,
                                                   !.company = searches[r].company]]
      BY <1>2, <1>5, <3>1
    <3>  QED
      BY <3>2, <1>7 DEF Decided
  <2>  QED
    BY <1>3, <2>1, <2>2 DEF TaskOf
<1>10. DOMAIN tasks' = DOMAIN tasks /\ tasks'[searches[r].task] = task
       /\ \A u \in DOMAIN tasks : u # searches[r].task => tasks'[u] = tasks[u]
  BY <1>1, <1>3, <1>9
<1>11. GoOn(r, old, i)
  BY <1>2 DEF DecideCandidate
<1>12. \A j \in DOMAIN old : CandidateOK(old, j)
  BY <1>2, <1>3 DEF TaskOK
<1>13. /\ SearchOK(r)'
       /\ searches' = [searches EXCEPT ![r] = searches'[r]] /\ searches'[r] \in SearchType
       /\ searches'[r].at \in {"match", "finish"} /\ searches'[r].task = searches[r].task
  <2>1. \A j \in DOMAIN new :
          /\ new[j].original = old[j].original
          /\ new[j].original = 0 => (new[j].status = "discovered" <=> j > i)
          /\ new[j].original # 0 => new[j].status = "duplicate"
    <3> SUFFICES ASSUME NEW j \in DOMAIN new
                 PROVE  /\ new[j].original = old[j].original
                        /\ new[j].original = 0 => (new[j].status = "discovered" <=> j > i)
                        /\ new[j].original # 0 => new[j].status = "duplicate"
      OBVIOUS
    <3>1. CASE j = i
      BY <3>1, <1>3, <1>4, <1>6
    <3>2. CASE j # i
      <4>1. new[j] = old[j] /\ j \in DOMAIN old /\ j \in Nat
        BY <3>2, <1>3, <1>6
      <4>2. old[j].original # 0 => old[j].status = "duplicate"
        BY <4>1, <1>12 DEF CandidateOK
      <4>3. j >= i <=> j > i
        BY <3>2, <4>1, <1>3
      <4>  QED
        BY <4>1, <4>2, <4>3, <1>3
    <3>  QED
      BY <3>1, <3>2
  <2>2. new = tasks'[searches[r].task].candidates
    BY <1>8, <1>10
  <2>3. searches[r].task \in DOMAIN tasks' /\ IsActive(tasks'[searches[r].task])
    BY <1>3, <1>8, <1>10
  <2>4. DOMAIN new = DOMAIN old /\ old \in Seq(CandidateType) /\ i \in Nat
    BY <1>3, <1>6
  <2>  QED
    BY <1>1, <1>11, <2>1, <2>2, <2>3, <2>4, GoesOn
<1>14. TaskOK(task)
  <2>1. \A j \in DOMAIN new : CandidateOK(new, j)
    <3> SUFFICES ASSUME NEW j \in DOMAIN new PROVE CandidateOK(new, j)
      OBVIOUS
    <3>1. CASE j = i
      BY <3>1, <1>4, <1>6 DEF CandidateOK
    <3>2. CASE j # i
      BY <3>2, <1>6, <1>12 DEF CandidateOK
    <3>  QED
      BY <3>1, <3>2
  <2>  QED
    BY <1>8, <2>1 DEF TaskOK
<1>15. r \in Pending => status = "ingested" /\ company \notin Unclaimed'
  <2>1. searches[r].task \in DOMAIN tasks' /\ i \in DOMAIN tasks'[searches[r].task].candidates
        /\ tasks'[searches[r].task].candidates[i].company = company
    BY <1>3, <1>6, <1>8, <1>10
  <2>  QED
    BY <1>2, <2>1 DEF Pending, Unclaimed
<1>16. CreatorsOK'
  <2>0. PICK t0 : t0 = searches[r].task
    OBVIOUS
  <2>1. CreatorsOK /\ \A q \in Searchers : q # r => searches'[q] = searches[q]
    BY <1>1, <1>13 DEF DShape
  <2>2. \A q \in Pending' : q # r /\ q \in Pending /\ searches'[q].company = searches[q].company
    BY <1>13, <2>1 DEF Pending
  <2>3. \A t \in DOMAIN tasks' : \A j \in DOMAIN tasks'[t].candidates :
          /\ t \in DOMAIN tasks /\ j \in DOMAIN tasks[t].candidates
          /\ <<t, j>> # <<t0, i>> => tasks'[t].candidates[j] = tasks[t].candidates[j]
    <3> SUFFICES ASSUME NEW t \in DOMAIN tasks', NEW j \in DOMAIN tasks'[t].candidates
                 PROVE  /\ t \in DOMAIN tasks /\ j \in DOMAIN tasks[t].candidates
                        /\ <<t, j>> # <<t0, i>> =>
                             tasks'[t].candidates[j] = tasks[t].candidates[j]
      OBVIOUS
    <3>1. CASE t = t0
      <4>1. tasks'[t].candidates = new /\ tasks[t].candidates = old
        BY <3>1, <2>0, <1>2, <1>8, <1>10 DEF TaskOf
      <4>  QED
        BY <4>1, <3>1, <1>3, <1>6, <1>10
    <3>2. CASE t # t0
      BY <3>2, <2>0, <1>10
    <3>  QED
      BY <3>1, <3>2
  <2>4. IngestedAt(t0, i)' =>
          r \in Pending /\ tasks'[t0].candidates[i].company = searches[r].company
    BY <2>0, <1>1, <1>2, <1>6, <1>8, <1>10 DEF IngestedAt, Pending
  <2>5. ASSUME NEW t \in DOMAIN tasks', NEW u \in DOMAIN tasks',
               NEW j \in DOMAIN tasks'[t].candidates, NEW k \in DOMAIN tasks'[u].candidates,
               IngestedAt(t, j)', IngestedAt(u, k)', <<t, j>> # <<u, k>>
        PROVE  tasks'[t].candidates[j].company # tasks'[u].candidates[k].company
    <3>1. CASE <<t, j>> # <<t0, i>> /\ <<u, k>> # <<t0, i>>
      <4>1. /\ tasks'[t].candidates[j] = tasks[t].candidates[j]
            /\ tasks'[u].candidates[k] = tasks[u].candidates[k]
            /\ IngestedAt(t, j) /\ IngestedAt(u, k)
        BY <3>1, <2>3, <2>5 DEF IngestedAt
      <4>  QED
        BY <4>1, <2>1, <2>3, <2>5 DEF CreatorsOK
    <3>2. CASE <<t, j>> = <<t0, i>>
      <4>1. /\ tasks'[u].candidates[k] = tasks[u].candidates[k] /\ IngestedAt(u, k)
            /\ u \in DOMAIN tasks /\ k \in DOMAIN tasks[u].candidates
        BY <3>2, <2>3, <2>5 DEF IngestedAt
      <4>2. r \in Pending /\ tasks'[t].candidates[j].company = searches[r].company
        BY <3>2, <2>4, <2>5
      <4>  QED
        BY <4>1, <4>2, <2>1 DEF CreatorsOK
    <3>3. CASE <<u, k>> = <<t0, i>>
      <4>1. /\ tasks'[t].candidates[j] = tasks[t].candidates[j] /\ IngestedAt(t, j)
            /\ t \in DOMAIN tasks /\ j \in DOMAIN tasks[t].candidates
        BY <3>3, <2>3, <2>5 DEF IngestedAt
      <4>2. r \in Pending /\ tasks'[u].candidates[k].company = searches[r].company
        BY <3>3, <2>4, <2>5
      <4>  QED
        BY <4>1, <4>2, <2>1 DEF CreatorsOK
    <3>  QED
      BY <3>1, <3>2, <3>3
  <2>6. ASSUME NEW q \in Pending', NEW t \in DOMAIN tasks', NEW j \in DOMAIN tasks'[t].candidates,
               IngestedAt(t, j)'
        PROVE  tasks'[t].candidates[j].company # searches'[q].company
    <3>1. CASE <<t, j>> # <<t0, i>>
      <4>1. tasks'[t].candidates[j] = tasks[t].candidates[j] /\ IngestedAt(t, j)
        BY <3>1, <2>3, <2>6 DEF IngestedAt
      <4>  QED
        BY <4>1, <2>1, <2>2, <2>3 DEF CreatorsOK
    <3>2. CASE <<t, j>> = <<t0, i>>
      <4>1. r \in Pending /\ tasks'[t].candidates[j].company = searches[r].company
        BY <3>2, <2>4, <2>6
      <4>  QED
        BY <4>1, <2>1, <2>2 DEF CreatorsOK
    <3>  QED
      BY <3>1, <3>2
  <2>7. ASSUME NEW p \in Pending', NEW q \in Pending', p # q
        PROVE  searches'[p].company # searches'[q].company
    BY <2>7, <2>1, <2>2 DEF CreatorsOK
  <2>  QED
    BY <2>5, <2>6, <2>7 DEF CreatorsOK
<1>17. \A j \in DOMAIN TaskOf(r).candidates : TaskOf(r).candidates[j].company # 0 =>
         /\ j \in DOMAIN task.candidates
         /\ task.candidates[j].company = TaskOf(r).candidates[j].company
  <2>1. old[i].company = 0
    BY <1>3, <1>12 DEF CandidateOK
  <2>  QED
    BY <2>1, <1>2, <1>6, <1>8
<1>18. searches'[r].at # "decide" /\ (r \in Pending => searches[r].company \notin Unclaimed')
  BY <1>2, <1>13, <1>15
<1>  QED
  BY <1>1, <1>8, <1>9, <1>13, <1>14, <1>16, <1>17, <1>18, TaskChanges

\* The claim a request takes in is one of the provider's.
LEMMA ClaimIs ==
  ASSUME DInv, NEW r \in Searchers, searches[r].at \in CandidateStages
  PROVE  ClaimOf(r) \in CompanyClaimType /\ UrlOf(ClaimOf(r)) \in Urls
<1>1. /\ searches[r].task \in DOMAIN tasks /\ TaskOf(r) \in TaskType
      /\ searches[r].candidate \in DOMAIN TaskOf(r).candidates
  BY DEF DInv, DShape, DiscoveryTypes, SearchOK, TaskOf, CandidateStages, TaskStages
<1>2. TaskOf(r).candidates[searches[r].candidate] \in CandidateType
  BY <1>1 DEF TaskType
<1>3. ClaimOf(r) \in CompanyClaims
  BY <1>2 DEF ClaimOf, CandidateType
<1>4. ClaimOf(r) \in CompanyClaimType
  BY <1>3, DiscoveryAssumption
<1>  QED
  BY <1>4, DiscoveryAssumption DEF UrlOf, CompanyClaimType

\* A company that nobody knew.
LEMMA AddOK ==
  ASSUME DInv, NEW r \in Searchers, AddCompany(r)
  PROVE  DInv'
<1>1. /\ searches[r] \in SearchType /\ searches \in [Searchers -> SearchType] /\ SearchOK(r)
      /\ companies \in Seq(CompanyType) /\ DShape /\ DiscoveryTypes /\ searches[r].at = "add"
      /\ r \notin Pending /\ tasks' = tasks /\ searches[r].at \in CandidateStages
      /\ searches[r].at \in TaskStages
  BY DEF DInv, DShape, DiscoveryTypes, AddCompany, Pending, CandidateStages, TaskStages
<1>2. PICK n : n = Len(companies) + 1
  OBVIOUS
<1>3. PICK new : new = [name |-> ClaimOf(r).name, url |-> UrlOf(ClaimOf(r)),
                        aliases |-> {}, sources |-> <<ClaimOf(r).ref>>]
  OBVIOUS
<1>4. /\ new \in CompanyType /\ new.sources # <<>>
  <2>1. /\ ClaimOf(r).name \in STRING /\ ClaimOf(r).ref \in STRING /\ UrlOf(ClaimOf(r)) \in Urls
    BY <1>1, ClaimIs DEF CompanyClaimType
  <2>2. <<ClaimOf(r).ref>> \in Seq(STRING) /\ <<ClaimOf(r).ref>> # <<>>
    BY <2>1
  <2>  QED
    BY <1>3, <2>1, <2>2 DEF CompanyType
<1>5. companies' = Append(companies, new)
  BY <1>3 DEF AddCompany
<1>6. n \in Nat /\ n # 0 /\ n \notin DOMAIN companies
  BY <1>1, <1>2
<1>7. /\ companies' \in Seq(CompanyType) /\ DOMAIN companies' = DOMAIN companies \union {n}
      /\ companies'[n] = new /\ \A c \in DOMAIN companies : companies'[c] = companies[c]
  BY <1>1, <1>2, <1>4, <1>5
<1>8. searches'[r] = [searches[r] EXCEPT !.at = "decide", !.company = n, !.outcome = "ingested"]
      /\ searches' = [searches EXCEPT ![r] = searches'[r]]
  BY <1>1, <1>2 DEF AddCompany
<1>9. /\ searches'[r] \in SearchType /\ searches'[r].at = "decide"
      /\ searches'[r].outcome = "ingested" /\ searches'[r].company = n
      /\ searches'[r].task = searches[r].task /\ searches'[r].candidate = searches[r].candidate
  <2>1. "decide" \in {"idle", "create"} \union TaskStages
    BY DEF TaskStages
  <2>2. searches'[r] = [at |-> "decide", prompt |-> searches[r].prompt, task |-> searches[r].task,
                        candidate |-> searches[r].candidate, company |-> n,
                        seen |-> searches[r].seen, outcome |-> "ingested"]
    BY <1>1, <1>8 DEF SearchType
  <2>3. /\ searches[r].prompt \in Prompts \union {""} /\ searches[r].task \in Nat
        /\ searches[r].candidate \in Nat /\ searches[r].seen \in CompanyType
    BY <1>1 DEF SearchType
  <2>4. [at |-> "decide", prompt |-> searches[r].prompt, task |-> searches[r].task,
         candidate |-> searches[r].candidate, company |-> n,
         seen |-> searches[r].seen, outcome |-> "ingested"] \in SearchType
    BY <1>6, <2>1, <2>3, SearchIs
  <2>  QED
    BY <2>2, <2>4
<1>10. DiscoveryTypes'
  <2>1. searches' \in [Searchers -> SearchType]
    BY <1>1, <1>8, <1>9
  <2>2. \A c \in DOMAIN companies' : companies'[c].sources # <<>>
    BY <1>1, <1>4, <1>7 DEF DiscoveryTypes
  <2>  QED
    BY <1>1, <1>7, <2>1, <2>2 DEF DiscoveryTypes
<1>11. \A q \in Searchers : q # r => searches'[q] = searches[q]
  BY <1>1, <1>8
<1>12. SearchOK(r)'
  <2>1. TaskOf(r)' = TaskOf(r)
    BY <1>1, <1>9 DEF TaskOf
  <2>2. n \in DOMAIN companies'
    BY <1>7
  <2>  QED
    BY <1>1, <1>9, <2>1, <2>2 DEF SearchOK, TaskStages, CandidateStages
<1>13. /\ \A q \in Searchers : q # r => SearchOK(q)'
       /\ \A u \in DOMAIN tasks : TaskOK(tasks[u])'
  <2>1. 0 \notin DOMAIN tasks /\ DOMAIN tasks \subseteq DOMAIN tasks'
    BY <1>1 DEF DiscoveryTypes
  <2>2. \A q \in Served : q # r => searches[q].task # 0
    BY <1>1, <2>1 DEF Served, DShape, SearchOK
  <2>3. /\ DOMAIN companies \subseteq DOMAIN companies'
        /\ \A c \in DOMAIN companies : Len(companies[c].sources) <= Len(companies'[c].sources)
    BY <1>1, <1>7, SourcesCount
  <2>4. /\ \A u \in DOMAIN tasks : u # 0 => tasks'[u] = tasks[u]
        /\ \A u \in DOMAIN tasks : u # 0
    BY <1>1, <2>1
  <2>5. OnlyOneChanges(r, 0)
    BY <1>7, <1>11, <2>1, <2>2, <2>3, <2>4 DEF OnlyOneChanges
  <2>  QED
    BY <1>1, <2>4, <2>5, OthersKeep
<1>14. /\ Pending' = Pending \union {r}
       /\ \A q \in Pending : q # r /\ searches'[q].company = searches[q].company
       /\ \A q \in Served' : q \in Served /\ searches'[q].task = searches[q].task
  BY <1>1, <1>9, <1>11 DEF Pending, Served
<1>15. ApartOK'
  <2>1. \A t \in ActiveTasks' : t \in ActiveTasks /\ tasks'[t].prompt = tasks[t].prompt
    BY <1>1 DEF ActiveTasks
  <2>2. ApartOK
    BY <1>1 DEF DShape
  <2>  QED
    BY <1>14, <2>1, <2>2, ApartStay
<1>16. CreatorsOK'
  <2>1. CreatorsOK
    BY <1>1 DEF DShape
  <2>2. \A t \in DOMAIN tasks : \A i \in DOMAIN tasks[t].candidates :
          IngestedAt(t, i) => tasks[t].candidates[i].company # n
    <3> SUFFICES ASSUME NEW t \in DOMAIN tasks, NEW i \in DOMAIN tasks[t].candidates,
                        IngestedAt(t, i)
                 PROVE  tasks[t].candidates[i].company \in DOMAIN companies
      BY <1>6
    <3>1. CandidateOK(tasks[t].candidates, i)
      BY <1>1 DEF DShape, TaskOK
    <3>  QED
      BY <3>1 DEF CandidateOK, IngestedAt
  <2>3. \A q \in Pending : searches[q].company # n
    <3> SUFFICES ASSUME NEW q \in Pending PROVE searches[q].company \in DOMAIN companies
      BY <1>6
    <3>1. SearchOK(q) /\ searches[q].at = "decide" /\ searches[q].outcome = "ingested"
      BY <1>1 DEF DShape, Pending
    <3>  QED
      BY <3>1 DEF SearchOK
  <2>4. \A t \in DOMAIN tasks : \A i \in DOMAIN tasks[t].candidates :
          IngestedAt(t, i)' => IngestedAt(t, i)
    BY <1>1 DEF IngestedAt
  <2>5. ASSUME NEW q \in Pending', NEW t \in DOMAIN tasks', NEW i \in DOMAIN tasks'[t].candidates,
               IngestedAt(t, i)'
        PROVE  tasks'[t].candidates[i].company # searches'[q].company
    <3>1. CASE q = r
      BY <3>1, <2>5, <1>1, <1>9, <2>2, <2>4
    <3>2. CASE q # r
      BY <3>2, <2>5, <1>1, <1>14, <2>1, <2>4 DEF CreatorsOK
    <3>  QED
      BY <3>1, <3>2
  <2>6. ASSUME NEW p \in Pending', NEW q \in Pending', p # q
        PROVE  searches'[p].company # searches'[q].company
    <3>1. CASE p # r /\ q # r
      BY <3>1, <2>6, <1>14, <2>1 DEF CreatorsOK
    <3>2. CASE p = r
      BY <3>2, <2>6, <1>9, <1>14, <2>3
    <3>3. CASE q = r
      BY <3>3, <2>6, <1>9, <1>14, <2>3
    <3>  QED
      BY <3>1, <3>2, <3>3
  <2>7. ASSUME NEW t \in DOMAIN tasks', NEW u \in DOMAIN tasks',
               NEW i \in DOMAIN tasks'[t].candidates, NEW j \in DOMAIN tasks'[u].candidates,
               IngestedAt(t, i)', IngestedAt(u, j)', <<t, i>> # <<u, j>>
        PROVE  tasks'[t].candidates[i].company # tasks'[u].candidates[j].company
    BY <2>7, <1>1, <2>1, <2>4 DEF CreatorsOK
  <2>  QED
    BY <2>5, <2>6, <2>7 DEF CreatorsOK
<1>17. DShape'
  <2>1. \A u \in DOMAIN tasks' : TaskOK(tasks[u])'
    BY <1>1, <1>13
  <2>  QED
    BY <1>10, <1>12, <1>13, <1>15, <1>16, <2>1 DEF DShape
<1>18. Lost' \subseteq Lost \union {}
  <2>1. \A c \in DOMAIN companies' :
          c \in DOMAIN companies \/ \E q \in Pending' : searches'[q].company = c
    BY <1>7, <1>9, <1>14
  <2>2. \A q \in Pending : q \in Pending' /\ searches'[q].company = searches[q].company
    BY <1>14
  <2>  QED
    BY <1>1, <2>1, <2>2, LostStays
<1>19. Orphans \subseteq Orphans'
  BY <1>1, <1>14, OrphansStay
<1>  QED
  BY <1>10, <1>17, <1>18, <1>19, CountStays DEF DInv

\* Companies are made of these fields.
LEMMA CompanyIs ==
  ASSUME NEW name \in STRING \union {""}, NEW url \in Urls, NEW aliases \in SUBSET STRING,
         NEW sources \in Seq(STRING)
  PROVE  [name |-> name, url |-> url, aliases |-> aliases, sources |-> sources] \in CompanyType
  BY DEF CompanyType

\* Sources are only added to, whatever a request saves over them.
LEMMA WrittenGrows ==
  ASSUME NEW stored \in CompanyType, NEW seen \in CompanyType, NEW claim \in CompanyClaimType,
         UrlOf(claim) \in Urls, stored.sources # <<>>, Len(seen.sources) <= Len(stored.sources),
         NEW new, new = Written(stored, seen, MergedWithClaim(seen, claim))
  PROVE  /\ new \in CompanyType /\ new.sources # <<>>
         /\ Len(stored.sources) <= Len(new.sources)
<1> DEFINE mine == MergedWithClaim(seen, claim)
           size == Max({Len(stored.sources), Len(mine.sources)})
<1>1. /\ stored.sources \in Seq(STRING) /\ seen.sources \in Seq(STRING) /\ claim.ref \in STRING
      /\ claim.name \in STRING
  BY DEF CompanyType, CompanyClaimType
<1>2. /\ mine.sources \in Seq(STRING) /\ mine.url \in Urls /\ mine.aliases \in SUBSET STRING
      /\ mine.sources = seen.sources \/ Len(mine.sources) = Len(seen.sources) + 1
  <2>1. /\ mine.sources =
             IF claim.ref \in ToSet(seen.sources) THEN seen.sources
             ELSE Append(seen.sources, claim.ref)
        /\ mine.url = IF seen.url = NoUrl THEN UrlOf(claim) ELSE seen.url
        /\ mine.aliases = IF claim.name = seen.name THEN seen.aliases
                          ELSE seen.aliases \union {claim.name}
    BY DEF MergedWithClaim, CompanyType
  <2>2. seen.url \in Urls /\ seen.aliases \in SUBSET STRING
    BY DEF CompanyType
  <2> HIDE DEF mine
  <2>3. mine.url \in Urls /\ mine.aliases \in SUBSET STRING
    BY <1>1, <2>1, <2>2
  <2>4. CASE claim.ref \in ToSet(seen.sources)
    BY <1>1, <2>1, <2>3, <2>4
  <2>5. CASE claim.ref \notin ToSet(seen.sources)
    <3>1. mine.sources = Append(seen.sources, claim.ref)
      BY <2>1, <2>5
    <3>2. mine.sources \in Seq(STRING) /\ Len(mine.sources) = Len(seen.sources) + 1
      BY <1>1, <3>1, AppendProperties
    <3>  QED
      BY <2>3, <3>2
  <2>  QED
    BY <2>4, <2>5
<1> HIDE DEF mine
<1>3. /\ Len(stored.sources) \in Nat /\ Len(mine.sources) \in Nat /\ Len(seen.sources) \in Nat
      /\ Len(stored.sources) # 0
  BY <1>1, <1>2, LenProperties
<1>4. /\ size \in Nat /\ Len(stored.sources) <= size
      /\ size \in {Len(stored.sources), Len(mine.sources)}
  <2>1. PICK a, b : a = Len(stored.sources) /\ b = Len(mine.sources)
    OBVIOUS
  <2>2. \E x \in {a, b} : \A y \in {a, b} : x >= y
    BY <1>3, <2>1
  <2>3. Max({a, b}) \in {a, b} /\ \A y \in {a, b} : Max({a, b}) >= y
    BY <2>2 DEF Max
  <2>  QED
    BY <1>3, <2>1, <2>3
<1> HIDE DEF size
<1>5. /\ new.sources = IF mine.sources = seen.sources THEN stored.sources
                       ELSE [i \in 1 .. size |-> IF i = Len(mine.sources) THEN mine.sources[i]
                                                 ELSE stored.sources[i]]
      /\ new = [name |-> stored.name,
                url |-> IF mine.url = seen.url THEN stored.url ELSE mine.url,
                aliases |-> stored.aliases \union mine.aliases, sources |-> new.sources]
  BY DEF Written, CompanyType, mine, size
<1>6. PICK url, aliases : /\ url = (IF mine.url = seen.url THEN stored.url ELSE mine.url)
                         /\ aliases = stored.aliases \union mine.aliases
  OBVIOUS
<1>7. /\ url \in Urls /\ aliases \in SUBSET STRING /\ stored.name \in STRING \union {""}
      /\ new = [name |-> stored.name, url |-> url, aliases |-> aliases, sources |-> new.sources]
  BY <1>2, <1>5, <1>6 DEF CompanyType
<1>8. CASE mine.sources = seen.sources
  <2>1. new.sources = stored.sources
    BY <1>5, <1>8
  <2>  QED
    <3>1. [name |-> stored.name, url |-> url, aliases |-> aliases, sources |-> stored.sources]
            \in CompanyType
      BY <1>1, <1>7, CompanyIs
    <3>2. PICK sources : sources = stored.sources
      OBVIOUS
    <3>3. new = [name |-> stored.name, url |-> url, aliases |-> aliases, sources |-> sources]
      BY <1>7, <2>1, <3>2
    <3>4. new \in CompanyType
      BY <3>1, <3>2, <3>3
    <3>5. Len(stored.sources) <= Len(stored.sources)
      BY <1>3
    <3>  QED
      BY <2>1, <3>4, <3>5
<1>9. CASE mine.sources # seen.sources
  <2>1. Len(mine.sources) = Len(seen.sources) + 1
    BY <1>2, <1>9
  <2>2. \A i \in 1 .. size : (IF i = Len(mine.sources) THEN mine.sources[i]
                              ELSE stored.sources[i]) \in STRING
    <3> SUFFICES ASSUME NEW i \in 1 .. size
                 PROVE  /\ i = Len(mine.sources) => mine.sources[i] \in STRING
                        /\ i # Len(mine.sources) => stored.sources[i] \in STRING
      OBVIOUS
    <3>1. i = Len(mine.sources) => i \in 1 .. Len(mine.sources)
      BY <1>3, <2>1
    <3>2. i # Len(mine.sources) => i \in 1 .. Len(stored.sources)
      BY <1>3, <1>4, <2>1
    <3>  QED
      BY <1>1, <1>2, <3>1, <3>2, ElementOfSeq
  <2>3. new.sources \in [1 .. size -> STRING]
    BY <1>5, <1>9, <2>2
  <2>4. new.sources \in Seq(STRING) /\ Len(new.sources) = size
    <3>1. new.sources \in Seq(STRING)
      BY <1>4, <2>3, SeqDef
    <3>2. DOMAIN new.sources = 1 .. size /\ DOMAIN new.sources = 1 .. Len(new.sources)
          /\ Len(new.sources) \in Nat
      BY <2>3, <3>1, LenProperties
    <3>  QED
      BY <1>3, <1>4, <3>1, <3>2
  <2>5. new.sources # <<>>
    BY <1>3, <1>4, <2>4
  <2>6. PICK sources : sources = new.sources
    OBVIOUS
  <2>7. [name |-> stored.name, url |-> url, aliases |-> aliases, sources |-> sources]
          \in CompanyType
    BY <1>7, <2>4, <2>6, CompanyIs
  <2>  QED
    BY <1>4, <1>7, <2>4, <2>5, <2>6, <2>7
<1>  QED
  BY <1>8, <1>9

\* A company is saved over what others stored of it.
LEMMA SaveOK ==
  ASSUME DInv, NEW r \in Searchers, SaveCompany(r)
  PROVE  DInv'
<1>1. /\ searches[r] \in SearchType /\ searches \in [Searchers -> SearchType] /\ SearchOK(r)
      /\ companies \in Seq(CompanyType) /\ DShape /\ DiscoveryTypes /\ searches[r].at = "save"
      /\ r \notin Pending /\ tasks' = tasks /\ searches[r].at \in CandidateStages
      /\ searches[r].at \in TaskStages
  BY DEF DInv, DShape, DiscoveryTypes, SaveCompany, Pending, CandidateStages, TaskStages
<1>2. PICK c, seen, new : /\ c = searches[r].company /\ seen = searches[r].seen
                          /\ new = Written(companies[c], seen, MergedWithClaim(seen, ClaimOf(r)))
  OBVIOUS
<1>3. /\ c \in DOMAIN companies /\ seen \in CompanyType /\ companies[c] \in CompanyType
      /\ companies[c].sources # <<>> /\ Len(seen.sources) <= Len(companies[c].sources)
  <2>1. c \in DOMAIN companies /\ Len(seen.sources) <= Len(companies[c].sources)
    BY <1>1, <1>2 DEF SearchOK
  <2>2. seen \in CompanyType
    BY <1>1, <1>2 DEF SearchType
  <2>  QED
    BY <1>1, <2>1, <2>2 DEF DiscoveryTypes
<1>4. /\ new \in CompanyType /\ new.sources # <<>>
      /\ Len(companies[c].sources) <= Len(new.sources)
  BY <1>1, <1>2, <1>3, ClaimIs, WrittenGrows
<1>5. companies' = [companies EXCEPT ![c] = new]
  BY <1>2 DEF SaveCompany
<1>6. /\ companies' \in Seq(CompanyType) /\ DOMAIN companies' = DOMAIN companies
      /\ companies'[c] = new /\ \A d \in DOMAIN companies : d # c => companies'[d] = companies[d]
  BY <1>1, <1>3, <1>4, <1>5
<1>7. searches'[r] = [searches[r] EXCEPT !.at = "decide", !.outcome = "duplicate"]
      /\ searches' = [searches EXCEPT ![r] = searches'[r]]
  BY <1>1 DEF SaveCompany
<1>8. /\ searches'[r] \in SearchType /\ searches'[r].at = "decide"
      /\ searches'[r].outcome = "duplicate" /\ searches'[r].company = c
      /\ searches'[r].task = searches[r].task /\ searches'[r].candidate = searches[r].candidate
  BY <1>1, <1>2, <1>7 DEF SearchType, TaskStages
<1>9. SearchOK(r)'
  <2>1. TaskOf(r)' = TaskOf(r)
    BY <1>1, <1>8 DEF TaskOf
  <2>2. c \in DOMAIN companies'
    BY <1>3, <1>6
  <2>  QED
    BY <1>1, <1>8, <2>1, <2>2 DEF SearchOK, TaskStages, CandidateStages
<1>10. \A d \in DOMAIN companies : Len(companies[d].sources) <= Len(companies'[d].sources)
  BY <1>1, <1>4, <1>6, SourcesCount
<1>11. \A d \in DOMAIN companies' : companies'[d].sources # <<>>
  BY <1>1, <1>4, <1>6 DEF DiscoveryTypes
<1>12. DShape' /\ Lost' \subseteq Lost \union {} /\ Orphans \subseteq Orphans'
  BY <1>1, <1>6, <1>7, <1>8, <1>9, <1>10, <1>11, TasksStay
<1>  QED
  BY <1>12, CountStays DEF DInv, DShape

\* At first there is nothing.
LEMMA DiscoveryInitOK == DiscoveryInit => DInv
<1> SUFFICES ASSUME DiscoveryInit PROVE DInv
  OBVIOUS
<1>1. /\ tasks = <<>> /\ companies = <<>> /\ DOMAIN tasks = {} /\ DOMAIN companies = {}
      /\ searches = [r \in Searchers |-> NoSearch]
  BY DEF DiscoveryInit
<1>2. DiscoveryTypes
  BY <1>1, NoSearchIs DEF DiscoveryTypes
<1>3. \A r \in Searchers : searches[r].at = "idle"
  <2>1. NoSearch.at = "idle"
    BY DEF NoSearch
  <2>  QED
    BY <1>1, <2>1
<1>4. Served = {} /\ Pending = {}
  BY <1>3 DEF Served, Pending, TaskStages
<1>5. \A r \in Searchers : SearchOK(r)
  BY <1>3 DEF SearchOK, TaskStages, CandidateStages
<1>6. ApartOK /\ CreatorsOK
  BY <1>1, <1>4 DEF ApartOK, CreatorsOK, ActiveTasks
<1>7. DShape
  BY <1>1, <1>2, <1>5, <1>6 DEF DShape
<1>8. Lost = {} /\ Orphans = {}
  BY <1>1 DEF Lost, Unclaimed, Orphans, ActiveTasks
<1>  QED
  BY <1>7, <1>8, FS_EmptySet DEF DInv

\* Whatever a request does.
LEMMA DiscoveryStepOK ==
  ASSUME DInv, DiscoveryNext
  PROVE  DInv'
<1>1. PICK r \in Searchers :
        \/ \E p \in Prompts : ReadKeys(r, p)
        \/ CreateTasks(r) \/ StartTasks(r) \/ FailTasks(r)
        \/ \E rows \in Answers : Search(r, rows)
        \/ Match(r) \/ AddCompany(r) \/ SaveCompany(r) \/ RefuseClaim(r)
        \/ DecideCandidate(r) \/ CompleteTasks(r) \/ RaiseDiscovery(r)
  BY DEF DiscoveryNext
<1>2. CASE \E p \in Prompts : ReadKeys(r, p)
  BY <1>2, ReadKeysOK
<1>3. CASE \E rows \in Answers : Search(r, rows)
  BY <1>3, SearchStepOK
<1>4. CASE CreateTasks(r) \/ StartTasks(r) \/ FailTasks(r)
  BY <1>4, CreateOK, StartOK, FailOK
<1>5. CASE Match(r) \/ AddCompany(r) \/ SaveCompany(r) \/ RefuseClaim(r)
  BY <1>5, MatchOK, AddOK, SaveOK, RefuseOK
<1>6. CASE DecideCandidate(r) \/ CompleteTasks(r) \/ RaiseDiscovery(r)
  BY <1>6, DecideOK, CompleteOK, RaiseOK
<1>  QED
  BY <1>1, <1>2, <1>3, <1>4, <1>5, <1>6

\* Candidates, as pairs of a task and a position.
LEMMA ReportedIs ==
  /\ \A at \in Reported : /\ at = <<at[1], at[2]>> /\ at[1] \in DOMAIN tasks
                          /\ at[2] \in DOMAIN tasks[at[1]].candidates
                          /\ CandidateAt(at) = tasks[at[1]].candidates[at[2]]
  /\ \A t \in DOMAIN tasks : \A i \in DOMAIN tasks[t].candidates :
       <<t, i>> \in Reported /\ CandidateAt(<<t, i>>) = tasks[t].candidates[i]
<1>1. ASSUME NEW at \in Reported
      PROVE  /\ at = <<at[1], at[2]>> /\ at[1] \in DOMAIN tasks
             /\ at[2] \in DOMAIN tasks[at[1]].candidates
  <2>1. PICK t \in DOMAIN tasks : at \in {t} \X DOMAIN tasks[t].candidates
    BY DEF Reported
  <2>  QED
    BY <2>1
<1>2. ASSUME NEW t \in DOMAIN tasks, NEW i \in DOMAIN tasks[t].candidates
      PROVE  <<t, i>> \in Reported
  <2>1. <<t, i>> \in {t} \X DOMAIN tasks[t].candidates
    OBVIOUS
  <2>  QED
    BY <2>1 DEF Reported
<1>  QED
  BY <1>1, <1>2 DEF CandidateAt

\* Companies that nobody tells of are lost, or a request is about to tell of
\* them; every such request has an active task of its own, and so has every
\* lost company a task that lost its request.
LEMMA UntoldAreCounted ==
  ASSUME DInv
  PROVE  Cardinality(Untold) <= Cardinality(ActiveTasks)
<1> DEFINE Carried == {searches[r].company : r \in Pending}
           Holding == {searches[r].task : r \in Pending}
<1>1. DShape /\ DiscoveryTypes /\ Cardinality(Lost) <= Cardinality(Orphans)
  BY DEF DInv, DShape
<1>2. IsFiniteSet(ActiveTasks) /\ IsFiniteSet(Lost) /\ IsFiniteSet(Orphans)
  BY <1>1, FinitelyMany
<1>3. Pending \subseteq Served
  BY DEF Pending, Served, TaskStages
<1>4. Holding \subseteq ActiveTasks /\ Holding \cap Orphans = {}
  <2>1. \A r \in Served : searches[r].task \in ActiveTasks
    BY <1>1 DEF DShape, SearchOK, Served, ActiveTasks, TaskOf
  <2>2. \A r \in Served : searches[r].task \notin Orphans
    BY DEF Orphans
  <2>  QED
    BY <1>3, <2>1, <2>2
<1>5. Orphans \subseteq ActiveTasks
  BY DEF Orphans
<1>6. Untold \subseteq Lost \union Carried
  <2> SUFFICES ASSUME NEW c \in Untold, c \notin Carried PROVE c \in Lost
    OBVIOUS
  <2>1. c \in Unclaimed
    <3>1. c \in DOMAIN companies
      BY DEF Untold
    <3>2. ASSUME NEW t \in DOMAIN tasks, NEW i \in DOMAIN tasks[t].candidates
          PROVE  tasks[t].candidates[i].company # c
      <4>1. <<t, i>> \in Reported /\ CandidateAt(<<t, i>>) = tasks[t].candidates[i]
        BY ReportedIs
      <4>2. CandidateAt(<<t, i>>).company # c
        BY <4>1 DEF Untold
      <4>  QED
        BY <4>1, <4>2
    <3>  QED
      BY <3>1, <3>2 DEF Unclaimed
  <2>2. \A r \in Pending : searches[r].company # c
    OBVIOUS
  <2>  QED
    BY <2>1, <2>2 DEF Lost
<1>7. IsFiniteSet(Holding) /\ IsFiniteSet(Carried) /\ Cardinality(Carried) <= Cardinality(Holding)
  <2> DEFINE by(t) == CHOOSE r \in Pending : searches[r].task = t
             f == [t \in Holding |-> searches[by(t)].company]
  <2>1. IsFiniteSet(Holding)
    BY <1>2, <1>4, FS_Subset
  <2>2. \A r \in Pending : by(searches[r].task) = r
    <3> SUFFICES ASSUME NEW r \in Pending PROVE by(searches[r].task) = r
      OBVIOUS
    <3>1. by(searches[r].task) \in Pending /\ searches[by(searches[r].task)].task = searches[r].task
      OBVIOUS
    <3> HIDE DEF by
    <3>  QED
      BY <1>1, <1>3, <3>1 DEF DShape, ApartOK
  <2> HIDE DEF by
  <2>3. \A t \in Holding : f[t] \in Carried
    BY <2>2
  <2>4. \A c \in Carried : \E t \in Holding : f[t] = c
    BY <2>2
  <2>5. f \in [Holding -> Carried]
    BY <2>3
  <2> HIDE DEF f, Holding, Carried
  <2>6. f \in Surjection(Holding, Carried)
    BY <2>4, <2>5 DEF Surjection
  <2>  QED
    BY <2>1, <2>6, FS_Surjection
<1> HIDE DEF Carried, Holding
<1>8. /\ Cardinality(Untold) <= Cardinality(Lost \union Carried)
      /\ Cardinality(Lost \union Carried) <= Cardinality(Lost) + Cardinality(Carried)
      /\ Cardinality(Untold) \in Nat /\ Cardinality(Lost \union Carried) \in Nat
      /\ Cardinality(Lost) \in Nat /\ Cardinality(Carried) \in Nat
  <2>1. IsFiniteSet(Lost \union Carried)
    BY <1>2, <1>7, FS_Union
  <2>2. IsFiniteSet(Untold) /\ Cardinality(Untold) <= Cardinality(Lost \union Carried)
    BY <1>6, <2>1, FS_Subset
  <2>3. /\ Cardinality(Lost \union Carried) = Cardinality(Lost) + Cardinality(Carried)
             - Cardinality(Lost \cap Carried)
        /\ IsFiniteSet(Lost \cap Carried)
    BY <1>2, <1>7, FS_Union, FS_Intersection
  <2>4. /\ Cardinality(Lost \cap Carried) \in Nat /\ Cardinality(Untold) \in Nat
        /\ Cardinality(Lost \union Carried) \in Nat
        /\ Cardinality(Lost) \in Nat /\ Cardinality(Carried) \in Nat
    BY <1>2, <1>7, <2>1, <2>2, <2>3, FS_CardinalityType
  <2>  QED
    BY <2>2, <2>3, <2>4
<1>9. /\ Cardinality(Orphans) + Cardinality(Holding) <= Cardinality(ActiveTasks)
      /\ Cardinality(Orphans) \in Nat /\ Cardinality(Holding) \in Nat
      /\ Cardinality(ActiveTasks) \in Nat
  <2>1. Orphans \union Holding \subseteq ActiveTasks /\ Orphans \cap Holding = {}
    BY <1>4, <1>5
  <2>2. Cardinality(Orphans \union Holding) <= Cardinality(ActiveTasks)
    BY <1>2, <2>1, FS_Subset
  <2>3. Cardinality(Orphans \union Holding) = Cardinality(Orphans) + Cardinality(Holding)
             - Cardinality(Orphans \cap Holding)
    BY <1>2, <1>7, FS_Union
  <2>4. Cardinality(Orphans \cap Holding) = 0
    BY <2>1, FS_EmptySet
  <2>5. /\ Cardinality(Orphans) \in Nat /\ Cardinality(Holding) \in Nat
        /\ Cardinality(ActiveTasks) \in Nat
    BY <1>2, <1>7, FS_CardinalityType
  <2>  QED
    BY <2>2, <2>3, <2>4, <2>5
<1>10. Cardinality(Carried) <= Cardinality(Holding) /\ Cardinality(Lost) <= Cardinality(Orphans)
  BY <1>1, <1>7
<1>  QED
  BY <1>8, <1>9, <1>10

\* The invariant says what DiscoveriesAddUp does.
LEMMA DiscoveriesFollow ==
  ASSUME DInv
  PROVE  DiscoveriesAddUp
<1>1. DShape /\ DiscoveryTypes
  BY DEF DInv, DShape
<1>2. DiscoveryTypeOK
  <2>1. \A t \in DOMAIN tasks : tasks[t] \in TaskType
    BY <1>1 DEF DiscoveryTypes
  <2>2. \A c \in DOMAIN companies : companies[c] \in CompanyType /\ companies[c].sources # <<>>
    BY <1>1 DEF DiscoveryTypes
  <2>3. \A c \in DOMAIN companies : companies[c].url \in Urls
    BY <2>2 DEF CompanyType
  <2>  QED
    BY <2>1, <2>2, <2>3 DEF DiscoveryTypeOK
<1>3. \A t, u \in ActiveTasks : t # u => tasks[t].prompt # tasks[u].prompt
  BY <1>1 DEF DShape, ApartOK
<1>4. \A t \in DOMAIN tasks \ ActiveTasks : EndedIsSettled(tasks[t])
  BY <1>1 DEF DShape, TaskOK, ActiveTasks
<1>5. ASSUME NEW at \in Reported, NEW bt \in Reported, CandidateAt(at).status = "ingested",
             CandidateAt(bt).status = "ingested", at # bt
      PROVE  CandidateAt(at).company # CandidateAt(bt).company
  <2>1. /\ at[1] \in DOMAIN tasks /\ at[2] \in DOMAIN tasks[at[1]].candidates
        /\ bt[1] \in DOMAIN tasks /\ bt[2] \in DOMAIN tasks[bt[1]].candidates
        /\ CandidateAt(at) = tasks[at[1]].candidates[at[2]]
        /\ CandidateAt(bt) = tasks[bt[1]].candidates[bt[2]]
        /\ <<at[1], at[2]>> # <<bt[1], bt[2]>>
    BY <1>5, ReportedIs
  <2>2. IngestedAt(at[1], at[2]) /\ IngestedAt(bt[1], bt[2])
    BY <1>5, <2>1 DEF IngestedAt
  <2>  QED
    BY <1>1, <2>1, <2>2 DEF DShape, CreatorsOK
<1>6. Cardinality(Untold) <= Cardinality(ActiveTasks)
  BY UntoldAreCounted
<1>  QED
  BY <1>2, <1>3, <1>4, <1>5, <1>6 DEF DiscoveriesAddUp

\* However requests overlap, fail or die: one task of a prompt is active, ended
\* tasks are settled, no company is created twice, and companies that no
\* candidate tells of are no more than the tasks that did not end.
THEOREM DiscoveriesAddUpHolds == DiscoverySpec => []DiscoveriesAddUp
<1>1. DiscoveryInit => DInv
  BY DiscoveryInitOK
<1>2. DInv /\ [DiscoveryNext]_discoveryVars => DInv'
  <2> SUFFICES ASSUME DInv, [DiscoveryNext]_discoveryVars PROVE DInv'
    OBVIOUS
  <2>1. CASE DiscoveryNext
    BY <2>1, DiscoveryStepOK
  <2>2. CASE UNCHANGED discoveryVars
    <3>1. tasks' = tasks /\ companies' = companies /\ searches' = searches
      BY <2>2 DEF discoveryVars
    <3>2. ActiveTasks' = ActiveTasks /\ Served' = Served /\ Pending' = Pending
      BY <3>1 DEF ActiveTasks, Served, Pending
    <3>3. Unclaimed' = Unclaimed
      BY <3>1 DEF Unclaimed
    <3>4. Orphans' = Orphans /\ Lost' = Lost
      BY <3>1, <3>2, <3>3 DEF Orphans, Lost
    <3>5. \A t \in DOMAIN tasks' : TaskOK(tasks[t])'
      <4>1. \A t \in DOMAIN tasks : TaskOK(tasks[t])
        BY DEF DInv, DShape
      <4>  QED
        BY <3>1, <4>1 DEF TaskOK, CandidateOK, EndedIsSettled, Having, IsActive
    <3>6. \A r \in Searchers : SearchOK(r)'
      <4> SUFFICES ASSUME NEW r \in Searchers PROVE SearchOK(r)'
        OBVIOUS
      <4>1. SearchOK(r)
        BY DEF DInv, DShape
      <4>2. searches'[r] = searches[r] /\ TaskOf(r)' = TaskOf(r)
        BY <3>1 DEF TaskOf
      <4>  QED
        BY <3>1, <4>1, <4>2 DEF SearchOK, Having, IsActive
    <3>7. ApartOK' /\ CreatorsOK' /\ DiscoveryTypes'
      <4>1. ApartOK /\ CreatorsOK /\ DiscoveryTypes
        BY DEF DInv, DShape
      <4>2. ApartOK'
        BY <3>1, <3>2, <4>1 DEF ApartOK
      <4>3. CreatorsOK'
        BY <3>1, <3>2, <4>1 DEF CreatorsOK, IngestedAt
      <4>4. DiscoveryTypes'
        BY <3>1, <4>1 DEF DiscoveryTypes
      <4>  QED
        BY <4>2, <4>3, <4>4
    <3>  QED
      BY <3>4, <3>5, <3>6, <3>7 DEF DInv, DShape
  <2>  QED
    BY <2>1, <2>2
<1>3. DInv => DiscoveriesAddUp
  BY DiscoveriesFollow
<1>  QED
  BY <1>1, <1>2, <1>3, PTL DEF DiscoverySpec

==============================================================================
