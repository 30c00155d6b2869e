-------------------------- MODULE ImportResolution --------------------------
(***************************************************************************)
(* The entity resolution of one import session: every accepted row is      *)
(* matched to a company and a contact, or makes new ones, or waits for a   *)
(* reviewer (app/workflows/import_resolution/workflow.py), in a background *)
(* job of the queue of ImportProcessingJobs (execution.py beside it).      *)
(*                                                                         *)
(* Rows are 1 .. NRows in file order.  A company or contact made for a row *)
(* has the row's number for an id, and company 0 was there before.  Of a   *)
(* company's columns one is kept, the address of its profile, which stands *)
(* for every optional one: it is not known, or known from some row.  Of    *)
(* the external ids of the source one is kept.  The score of the matcher   *)
(* is left out: without a matching external id it may match any company    *)
(* it has loaded.                                                          *)
(*                                                                         *)
(* A worker loads all companies, contacts and links once and matches the   *)
(* rows against that copy, its index, which it keeps up to date with its   *)
(* own writes only.  index and the tables have one type, so what a row     *)
(* adds is one operator, applied to either.                                *)
(***************************************************************************)
EXTENDS ProspectJob, Sequences, FiniteSets

CONSTANTS NRows,        \* accepted rows of the session
          External,     \* the rows that carry the external id
          WithAddress,  \* the rows that carry an address
          WithContact,  \* the rows that carry contact data
          Clients,      \* concurrent submissions
          MaxJobs,      \* bound on submissions that make a job
          MaxFaults     \* bound on failed transactions and crashes

Rows == 1 .. NRows

ASSUME ResolutionAssumption ==
  /\ NRows \in Nat
  /\ External \subseteq Rows /\ WithAddress \subseteq Rows /\ WithContact \subseteq Rows
  /\ MaxJobs \in Nat /\ MaxFaults \in Nat

VARIABLES resolution,  \* the row of the resolution
          decisions,   \* per row, the decisions on its company and contact
          tables,      \* companies, profiles, identities, contacts, links
          jobs,        \* the session's jobs, oldest first
          pc, me,      \* each worker's next step and local variables
          request,     \* the resolution each submitting client has read
          faults       \* failed transactions and crashes so far

vars == <<resolution, decisions, tables, jobs, pc, me, request, faults>>

None == -1
Old == 0
Companies == {Old} \union Rows
Contacts == Rows

\* The address in a profile: no profile, no address, or that of a row.
Missing == -1
Unknown == 0
Profiles == {Missing, Unknown} \union WithAddress

Tables == [companies : SUBSET Companies, contacts : SUBSET Contacts,
           identity : Companies \union {None},   \* whose the external id is
           profile : [Companies -> Profiles],
           links : SUBSET (Companies \X Contacts)]
NoTables == [companies |-> {}, contacts |-> {}, identity |-> None,
             profile |-> [c \in Companies |-> Missing], links |-> {}]

Automatic == {"auto_create", "auto_merge"}
Kinds == Automatic \union {"none", "review_required", "rejected",
                           "manual_merge", "keep_separate"}
Decisions == [kind : Kinds, entity : Companies \union {None}, reviewed : BOOLEAN]
Decision(kind, entity) == [kind |-> kind, entity |-> entity, reviewed |-> FALSE]
Undecided == Decision("none", None)

\* _resolved_entity_id.
Resolves(d) == d.kind \in Automatic \union {"manual_merge", "keep_separate"}

Done == {"completed", "partial_failed"}
Waiting == {"pending", "running"}

Counters == [processed : 0 .. NRows, created : 0 .. NRows, reused : 0 .. NRows,
             reviews : 0 .. NRows, contactsCreated : 0 .. NRows,
             contactsReused : 0 .. NRows, links : 0 .. NRows, failed : 0 .. NRows]
Zero == [processed |-> 0, created |-> 0, reused |-> 0, reviews |-> 0,
         contactsCreated |-> 0, contactsReused |-> 0, links |-> 0, failed |-> 0]

\* "absent" before the first submission.
Resolutions == [status : {"absent", "failed"} \union Waiting \union Done,
                count : Counters]
Absent == [status |-> "absent", count |-> Zero]

Labels == {"recover", "claim", "start", "load", "loadRest", "row", "beat",
           "complete", "failing", "down"}
Locals == [job : 0 .. MaxJobs, index : Tables, done : SUBSET Rows, after : 0 .. NRows]
NoLocals == [job |-> 0, index |-> NoTables, done |-> {}, after |-> 0]

Requests == [asked : BOOLEAN, read : Resolutions]
NoRequest == [asked |-> FALSE, read |-> Absent]

TypeOK ==
  /\ resolution \in Resolutions
  /\ decisions \in [company : [Rows -> Decisions], contact : [Rows -> Decisions]]
  /\ tables \in Tables
  /\ jobs \in Seq(JobRows) /\ Len(jobs) <= MaxJobs
  /\ pc \in [Workers -> Labels]
  /\ me \in [Workers -> Locals]
  /\ request \in [Clients -> Requests]
  /\ faults \in 0 .. MaxFaults

Init ==
  /\ resolution = Absent
  /\ decisions = [company |-> [r \in Rows |-> Undecided],
                  contact |-> [r \in Rows |-> Undecided]]
  /\ \E identity \in {None, Old}, address \in {Missing, Unknown} :
       tables = [NoTables EXCEPT !.companies = {Old}, !.identity = identity,
                                 !.profile[Old] = address]
  /\ jobs = <<>>
  /\ pc = [w \in Workers |-> "recover"]
  /\ me = [w \in Workers |-> NoLocals]
  /\ request = [k \in Clients |-> NoRequest]
  /\ faults = 0

------------------------------------------------------------------------------
(***************************************************************************)
(* What a row adds to the tables, or to an index                           *)
(***************************************************************************)
\* seen_again and the constructors: a known column is kept.
Filled(address, r) ==
  IF address \in WithAddress THEN address
  ELSE IF r \in WithAddress THEN r ELSE Unknown

\* The company of decision d is made for row r, or seen again in it.
WithCompany(store, r, d) ==
  IF ~Resolves(d) THEN store
  ELSE [store EXCEPT
          !.companies = @ \union {d.entity},
          !.profile[d.entity] = Filled(@, r),
          !.identity = IF r \in External /\ @ = None THEN d.entity ELSE @]

WithPerson(store, d) ==
  IF Resolves(d) THEN [store EXCEPT !.contacts = @ \union {d.entity}] ELSE store

\* (a mistake: only what the matcher decided is linked)
LinkedIfAutomatic(store, company, contact) ==
  IF company.kind \in Automatic /\ contact.kind \in Automatic
  THEN [store EXCEPT !.links = @ \union {<<company.entity, contact.entity>>}]
  ELSE store

\* The company and the contact of a row are linked once both are resolved.
Linked(store, company, contact) ==
  IF Resolves(company) /\ Resolves(contact)
  THEN [store EXCEPT !.links = @ \union {<<company.entity, contact.entity>>}]
  ELSE store

One(condition) == IF condition THEN 1 ELSE 0

\* record_row, and record_review for the counters of a decision under review.
CountRow(count, company, contact, linked) ==
  [count EXCEPT
     !.processed = @ + 1,
     !.created = @ + One(company.kind = "auto_create"),
     !.reused = @ + One(company.kind = "auto_merge"),
     !.reviews = @ + One(company.kind = "review_required"),
     !.contactsCreated = @ + One(contact.kind = "auto_create"),
     !.contactsReused = @ + One(contact.kind = "auto_merge"),
     !.links = @ + One(linked),
     !.failed = @ + One("rejected" \in {company.kind, contact.kind})]

CountCompanyReview(count, kind, linked) ==
  [count EXCEPT
     !.created = @ + One(kind = "keep_separate"),
     !.reused = @ + One(kind = "manual_merge"),
     !.reviews = IF @ = 0 THEN 0 ELSE @ - 1,
     !.links = @ + One(linked)]

CountContactReview(count, kind, linked) ==
  [count EXCEPT
     !.contactsCreated = @ + One(kind = "keep_separate"),
     !.contactsReused = @ + One(kind = "manual_merge"),
     !.links = @ + One(linked)]

------------------------------------------------------------------------------
(***************************************************************************)
(* The matcher: what it may decide of row r, given an index                *)
(***************************************************************************)
CompanyMatches(r, index) ==
  IF r \in External /\ index.identity # None
  THEN {Decision("auto_merge", index.identity)}
  ELSE {Decision("auto_create", r), Decision("rejected", None)}
       \union {Decision(kind, c) : kind \in {"auto_merge", "review_required"},
                                   c \in index.companies}

\* By email or profile any contact; by name those of the row's company.
ContactMatches(r, company, index) ==
  IF r \notin WithContact THEN {Undecided}
  ELSE {Decision("auto_create", r), Decision("rejected", None)}
       \union {Decision("auto_merge", p) : p \in index.contacts}
       \union {Decision("review_required", p) :
                 p \in {q \in Contacts : /\ Resolves(company)
                                         /\ <<company.entity, q>> \in index.links}}

Resolved(index, r, company, contact) ==
  Linked(WithPerson(WithCompany(index, r, company), contact), company, contact)

AddedTwice(old, new) ==
  \/ new.identity # old.identity /\ tables.identity # None
  \/ \E c \in Companies : /\ old.profile[c] = Missing /\ new.profile[c] # Missing
                          /\ tables.profile[c] # Missing
  \/ (new.links \ old.links) \cap tables.links # {}

\* (a mistake: the decisions of a row are not unique)
CollidesInTables(r, old, new) == AddedTwice(old, new)

\* The inserts that the unique constraints and primary keys refuse: the
\* index did not show what somebody else had inserted.
Collides(r, old, new) == AddedTwice(old, new) \/ decisions.company[r] # Undecided

\* The index goes to the tables: inserts, and _flush_index_changes, which
\* writes the profile of a touched company with all its columns.
Flushed(old, new, company) ==
  [companies |-> tables.companies \union (new.companies \ old.companies),
   contacts |-> tables.contacts \union (new.contacts \ old.contacts),
   identity |-> IF new.identity # old.identity THEN new.identity ELSE tables.identity,
   profile |-> IF Resolves(company)
               THEN [tables.profile EXCEPT ![company.entity] = new.profile[company.entity]]
               ELSE tables.profile,
   links |-> tables.links \union (new.links \ old.links)]

------------------------------------------------------------------------------
(***************************************************************************)
(* The API                                                                 *)
(***************************************************************************)
\* submit: the resolution is read without a lock.  One that is waiting or
\* done is answered with its latest job.
ReadResolution(k) ==
  /\ ~request[k].asked
  /\ resolution.status \in {"absent", "failed"}
  /\ request' = [request EXCEPT ![k] = [asked |-> TRUE, read |-> resolution]]
  /\ UNCHANGED <<resolution, decisions, tables, jobs, pc, me, faults>>

ActiveJob == \E j \in DOMAIN jobs : jobs[j].status \in ActiveStatuses

\* The insert of a second resolution, or of a second active job, fails.
Insertable(k) ==
  /\ ~ActiveJob
  /\ request[k].read = Absent => resolution = Absent

\* The resolution as it was read is written back, with a new status; its
\* job goes in with it.
Submit(k) ==
  /\ request[k].asked /\ Insertable(k)
  /\ Len(jobs) < MaxJobs
  /\ resolution' = [request[k].read EXCEPT !.status = "pending"]
  /\ jobs' = Append(jobs, Created)
  /\ request' = [request EXCEPT ![k] = NoRequest]
  /\ UNCHANGED <<decisions, tables, pc, me, faults>>

RefuseSubmission(k) ==
  /\ request[k].asked /\ ~Insertable(k)
  /\ request' = [request EXCEPT ![k] = NoRequest]
  /\ UNCHANGED <<resolution, decisions, tables, jobs, pc, me, faults>>

\* (a mistake: a merge overlooks that the external id is another company's)
MayMergeAnyway(r, d) == TRUE

\* _merge_company refuses, and the unique constraint refuses a new company
\* with an external id that has one.
MayReview(r, d) ==
  Resolves(d) /\ r \in External => tables.identity \in {None, d.entity}

Reviewed(d, kind, entity) == [kind |-> kind, entity |-> entity, reviewed |-> TRUE]

\* The three actions on a pending decision; to defer is to do nothing.
Reviews(r, d) ==
  {Reviewed(d, "manual_merge", d.entity), Reviewed(d, "keep_separate", r),
   Reviewed(d, "rejected", None)}

\* review: the decision, then the resolution, is locked, which the worker
\* keeps locked for a batch; the status of the resolution is not looked at.
ReviewCompany(r) ==
  /\ decisions.company[r].kind = "review_required"
  /\ \E d \in Reviews(r, decisions.company[r]) :
       /\ MayReview(r, d)
       /\ decisions' = [decisions EXCEPT !.company[r] = d]
       /\ tables' = Linked(WithCompany(tables, r, d), d, decisions.contact[r])
       /\ resolution' = [resolution EXCEPT !.count =
            CountCompanyReview(@, d.kind, tables'.links # tables.links)]
  /\ UNCHANGED <<jobs, pc, me, request, faults>>

ReviewContact(r) ==
  /\ decisions.contact[r].kind = "review_required"
  /\ \E d \in Reviews(r, decisions.contact[r]) :
       /\ decisions' = [decisions EXCEPT !.contact[r] = d]
       /\ tables' = Linked(WithPerson(tables, d), decisions.company[r], d)
       /\ resolution' = [resolution EXCEPT !.count =
            CountContactReview(@, d.kind, tables'.links # tables.links)]
  /\ UNCHANGED <<jobs, pc, me, request, faults>>

LeaseTick ==
  /\ \E j \in DOMAIN jobs : Aged(jobs[j]) # jobs[j]
  /\ jobs' = [j \in DOMAIN jobs |-> Aged(jobs[j])]
  /\ UNCHANGED <<resolution, decisions, tables, pc, me, request, faults>>

------------------------------------------------------------------------------
(***************************************************************************)
(* The worker: run_once, and execute                                       *)
(***************************************************************************)
Job(w) == jobs[me[w].job]
GoTo(w, label) == pc' = [pc EXCEPT ![w] = label]
Leave(w, label) ==
  /\ GoTo(w, label)
  /\ me' = [me EXCEPT ![w] = NoLocals]

\* execute runs inside the try of run_once; an exception elsewhere ends
\* the process.
Throw(w) ==
  IF pc[w] \in {"load", "loadRest", "row", "beat"}
  THEN GoTo(w, "failing") /\ UNCHANGED me
  ELSE Leave(w, "down")

SetStatus(status) == resolution' = [resolution EXCEPT !.status = status]

\* pause_for_retry, and fail, which refuses no status.
Pause == SetStatus(IF resolution.status = "running" THEN "pending" ELSE resolution.status)
Fail == SetStatus("failed")

Stale == {j \in DOMAIN jobs : CanRecover(jobs[j])}
RecoverAll(Recover(_)) ==
  jobs' = [j \in DOMAIN jobs |-> IF j \in Stale THEN Recover(jobs[j]) ELSE jobs[j]]

\* recover_stale; at most one job of the session is active.
RecoverStale(w) ==
  /\ pc[w] = "recover"
  /\ IF resolution.status \in Done
     THEN RecoverAll(Reconciled) /\ UNCHANGED resolution
     ELSE /\ RecoverAll(Recovered)
          /\ CASE Stale = {} -> UNCHANGED resolution
               [] \E j \in Stale : jobs'[j].status = "failed" -> Fail
               [] OTHER -> Pause
  /\ GoTo(w, "claim")
  /\ UNCHANGED <<decisions, tables, me, request, faults>>

Claim(w) ==
  /\ pc[w] = "claim"
  /\ \E j \in DOMAIN jobs :
       /\ CanLease(jobs[j])
       /\ jobs' = [jobs EXCEPT ![j] = Leased(@, w)]
       /\ me' = [me EXCEPT ![w].job = j]
  /\ GoTo(w, "start")
  /\ UNCHANGED <<resolution, decisions, tables, request, faults>>

ClaimNothing(w) ==
  /\ pc[w] = "claim"
  /\ \A j \in DOMAIN jobs : ~CanLease(jobs[j])
  /\ GoTo(w, "recover")
  /\ UNCHANGED <<resolution, decisions, tables, jobs, me, request, faults>>

StartJob(w) ==
  /\ pc[w] = "start"
  /\ IF CanStart(Job(w), w)
     THEN /\ jobs' = [jobs EXCEPT ![me[w].job] = Started(@)]
          /\ GoTo(w, "load") /\ UNCHANGED me
     ELSE Throw(w) /\ UNCHANGED jobs
  /\ UNCHANGED <<resolution, decisions, tables, request, faults>>

\* _load_index: without a lock, one table after the other.
LoadCompanies(w) ==
  /\ pc[w] = "load"
  /\ me' = [me EXCEPT ![w].index.companies = tables.companies]
  /\ GoTo(w, "loadRest")
  /\ UNCHANGED <<resolution, decisions, tables, jobs, request, faults>>

LoadRest(w) ==
  /\ pc[w] = "loadRest"
  /\ me' = [me EXCEPT
       ![w].index = [tables EXCEPT !.companies = me[w].index.companies],
       ![w].done = {r \in Rows : decisions.company[r] # Undecided}]
  /\ GoTo(w, "row")
  /\ UNCHANGED <<resolution, decisions, tables, jobs, request, faults>>

\* A batch of the loop of execute starts: return, or raise.
ReturnDone(w) ==
  /\ pc[w] = "row" /\ resolution.status \in Done
  /\ GoTo(w, "complete")
  /\ UNCHANGED <<resolution, decisions, tables, jobs, me, request, faults>>

RefuseFailed(w) ==
  /\ pc[w] = "row" /\ resolution.status = "failed"
  /\ Throw(w)
  /\ UNCHANGED <<resolution, decisions, tables, jobs, request, faults>>

\* No rows are left.
FinishResolution(w) ==
  /\ pc[w] = "row" /\ resolution.status \in Waiting
  /\ me[w].after = NRows
  /\ SetStatus(IF resolution.count.failed > 0 THEN "partial_failed" ELSE "completed")
  /\ GoTo(w, "complete")
  /\ UNCHANGED <<decisions, tables, jobs, me, request, faults>>

\* The batch goes on, or ends and the heartbeat follows.  The rows of one
\* batch are committed together and the resolution is locked meanwhile: of
\* the behaviours in which they go one by one, a longer batch has those in
\* which nobody steps in between.
NextRow(w) == \E label \in {"row", "beat"} : GoTo(w, label)

\* A row that had its decisions when the worker started.
SkipRow(w) ==
  /\ pc[w] = "row" /\ resolution.status \in Waiting
  /\ me[w].after < NRows
  /\ me[w].after + 1 \in me[w].done
  /\ SetStatus("running")
  /\ me' = [me EXCEPT ![w].after = @ + 1]
  /\ NextRow(w)
  /\ UNCHANGED <<decisions, tables, jobs, request, faults>>

\* (a mistake: a row that collides is passed over)
PassOver(w) == me' = [me EXCEPT ![w].after = @ + 1] /\ GoTo(w, "row")

\* The insert raises, or the index lacks the company.
AbortRow(w) == Throw(w)

\* _resolve_row, and the commit of its batch.
ResolveRow(w) ==
  /\ pc[w] = "row" /\ resolution.status \in Waiting
  /\ me[w].after < NRows
  /\ LET r == me[w].after + 1
         old == me[w].index
     IN  /\ r \notin me[w].done
         /\ \E company \in CompanyMatches(r, old) :
            \E contact \in ContactMatches(r, company, old) :
              LET new == Resolved(old, r, company, contact)
              IN  IF \/ Collides(r, old, new)
                     \/ company.kind = "auto_merge" /\ company.entity \notin old.companies
                  THEN AbortRow(w) /\ UNCHANGED <<resolution, decisions, tables>>
                  ELSE /\ decisions' = [decisions EXCEPT !.company[r] = company,
                                                         !.contact[r] = contact]
                       /\ tables' = Flushed(old, new, company)
                       /\ resolution' =
                            [status |-> "running",
                             count |-> CountRow(resolution.count, company, contact,
                                                new.links # old.links)]
                       /\ me' = [me EXCEPT ![w].index = new, ![w].after = r,
                                           ![w].done = @ \union {r}]
                       /\ NextRow(w)
  /\ UNCHANGED <<jobs, request, faults>>

Beat(w) ==
  /\ pc[w] = "beat"
  /\ IF Owns(Job(w), w)
     THEN /\ jobs' = [jobs EXCEPT ![me[w].job] = Renewed(@)]
          /\ GoTo(w, "row") /\ UNCHANGED me
     ELSE Throw(w) /\ UNCHANGED jobs
  /\ UNCHANGED <<resolution, decisions, tables, request, faults>>

CompleteJob(w) ==
  /\ pc[w] = "complete"
  /\ IF CanComplete(Job(w), w)
     THEN /\ jobs' = [jobs EXCEPT ![me[w].job] =
                        IF @.status = "completed" THEN @ ELSE Completed(@)]
          /\ Leave(w, "recover")
     ELSE Throw(w) /\ UNCHANGED jobs
  /\ UNCHANGED <<resolution, decisions, tables, request, faults>>

\* record_failure: the resolution fails with the job, whatever its status.
RecordFailure(w) ==
  /\ pc[w] = "failing"
  /\ IF Owns(Job(w), w)
     THEN /\ jobs' = [jobs EXCEPT ![me[w].job] = Retried(@)]
          /\ IF jobs'[me[w].job].status = "pending" THEN Pause ELSE Fail
          /\ Leave(w, "recover")
     ELSE Throw(w) /\ UNCHANGED <<jobs, resolution>>
  /\ UNCHANGED <<decisions, tables, request, faults>>

\* A transaction fails and is rolled back.
Raise(w) ==
  /\ pc[w] # "down" /\ faults < MaxFaults
  /\ faults' = faults + 1
  /\ Throw(w)
  /\ UNCHANGED <<resolution, decisions, tables, jobs, request>>

\* The process is killed.
Crash(w) ==
  /\ pc[w] # "down" /\ faults < MaxFaults
  /\ faults' = faults + 1
  /\ Leave(w, "down")
  /\ UNCHANGED <<resolution, decisions, tables, jobs, request>>

Restart(w) ==
  /\ pc[w] = "down"
  /\ GoTo(w, "recover")
  /\ UNCHANGED <<resolution, decisions, tables, jobs, me, request, faults>>

Work(w) ==
  \/ RecoverStale(w) \/ Claim(w) \/ ClaimNothing(w) \/ StartJob(w)
  \/ LoadCompanies(w) \/ LoadRest(w) \/ ReturnDone(w) \/ RefuseFailed(w)
  \/ FinishResolution(w) \/ SkipRow(w) \/ ResolveRow(w) \/ Beat(w)
  \/ CompleteJob(w) \/ RecordFailure(w) \/ Restart(w)

Next == \/ LeaseTick
        \/ \E k \in Clients : ReadResolution(k) \/ Submit(k) \/ RefuseSubmission(k)
        \/ \E r \in Rows : ReviewCompany(r) \/ ReviewContact(r)
        \/ \E w \in Workers : Work(w) \/ Raise(w) \/ Crash(w)

\* Time passes and the worker runs; nothing obliges a client or a reviewer.
Fairness == WF_vars(LeaseTick) /\ \A w \in Workers : WF_vars(Work(w))

Spec == Init /\ [][Next]_vars
FairSpec == Spec /\ Fairness
------------------------------------------------------------------------------
(***************************************************************************)
(* Properties                                                              *)
(***************************************************************************)
Count(type, kinds) == Cardinality({r \in Rows : decisions[type][r].kind \in kinds})

\* The counters of the resolution are those of its rows' decisions: each
\* row was counted once, in whichever attempt it was resolved, and moved
\* from one counter to another when it was reviewed (ImportResolution,
\* record_row and record_review).
CountersAgree ==
  LET rejected(type) ==
        {r \in Rows : decisions[type][r] = Decision("rejected", None)}
  IN  resolution.count =
        [processed |-> Count("company", Kinds \ {"none"}),
         created |-> Count("company", {"auto_create", "keep_separate"}),
         reused |-> Count("company", {"auto_merge", "manual_merge"}),
         reviews |-> Count("company", {"review_required"}),
         contactsCreated |-> Count("contact", {"auto_create", "keep_separate"}),
         contactsReused |-> Count("contact", {"auto_merge", "manual_merge"}),
         links |-> Cardinality(tables.links),
         failed |-> Cardinality(rejected("company") \union rejected("contact"))]

\* A company and a contact that one row was resolved to are linked, whoever
\* resolved them and in whichever order (_link_contact, _link_after_review).
ResolvedPairsAreLinked ==
  \A r \in Rows :
    Resolves(decisions.company[r]) /\ Resolves(decisions.contact[r]) =>
      <<decisions.company[r].entity, decisions.contact[r].entity>> \in tables.links

\* Rows with the same external id are resolved to the company that has it,
\* though the worker matches against a copy of the identities and reviewers
\* decide beside it (matcher.py: an external identity matches first).
ExternalIdIsDecisive ==
  \A r \in External :
    Resolves(decisions.company[r]) => decisions.company[r].entity = tables.identity

\* A resolution is done only when every row has its decisions.
DoneIsWhole ==
  resolution.status \in Done => \A r \in Rows : decisions.company[r] # Undecided

\* The rows of a session, its decisions and its counters as a whole.
ResultIsWhole == TypeOK /\ CountersAgree /\ DoneIsWhole

\* A row is decided once, by whichever worker, and a decision changes only
\* once more, from pending to reviewed.
DecidedOnce ==
  [][\A type \in {"company", "contact"}, r \in Rows :
       LET old == decisions[type][r]
           new == decisions'[type][r]
       IN  new # old => \/ old = Undecided
                        \/ old.kind = "review_required" /\ new.reviewed]_vars

\* The session's jobs keep the promises of JobLease, though each submission
\* adds one and recovery completes the jobs of a resolution that is done
\* (import_resolution/execution.py).
Lease == INSTANCE JobLease WITH
           Jobs   <- 1 .. MaxJobs,
           phase  <- [j \in 1 .. MaxJobs |-> PhaseOf(RowIn(jobs, j))],
           holder <- [j \in 1 .. MaxJobs |-> RowIn(jobs, j).owner],
           tries  <- [j \in 1 .. MaxJobs |-> RowIn(jobs, j).attempts]

ImplementsJobLease == Lease!Spec

\* The report on reviews (D5e2g1-entity-review-semantics-audit.md, section
\* 5): what is written to a company's profile is only added to.
ProfilesOnlyGrow ==
  [][\A c \in Companies :
       tables.profile[c] \in WithAddress => tables'.profile[c] = tables.profile[c]]_vars

\* Every submitted resolution ends, completed or failed.
ResolutionSettles ==
  resolution.status \in Waiting ~> resolution.status \in Done \union {"failed"}
==============================================================================
