--------------------------- MODULE ProspectPipeline ---------------------------
(***************************************************************************)
(* One prospect batch from its creation to its last company: the API that  *)
(* queues and requeues it, the reviewer who decides on research claims,    *)
(* and the workers that run it (app/workflows/prospect_batch/workflow.py,  *)
(* execution.py).  Composes the aggregates ProspectJob and ProspectBatch.  *)
(*                                                                         *)
(* A worker takes one action per transaction, in the order of the code:    *)
(* pc is the next transaction.  "beat" is a heartbeat inside the pipeline  *)
(* of a company, after which it goes on at me[w].then.  The services       *)
(* called (research, scoring, contacts, drafts) answer with any of the     *)
(* outcomes the code distinguishes.  A transaction may fail (Raise) or     *)
(* the process may be killed (Crash) before any of its steps.              *)
(***************************************************************************)
EXTENDS ProspectJob, ProspectBatch, Sequences, FiniteSetsExt

CONSTANTS MaxJobs,    \* bound on jobs: the first, and one per retry or resume
          MaxFaults   \* bound on failed transactions and crashes

ASSUME PipelineAssumption == MaxJobs \in Nat \ {0} /\ MaxFaults \in Nat

VARIABLES batch,    \* status of the batch, "absent" before it is created
          started,  \* its started_at is set
          company,  \* its companies
          claims,   \* per company, the claims of the run research_id names:
                    \* "none" without a run, "pending" or "reviewed"
          jobs,     \* its jobs, oldest first
          pc, me,   \* each worker's next step and local variables
          faults    \* failed transactions and crashes so far

vars == <<batch, started, company, claims, jobs, pc, me, faults>>
table == <<batch, started, company, claims>>

\* The steps inside the try of execute, and the other steps of run_once.
CompanySteps == {"validate", "preflight", "researching", "research",
                 "saveresearch", "gate", "reload", "await", "score", "assess",
                 "saveopp", "contact", "discover", "savecontact", "draft",
                 "write", "savedraft", "terminal", "beat"}
BatchSteps == {"load", "startbatch", "next", "unexpected", "done", "finish",
               "finalize"}
QueueSteps == {"recover", "claim", "start", "complete", "failing"}
Labels == CompanySteps \union BatchSteps \union QueueSteps \union {"down"}

Verdicts == [failed : BOOLEAN, code : {"retryable", "final"}]
Verdict(failed, code) == [failed |-> failed, code |-> code]
NoVerdict == Verdict(FALSE, "final")
Findings == {"none", "failed", "partial", "claims", "clear"} \union Decisions

Locals == [job : 0 .. MaxJobs,            \* the job it runs, 0 for none
           todo : SUBSET Companies,       \* active companies still to visit
           known : SUBSET Companies,      \* those with a saved research run
           cur : 0 .. NumCompanies,       \* the company it visits, 0 for none
           then : Labels,                 \* where a heartbeat leads
           verdict : Verdicts,            \* arguments of _terminal
           found : Findings]              \* the last service's answer

NoLocals == [job |-> 0, todo |-> {}, known |-> {}, cur |-> 0,
             then |-> "next", verdict |-> NoVerdict, found |-> "none"]

TypeOK ==
  /\ batch \in BatchStatuses \union {"absent"}
  /\ started \in BOOLEAN
  /\ company \in [Companies -> CompanyRows]
  /\ claims \in [Companies -> {"none", "pending", "reviewed"}]
  /\ jobs \in Seq(JobRows) /\ Len(jobs) <= MaxJobs
  /\ pc \in [Workers -> Labels]
  /\ me \in [Workers -> Locals]
  /\ faults \in 0 .. MaxFaults

Init ==
  /\ batch = "absent" /\ started = FALSE
  /\ company = [c \in Companies |-> QueuedCompany]
  /\ claims = [c \in Companies |-> "none"]
  /\ jobs = <<>>
  /\ pc = [w \in Workers |-> "recover"]
  /\ me = [w \in Workers |-> NoLocals]
  /\ faults = 0

------------------------------------------------------------------------------
(***************************************************************************)
(* The API and the reviewer                                                *)
(***************************************************************************)
ActiveJob == \E j \in DOMAIN jobs : jobs[j].status \in ActiveStatuses

\* The unique index on business_key refuses a second active job; the whole
\* transaction is then rolled back.
AddJob ==
  /\ ~ActiveJob
  /\ Len(jobs) < MaxJobs
  /\ jobs' = Append(jobs, Created)

\* A discovery batch is saved together with its first job.
SubmitBatch ==
  /\ batch = "absent"
  /\ batch' = "pending"
  /\ AddJob
  /\ UNCHANGED <<started, company, claims, pc, me, faults>>

\* A routing batch waits for the start endpoint, which adds the first job
\* (and answers with the latest job when there is one).
CreateRoutingBatch ==
  /\ batch = "absent"
  /\ batch' = "pending"
  /\ UNCHANGED <<started, company, claims, jobs, pc, me, faults>>

StartRoutingBatch ==
  /\ jobs = <<>>
  /\ batch = "pending" /\ ~started
  /\ AddJob
  /\ UNCHANGED <<table, pc, me, faults>>

\* (a mistake: the batch keeps its final status)
RequeueQuietly(c, row) ==
  /\ company' = [company EXCEPT ![c] = row]
  /\ AddJob
  /\ UNCHANGED <<batch, started, claims, pc, me, faults>>

\* queue_for_execution raises without an active company: here one just was.
Requeue(c, row) ==
  /\ company' = [company EXCEPT ![c] = row]
  /\ batch' = "pending"
  /\ AddJob
  /\ UNCHANGED <<started, claims, pc, me, faults>>

RetryCompany(c) ==
  /\ CanRetry(company[c])
  /\ company[c].research => claims[c] # "pending"
  /\ company[c].code = "retryable"
  /\ Requeue(c, RetriedCompany(company[c]))

\* (a mistake: resume does not count the pending claims)
ResumeUnreviewed(c) ==
  /\ CanResume(company[c])
  /\ company[c].research
  /\ Requeue(c, ResumedCompany(company[c]))

ResumeCompany(c) ==
  /\ CanResume(company[c])
  /\ company[c].research
  /\ claims[c] # "pending"
  /\ Requeue(c, ResumedCompany(company[c]))

\* The last pending claim of the run is accepted or rejected.
ReviewClaims(c) ==
  /\ claims[c] = "pending"
  /\ claims' = [claims EXCEPT ![c] = "reviewed"]
  /\ UNCHANGED <<batch, started, company, jobs, pc, me, faults>>

LeaseTick ==
  /\ \E j \in DOMAIN jobs : Aged(jobs[j]) # jobs[j]
  /\ jobs' = [j \in DOMAIN jobs |-> Aged(jobs[j])]
  /\ UNCHANGED <<table, pc, me, faults>>

------------------------------------------------------------------------------
(***************************************************************************)
(* run_once: the queue side of a worker                                    *)
(***************************************************************************)
Job(w) == jobs[me[w].job]
Current(w) == company[me[w].cur]

GoTo(w, label) == pc' = [pc EXCEPT ![w] = label]

Leave(w, label) ==
  /\ GoTo(w, label)
  /\ me' = [me EXCEPT ![w] = NoLocals]

\* Where an exception leads: inside the try of execute to its handler,
\* elsewhere in execute to record_failure, else out of the process.
OnError(w) == CASE pc[w] \in CompanySteps -> "unexpected"
                [] pc[w] \in BatchSteps   -> "failing"
                [] OTHER                  -> "down"

Throw(w) ==
  IF OnError(w) = "down" THEN Leave(w, "down")
  ELSE GoTo(w, OnError(w)) /\ UNCHANGED me

\* recover_stale.  A batch has at most one active job, so at most one
\* expired lease.
RecoverStale(w) ==
  /\ pc[w] = "recover"
  /\ GoTo(w, "claim")
  /\ \/ /\ \A j \in DOMAIN jobs : ~CanRecover(jobs[j])
        /\ UNCHANGED <<batch, company, jobs>>
     \/ \E j \in DOMAIN jobs :
          /\ CanRecover(jobs[j])
          /\ \/ /\ ~HasActive(company)
                /\ jobs' = [jobs EXCEPT ![j] = Reconciled(@)]
                /\ batch' = IF batch \in FinalStatuses THEN batch
                            ELSE FinalStatus(company)
                /\ UNCHANGED company
             \/ /\ HasActive(company)
                /\ jobs' = [jobs EXCEPT ![j] = Recovered(@)]
                /\ IF jobs'[j].status = "pending"
                   THEN /\ company' = RecoveredCompanies(company)
                        /\ batch' = RecoveredStatus(company)
                   ELSE /\ company' = FailedActive(company)
                        /\ batch' = FinalStatus(company')
  /\ UNCHANGED <<started, claims, me, faults>>

Claim(w) ==
  /\ pc[w] = "claim"
  /\ \E j \in DOMAIN jobs :
       /\ CanLease(jobs[j])
       /\ jobs' = [jobs EXCEPT ![j] = Leased(@, w)]
       /\ me' = [me EXCEPT ![w].job = j]
  /\ GoTo(w, "start")
  /\ UNCHANGED <<table, faults>>

ClaimNothing(w) ==
  /\ pc[w] = "claim"
  /\ \A j \in DOMAIN jobs : ~CanLease(jobs[j])
  /\ GoTo(w, "recover")
  /\ UNCHANGED <<table, jobs, me, faults>>

StartJob(w) ==
  /\ pc[w] = "start"
  /\ IF CanStart(Job(w), w)
     THEN /\ jobs' = [jobs EXCEPT ![me[w].job] = Started(@)]
          /\ GoTo(w, "load") /\ UNCHANGED me
     ELSE Throw(w) /\ UNCHANGED jobs
  /\ UNCHANGED <<table, faults>>

\* A heartbeat: renew the lease and go on, or raise.
Heartbeat(w, at, label) ==
  /\ pc[w] = at
  /\ IF Owns(Job(w), w)
     THEN /\ jobs' = [jobs EXCEPT ![me[w].job] = Renewed(@)]
          /\ GoTo(w, label)
     ELSE GoTo(w, OnError(w)) /\ UNCHANGED jobs
  /\ UNCHANGED <<table, faults>>

CompleteJob(w) ==
  /\ pc[w] = "complete"
  /\ IF CanComplete(Job(w), w)
     THEN /\ jobs' = [jobs EXCEPT ![me[w].job] =
                        IF @.status = "completed" THEN @ ELSE Completed(@)]
          /\ Leave(w, "recover")
     ELSE Throw(w) /\ UNCHANGED jobs
  /\ UNCHANGED <<table, faults>>

\* record_failure.
RecordFailure(w) ==
  /\ pc[w] = "failing"
  /\ IF Owns(Job(w), w)
     THEN /\ jobs' = [jobs EXCEPT ![me[w].job] = Retried(@)]
          /\ IF jobs'[me[w].job].status = "pending"
             THEN /\ company' = RecoveredCompanies(company)
                  /\ batch' = RecoveredStatus(company)
             ELSE /\ company' = FailedActive(company)
                  /\ batch' = FinalStatus(company')
          /\ Leave(w, "recover")
     ELSE Throw(w) /\ UNCHANGED <<jobs, company, batch>>
  /\ UNCHANGED <<started, claims, faults>>

------------------------------------------------------------------------------
(***************************************************************************)
(* execute: one pass over the companies of the batch                       *)
(***************************************************************************)
Idle == UNCHANGED <<table, jobs, faults>>

\* The companies to visit, and what is known of each, are read once.
LoadBatch(w) ==
  /\ pc[w] = "load"
  /\ IF HasActive(company)
     THEN /\ GoTo(w, "startbatch")
          /\ me' = [me EXCEPT
               ![w].todo = {c \in Companies : Active(company[c])},
               ![w].known = {c \in Companies : company[c].research}]
     ELSE GoTo(w, "complete") /\ UNCHANGED me
  /\ Idle

StartBatch(w) ==
  /\ pc[w] = "startbatch"
  /\ IF CanStartBatch(batch)
     THEN /\ batch' = "running" /\ started' = TRUE
          /\ GoTo(w, "next") /\ UNCHANGED me
     ELSE Throw(w) /\ UNCHANGED <<batch, started>>
  /\ UNCHANGED <<company, claims, jobs, faults>>

\* The heartbeat before a company, and the choice of its pipeline.
NextCompany(w) ==
  /\ me[w].todo # {}
  /\ LET c == Min(me[w].todo)
     IN  /\ Heartbeat(w, "next", IF c \in me[w].known THEN "reload" ELSE "validate")
         /\ me' = [me EXCEPT ![w].cur = c, ![w].todo = @ \ {c}]

NoMoreCompanies(w) ==
  /\ pc[w] = "next"
  /\ me[w].todo = {}
  /\ GoTo(w, "finish")
  /\ UNCHANGED me /\ Idle

Finish(w) ==
  /\ pc[w] = "finish"
  /\ GoTo(w, IF HasActive(company) THEN "complete" ELSE "finalize")
  /\ UNCHANGED me /\ Idle

Finalize(w) ==
  /\ pc[w] = "finalize"
  /\ IF CanFinalize(company)
     THEN /\ batch' = FinalStatus(company)
          /\ GoTo(w, "complete") /\ UNCHANGED me
     ELSE Throw(w) /\ UNCHANGED batch
  /\ UNCHANGED <<started, company, claims, jobs, faults>>

------------------------------------------------------------------------------
(***************************************************************************)
(* One company: _process_company and _process_after_research               *)
(***************************************************************************)

\* _mutate: save the current company as row.
Save(w, row) ==
  /\ company' = [company EXCEPT ![me[w].cur] = row]
  /\ UNCHANGED <<batch, started, jobs, faults>>

\* A heartbeat inside the pipeline, then label.
BeatThen(w, label) ==
  /\ GoTo(w, "beat")
  /\ me' = [me EXCEPT ![w].then = label]

Beat(w) == Heartbeat(w, "beat", me[w].then) /\ UNCHANGED me

\* _stage and the _notify after it.
EnterStage(w, stage, then) ==
  /\ IF CanMove(Current(w))
     THEN /\ Save(w, MovedTo(Current(w), stage))
          /\ BeatThen(w, then)
     ELSE Throw(w) /\ UNCHANGED <<table, jobs, faults>>
  /\ UNCHANGED claims

\* The step at which a verdict is written.
Judge(w, verdict) ==
  /\ GoTo(w, "terminal")
  /\ me' = [me EXCEPT ![w].verdict = verdict]

Validate(w) == pc[w] = "validate" /\ EnterStage(w, "validating", "preflight")

\* _preflight: the company and its source are fit, or a code to review.
Preflight(w) ==
  /\ pc[w] = "preflight"
  /\ \/ GoTo(w, "researching") /\ UNCHANGED me
     \/ \E code \in {"retryable", "final"} : Judge(w, Verdict(FALSE, code))
  /\ Idle

BeginResearch(w) ==
  pc[w] = "researching" /\ EnterStage(w, "researching", "research")

\* The research workflow raises or saves no run (RESEARCH_FAILED), or saves
\* one: failed, partial without a claim, with claims to review, or clear.
Research(w) ==
  /\ pc[w] = "research"
  /\ \/ Judge(w, Verdict(TRUE, "retryable"))
     \/ \E f \in {"failed", "partial", "claims", "clear"} :
          /\ GoTo(w, "saveresearch")
          /\ me' = [me EXCEPT ![w].found = f]
  /\ Idle

SaveResearch(w) ==
  /\ pc[w] = "saveresearch"
  /\ Save(w, [Current(w) EXCEPT !.research = TRUE])
  /\ claims' = [claims EXCEPT ![me[w].cur] =
                  IF me[w].found = "claims" THEN "pending" ELSE "reviewed"]
  /\ BeatThen(w, "gate")

\* The run is read again: the reviewer may have been quicker.
ResearchGate(w) ==
  /\ pc[w] = "gate"
  /\ CASE me[w].found = "failed"         -> Judge(w, Verdict(TRUE, "retryable"))
       [] claims[me[w].cur] = "pending"  -> GoTo(w, "await") /\ UNCHANGED me
       [] me[w].found = "partial"        -> Judge(w, Verdict(FALSE, "retryable"))
       [] OTHER                          -> GoTo(w, "score") /\ UNCHANGED me
  /\ Idle

\* A company whose run was saved by an earlier execution.
ReloadResearch(w) ==
  /\ pc[w] = "reload"
  /\ GoTo(w, IF claims[me[w].cur] = "pending" THEN "await" ELSE "score")
  /\ UNCHANGED me /\ Idle

AwaitReview(w) ==
  /\ pc[w] = "await"
  /\ Save(w, AwaitingReview(Current(w)))
  /\ GoTo(w, "done")
  /\ UNCHANGED <<claims, me>>

\* Where the qualification decision leads.
Qualify(w, decision) ==
  IF decision = "qualified" THEN "contact" ELSE "terminal"

\* A saved opportunity is not scored again.
Score(w) ==
  /\ pc[w] = "score"
  /\ IF Current(w).opportunity = "none"
     THEN EnterStage(w, "scoring", "assess")
     ELSE /\ GoTo(w, Qualify(w, Current(w).opportunity))
          /\ me' = [me EXCEPT ![w].verdict = Verdict(FALSE, "final")]
          /\ Idle

Assess(w) ==
  /\ pc[w] = "assess"
  /\ \/ \E failed \in BOOLEAN : Judge(w, Verdict(failed, "retryable"))
     \/ \E d \in Decisions \ {"none"} :
          /\ GoTo(w, "saveopp")
          /\ me' = [me EXCEPT ![w].found = d]
  /\ Idle

SaveOpportunity(w) ==
  /\ pc[w] = "saveopp"
  /\ Save(w, [Current(w) EXCEPT !.opportunity = me[w].found])
  /\ GoTo(w, "beat")
  /\ me' = [me EXCEPT ![w].then = Qualify(w, me[w].found),
                      ![w].verdict = Verdict(FALSE, "final")]
  /\ UNCHANGED claims

FindContact(w) ==
  /\ pc[w] = "contact"
  /\ IF Current(w).contact
     THEN GoTo(w, "draft") /\ UNCHANGED me /\ Idle
     ELSE EnterStage(w, "discovering_contact", "discover")

\* Discovery, ingestion and the choice of a decision maker.
Discover(w) ==
  /\ pc[w] = "discover"
  /\ \/ \E failed \in BOOLEAN : Judge(w, Verdict(failed, "retryable"))
     \/ GoTo(w, "savecontact") /\ UNCHANGED me
  /\ Idle

SaveContact(w) ==
  /\ pc[w] = "savecontact"
  /\ Save(w, [Current(w) EXCEPT !.contact = TRUE])
  /\ BeatThen(w, "draft")
  /\ UNCHANGED claims

\* A company whose draft was saved before is only completed.
Draft(w) ==
  /\ pc[w] = "draft"
  /\ IF Current(w).draft
     THEN /\ Save(w, CompletedCompany(Current(w)))
          /\ BeatThen(w, "done")
          /\ UNCHANGED claims
     ELSE EnterStage(w, "generating_draft", "write")

\* No sender, the draft workflow raises, or it declines; or it returns a
\* draft, an existing one for the same context included.
WriteDraft(w) ==
  /\ pc[w] = "write"
  /\ \/ \E failed \in BOOLEAN : Judge(w, Verdict(failed, "retryable"))
     \/ GoTo(w, "savedraft") /\ UNCHANGED me
  /\ Idle

SaveDraft(w) ==
  /\ pc[w] = "savedraft"
  /\ Save(w, CompletedCompany([Current(w) EXCEPT !.draft = TRUE]))
  /\ BeatThen(w, "done")
  /\ UNCHANGED claims

\* _terminal with the verdict of the pipeline, or of the exception handler.
Terminal(w) ==
  /\ pc[w] = "terminal"
  /\ Save(w, IF me[w].verdict.failed
             THEN FailedCompany(Current(w), me[w].verdict.code)
             ELSE NeedingReview(Current(w), me[w].verdict.code))
  /\ GoTo(w, "done")
  /\ UNCHANGED <<claims, me>>

\* (a mistake: the handler logs the exception and goes on)
HandleByLogging(w) ==
  /\ pc[w] = "unexpected"
  /\ GoTo(w, "done")
  /\ UNCHANGED me /\ Idle

HandleUnexpected(w) ==
  /\ pc[w] = "unexpected"
  /\ Save(w, FailedCompany(Current(w), "retryable"))
  /\ GoTo(w, "done")
  /\ UNCHANGED <<claims, me>>

\* The heartbeat after a company, outside the try.
LeaveCompany(w) ==
  /\ Heartbeat(w, "done", "next")
  /\ me' = [me EXCEPT ![w].cur = 0, ![w].then = "next",
                      ![w].verdict = NoVerdict, ![w].found = "none"]

------------------------------------------------------------------------------
(***************************************************************************)
(* Faults, and the specification                                           *)
(***************************************************************************)

\* A transaction fails and is rolled back.
Raise(w) ==
  /\ pc[w] # "down"
  /\ faults < MaxFaults
  /\ faults' = faults + 1
  /\ Throw(w)
  /\ UNCHANGED <<table, jobs>>

\* The process is killed.
Crash(w) ==
  /\ pc[w] # "down"
  /\ faults < MaxFaults
  /\ faults' = faults + 1
  /\ Leave(w, "down")
  /\ UNCHANGED <<table, jobs>>

Restart(w) ==
  /\ pc[w] = "down"
  /\ GoTo(w, "recover")
  /\ UNCHANGED me /\ Idle

QueueStep(w) ==
  \/ RecoverStale(w) \/ Claim(w) \/ ClaimNothing(w) \/ StartJob(w)
  \/ CompleteJob(w) \/ RecordFailure(w) \/ Restart(w)

BatchStep(w) ==
  \/ LoadBatch(w) \/ StartBatch(w) \/ NextCompany(w) \/ NoMoreCompanies(w)
  \/ Finish(w) \/ Finalize(w) \/ HandleUnexpected(w) \/ LeaveCompany(w)

CompanyStep(w) ==
  \/ Validate(w) \/ Preflight(w) \/ BeginResearch(w) \/ Research(w)
  \/ SaveResearch(w) \/ ResearchGate(w) \/ ReloadResearch(w) \/ AwaitReview(w)
  \/ Score(w) \/ Assess(w) \/ SaveOpportunity(w) \/ FindContact(w)
  \/ Discover(w) \/ SaveContact(w) \/ Draft(w) \/ WriteDraft(w)
  \/ SaveDraft(w) \/ Terminal(w) \/ Beat(w)

Run(w) == QueueStep(w) \/ BatchStep(w) \/ CompanyStep(w)

Api == \/ SubmitBatch \/ CreateRoutingBatch \/ StartRoutingBatch
       \/ \E c \in Companies : RetryCompany(c) \/ ResumeCompany(c) \/ ReviewClaims(c)

Next == \/ Api
        \/ LeaseTick
        \/ \E w \in Workers : Run(w) \/ Raise(w) \/ Crash(w)

\* Time passes and a worker runs (every external call has a timeout, and
\* docker restarts the process).  Nothing obliges the user to act.
Fairness == WF_vars(LeaseTick) /\ \A w \in Workers : WF_vars(Run(w))

Spec == Init /\ [][Next]_vars
FairSpec == Spec /\ Fairness
------------------------------------------------------------------------------
(***************************************************************************)
(* Properties                                                              *)
(***************************************************************************)

\* The human gate: no company is scored, contacted or drafted for while a
\* claim of its research run is undecided, whatever crashes, requeues and
\* retries came before (workflow.py: the checks of _pending_claim_count).
EvidenceGate ==
  \A c \in Companies :
    \/ company[c].stage \in {"scoring", "discovering_contact",
                             "generating_draft", "completed"}
    \/ company[c].opportunity # "none"
    => claims[c] = "reviewed"

\* A completed company has a draft, for a selected contact of a qualified
\* opportunity, although these are saved by separate transactions and may
\* stem from different executions.
CompletedIsJustified ==
  \A c \in Companies :
    company[c].status = "completed" =>
      /\ company[c].draft
      /\ company[c].contact
      /\ company[c].opportunity = "qualified"

\* A started batch with a company still to be processed has a job that will
\* process it: no company is left queued or running for good.
NothingWaitsInVain ==
  jobs # <<>> /\ HasActive(company) => ActiveJob

\* The summary status of a batch agrees with its companies once it is
\* final, and it is final once no job is left to change it.
SummaryAgrees ==
  /\ batch \in FinalStatuses => ~HasActive(company) /\ batch = FinalStatus(company)
  /\ jobs # <<>> /\ ~ActiveJob => batch \in FinalStatuses

\* A company is "running" only while some worker holds the batch's job:
\* losing the worker or failing the attempt puts it back in the queue.
RunningUnderLease ==
  (\E c \in Companies : company[c].status = "running")
    => \E j \in DOMAIN jobs : Held(jobs[j])

\* The rows of a batch agree with each other: companies with what was saved
\* for them, the summary with its companies, both with the jobs.
BatchConsistent ==
  TypeOK /\ CompletedIsJustified /\ SummaryAgrees /\ RunningUnderLease

\* A saved research run is never researched again: after a review, a retry
\* or a crash the pipeline goes on from it
\* (docs/reports/D5d1-routing-batch-start-report.md, section 9).
ResearchNotRepeated ==
  [][\A w \in Workers :
       pc[w] = "research" /\ pc'[w] = "saveresearch"
         => ~company[me[w].cur].research]_vars

\* A company waiting for evidence review is left alone, by recoveries and
\* exhausted jobs too, until its last claim is decided
\* (recover_stale_execution: "human-review states stay terminal").
ParkedUntilReviewed ==
  [][\A c \in Companies :
       /\ company[c].stage = "awaiting_evidence_review"
       /\ company'[c] # company[c]
       => claims[c] = "reviewed"]_vars

\* A failed or reviewed company goes back to work only in a transaction
\* that also gives its batch a new job.
ReopenedWithJob ==
  [][\A c \in Companies :
       /\ company[c].status \in {"needs_review", "failed"}
       /\ company'[c] # company[c]
       => company'[c].status = "queued" /\ batch' = "pending"
            /\ Len(jobs') = Len(jobs) + 1]_vars

\* What was found and reviewed is binding for every later step.
ReviewIsBinding == ResearchNotRepeated /\ ParkedUntilReviewed /\ ReopenedWithJob

\* A completed company keeps its status: move_to refuses to move a company
\* out of a terminal status.
CompletedIsFinal ==
  [][\A c \in Companies :
       company[c].status = "completed" => company'[c].status = "completed"]_vars

\* The worker drives its queue as ProspectJobQueue says, with the one fact
\* that module knows of a batch given its meaning: the job's batch has no
\* active company (an earlier job of the batch is done with in any case).
JobTable == [j \in 1 .. MaxJobs |-> IF j <= Len(jobs) THEN jobs[j] ELSE AbsentRow]
Settled == {j \in DOMAIN jobs : j < Len(jobs) \/ ~HasActive(company)}
QueuePc == [w \in Workers |-> IF pc[w] \in CompanySteps \union BatchSteps
                              THEN "execute" ELSE pc[w]]

Queue == INSTANCE ProspectJobQueue WITH
           Jobs <- 1 .. MaxJobs, NoJob <- 0, BusinessKeys <- {"batch"},
           KeyOf <- [j \in 1 .. MaxJobs |-> "batch"],
           job <- JobTable, settled <- Settled, pc <- QueuePc,
           work <- [w \in Workers |-> me[w].job]

ImplementsQueue == Queue!Spec

\* Every company of a started batch reaches a terminal status, crashes and
\* failed transactions notwithstanding (boundedly many: MaxFaults).
EveryBatchSettles ==
  jobs # <<>> /\ HasActive(company) ~> ~HasActive(company)
==============================================================================
