------------------------ MODULE ProspectPipeline_proofs ------------------------
(***************************************************************************)
(* Theorems about ProspectPipeline: its types for any number of workers,   *)
(* and, for one worker process as every compose file of the repository     *)
(* starts it, everything the runs check of its safety.                     *)
(*                                                                         *)
(* The inductive invariant has three parts.  TInv types the state and says *)
(* what a worker has at each step: a job, a company, a decision to save.   *)
(* GInv says what has been decided before a worker is where it is: the     *)
(* promises its next step relies on about the row and the claims of the    *)
(* company it visits, although both were read in earlier transactions.     *)
(* JInv ties the last job, the batch status and the companies together.    *)
(* Two workers on one batch (one of them after its lease expired) keep     *)
(* TInv only: they save over each other's companies.                       *)
(*                                                                         *)
(* The two rules the steps of a company apply are at the end: what makes   *)
(* it qualify (OpportunityScore, OInv) and whom to write to there          *)
(* (DecisionMaker, MInv), for any evidence and any number of contacts.     *)
(***************************************************************************)
EXTENDS ProspectPipeline, OpportunityScore, DecisionMaker, ProspectJob_proofs, Order_proofs,
        SequenceTheorems

(***************************************************************************)
(* Types                                                                   *)
(***************************************************************************)

\* The labels at which a worker has a job, and those with a company.
Working == Labels \ {"recover", "claim", "down"}
Visiting == CompanySteps \union {"unexpected"}
AfterBeat == (CompanySteps \ {"beat", "saveopp"}) \union {"done"}
HasCurrent == Visiting \union {"done"}

\* Rows and workers: a worker at a step has what the step needs.
RowsOK == jobs \in Seq(JobRows) /\ \A j \in DOMAIN jobs : RowConsistent(jobs[j])

WorkersOK ==
  \A w \in Workers :
    /\ pc[w] \in Working => me[w].job \in DOMAIN jobs
    /\ pc[w] \in HasCurrent => me[w].cur \in Companies
    /\ pc[w] = "saveopp" => me[w].found \in Decisions
    /\ pc[w] = "beat" => me[w].then \in AfterBeat

TInv == TypeOK /\ RowsOK /\ WorkersOK

\* The minimum of a set of companies is one of them.
LEMMA MinIn ==
  ASSUME NEW S \in SUBSET Companies, S # {}
  PROVE  Min(S) \in S
<1>1. S \subseteq 1 .. 5
  BY BatchAssumption DEF Companies, MaxBatchCompanies
<1>2. \E x \in S : \A y \in S : x <= y
  <2>1. CASE 1 \in S
    BY <1>1, <2>1
  <2>2. CASE 1 \notin S /\ 2 \in S
    BY <1>1, <2>2
  <2>3. CASE 1 \notin S /\ 2 \notin S /\ 3 \in S
    BY <1>1, <2>3
  <2>4. CASE 1 \notin S /\ 2 \notin S /\ 3 \notin S /\ 4 \in S
    BY <1>1, <2>4
  <2>5. CASE 1 \notin S /\ 2 \notin S /\ 3 \notin S /\ 4 \notin S
    <3>1. \A x \in S : x = 5
      BY <1>1, <2>5
    <3>  QED
      BY <3>1
  <2>  QED
    BY <2>1, <2>2, <2>3, <2>4, <2>5
<1>  QED
  BY <1>2 DEF Min

\* What the methods of a company make of its row.
LEMMA RowMethods ==
  ASSUME NEW r \in CompanyRows
  PROVE  /\ \A s \in Stages : MovedTo(r, s) \in CompanyRows
         /\ CompletedCompany(r) \in CompanyRows
         /\ AwaitingReview(r) \in CompanyRows
         /\ \A k \in Codes : /\ NeedingReview(r, k) \in CompanyRows
                             /\ FailedCompany(r, k) \in CompanyRows
         /\ RetriedCompany(r) \in CompanyRows
         /\ RequeuedCompany(r) \in CompanyRows
         /\ ResumedCompany(r) \in CompanyRows
<1> DEFINE To(s, t, k) == [[[r EXCEPT !.stage = s] EXCEPT !.status = t] EXCEPT !.code = k]
<1>1. ASSUME NEW s \in Stages, NEW t \in CompanyStatuses, NEW k \in Codes
      PROVE  To(s, t, k) \in CompanyRows
  BY DEF CompanyRows
<1>2. /\ \A s \in Stages : MovedTo(r, s) = To(s, "running", "none")
      /\ CompletedCompany(r) = To("completed", "completed", "none")
      /\ AwaitingReview(r) = To("awaiting_evidence_review", "needs_review",
                                "EVIDENCE_REVIEW_REQUIRED")
      /\ \A k : /\ NeedingReview(r, k) = To("needs_review", "needs_review", k)
                /\ FailedCompany(r, k) = To("failed", "failed", k)
      /\ RetriedCompany(r) = To("queued", "queued", "none")
      /\ ResumedCompany(r) = To("scoring", "queued", "none")
  BY DEF MovedTo, CompletedCompany, AwaitingReview, NeedingReview,
     FailedCompany, RetriedCompany, ResumedCompany
<1> HIDE DEF To
<1>3. /\ {"queued", "awaiting_evidence_review", "completed", "needs_review",
          "failed", "scoring"} \subseteq Stages
      /\ {"queued", "running", "completed", "needs_review", "failed"} \subseteq CompanyStatuses
      /\ {"none", "EVIDENCE_REVIEW_REQUIRED"} \subseteq Codes
  BY DEF Stages, RunningStages, CompanyStatuses, TerminalCompany, Codes
<1>  QED
  BY <1>1, <1>2, <1>3 DEF RequeuedCompany

\* What recovery, exhaustion and finalization make of a whole batch.
LEMMA AllMethods ==
  ASSUME NEW cs \in [Companies -> CompanyRows]
  PROVE  /\ RecoveredCompanies(cs) \in [Companies -> CompanyRows]
         /\ FailedActive(cs) \in [Companies -> CompanyRows]
         /\ FinalStatus(cs) \in FinalStatuses
         /\ RecoveredStatus(cs) \in FinalStatuses \union {"pending"}
<1>1. "queued" \in Stages /\ "final" \in Codes
  BY DEF Stages, Codes
<1>2. \A c \in Companies : /\ RequeuedCompany(cs[c]) \in CompanyRows
                           /\ FailedCompany(cs[c], "final") \in CompanyRows
  BY <1>1, RowMethods
<1>  QED
  BY <1>2 DEF RecoveredCompanies, FailedActive, FinalStatus, RecoveredStatus,
     FinalStatuses

\* A consistent row written over another keeps the jobs consistent.
LEMMA UpdateRow ==
  ASSUME RowsOK, NEW j \in DOMAIN jobs, NEW row, RowOK(row),
         jobs' = [jobs EXCEPT ![j] = row]
  PROVE  RowsOK' /\ DOMAIN jobs' = DOMAIN jobs /\ Len(jobs') = Len(jobs)
  BY DEF RowsOK, RowOK

\* The initial state is well typed.
LEMMA InitOK == Init => TInv
<1> SUFFICES ASSUME Init PROVE TInv
  OBVIOUS
<1> USE DEF Init
<1>1. QueuedCompany \in CompanyRows
  BY DEF QueuedCompany, CompanyRows, CompanyStatuses, Stages, Codes, Decisions
<1>2. NoLocals \in Locals
  BY PipelineAssumption, BatchAssumption DEF NoLocals, Locals, Labels, BatchSteps,
    NoVerdict, Verdict, Verdicts, Findings, Companies
<1>3. jobs \in Seq(JobRows) /\ Len(jobs) = 0 /\ DOMAIN jobs = {}
  OBVIOUS
<1>4. TypeOK
  <2>1. jobs \in Seq(JobRows) /\ Len(jobs) <= MaxJobs
    BY <1>3, PipelineAssumption
  <2>2. pc \in [Workers -> Labels] /\ me \in [Workers -> Locals]
    BY <1>2 DEF Labels, QueueSteps
  <2>3. faults \in 0 .. MaxFaults
    BY PipelineAssumption
  <2>  QED
    BY <1>1, <2>1, <2>2, <2>3 DEF TypeOK
<1>  QED
  BY <1>3, <1>4 DEF TInv, RowsOK, WorkersOK, Working, HasCurrent, Visiting, CompanySteps

\* Assigning a local variable leaves the others.
LEMMA SetLocal ==
  ASSUME NEW m \in Locals
  PROVE  /\ \A x \in SUBSET Companies :
              LET n == [m EXCEPT !.todo = x]
              IN  /\ n \in Locals /\ n.todo = x /\ n.job = m.job /\ n.known = m.known
                  /\ n.cur = m.cur /\ n.then = m.then /\ n.found = m.found
         /\ \A x \in 0 .. NumCompanies :
              LET n == [m EXCEPT !.cur = x]
              IN  /\ n \in Locals /\ n.cur = x /\ n.job = m.job /\ n.known = m.known
                  /\ n.todo = m.todo /\ n.then = m.then /\ n.found = m.found
         /\ \A x \in Labels :
              LET n == [m EXCEPT !.then = x]
              IN  /\ n \in Locals /\ n.then = x /\ n.job = m.job /\ n.known = m.known
                  /\ n.todo = m.todo /\ n.cur = m.cur /\ n.found = m.found
         /\ \A x \in Verdicts :
              LET n == [m EXCEPT !.verdict = x]
              IN  /\ n \in Locals /\ n.then = m.then /\ n.job = m.job /\ n.known = m.known
                  /\ n.todo = m.todo /\ n.cur = m.cur /\ n.found = m.found
         /\ \A x \in Findings :
              LET n == [m EXCEPT !.found = x]
              IN  /\ n \in Locals /\ n.found = x /\ n.job = m.job /\ n.known = m.known
                  /\ n.todo = m.todo /\ n.cur = m.cur /\ n.then = m.then
  BY DEF Locals

\* One worker moves to label l with local variables m.
Control == pc \in [Workers -> Labels] /\ me \in [Workers -> Locals] /\ WorkersOK

\* A move keeps the workers' typing if the new step finds what it reads: a
\* job, a company, the decision to save, or the step after a heartbeat.
LEMMA MoveOK ==
  ASSUME TInv, NEW w \in Workers, NEW l \in Labels, NEW m \in Locals,
         pc' = [pc EXCEPT ![w] = l], me' = [me EXCEPT ![w] = m],
         DOMAIN jobs' = DOMAIN jobs,
         l \in Working => m.job \in DOMAIN jobs,
         l \in HasCurrent => m.cur \in Companies,
         l = "saveopp" => m.found \in Decisions,
         l = "beat" => m.then \in AfterBeat
  PROVE  Control'
  BY DEF TInv, TypeOK, WorkersOK, Control

\* So does a move with the same local variables, from a step that had them.
LEMMA StayOK ==
  ASSUME TInv, NEW w \in Workers, NEW l \in Labels \ {"saveopp", "beat"},
         pc' = [pc EXCEPT ![w] = l], UNCHANGED me,
         DOMAIN jobs' = DOMAIN jobs,
         l \in Working => pc[w] \in Working,
         l \in HasCurrent => pc[w] \in HasCurrent
  PROVE  Control'
  BY DEF TInv, TypeOK, WorkersOK, Control

\* A worker leaves its job.
LEMMA LeaveOK ==
  ASSUME TInv, NEW w \in Workers, NEW l \in {"recover", "down"}, Leave(w, l),
         DOMAIN jobs' = DOMAIN jobs
  PROVE  Control'
<1>1. NoLocals \in Locals
  BY PipelineAssumption, BatchAssumption DEF NoLocals, Locals, Labels, BatchSteps,
    NoVerdict, Verdict, Verdicts, Findings, Companies
<1>2. l \in Labels \ (Working \union HasCurrent)
  BY DEF Labels, QueueSteps, Working, HasCurrent, Visiting, CompanySteps
<1>3. l # "saveopp" /\ l # "beat"
  OBVIOUS
<1>  QED
  BY <1>1, <1>2, <1>3, MoveOK DEF Leave, GoTo

\* It meets an exception.
LEMMA ThrowOK ==
  ASSUME TInv, NEW w \in Workers, Throw(w), DOMAIN jobs' = DOMAIN jobs
  PROVE  Control'
<1>1. CASE OnError(w) = "down"
  BY <1>1, LeaveOK DEF Throw
<1>2. CASE OnError(w) # "down"
  <2>1. /\ OnError(w) \in {"unexpected", "failing"} /\ pc[w] \in Working
        /\ OnError(w) = "unexpected" => pc[w] \in HasCurrent
    BY <1>2 DEF OnError, Working, HasCurrent, Visiting, CompanySteps, BatchSteps, Labels
  <2>2. /\ {"unexpected", "failing"} \subseteq Labels \ {"saveopp", "beat"}
        /\ "failing" \notin HasCurrent
    BY DEF Labels, BatchSteps, QueueSteps, HasCurrent, Visiting, CompanySteps
  <2>3. pc' = [pc EXCEPT ![w] = OnError(w)] /\ UNCHANGED me
    BY <1>2 DEF Throw, GoTo
  <2> HIDE DEF OnError
  <2>  QED
    BY <2>1, <2>2, <2>3, StayOK
<1>  QED
  BY <1>1, <1>2

\* The API, the reviewer and the clock keep the types.
LEMMA ApiTypes ==
  ASSUME TInv, Api \/ LeaseTick
  PROVE  TInv'
<1> USE DEF TInv
<1>1. company' \in [Companies -> CompanyRows]
  <2>1. \A c \in Companies : company[c] \in CompanyRows
    BY DEF TypeOK
  <2>2. \A c \in Companies : /\ RetriedCompany(company[c]) \in CompanyRows
                             /\ ResumedCompany(company[c]) \in CompanyRows
    BY <2>1, RowMethods
  <2>  QED
    BY <2>1, <2>2 DEF TypeOK, Api, LeaseTick, SubmitBatch, CreateRoutingBatch,
       StartRoutingBatch, RetryCompany, ResumeCompany, ReviewClaims, Requeue, table
<1>2. jobs' \in Seq(JobRows) /\ Len(jobs') <= MaxJobs /\ DOMAIN jobs \subseteq DOMAIN jobs'
      /\ \A j \in DOMAIN jobs' : RowConsistent(jobs'[j])
  <2>1. CASE AddJob
    <3>1. Created \in JobRows /\ RowConsistent(Created) /\ Len(jobs) \in Nat /\ MaxJobs \in Nat
      BY CreatedOK, PipelineAssumption DEF RowOK, RowsOK
    <3>2. /\ jobs' \in Seq(JobRows)
          /\ Len(jobs') = Len(jobs) + 1
          /\ \A j \in DOMAIN jobs : jobs'[j] = jobs[j]
          /\ jobs'[Len(jobs) + 1] = Created
          /\ DOMAIN jobs' = 1 .. Len(jobs) + 1 /\ DOMAIN jobs = 1 .. Len(jobs)
      BY <2>1, <3>1 DEF AddJob, RowsOK
    <3>  QED
      BY <2>1, <3>1, <3>2 DEF RowsOK, AddJob
  <2>2. CASE LeaseTick
    <3>1. \A j \in DOMAIN jobs : RowOK(Aged(jobs[j]))
      BY AgedOK DEF RowsOK, RowOK
    <3>  QED
      BY <2>2, <3>1 DEF LeaseTick, RowsOK, RowOK, TypeOK
  <2>3. CASE UNCHANGED jobs
    BY <2>3 DEF RowsOK, TypeOK
  <2>  QED
    BY <2>1, <2>2, <2>3 DEF Api, SubmitBatch, CreateRoutingBatch,
       StartRoutingBatch, RetryCompany, ResumeCompany, ReviewClaims, Requeue
<1>3. /\ UNCHANGED <<pc, me, faults>>
      /\ batch' \in BatchStatuses \union {"absent"}
      /\ started' \in BOOLEAN
      /\ claims' \in [Companies -> {"none", "pending", "reviewed"}]
  BY DEF TypeOK, Api, LeaseTick, SubmitBatch, CreateRoutingBatch, BatchStatuses,
       StartRoutingBatch, RetryCompany, ResumeCompany, ReviewClaims, Requeue, table
<1>4. TypeOK' /\ RowsOK'
  BY <1>1, <1>2, <1>3 DEF TypeOK, RowsOK
<1>  QED
  BY <1>2, <1>3, <1>4 DEF WorkersOK

\* So do the transactions of the queue,
LEMMA QueueTypes ==
  ASSUME TInv, NEW w \in Workers, QueueStep(w)
  PROVE  TInv'
<1> USE DEF TInv
<1>0. /\ me[w] \in Locals /\ NoLocals \in Locals /\ pc[w] \in Labels
      /\ {"recover", "claim", "down"} \subseteq Labels \ (Working \union HasCurrent)
      /\ {"start", "load"} \subseteq Labels \ HasCurrent
      /\ pc[w] \in Working => me[w].job \in DOMAIN jobs
      /\ UNCHANGED <<started, claims, faults>>
  BY PipelineAssumption, BatchAssumption DEF TypeOK, NoLocals, Locals, Labels,
     BatchSteps, QueueSteps, CompanySteps,
    NoVerdict, Verdict, Verdicts, Findings, Companies, Working, HasCurrent, Visiting,
    WorkersOK,
    QueueStep, RecoverStale, Claim, ClaimNothing, StartJob, CompleteJob, RecordFailure,
    Restart, table, Idle
<1>1. ASSUME NEW j \in DOMAIN jobs, NEW row, RowOK(row), jobs' = [jobs EXCEPT ![j] = row]
      PROVE  RowsOK' /\ DOMAIN jobs' = DOMAIN jobs /\ Len(jobs') = Len(jobs)
  BY <1>1, UpdateRow
<1>2. \A j \in DOMAIN jobs : RowOK(jobs[j])
  BY DEF RowsOK, RowOK
<1>3. CASE RecoverStale(w)
  <2>1. RowsOK' /\ DOMAIN jobs' = DOMAIN jobs /\ Len(jobs') = Len(jobs)
    <3>1. CASE UNCHANGED jobs
      BY <3>1 DEF RowsOK
    <3>2. ASSUME NEW j \in DOMAIN jobs, Held(jobs[j]),
                 \/ jobs' = [jobs EXCEPT ![j] = Reconciled(jobs[j])]
                 \/ jobs' = [jobs EXCEPT ![j] = Recovered(jobs[j])]
          PROVE  RowsOK' /\ DOMAIN jobs' = DOMAIN jobs /\ Len(jobs') = Len(jobs)
      BY <1>1, <1>2, <3>2, RecoveredOK
    <3>3. \/ UNCHANGED jobs
          \/ \E j \in DOMAIN jobs :
               /\ Held(jobs[j])
               /\ \/ jobs' = [jobs EXCEPT ![j] = Reconciled(jobs[j])]
                  \/ jobs' = [jobs EXCEPT ![j] = Recovered(jobs[j])]
      BY <1>3 DEF RecoverStale, CanRecover
    <3>  QED
      BY <3>1, <3>2, <3>3
  <2>2. company' \in [Companies -> CompanyRows] /\ batch' \in BatchStatuses \union {"absent"}
    BY <1>3, AllMethods DEF RecoverStale, TypeOK, BatchStatuses, FinalStatuses
  <2>3. pc' = [pc EXCEPT ![w] = "claim"] /\ UNCHANGED <<me, started, claims, faults>>
    BY <1>3 DEF RecoverStale, GoTo
  <2>4. Control'
    BY <1>0, <2>1, <2>3, StayOK
  <2>  QED
    BY <2>1, <2>2, <2>3, <2>4 DEF Control, TypeOK, RowsOK
<1>4. CASE Claim(w)
  <2>1. PICK j \in DOMAIN jobs :
          /\ CanLease(jobs[j])
          /\ jobs' = [jobs EXCEPT ![j] = Leased(jobs[j], w)]
          /\ me' = [me EXCEPT ![w].job = j]
          /\ pc' = [pc EXCEPT ![w] = "start"]
          /\ UNCHANGED <<table, faults>>
    BY <1>4 DEF Claim, GoTo
  <2>2. RowsOK' /\ DOMAIN jobs' = DOMAIN jobs /\ Len(jobs') = Len(jobs)
    BY <1>1, <1>2, <2>1, LeasedOK
  <2>3. j \in 0 .. MaxJobs
    BY PipelineAssumption DEF TypeOK, RowsOK
  <2> DEFINE m == [me[w] EXCEPT !.job = j]
  <2>4. m \in Locals /\ m.job = j
    BY <1>0, <2>3 DEF Locals
  <2>5. me' = [me EXCEPT ![w] = m]
    BY <2>1
  <2> HIDE DEF m
  <2>6. "start" \in Labels /\ "start" \notin HasCurrent
    BY <1>0
  <2>7. Control'
    BY <2>1, <2>2, <2>4, <2>5, <2>6, MoveOK
  <2>  QED
    BY <2>1, <2>2, <2>7 DEF Control, TypeOK, RowsOK, table
<1>5. CASE ClaimNothing(w) \/ Restart(w)
  <2>1. /\ pc' = [pc EXCEPT ![w] = "recover"]
        /\ UNCHANGED <<me, jobs, table, faults>>
    BY <1>5 DEF ClaimNothing, Restart, GoTo, Idle
  <2>2. Control'
    BY <1>0, <2>1, StayOK
  <2>  QED
    BY <2>1, <2>2 DEF Control, TypeOK, RowsOK, table
<1>6. CASE StartJob(w)
  <2>1. pc[w] \in Working
    BY <1>6 DEF StartJob, Working, Labels, QueueSteps
  <2>2. CASE CanStart(Job(w), w)
    <3>1. /\ jobs' = [jobs EXCEPT ![me[w].job] = Started(jobs[me[w].job])]
          /\ jobs[me[w].job].status = "leased"
          /\ pc' = [pc EXCEPT ![w] = "load"] /\ UNCHANGED me
      BY <1>6, <2>2 DEF StartJob, CanStart, Job, GoTo
    <3>2. RowsOK' /\ DOMAIN jobs' = DOMAIN jobs /\ Len(jobs') = Len(jobs)
      BY <1>0, <1>1, <1>2, <2>1, <3>1, StartedOK
    <3>3. Control'
      BY <1>0, <2>1, <3>1, <3>2, StayOK
    <3>  QED
      BY <1>6, <3>2, <3>3 DEF StartJob, Control, TypeOK, RowsOK, table
  <2>3. CASE ~CanStart(Job(w), w)
    <3>1. Throw(w) /\ UNCHANGED <<jobs, table, faults>>
      BY <1>6, <2>3 DEF StartJob
    <3>2. Control'
      BY <3>1, ThrowOK
    <3>  QED
      BY <3>1, <3>2 DEF Control, TypeOK, RowsOK, table
  <2>  QED
    BY <2>2, <2>3
<1>7. CASE CompleteJob(w)
  <2>1. pc[w] \in Working
    BY <1>7 DEF CompleteJob, Working, Labels, QueueSteps
  <2>2. CASE CanComplete(Job(w), w)
    <3> DEFINE row == IF jobs[me[w].job].status = "completed" THEN jobs[me[w].job]
                      ELSE Completed(jobs[me[w].job])
    <3>1. jobs' = [jobs EXCEPT ![me[w].job] = row] /\ Leave(w, "recover")
      BY <1>7, <2>2 DEF CompleteJob
    <3>2. RowOK(row)
      BY <1>0, <1>2, <2>1, <2>2, CompletedOK DEF CanComplete, Owns, Job
    <3> HIDE DEF row
    <3>3. RowsOK' /\ DOMAIN jobs' = DOMAIN jobs /\ Len(jobs') = Len(jobs)
      BY <1>0, <1>1, <2>1, <3>1, <3>2
    <3>4. Control'
      BY <3>1, <3>3, LeaveOK
    <3>  QED
      BY <1>7, <3>3, <3>4 DEF CompleteJob, Control, TypeOK, RowsOK, table
  <2>3. CASE ~CanComplete(Job(w), w)
    <3>1. Throw(w) /\ UNCHANGED <<jobs, table, faults>>
      BY <1>7, <2>3 DEF CompleteJob
    <3>2. Control'
      BY <3>1, ThrowOK
    <3>  QED
      BY <3>1, <3>2 DEF Control, TypeOK, RowsOK, table
  <2>  QED
    BY <2>2, <2>3
<1>8. CASE RecordFailure(w)
  <2>1. pc[w] \in Working
    BY <1>8 DEF RecordFailure, Working, Labels, QueueSteps
  <2>2. CASE Owns(Job(w), w)
    <3>1. /\ jobs' = [jobs EXCEPT ![me[w].job] = Retried(jobs[me[w].job])]
          /\ Leave(w, "recover")
      BY <1>8, <2>2 DEF RecordFailure
    <3>2. RowsOK' /\ DOMAIN jobs' = DOMAIN jobs /\ Len(jobs') = Len(jobs)
      BY <1>0, <1>1, <1>2, <2>1, <2>2, <3>1, RetriedOK DEF Owns, Job
    <3>3. company' \in [Companies -> CompanyRows] /\ batch' \in BatchStatuses \union {"absent"}
      BY <1>8, <2>2, AllMethods DEF RecordFailure, TypeOK, BatchStatuses, FinalStatuses
    <3>4. Control'
      BY <3>1, <3>2, LeaveOK
    <3>  QED
      BY <1>0, <1>8, <3>2, <3>3, <3>4 DEF Control, TypeOK, RowsOK
  <2>3. CASE ~Owns(Job(w), w)
    <3>1. Throw(w) /\ UNCHANGED <<jobs, table, faults>>
      BY <1>8, <2>3 DEF RecordFailure, table
    <3>2. Control'
      BY <3>1, ThrowOK
    <3>  QED
      BY <3>1, <3>2 DEF Control, TypeOK, RowsOK, table
  <2>  QED
    BY <2>2, <2>3
<1>  QED
  BY <1>3, <1>4, <1>5, <1>6, <1>7, <1>8 DEF QueueStep

\* a heartbeat,
LEMMA HeartbeatTypes ==
  ASSUME TInv, NEW w \in Workers, NEW at \in Working, NEW l \in Labels, Heartbeat(w, at, l)
  PROVE  /\ RowsOK' /\ DOMAIN jobs' = DOMAIN jobs /\ Len(jobs') = Len(jobs)
         /\ pc' = [pc EXCEPT ![w] = l] \/ pc' = [pc EXCEPT ![w] = OnError(w)]
         /\ UNCHANGED <<table, faults>>
<1>1. me[w].job \in DOMAIN jobs
  BY DEF Heartbeat, TInv, WorkersOK
<1>2. CASE Owns(Job(w), w)
  <2>1. RowOK(Renewed(jobs[me[w].job]))
    BY <1>1, <1>2, RenewedOK DEF Owns, Job, TInv, RowsOK, RowOK
  <2>2. jobs' = [jobs EXCEPT ![me[w].job] = Renewed(jobs[me[w].job])]
    BY <1>2 DEF Heartbeat
  <2>  QED
    BY <1>1, <1>2, <2>1, <2>2, UpdateRow DEF Heartbeat, GoTo, TInv
<1>3. CASE ~Owns(Job(w), w)
  BY <1>3 DEF Heartbeat, GoTo, TInv, RowsOK
<1>  QED
  BY <1>2, <1>3

\* and the steps of execute around the companies.
LEMMA BatchTypes ==
  ASSUME TInv, NEW w \in Workers, BatchStep(w)
  PROVE  TInv'
<1> USE DEF TInv
<1>0. me[w] \in Locals /\ pc[w] \in Labels
  BY DEF TypeOK
<1>1. ASSUME Control', UNCHANGED <<table, jobs, faults>>
      PROVE  TInv'
  BY <1>1 DEF Control, TypeOK, RowsOK, table
<1>2. CASE LoadBatch(w)
  <2> DEFINE T == {c \in Companies : Active(company[c])}
             K == {c \in Companies : company[c].research}
             m == [[me[w] EXCEPT !.todo = T] EXCEPT !.known = K]
  <2>1. m \in Locals /\ m.job = me[w].job
    BY <1>0 DEF Locals
  <2>2. \/ pc' = [pc EXCEPT ![w] = "startbatch"] /\ me' = [me EXCEPT ![w] = m]
        \/ pc' = [pc EXCEPT ![w] = "complete"] /\ UNCHANGED me
    BY <1>2 DEF LoadBatch, GoTo
  <2> HIDE DEF m
  <2>3. /\ {"startbatch", "complete"} \subseteq Labels \ HasCurrent
        /\ pc[w] \in Working /\ me[w].job \in DOMAIN jobs
    BY <1>0, <1>2 DEF LoadBatch, Labels, BatchSteps, QueueSteps, HasCurrent, Visiting,
       CompanySteps, Working, WorkersOK
  <2>4. UNCHANGED <<table, jobs, faults>>
    BY <1>2 DEF LoadBatch, Idle
  <2>5. CASE pc' = [pc EXCEPT ![w] = "startbatch"] /\ me' = [me EXCEPT ![w] = m]
    BY <1>1, <2>1, <2>3, <2>4, <2>5, MoveOK
  <2>6. CASE pc' = [pc EXCEPT ![w] = "complete"] /\ UNCHANGED me
    BY <1>1, <2>3, <2>4, <2>6, StayOK
  <2>  QED
    BY <2>2, <2>5, <2>6
<1>3. CASE StartBatch(w) \/ Finalize(w)
  <2>1. CASE Throw(w)
    <3>1. UNCHANGED jobs
      BY <1>3 DEF StartBatch, Finalize
    <3>2. Control'
      BY <2>1, <3>1, ThrowOK
    <3>  QED
      BY <1>3, <3>2, AllMethods DEF StartBatch, Finalize, Control, TypeOK, RowsOK,
         BatchStatuses, FinalStatuses
  <2>2. CASE ~Throw(w)
    <3>1. \E l \in {"next", "complete"} : pc' = [pc EXCEPT ![w] = l] /\ UNCHANGED <<me, jobs>>
      BY <1>3, <2>2 DEF StartBatch, Finalize, GoTo
    <3>2. pc[w] \in Working /\ {"next", "complete"} \subseteq Labels \ HasCurrent
      BY <1>0, <1>3 DEF StartBatch, Finalize, Labels, BatchSteps, QueueSteps,
         HasCurrent, Visiting, CompanySteps, Working
    <3>3. Control'
      BY <3>1, <3>2, StayOK
    <3>  QED
      BY <1>3, <3>3, AllMethods DEF StartBatch, Finalize, Control, TypeOK, RowsOK,
         BatchStatuses, FinalStatuses
  <2>  QED
    BY <2>1, <2>2
<1>4. CASE NextCompany(w)
  <2> DEFINE c == Min(me[w].todo)
             m == [[me[w] EXCEPT !.cur = c] EXCEPT !.todo = @ \ {c}]
             l == IF c \in me[w].known THEN "reload" ELSE "validate"
  <2>1. c \in Companies
    BY <1>0, <1>4, MinIn DEF NextCompany, Locals
  <2>2. Heartbeat(w, "next", l) /\ me' = [me EXCEPT ![w] = m]
    BY <1>4 DEF NextCompany
  <2> HIDE DEF c
  <2>3. m \in Locals /\ m.job = me[w].job /\ m.cur = c
    <3>1. c \in 0 .. NumCompanies /\ me[w].todo \ {c} \in SUBSET Companies
      BY <1>0, <2>1 DEF Locals, Companies
    <3> DEFINE n == [me[w] EXCEPT !.cur = c]
    <3>2. n \in Locals /\ n.job = me[w].job /\ n.cur = c /\ n.todo = me[w].todo
      BY <1>0, <3>1, SetLocal
    <3>3. m = [n EXCEPT !.todo = me[w].todo \ {c}]
      BY <3>2
    <3> HIDE DEF n, m
    <3>  QED
      BY <3>1, <3>2, <3>3, SetLocal
  <2>4. /\ "next" \in Working /\ l \in Labels
        /\ pc[w] = "next" /\ OnError(w) \in Labels \ HasCurrent
        /\ OnError(w) \notin {"saveopp", "beat"} /\ l \notin {"saveopp", "beat"}
    BY <2>2 DEF Heartbeat, Working, Labels, BatchSteps, QueueSteps, CompanySteps,
       OnError, HasCurrent, Visiting
  <2> HIDE DEF m, l
  <2>5. /\ RowsOK' /\ DOMAIN jobs' = DOMAIN jobs /\ Len(jobs') = Len(jobs)
        /\ pc' = [pc EXCEPT ![w] = l] \/ pc' = [pc EXCEPT ![w] = OnError(w)]
        /\ UNCHANGED <<table, faults>>
    BY <2>2, <2>4, HeartbeatTypes
  <2>6. me[w].job \in DOMAIN jobs
    BY <2>4 DEF WorkersOK
  <2> HIDE DEF OnError
  <2>7. Control'
    BY <2>1, <2>2, <2>3, <2>4, <2>5, <2>6, MoveOK
  <2>  QED
    BY <2>5, <2>7 DEF Control, TypeOK, RowsOK, table
<1>5. CASE NoMoreCompanies(w) \/ Finish(w)
  <2>1. \E l \in {"finish", "complete", "finalize"} :
          pc' = [pc EXCEPT ![w] = l] /\ UNCHANGED <<me, jobs, table, faults>>
    BY <1>5 DEF NoMoreCompanies, Finish, GoTo, Idle
  <2>2. /\ {"finish", "complete", "finalize"} \subseteq Labels \ HasCurrent
        /\ pc[w] \in Working
    BY <1>5 DEF NoMoreCompanies, Finish, Labels, BatchSteps, QueueSteps, HasCurrent,
       Visiting, CompanySteps, Working
  <2>3. Control'
    BY <2>1, <2>2, StayOK
  <2>  QED
    BY <1>1, <2>1, <2>3
<1>6. CASE HandleUnexpected(w)
  <2>1. /\ pc' = [pc EXCEPT ![w] = "done"]
        /\ company' = [company EXCEPT ![me[w].cur] = FailedCompany(company[me[w].cur], "retryable")]
        /\ UNCHANGED <<batch, started, claims, jobs, me, faults>>
    BY <1>6 DEF HandleUnexpected, Save, Current, GoTo
  <2>2. "done" \in Labels /\ pc[w] \in Working \intersect HasCurrent
    BY <1>6 DEF HandleUnexpected, Labels, BatchSteps, HasCurrent, Visiting, Working
  <2>3. Control'
    BY <2>1, <2>2, StayOK
  <2>4. me[w].cur \in Companies /\ "retryable" \in Codes
    BY <2>2 DEF WorkersOK, Codes
  <2>5. company' \in [Companies -> CompanyRows]
    BY <2>1, <2>4, RowMethods DEF TypeOK
  <2>  QED
    BY <2>1, <2>3, <2>5 DEF Control, TypeOK, RowsOK
<1>7. CASE LeaveCompany(w)
  <2> DEFINE m == [[[[me[w] EXCEPT !.cur = 0] EXCEPT !.then = "next"]
                     EXCEPT !.verdict = NoVerdict] EXCEPT !.found = "none"]
  <2>1. Heartbeat(w, "done", "next") /\ me' = [me EXCEPT ![w] = m]
    BY <1>7 DEF LeaveCompany
  <2>2. m \in Locals /\ m.job = me[w].job
    <3> DEFINE n1 == [me[w] EXCEPT !.cur = 0]
               n2 == [n1 EXCEPT !.then = "next"]
               n3 == [n2 EXCEPT !.verdict = NoVerdict]
    <3>1. /\ 0 \in 0 .. NumCompanies /\ "next" \in Labels
          /\ NoVerdict \in Verdicts /\ "none" \in Findings
      BY BatchAssumption DEF NoVerdict, Verdict, Verdicts, Findings, Labels, BatchSteps
    <3>2. m = [n3 EXCEPT !.found = "none"]
      OBVIOUS
    <3> HIDE DEF m
    <3>3. n1 \in Locals /\ n1.job = me[w].job
      BY <1>0, <3>1, SetLocal
    <3> HIDE DEF n1
    <3>4. n2 \in Locals /\ n2.job = me[w].job
      BY <3>1, <3>3, SetLocal
    <3> HIDE DEF n2
    <3>5. n3 \in Locals /\ n3.job = me[w].job
      BY <3>1, <3>4, SetLocal
    <3> HIDE DEF n3
    <3>  QED
      BY <3>1, <3>2, <3>5, SetLocal
  <2>3. /\ "done" \in Working /\ "next" \in Labels \ HasCurrent
        /\ pc[w] = "done" /\ OnError(w) \in Labels \ HasCurrent
        /\ OnError(w) \notin {"saveopp", "beat"}
    BY <2>1 DEF Heartbeat, Working, Labels, BatchSteps, QueueSteps, CompanySteps,
       OnError, HasCurrent, Visiting
  <2>4. /\ RowsOK' /\ DOMAIN jobs' = DOMAIN jobs /\ Len(jobs') = Len(jobs)
        /\ pc' = [pc EXCEPT ![w] = "next"] \/ pc' = [pc EXCEPT ![w] = OnError(w)]
        /\ UNCHANGED <<table, faults>>
    BY <2>1, <2>3, HeartbeatTypes
  <2>5. me[w].job \in DOMAIN jobs
    BY <2>3 DEF WorkersOK
  <2> HIDE DEF m, OnError
  <2>6. Control'
    BY <2>1, <2>2, <2>3, <2>4, <2>5, MoveOK
  <2>  QED
    BY <2>4, <2>6 DEF Control, TypeOK, RowsOK, table
<1>  QED
  BY <1>2, <1>3, <1>4, <1>5, <1>6, <1>7 DEF BatchStep

\* Within the pipeline of a company only these local variables change.
Visit(w, l, m) ==
  /\ pc' = [pc EXCEPT ![w] = l]
  /\ me' = [me EXCEPT ![w] = m]
  /\ m \in Locals
  /\ m.job = me[w].job /\ m.todo = me[w].todo
  /\ m.known = me[w].known /\ m.cur = me[w].cur

\* A visit that goes on keeps the workers' typing.
LEMMA VisitOK ==
  ASSUME TInv, NEW w \in Workers, pc[w] \in Visiting, NEW l \in Visiting \union {"done"},
         NEW m,
         Visit(w, l, m), DOMAIN jobs' = DOMAIN jobs,
         l = "saveopp" => m.found \in Decisions,
         l = "beat" => m.then \in AfterBeat
  PROVE  Control'
<1>1. /\ pc[w] \in Working \intersect HasCurrent
      /\ l \in Labels
  BY DEF Visiting, Working, HasCurrent, CompanySteps, Labels, BatchSteps
<1>2. me[w].job \in DOMAIN jobs /\ me[w].cur \in Companies
  BY <1>1 DEF TInv, WorkersOK
<1>  QED
  BY <1>1, <1>2, MoveOK DEF Visit

\* It goes on by a heartbeat,
LEMMA BeatThenOK ==
  ASSUME TInv, NEW w \in Workers, NEW l \in Labels, BeatThen(w, l)
  PROVE  \E m : Visit(w, "beat", m) /\ m.then = l /\ m.found = me[w].found
<1> DEFINE m == [me[w] EXCEPT !.then = l]
<1>1. pc' = [pc EXCEPT ![w] = "beat"] /\ me' = [me EXCEPT ![w] = m]
  BY DEF BeatThen, GoTo
<1>2. me[w] \in Locals
  BY DEF TInv, TypeOK
<1>3. m \in Locals /\ m.then = l /\ m.job = me[w].job /\ m.todo = me[w].todo
      /\ m.known = me[w].known /\ m.cur = me[w].cur /\ m.found = me[w].found
  BY <1>2, SetLocal
<1> HIDE DEF m
<1>  QED
  BY <1>1, <1>3 DEF Visit

\* with a verdict,
LEMMA JudgeOK ==
  ASSUME TInv, NEW w \in Workers, NEW v \in Verdicts, Judge(w, v)
  PROVE  \E m : Visit(w, "terminal", m)
<1> DEFINE m == [me[w] EXCEPT !.verdict = v]
<1>1. pc' = [pc EXCEPT ![w] = "terminal"] /\ me' = [me EXCEPT ![w] = m]
  BY DEF Judge, GoTo
<1>2. me[w] \in Locals
  BY DEF TInv, TypeOK
<1>3. m \in Locals /\ m.job = me[w].job /\ m.todo = me[w].todo
      /\ m.known = me[w].known /\ m.cur = me[w].cur
  BY <1>2, SetLocal
<1> HIDE DEF m
<1>  QED
  BY <1>1, <1>3 DEF Visit

\* with the answer of a service,
LEMMA FoundOK ==
  ASSUME TInv, NEW w \in Workers, NEW f \in Findings, NEW l,
         GoTo(w, l), me' = [me EXCEPT ![w].found = f]
  PROVE  \E m : Visit(w, l, m) /\ m.found = f
<1> DEFINE m == [me[w] EXCEPT !.found = f]
<1>1. pc' = [pc EXCEPT ![w] = l] /\ me' = [me EXCEPT ![w] = m]
  BY DEF GoTo
<1>2. me[w] \in Locals
  BY DEF TInv, TypeOK
<1>3. m \in Locals /\ m.job = me[w].job /\ m.todo = me[w].todo
      /\ m.known = me[w].known /\ m.cur = me[w].cur /\ m.found = f
  BY <1>2, SetLocal
<1> HIDE DEF m
<1>  QED
  BY <1>1, <1>3 DEF Visit

\* or just to the next step.
LEMMA GoToOK ==
  ASSUME TInv, NEW w \in Workers, NEW l, GoTo(w, l), UNCHANGED me
  PROVE  Visit(w, l, me[w])
  BY DEF GoTo, Visit, TInv, TypeOK

\* Saving a row keeps the companies' type.
LEMMA SaveOK ==
  ASSUME TInv, NEW w \in Workers, pc[w] \in Visiting, NEW r \in CompanyRows, Save(w, r)
  PROVE  /\ company' \in [Companies -> CompanyRows]
         /\ UNCHANGED <<batch, started, jobs, faults>>
         /\ company'[me[w].cur] = r
         /\ \A c \in Companies \ {me[w].cur} : company'[c] = company[c]
  BY DEF Save, TInv, TypeOK, WorkersOK, HasCurrent

\* The row of the company that is visited.
LEMMA CurrentRow ==
  ASSUME TInv, NEW w \in Workers, pc[w] \in HasCurrent
  PROVE  Current(w) \in CompanyRows /\ me[w].cur \in Companies
  BY DEF TInv, TypeOK, WorkersOK, Current

\* A stage that is entered, or not because the company is judged already.
LEMMA EnterOK ==
  ASSUME TInv, NEW w \in Workers, pc[w] \in CompanySteps, NEW s \in Stages,
         NEW l \in CompanySteps \ {"beat", "saveopp"},
         EnterStage(w, s, l)
  PROVE  /\ UNCHANGED <<batch, started, claims, jobs, faults>>
         /\ \/ /\ Active(Current(w))
               /\ Save(w, MovedTo(Current(w), s))
               /\ MovedTo(Current(w), s) \in CompanyRows
               /\ \E m : Visit(w, "beat", m) /\ m.then = l
            \/ /\ ~Active(Current(w))
               /\ UNCHANGED company
               /\ Visit(w, "unexpected", me[w])
<1>1. pc[w] \in HasCurrent /\ l \in Labels
  BY DEF HasCurrent, Visiting, Labels
<1>2. CASE CanMove(Current(w))
  BY <1>1, <1>2, CurrentRow, RowMethods, BeatThenOK DEF EnterStage, CanMove, Save
<1>3. CASE ~CanMove(Current(w))
  <2>1. OnError(w) = "unexpected"
    BY DEF OnError, CompanySteps, BatchSteps
  <2>2. GoTo(w, "unexpected") /\ UNCHANGED me
    BY <1>3, <2>1 DEF EnterStage, Throw
  <2>  QED
    BY <1>3, <2>2, GoToOK DEF EnterStage, CanMove, table
<1>  QED
  BY <1>2, <1>3

\* Every other step of a company saves its row or only moves on.
LEMMA CompanyTypes ==
  ASSUME TInv, NEW w \in Workers, CompanyStep(w)
  PROVE  TInv'
<1> USE DEF TInv
<1>0. /\ pc[w] \in CompanySteps /\ pc[w] \in Visiting /\ pc[w] \in HasCurrent
      /\ me[w] \in Locals
  BY DEF CompanyStep, Validate, Preflight, BeginResearch, Research, SaveResearch,
     ResearchGate, ReloadResearch, AwaitReview, Score, Assess, SaveOpportunity,
     FindContact, Discover, SaveContact, Draft, WriteDraft, SaveDraft, Terminal, Beat,
     Heartbeat, CompanySteps, Visiting, HasCurrent, TypeOK
<1>1. Current(w) \in CompanyRows /\ me[w].cur \in Companies
  BY <1>0, CurrentRow
<1>2. ASSUME Control', company' \in [Companies -> CompanyRows],
             UNCHANGED <<batch, started, jobs, faults>>,
             claims' \in [Companies -> {"none", "pending", "reviewed"}]
      PROVE  TInv'
  BY <1>2 DEF Control, TypeOK, RowsOK
<1>3. /\ {"beat", "terminal", "unexpected", "saveopp"} \subseteq Visiting
      /\ CompanySteps \subseteq Visiting
      /\ CompanySteps \subseteq Labels /\ "done" \in Labels
      /\ {"preflight", "research", "gate", "assess", "discover", "draft", "write", "contact",
          "terminal"} \subseteq CompanySteps \ {"beat", "saveopp"}
      /\ CompanySteps \ {"beat", "saveopp"} \subseteq AfterBeat
      /\ "done" \in AfterBeat
      /\ AfterBeat \subseteq (Visiting \union {"done"}) \ {"beat", "saveopp"}
      /\ "beat" \in Working
  BY DEF CompanySteps, Visiting, Labels, BatchSteps, AfterBeat, Working
<1>4. ASSUME NEW s \in Stages, NEW l \in CompanySteps \ {"beat", "saveopp"},
             EnterStage(w, s, l)
      PROVE  TInv'
  <2>1. UNCHANGED <<batch, started, claims, jobs, faults>>
    BY <1>0, <1>4, EnterOK
  <2>2. company' \in [Companies -> CompanyRows]
    BY <1>0, <1>4, EnterOK, SaveOK DEF TypeOK
  <2>3. Control'
    BY <1>0, <1>3, <1>4, EnterOK, VisitOK
  <2>  QED
    BY <1>2, <2>1, <2>2, <2>3 DEF TypeOK
<1>5. ASSUME Idle, NEW v \in Verdicts, Judge(w, v)
      PROVE  TInv'
  BY <1>0, <1>2, <1>3, <1>5, JudgeOK, VisitOK DEF Idle, table, TypeOK
<1>6. ASSUME Idle, NEW l \in CompanySteps \ {"beat", "saveopp"}, GoTo(w, l), UNCHANGED me
      PROVE  TInv'
  BY <1>0, <1>2, <1>3, <1>6, GoToOK, VisitOK DEF Idle, table, TypeOK
<1>7. {"validating", "researching", "scoring", "discovering_contact", "generating_draft"}
         \subseteq Stages
  BY DEF Stages, RunningStages
<1>8. /\ Verdicts = [failed : BOOLEAN, code : {"retryable", "final"}]
      /\ \A f \in BOOLEAN, k \in {"retryable", "final"} : Verdict(f, k) \in Verdicts
  BY DEF Verdicts, Verdict
<1>9. CASE Validate(w) \/ BeginResearch(w)
  BY <1>3, <1>4, <1>7, <1>9 DEF Validate, BeginResearch
<1>10. CASE Preflight(w)
  BY <1>5, <1>6, <1>8, <1>10 DEF Preflight, CompanySteps
<1>11. CASE Research(w)
  <2>1. ASSUME NEW f \in {"failed", "partial", "claims", "clear"}, Idle,
               GoTo(w, "saveresearch"), me' = [me EXCEPT ![w].found = f]
        PROVE  TInv'
    <3>1. f \in Findings /\ "saveresearch" \in CompanySteps
      BY DEF Findings, CompanySteps
    <3>2. PICK m : Visit(w, "saveresearch", m) /\ m.found = f
      BY <2>1, <3>1, FoundOK
    <3>3. Control'
      BY <1>0, <1>3, <2>1, <3>1, <3>2, VisitOK DEF Idle
    <3>  QED
      BY <1>2, <2>1, <3>3 DEF Idle, table, TypeOK
  <2>  QED
    BY <1>5, <1>8, <1>11, <2>1 DEF Research
<1>12. CASE SaveResearch(w) \/ SaveContact(w) \/ SaveDraft(w) \/ Draft(w)
  <2>1. ASSUME NEW r \in CompanyRows, Save(w, r), NEW l \in {"gate", "draft", "done"},
               BeatThen(w, l),
               claims' \in [Companies -> {"none", "pending", "reviewed"}]
        PROVE  TInv'
    <3>1. l \in Labels /\ l \in AfterBeat
      BY <1>3
    <3>2. PICK m : Visit(w, "beat", m) /\ m.then = l
      BY <2>1, <3>1, BeatThenOK
    <3>3. Control'
      BY <1>0, <1>3, <2>1, <3>1, <3>2, SaveOK, VisitOK
    <3>  QED
      BY <1>0, <1>2, <2>1, <3>3, SaveOK
  <2>2. /\ [Current(w) EXCEPT !.research = TRUE] \in CompanyRows
        /\ [Current(w) EXCEPT !.contact = TRUE] \in CompanyRows
        /\ [Current(w) EXCEPT !.draft = TRUE] \in CompanyRows
    BY <1>1 DEF CompanyRows
  <2>3. /\ CompletedCompany(Current(w)) \in CompanyRows
        /\ CompletedCompany([Current(w) EXCEPT !.draft = TRUE]) \in CompanyRows
    BY <1>1, <2>2, RowMethods
  <2>4. claims' \in [Companies -> {"none", "pending", "reviewed"}]
    BY <1>12 DEF SaveResearch, SaveContact, SaveDraft, Draft, EnterStage, TypeOK
  <2>  QED
    BY <1>3, <1>4, <1>7, <1>12, <2>1, <2>2, <2>3, <2>4 DEF SaveResearch, SaveContact,
       SaveDraft, Draft
<1>13. CASE ResearchGate(w) \/ ReloadResearch(w)
  BY <1>5, <1>6, <1>8, <1>13 DEF ResearchGate, ReloadResearch, CompanySteps
<1>14. CASE AwaitReview(w) \/ Terminal(w)
  <2>1. PICK r \in CompanyRows : Save(w, r)
    <3>1. me[w].verdict.code \in Codes
      BY <1>0 DEF Locals, Verdicts, Codes
    <3>  QED
      BY <1>1, <1>14, <3>1, RowMethods DEF AwaitReview, Terminal
  <2>2. GoTo(w, "done") /\ UNCHANGED <<claims, me>>
    BY <1>14 DEF AwaitReview, Terminal
  <2>3. Control'
    BY <1>0, <1>3, <2>1, <2>2, SaveOK, GoToOK, VisitOK
  <2>  QED
    BY <1>0, <1>2, <2>1, <2>2, <2>3, SaveOK DEF TypeOK
<1>15. CASE Score(w)
  <2>1. ASSUME Idle, NEW l \in {"contact", "terminal"}, GoTo(w, l),
               me' = [me EXCEPT ![w].verdict = Verdict(FALSE, "final")]
        PROVE  TInv'
    <3> DEFINE m == [me[w] EXCEPT !.verdict = Verdict(FALSE, "final")]
    <3>1. Verdict(FALSE, "final") \in Verdicts
      BY <1>8
    <3>2. /\ m \in Locals /\ m.job = me[w].job /\ m.todo = me[w].todo
          /\ m.known = me[w].known /\ m.cur = me[w].cur
      BY <1>0, <3>1, SetLocal
    <3>3. pc' = [pc EXCEPT ![w] = l] /\ me' = [me EXCEPT ![w] = m]
      BY <2>1 DEF GoTo
    <3> HIDE DEF m
    <3>4. Visit(w, l, m)
      BY <3>2, <3>3 DEF Visit
    <3>5. Control'
      BY <1>0, <1>3, <2>1, <3>4, VisitOK DEF Idle
    <3>  QED
      BY <1>2, <2>1, <3>5 DEF Idle, table, TypeOK
  <2>  QED
    BY <1>3, <1>4, <1>7, <1>15, <2>1 DEF Score, Qualify
<1>16. CASE Assess(w)
  <2>1. ASSUME NEW f \in Decisions, Idle,
               GoTo(w, "saveopp"), me' = [me EXCEPT ![w].found = f]
        PROVE  TInv'
    <3>1. f \in Findings
      BY DEF Findings
    <3>2. PICK m : Visit(w, "saveopp", m) /\ m.found = f
      BY <2>1, <3>1, FoundOK
    <3>3. Control'
      BY <1>0, <1>3, <2>1, <3>1, <3>2, VisitOK DEF Idle
    <3>  QED
      BY <1>2, <2>1, <3>3 DEF Idle, table, TypeOK
  <2>  QED
    BY <1>5, <1>8, <1>16, <2>1 DEF Assess
<1>17. CASE SaveOpportunity(w)
  <2>1. me[w].found \in Decisions
    BY <1>17 DEF SaveOpportunity, WorkersOK
  <2>2. [Current(w) EXCEPT !.opportunity = me[w].found] \in CompanyRows
    BY <1>1, <2>1 DEF CompanyRows
  <2> DEFINE l == Qualify(w, me[w].found)
             n == [me[w] EXCEPT !.then = l]
             m == [n EXCEPT !.verdict = Verdict(FALSE, "final")]
  <2>3. l \in CompanySteps \ {"beat", "saveopp"} /\ l \in Labels
    BY <1>3 DEF Qualify
  <2>4. pc' = [pc EXCEPT ![w] = "beat"] /\ me' = [me EXCEPT ![w] = m]
    BY <1>17 DEF SaveOpportunity, GoTo
  <2> HIDE DEF l
  <2>5. n \in Locals /\ n.then = l /\ n.job = me[w].job /\ n.todo = me[w].todo
        /\ n.known = me[w].known /\ n.cur = me[w].cur
    BY <1>0, <2>3, SetLocal
  <2> HIDE DEF n
  <2>6. Visit(w, "beat", m) /\ m.then = l
    <3>1. Verdict(FALSE, "final") \in Verdicts
      BY <1>8
    <3>2. /\ m \in Locals /\ m.job = n.job /\ m.todo = n.todo /\ m.then = n.then
          /\ m.known = n.known /\ m.cur = n.cur
      BY <2>5, <3>1, SetLocal
    <3> HIDE DEF m
    <3>  QED
      BY <2>4, <2>5, <3>2 DEF Visit
  <2> HIDE DEF m
  <2>7. Save(w, [Current(w) EXCEPT !.opportunity = me[w].found]) /\ UNCHANGED claims
    BY <1>17 DEF SaveOpportunity
  <2>8. Control'
    BY <1>0, <1>3, <2>2, <2>3, <2>6, <2>7, SaveOK, VisitOK
  <2>  QED
    BY <1>0, <1>2, <2>2, <2>7, <2>8, SaveOK DEF TypeOK
<1>18. CASE FindContact(w)
  BY <1>3, <1>4, <1>6, <1>7, <1>18 DEF FindContact
<1>19. CASE Discover(w) \/ WriteDraft(w)
  BY <1>5, <1>6, <1>8, <1>19 DEF Discover, WriteDraft, CompanySteps
<1>20. CASE Beat(w)
  <2>1. Heartbeat(w, "beat", me[w].then) /\ UNCHANGED me /\ pc[w] = "beat"
    BY <1>20 DEF Beat, Heartbeat
  <2>2. /\ me[w].then \in (Visiting \union {"done"}) \ {"beat", "saveopp"}
        /\ me[w].then \in Labels /\ "beat" \in Working
    BY <1>3, <2>1 DEF WorkersOK, AfterBeat, Labels, BatchSteps
  <2>3. OnError(w) = "unexpected"
    BY <2>1 DEF OnError, CompanySteps, BatchSteps
  <2>4. /\ RowsOK' /\ DOMAIN jobs' = DOMAIN jobs /\ Len(jobs') = Len(jobs)
        /\ GoTo(w, me[w].then) \/ GoTo(w, "unexpected")
        /\ UNCHANGED <<table, faults>>
    BY <2>1, <2>2, <2>3, HeartbeatTypes DEF GoTo
  <2>5. Control'
    BY <1>0, <1>3, <2>1, <2>2, <2>4, GoToOK, VisitOK
  <2>  QED
    BY <2>4, <2>5 DEF Control, TypeOK, RowsOK, table
<1>  QED
  BY <1>9, <1>10, <1>11, <1>12, <1>13, <1>14, <1>15, <1>16, <1>17, <1>18, <1>19,
     <1>20 DEF CompanyStep

\* A worker that fails or is killed keeps the tables as they are.
LEMMA FaultTypes ==
  ASSUME TInv, NEW w \in Workers, Raise(w) \/ Crash(w)
  PROVE  TInv'
<1>1. UNCHANGED <<table, jobs>> /\ faults' \in 0 .. MaxFaults
  BY PipelineAssumption DEF Raise, Crash, TInv, TypeOK
<1>2. Control'
  BY <1>1, ThrowOK, LeaveOK DEF Raise, Crash
<1>  QED
  BY <1>1, <1>2 DEF TInv, Control, TypeOK, RowsOK, table

\* Every step keeps the types, for any number of workers.
LEMMA TypeStep == TInv /\ [Next]_vars => TInv'
<1> SUFFICES ASSUME TInv, [Next]_vars PROVE TInv'
  OBVIOUS
<1>1. CASE UNCHANGED vars
  BY <1>1 DEF vars, TInv, TypeOK, RowsOK, WorkersOK
<1>2. CASE Next
  BY <1>2, ApiTypes, QueueTypes, BatchTypes, CompanyTypes, FaultTypes DEF Next, Run
<1>  QED
  BY <1>1, <1>2

------------------------------------------------------------------------------
(***************************************************************************)
(* The human gate                                                          *)
(***************************************************************************)

\* The judgements that only the API takes back.
Judged == {"needs_review", "failed"}

\* The steps before a run is saved, those after its claims were decided,
\* those of a qualified opportunity, and those of a selected contact.
Before == {"validate", "preflight", "researching", "research", "saveresearch"}
Cleared == {"score", "assess", "saveopp", "contact", "discover", "savecontact",
            "draft", "write", "savedraft"}
Worthy == {"contact", "discover", "savecontact", "draft", "write", "savedraft"}
Addressed == {"draft", "write", "savedraft"}

\* The steps with a list of companies to visit.
Rounds == HasCurrent \union {"startbatch", "next"}

\* The step that follows the heartbeat a worker is in.
At(w) == IF pc[w] = "beat" THEN me[w].then ELSE pc[w]

\* What the steps before it promise a step about the row and the claims of
\* its company.
Promise(at, row, claim) ==
  /\ at \in Before => ~row.research
  /\ at \in {"gate", "reload", "await"} => row.research
  /\ at \in Cleared => claim = "reviewed"
  /\ at \in {"assess", "saveopp"} => row.opportunity = "none"
  /\ at \in Worthy => row.opportunity = "qualified"
  /\ at \in Addressed => row.contact

\* What a company's row says of its claims, and of itself.
Justified(row, claim) ==
  /\ claim = "none" <=> ~row.research
  /\ row.stage = "awaiting_evidence_review" =>
       row.status = "needs_review" /\ row.research
  /\ \/ row.stage \in {"scoring", "discovering_contact", "generating_draft", "completed"}
     \/ row.opportunity # "none"
     => claim = "reviewed"
  /\ row.status = "completed" =>
       row.draft /\ row.contact /\ row.opportunity = "qualified"

CompaniesOK == \A c \in Companies : Justified(company[c], claims[c])

\* What a worker read of its companies is still so, and its company has
\* what its next step was promised.
VisitsOK ==
  \A w \in Workers :
    /\ pc[w] \in Rounds =>
         \A c \in me[w].todo : /\ c \in me[w].known <=> company[c].research
                               /\ company[c].status \notin Judged
    /\ pc[w] \in HasCurrent =>
         /\ me[w].cur \notin me[w].todo
         /\ Promise(At(w), Current(w), claims[me[w].cur])
    /\ pc[w] \in Visiting => Current(w).status \notin Judged

GInv == CompaniesOK /\ VisitsOK

\* One worker process (docker-compose.prod.yml: worker).
OneWorker == \A v, w \in Workers : v = w

\* What the methods of a company do to the columns the promises are about.
Same(r, q) == /\ r.research = q.research /\ r.opportunity = q.opportunity
              /\ r.contact = q.contact /\ r.draft = q.draft

\* What each method of a company does to its row.
LEMMA RowFields ==
  ASSUME NEW r \in CompanyRows, NEW s, NEW k
  PROVE  /\ Same(MovedTo(r, s), r) /\ MovedTo(r, s).stage = s
         /\ MovedTo(r, s).status = "running"
         /\ Same(CompletedCompany(r), r) /\ CompletedCompany(r).stage = "completed"
         /\ CompletedCompany(r).status = "completed"
         /\ Same(AwaitingReview(r), r)
         /\ AwaitingReview(r).stage = "awaiting_evidence_review"
         /\ AwaitingReview(r).status = "needs_review"
         /\ Same(NeedingReview(r, k), r) /\ NeedingReview(r, k).stage = "needs_review"
         /\ NeedingReview(r, k).status = "needs_review"
         /\ Same(FailedCompany(r, k), r) /\ FailedCompany(r, k).stage = "failed"
         /\ FailedCompany(r, k).status = "failed"
         /\ Same(RetriedCompany(r), r) /\ RetriedCompany(r).stage = "queued"
         /\ RetriedCompany(r).status = "queued"
         /\ Same(ResumedCompany(r), r) /\ ResumedCompany(r).stage = "scoring"
         /\ ResumedCompany(r).status = "queued"
  BY DEF CompanyRows, Same, MovedTo, CompletedCompany, AwaitingReview, NeedingReview,
     FailedCompany, RetriedCompany, ResumedCompany

\* A step within the pipeline of a company concerns this company only, is
\* right about it, and hands on what the next step needs; a company the
\* worker is done with has been judged or completed.
Advances(w) ==
  \E l \in Visiting \union {"done"}, m \in Locals :
    LET c    == me[w].cur
        next == IF l = "beat" THEN m.then ELSE l
    IN  /\ Visit(w, l, m)
        /\ \A d \in Companies \ {c} : company'[d] = company[d] /\ claims'[d] = claims[d]
        /\ Justified(company'[c], claims'[c])
        /\ l \in Visiting => company'[c].status \notin Judged
        /\ Promise(next, company'[c], claims'[c])
        /\ IF At(w) = "done" THEN company'[c] = company[c]
           ELSE next = "done" => ~Active(company'[c])

\* Such a step keeps the promises of the human gate.
LEMMA AdvanceStep ==
  ASSUME OneWorker, TInv, GInv, NEW w \in Workers, pc[w] \in Visiting, Advances(w)
  PROVE  GInv'
<1>0. PICK l \in Visiting \union {"done"}, m \in Locals :
        /\ Visit(w, l, m)
        /\ \A c \in Companies \ {me[w].cur} :
             company'[c] = company[c] /\ claims'[c] = claims[c]
        /\ Justified(company'[me[w].cur], claims'[me[w].cur])
        /\ l \in Visiting => company'[me[w].cur].status \notin Judged
        /\ Promise(IF l = "beat" THEN m.then ELSE l, company'[me[w].cur], claims'[me[w].cur])
  BY DEF Advances
<1>1. /\ pc'[w] = l /\ me'[w] = m /\ m.cur = me[w].cur /\ m.todo = me[w].todo
      /\ m.known = me[w].known /\ me[w].cur \in Companies /\ me[w].todo \subseteq Companies
      /\ m.cur \notin m.todo
  BY <1>0 DEF Visit, TInv, TypeOK, WorkersOK, HasCurrent, Locals, GInv, VisitsOK
<1>2. CompaniesOK'
  BY <1>0 DEF CompaniesOK, GInv
<1>3. \A c \in m.todo : /\ c \in m.known <=> company'[c].research
                        /\ company'[c].status \notin Judged
  BY <1>0, <1>1 DEF GInv, VisitsOK, Rounds, HasCurrent
<1>4. Promise(At(w)', Current(w)', claims'[me'[w].cur])
  BY <1>0, <1>1 DEF At, Current
<1>5. VisitsOK'
  BY <1>0, <1>1, <1>3, <1>4 DEF VisitsOK, OneWorker, Current, HasCurrent
<1>  QED
  BY <1>2, <1>5 DEF GInv

\* A step of the queue or of the API takes companies back to the queue, gives
\* up those that are active, or leaves them alone.
LEMMA TakenBack ==
  ASSUME TInv, CompaniesOK, UNCHANGED claims,
         \/ UNCHANGED company
         \/ company' = RecoveredCompanies(company)
         \/ company' = FailedActive(company)
  PROVE  CompaniesOK'
<1> SUFFICES ASSUME NEW c \in Companies
             PROVE  Justified(company'[c], claims[c])
  BY DEF CompaniesOK
<1>1. company[c] \in CompanyRows /\ Justified(company[c], claims[c])
  BY DEF TInv, TypeOK, CompaniesOK
<1>2. \/ company'[c] = company[c]
      \/ company'[c] = RetriedCompany(company[c])
      \/ company'[c] = FailedCompany(company[c], "final")
  BY DEF RecoveredCompanies, RequeuedCompany, FailedActive
<1>  QED
  BY <1>1, <1>2, RowFields DEF Justified, Same

\* The API queues a judged company again; a reviewer decides.
LEMMA ApiGate ==
  ASSUME TInv, GInv, Api \/ LeaseTick
  PROVE  GInv'
<1>1. UNCHANGED <<pc, me>>
  BY DEF Api, LeaseTick, SubmitBatch, CreateRoutingBatch,
       StartRoutingBatch, RetryCompany, ResumeCompany, ReviewClaims, Requeue
<1>2. ASSUME NEW c \in Companies
      PROVE  /\ Justified(company'[c], claims'[c])
             /\ Same(company'[c], company[c])
             /\ company'[c].status # company[c].status => company'[c].status = "queued"
             /\ claims[c] = "reviewed" => claims'[c] = "reviewed"
  <2>1. company[c] \in CompanyRows /\ Justified(company[c], claims[c])
        /\ claims[c] \in {"none", "pending", "reviewed"}
    BY DEF TInv, TypeOK, CompaniesOK, GInv
  <2>2. CASE company'[c] = company[c] /\ claims'[c] = claims[c]
    BY <2>1, <2>2 DEF Same
  <2>3. CASE company'[c] = RetriedCompany(company[c]) /\ claims'[c] = claims[c]
    BY <2>1, <2>3, RowFields DEF Same, Justified
  <2>4. CASE /\ company'[c] = ResumedCompany(company[c]) /\ claims'[c] = claims[c]
             /\ company[c].research /\ claims[c] # "pending"
    <3>1. claims[c] = "reviewed"
      BY <2>1, <2>4 DEF Justified
    <3> DEFINE r == ResumedCompany(company[c])
    <3>2. Same(r, company[c]) /\ r.stage = "scoring" /\ r.status = "queued"
      BY <2>1, RowFields
    <3>3. company'[c] = r /\ claims'[c] = "reviewed"
      BY <2>4, <3>1
    <3> HIDE DEF r
    <3>  QED
      BY <2>1, <3>1, <3>2, <3>3 DEF Same, Justified
  <2>5. CASE company'[c] = company[c] /\ claims[c] = "pending" /\ claims'[c] = "reviewed"
    BY <2>1, <2>5 DEF Same, Justified
  <2>6. CASE UNCHANGED <<company, claims>>
    BY <2>2, <2>6
  <2>7. CASE \E d \in Companies : RetryCompany(d) \/ ResumeCompany(d) \/ ReviewClaims(d)
    <3>1. PICK d \in Companies : RetryCompany(d) \/ ResumeCompany(d) \/ ReviewClaims(d)
      BY <2>7
    <3>2. d # c => company'[c] = company[c] /\ claims'[c] = claims[c]
      BY <3>1 DEF RetryCompany, ResumeCompany, ReviewClaims, Requeue, TInv, TypeOK
    <3>3. CASE d = c
      BY <2>3, <2>4, <2>5, <3>1, <3>3
         DEF RetryCompany, ResumeCompany, ReviewClaims, Requeue, TInv, TypeOK
    <3>  QED
      BY <2>2, <3>2, <3>3
  <2>  QED
    BY <2>6, <2>7 DEF Api, LeaseTick, SubmitBatch, CreateRoutingBatch,
       StartRoutingBatch, table
<1>3. CompaniesOK'
  BY <1>2 DEF CompaniesOK
<1>4. VisitsOK'
  <2> SUFFICES ASSUME NEW w \in Workers
               PROVE  /\ pc[w] \in Rounds =>
                           \A c \in me[w].todo : /\ c \in me[w].known <=> company'[c].research
                                                 /\ company'[c].status \notin Judged
                      /\ pc[w] \in HasCurrent =>
                           /\ me[w].cur \notin me[w].todo
                           /\ Promise(At(w), company'[me[w].cur], claims'[me[w].cur])
                      /\ pc[w] \in Visiting => company'[me[w].cur].status \notin Judged
    BY <1>1 DEF VisitsOK, At, Current
  <2>1. me[w].todo \subseteq Companies
    BY DEF TInv, TypeOK, Locals
  <2>2. pc[w] \in Rounds =>
          \A c \in me[w].todo : /\ c \in me[w].known <=> company'[c].research
                                /\ company'[c].status \notin Judged
    BY <1>2, <2>1 DEF GInv, VisitsOK, Same, Judged
  <2>3. pc[w] \in HasCurrent =>
          /\ me[w].cur \in Companies
          /\ me[w].cur \notin me[w].todo
          /\ Promise(At(w), Current(w), claims[me[w].cur])
    BY DEF GInv, VisitsOK, TInv, WorkersOK
  <2>4. pc[w] \in HasCurrent => Promise(At(w), company'[me[w].cur], claims'[me[w].cur])
    BY <1>2, <2>3 DEF Promise, Same, Current
  <2>5. pc[w] \in Visiting => company'[me[w].cur].status \notin Judged
    BY <1>2, <2>3 DEF GInv, VisitsOK, Judged, Current, HasCurrent
  <2>  QED
    BY <2>2, <2>3, <2>4, <2>5
<1>  QED
  BY <1>3, <1>4 DEF GInv

\* The queue takes companies back or gives them up, and reviews no claim.
LEMMA QueueGate ==
  ASSUME OneWorker, TInv, GInv, NEW w \in Workers, QueueStep(w) \/ Crash(w)
  PROVE  GInv'
<1>1. pc'[w] \notin Rounds
  <2>1. \E l \in {"recover", "claim", "start", "down", "load"} : pc' = [pc EXCEPT ![w] = l]
    BY DEF QueueStep, RecoverStale, Claim, ClaimNothing, StartJob, CompleteJob,
       RecordFailure,
       Restart, Crash, GoTo, Leave, Throw, OnError, CompanySteps, BatchSteps
  <2>  QED
    BY <2>1 DEF TInv, TypeOK, Rounds, HasCurrent, Visiting, CompanySteps
<1>2. VisitsOK'
  BY <1>1 DEF VisitsOK, OneWorker, Rounds, HasCurrent
<1>3. CompaniesOK'
  <2>1. /\ UNCHANGED claims
        /\ \/ UNCHANGED company
           \/ company' = RecoveredCompanies(company)
           \/ company' = FailedActive(company)
    BY DEF QueueStep, RecoverStale, Claim, ClaimNothing, StartJob, CompleteJob,
       RecordFailure,
       Restart, Crash, table, Idle
  <2>  QED
    BY <2>1, TakenBack DEF GInv
<1>  QED
  BY <1>2, <1>3 DEF GInv

\* An exception within the pipeline of a company, and its handler.
LEMMA UnexpectedAdvances ==
  ASSUME TInv, GInv, NEW w \in Workers, pc[w] \in Visiting,
         UNCHANGED <<company, claims, me>>, GoTo(w, "unexpected")
  PROVE  Advances(w)
<1>1. Visit(w, "unexpected", me[w]) /\ "unexpected" \in Visiting /\ me[w] \in Locals
  BY GoToOK DEF Visiting, TInv, TypeOK
<1>2. me[w].cur \in Companies /\ company[me[w].cur].status \notin Judged
  BY DEF GInv, VisitsOK, TInv, WorkersOK, HasCurrent, Current
<1>3. Promise("unexpected", company[me[w].cur], claims[me[w].cur])
  BY DEF Promise, Before, Cleared, Worthy, Addressed
<1>4. Justified(company[me[w].cur], claims[me[w].cur])
  BY <1>2 DEF GInv, CompaniesOK
<1>  QED
  BY <1>1, <1>2, <1>3, <1>4 DEF Advances

\* The exception handler fails the company, and is done with it.
LEMMA HandlerAdvances ==
  ASSUME TInv, GInv, NEW w \in Workers, HandleUnexpected(w)
  PROVE  Advances(w) /\ pc[w] \in Visiting
<1>1. /\ pc[w] \in Visiting /\ GoTo(w, "done") /\ UNCHANGED <<me, claims>>
      /\ Save(w, FailedCompany(Current(w), "retryable")) /\ "retryable" \in Codes
  BY DEF HandleUnexpected, Visiting, Codes
<1>2. Visit(w, "done", me[w]) /\ me[w] \in Locals
  BY <1>1, GoToOK DEF TInv, TypeOK
<1>3. Current(w) \in CompanyRows /\ me[w].cur \in Companies
  BY <1>1, CurrentRow DEF HasCurrent
<1> DEFINE r == FailedCompany(Current(w), "retryable")
<1>4. r \in CompanyRows /\ Same(r, Current(w)) /\ r.stage = "failed" /\ r.status = "failed"
  BY <1>1, <1>3, RowMethods, RowFields
<1>5. /\ company'[me[w].cur] = r
      /\ \A c \in Companies \ {me[w].cur} : company'[c] = company[c]
  BY <1>1, <1>4, SaveOK
<1> HIDE DEF r
<1>6. Justified(r, claims[me[w].cur])
  BY <1>3, <1>4 DEF GInv, CompaniesOK, Justified, Same, Current
<1>7. Promise("done", r, claims[me[w].cur]) /\ ~Active(r)
  BY <1>4 DEF Promise, Before, Cleared, Worthy, Addressed, Active, TerminalCompany
<1>8. "done" \notin Visiting /\ At(w) # "done"
  BY DEF Visiting, CompanySteps, HandleUnexpected, At
<1>  QED
  BY <1>1, <1>2, <1>5, <1>6, <1>7, <1>8 DEF Advances

\* Around the companies: the list of companies to visit is read, followed
\* and left.
LEMMA BatchGate ==
  ASSUME OneWorker, TInv, GInv, NEW w \in Workers, BatchStep(w) \/ Raise(w)
  PROVE  GInv'
<1> USE DEF GInv
<1>0. /\ pc[w] \in Labels /\ pc \in [Workers -> Labels]
      /\ me[w] \in Locals /\ me \in [Workers -> Locals]
  BY DEF TInv, TypeOK
<1>1. ASSUME UNCHANGED <<company, claims>>, pc'[w] \notin Rounds
      PROVE  GInv'
  <2>1. VisitsOK'
    BY <1>1 DEF VisitsOK, OneWorker, Rounds, HasCurrent
  <2>  QED
    BY <1>1, <2>1 DEF CompaniesOK
<1>2. ASSUME UNCHANGED <<company, claims>>, pc[w] \notin Visiting, Throw(w)
      PROVE  GInv'
  <2>1. pc'[w] \notin Rounds
    BY <1>0, <1>2 DEF Throw, OnError, GoTo, Leave, Visiting, Rounds, HasCurrent,
       CompanySteps, BatchSteps
  <2>  QED
    BY <1>1, <1>2, <2>1
<1>3. ASSUME UNCHANGED <<company, claims>>, pc[w] \in Visiting, GoTo(w, "unexpected"),
             UNCHANGED me
      PROVE  GInv'
  BY <1>3, UnexpectedAdvances, AdvanceStep
<1>4. CASE LoadBatch(w)
  <2> DEFINE T == {c \in Companies : Active(company[c])}
             K == {c \in Companies : company[c].research}
  <2>1. /\ UNCHANGED <<company, claims>>
        /\ \/ pc' = [pc EXCEPT ![w] = "complete"]
           \/ /\ pc' = [pc EXCEPT ![w] = "startbatch"]
              /\ me' = [me EXCEPT ![w].todo = T, ![w].known = K]
    BY <1>4 DEF LoadBatch, GoTo, Idle, table
  <2>2. CASE pc' = [pc EXCEPT ![w] = "complete"]
    BY <1>0, <1>1, <2>1, <2>2 DEF Rounds, HasCurrent, Visiting, CompanySteps
  <2>3. CASE /\ pc' = [pc EXCEPT ![w] = "startbatch"]
             /\ me' = [me EXCEPT ![w].todo = T, ![w].known = K]
    <3>1. pc'[w] = "startbatch" /\ me'[w].todo = T /\ me'[w].known = K
      BY <1>0, <2>3 DEF Locals
    <3>2. \A c \in T : (c \in K <=> company[c].research) /\ company[c].status \notin Judged
      BY DEF Active, TerminalCompany, Judged
    <3>3. "startbatch" \notin HasCurrent
      BY DEF HasCurrent, Visiting, CompanySteps
    <3> HIDE DEF T, K
    <3>4. VisitsOK'
      BY <2>1, <3>1, <3>2, <3>3 DEF VisitsOK, OneWorker, HasCurrent
    <3>  QED
      BY <2>1, <3>4 DEF CompaniesOK
  <2>  QED
    BY <2>1, <2>2, <2>3
<1>5. CASE StartBatch(w)
  <2>1. UNCHANGED <<company, claims>> /\ pc[w] = "startbatch"
    BY <1>5 DEF StartBatch
  <2>2. CASE Throw(w)
    BY <1>2, <2>1, <2>2 DEF Visiting, CompanySteps
  <2>3. CASE ~Throw(w)
    <3>1. pc' = [pc EXCEPT ![w] = "next"] /\ UNCHANGED me
      BY <1>5, <2>3 DEF StartBatch, GoTo
    <3>2. pc[w] \in Rounds /\ "next" \notin HasCurrent
      BY <2>1 DEF Rounds, HasCurrent, Visiting, CompanySteps
    <3>3. VisitsOK'
      BY <1>0, <2>1, <3>1, <3>2 DEF VisitsOK, OneWorker, HasCurrent
    <3>  QED
      BY <2>1, <3>3 DEF CompaniesOK
  <2>  QED
    BY <2>2, <2>3
<1>6. CASE NextCompany(w)
  <2> DEFINE c == Min(me[w].todo)
             l == IF c \in me[w].known THEN "reload" ELSE "validate"
  <2>1. c \in me[w].todo /\ c \in Companies
    BY <1>0, <1>6, MinIn DEF NextCompany, Locals
  <2>2. /\ Heartbeat(w, "next", l) /\ pc[w] = "next" /\ UNCHANGED <<company, claims>>
        /\ me' = [me EXCEPT ![w].cur = c, ![w].todo = @ \ {c}]
    BY <1>6 DEF NextCompany, Heartbeat, table
  <2> HIDE DEF c
  <2>3. CASE pc' = [pc EXCEPT ![w] = OnError(w)]
    BY <1>0, <1>1, <2>2, <2>3 DEF OnError, Rounds, HasCurrent, Visiting, CompanySteps,
       BatchSteps
  <2>4. CASE pc' = [pc EXCEPT ![w] = l]
    <3>1. /\ pc'[w] = l /\ me'[w].cur = c
          /\ me'[w].todo = me[w].todo \ {c} /\ me'[w].known = me[w].known
      BY <1>0, <2>2, <2>4 DEF Locals
    <3>2. /\ \A d \in me[w].todo : /\ d \in me[w].known <=> company[d].research
                                   /\ company[d].status \notin Judged
          /\ Justified(company[c], claims[c])
      BY <2>1, <2>2 DEF VisitsOK, Rounds, CompaniesOK
    <3>3. Promise(l, company[c], claims[c])
      BY <2>1, <3>2 DEF Promise, Before, Cleared, Worthy, Addressed
    <3>4. At(w)' = l
      BY <3>1 DEF At
    <3> HIDE DEF l
    <3>5. VisitsOK'
      BY <2>1, <2>2, <3>1, <3>2, <3>3, <3>4, ZenonT(60) DEF VisitsOK, OneWorker, Current
    <3>  QED
      BY <2>2, <3>5 DEF CompaniesOK
  <2>  QED
    BY <2>2, <2>3, <2>4 DEF Heartbeat, GoTo
<1>7. CASE NoMoreCompanies(w) \/ Finish(w)
  <2>1. /\ UNCHANGED <<company, claims>>
        /\ \E x \in {"finish", "complete", "finalize"} : pc' = [pc EXCEPT ![w] = x]
    BY <1>7 DEF NoMoreCompanies, Finish, GoTo, Idle, table
  <2>  QED
    BY <1>0, <1>1, <2>1 DEF Rounds, HasCurrent, Visiting, CompanySteps
<1>8. CASE Finalize(w)
  <2>1. UNCHANGED <<company, claims>> /\ pc[w] = "finalize"
    BY <1>8 DEF Finalize
  <2>2. CASE Throw(w)
    BY <1>2, <2>1, <2>2 DEF Visiting, CompanySteps
  <2>3. CASE ~Throw(w)
    BY <1>0, <1>1, <1>8, <2>1, <2>3 DEF Finalize, GoTo, Rounds, HasCurrent, Visiting,
       CompanySteps
  <2>  QED
    BY <2>2, <2>3
<1>9. CASE HandleUnexpected(w)
  BY <1>9, HandlerAdvances, AdvanceStep
<1>10. CASE LeaveCompany(w)
  <2>1. /\ pc[w] = "done" /\ UNCHANGED <<company, claims>>
        /\ me'[w].todo = me[w].todo /\ me'[w].known = me[w].known
        /\ pc' = [pc EXCEPT ![w] = OnError(w)] \/ pc' = [pc EXCEPT ![w] = "next"]
    BY <1>0, <1>10 DEF LeaveCompany, Heartbeat, GoTo, Locals, table
  <2>2. CASE pc' = [pc EXCEPT ![w] = OnError(w)]
    BY <1>0, <1>1, <2>1, <2>2 DEF OnError, Rounds, HasCurrent, Visiting, CompanySteps,
       BatchSteps
  <2>3. CASE pc' = [pc EXCEPT ![w] = "next"]
    <3>1. pc'[w] = "next" /\ "next" \notin HasCurrent /\ pc[w] \in Rounds
      BY <1>0, <2>1, <2>3 DEF HasCurrent, Visiting, CompanySteps, Rounds
    <3>2. VisitsOK'
      BY <2>1, <3>1 DEF VisitsOK, OneWorker, HasCurrent
    <3>  QED
      BY <2>1, <3>2 DEF CompaniesOK
  <2>  QED
    BY <2>1, <2>2, <2>3
<1>11. CASE Raise(w)
  <2>1. UNCHANGED <<company, claims>> /\ Throw(w)
    BY <1>11 DEF Raise, table
  <2>2. CASE pc[w] \in CompanySteps
    <3>1. OnError(w) = "unexpected"
      BY <2>2 DEF OnError, CompanySteps, BatchSteps
    <3>  QED
      BY <1>3, <2>1, <2>2, <3>1 DEF Throw, Visiting
  <2>3. CASE pc[w] = "unexpected"
    <3>1. OnError(w) = "failing"
      BY <2>3 DEF OnError, CompanySteps, BatchSteps
    <3>2. pc'[w] = "failing"
      BY <1>0, <2>1, <3>1 DEF Throw, GoTo
    <3>  QED
      BY <1>1, <2>1, <3>2 DEF Rounds, HasCurrent, Visiting, CompanySteps
  <2>4. CASE pc[w] \notin Visiting
    BY <1>2, <2>1, <2>4
  <2>  QED
    BY <2>2, <2>3, <2>4 DEF Visiting
<1>  QED
  BY <1>4, <1>5, <1>6, <1>7, <1>8, <1>9, <1>10, <1>11 DEF BatchStep

\* Each step of a company keeps what the steps before it promised, and
\* promises what the next one needs.
LEMMA CompanyAdvances ==
  ASSUME TInv, GInv, NEW w \in Workers, CompanyStep(w)
  PROVE  Advances(w) /\ pc[w] \in Visiting
<1> DEFINE c == me[w].cur
<1>0. /\ pc[w] \in CompanySteps /\ pc[w] \in Visiting /\ pc[w] \in HasCurrent
      /\ me[w] \in Locals
  BY DEF CompanyStep, Validate, Preflight, BeginResearch, Research, SaveResearch,
     ResearchGate, ReloadResearch, AwaitReview, Score, Assess, SaveOpportunity,
     FindContact, Discover, SaveContact, Draft, WriteDraft, SaveDraft, Terminal, Beat,
     Heartbeat, CompanySteps, Visiting, HasCurrent, TInv, TypeOK
<1>  SUFFICES Advances(w)
  BY <1>0
<1>1. /\ c \in Companies /\ Current(w) \in CompanyRows /\ Current(w) = company[c]
      /\ Justified(company[c], claims[c])
      /\ company[c].status \notin Judged
      /\ Promise(At(w), company[c], claims[c])
      /\ claims[c] \in {"none", "pending", "reviewed"}
  BY <1>0, CurrentRow DEF GInv, VisitsOK, CompaniesOK, Current, TInv, TypeOK
<1>2. /\ {"beat", "terminal", "unexpected"} \subseteq Visiting /\ "done" \notin Visiting
      /\ CompanySteps \subseteq Visiting
      /\ {"preflight", "researching", "research", "saveresearch", "gate", "await", "score", "assess",
          "saveopp", "contact", "discover", "savecontact", "draft", "write", "savedraft",
          "terminal"} \subseteq CompanySteps \ {"beat"}
  BY DEF CompanySteps, Visiting
<1> HIDE DEF c
\* The company is left as it is.
<1>3. ASSUME UNCHANGED <<company, claims>>, NEW l \in Visiting \union {"done"},
             l # "beat", NEW m,
             Visit(w, l, m), Promise(l, company[c], claims[c]),
             l = "done" => At(w) = "done"
      PROVE  Advances(w)
  BY <1>0, <1>1, <1>3 DEF Advances, Visit, c
\* Its row is saved.
<1>4. ASSUME pc[w] # "beat", NEW r \in CompanyRows, Save(w, r), UNCHANGED claims,
             NEW l \in Visiting \union {"done"}, NEW m, Visit(w, l, m),
             Justified(r, claims[c]), l \in Visiting => r.status \notin Judged,
             Promise(IF l = "beat" THEN m.then ELSE l, r, claims[c]),
             (IF l = "beat" THEN m.then ELSE l) = "done" => ~Active(r)
      PROVE  Advances(w)
  <2>1. At(w) # "done"
    BY <1>0, <1>4 DEF At, CompanySteps
  <2>  QED
    BY <1>0, <1>1, <1>4, <2>1, SaveOK DEF Advances, Visit, c
\* A stage is entered.
<1>5. ASSUME pc[w] # "beat", NEW s \in Stages,
             NEW l \in CompanySteps \ {"beat", "saveopp"}, EnterStage(w, s, l),
             s # "awaiting_evidence_review",
             s \in {"scoring", "discovering_contact", "generating_draft", "completed"} =>
               claims[c] = "reviewed",
             Promise(l, company[c], claims[c])
      PROVE  Advances(w)
  <2>1. UNCHANGED claims
    BY <1>0, <1>5, EnterOK
  <2>2. CASE /\ Save(w, MovedTo(Current(w), s)) /\ MovedTo(Current(w), s) \in CompanyRows
             /\ \E m : Visit(w, "beat", m) /\ m.then = l
    <3> DEFINE r == MovedTo(Current(w), s)
    <3>1. /\ r \in CompanyRows /\ Same(r, company[c]) /\ r.stage = s /\ r.status = "running"
      BY <1>1, <2>2, RowFields
    <3>2. Save(w, r)
      BY <2>2
    <3> HIDE DEF r
    <3>3. Justified(r, claims[c]) /\ r.status \notin Judged
      BY <1>1, <1>5, <3>1 DEF Justified, Same, Judged
    <3>4. Promise(l, r, claims[c])
      BY <1>5, <3>1 DEF Promise, Same
    <3>5. PICK m : Visit(w, "beat", m) /\ m.then = l
      BY <2>2
    <3>6. l # "done"
      BY <1>2, <1>5
    <3>  QED
      BY <1>2, <1>4, <1>5, <2>1, <3>1, <3>2, <3>3, <3>4, <3>5, <3>6
  <2>3. CASE UNCHANGED company /\ Visit(w, "unexpected", me[w])
    <3>1. Promise("unexpected", company[c], claims[c])
      BY DEF Promise, Before, Cleared, Worthy, Addressed
    <3>  QED
      BY <1>2, <1>3, <2>1, <2>3, <3>1
  <2>  QED
    BY <1>0, <1>5, <2>2, <2>3, EnterOK
\* A verdict is reached, or the next step.
<1>6. ASSUME Idle, NEW v \in Verdicts, Judge(w, v)
      PROVE  Advances(w)
  <2>1. Promise("terminal", company[c], claims[c])
    BY DEF Promise, Before, Cleared, Worthy, Addressed
  <2>2. PICK m : Visit(w, "terminal", m)
    BY <1>6, JudgeOK
  <2>  QED
    BY <1>2, <1>3, <1>6, <2>1, <2>2 DEF Idle, table
<1>7. ASSUME Idle, NEW l \in CompanySteps \ {"beat"}, GoTo(w, l), UNCHANGED me,
             Promise(l, company[c], claims[c])
      PROVE  Advances(w)
  BY <1>2, <1>3, <1>7, GoToOK DEF Idle, table
<1>8. ASSUME Idle, NEW l \in CompanySteps \ {"beat"}, GoTo(w, l), NEW f \in Findings,
             me' = [me EXCEPT ![w].found = f],
             Promise(l, company[c], claims[c])
      PROVE  Advances(w)
  BY <1>2, <1>3, <1>8, FoundOK DEF Idle, table
<1>9. \A f \in BOOLEAN, k \in {"retryable", "final"} : Verdict(f, k) \in Verdicts
  BY DEF Verdicts, Verdict
<1>10. {"validating", "researching", "scoring", "discovering_contact", "generating_draft"}
         \subseteq Stages
  BY DEF Stages, RunningStages
<1> USE DEF Promise, Before, Cleared, Worthy, Addressed, At
<1>11. CASE Validate(w) \/ BeginResearch(w)
  BY <1>1, <1>2, <1>5, <1>10, <1>11 DEF Validate, BeginResearch
<1>12. CASE Preflight(w)
  BY <1>1, <1>2, <1>6, <1>7, <1>9, <1>12 DEF Preflight
<1>13. CASE Research(w)
  <2>1. {"failed", "partial", "claims", "clear"} \subseteq Findings
    BY DEF Findings
  <2>  QED
    BY <1>1, <1>2, <1>6, <1>8, <1>9, <1>13, <2>1, ZenonT(60) DEF Research
<1>14. CASE SaveResearch(w)
  <2> DEFINE r == [Current(w) EXCEPT !.research = TRUE]
             k == IF me[w].found = "claims" THEN "pending" ELSE "reviewed"
  <2>1. /\ Save(w, r) /\ claims' = [claims EXCEPT ![c] = k] /\ BeatThen(w, "gate")
    BY <1>14 DEF SaveResearch, c
  <2>2. /\ r \in CompanyRows /\ r.research /\ r.stage = company[c].stage
        /\ r.status = company[c].status /\ r.opportunity = company[c].opportunity
        /\ r.contact = company[c].contact /\ r.draft = company[c].draft
    BY <1>1 DEF CompanyRows
  <2>3. company[c].research = FALSE /\ claims[c] = "none"
    BY <1>1, <1>14 DEF SaveResearch, Justified, CompanyRows
  <2>4. Justified(r, k) /\ Promise("gate", r, k)
    BY <1>1, <2>2, <2>3 DEF Justified
  <2>5. claims'[c] = k /\ \A d \in Companies \ {c} : claims'[d] = claims[d]
    BY <1>1, <2>1 DEF TInv, TypeOK
  <2> HIDE DEF r, k
  <2>6. company'[c] = r /\ \A d \in Companies \ {c} : company'[d] = company[d]
    BY <1>0, <2>1, <2>2, SaveOK DEF c
  <2>7. PICK m : Visit(w, "beat", m) /\ m.then = "gate"
    <3>1. "gate" \in Labels
      BY DEF Labels, CompanySteps
    <3>  QED
      BY <2>1, <3>1, BeatThenOK
  <2> HIDE DEF Promise
  <2>8. Visit(w, "beat", m) /\ m \in Locals /\ "beat" \in Visiting
    BY <1>2, <2>7 DEF Visit
  <2>  QED
    BY <1>0, <1>1, <1>14, <2>2, <2>4, <2>5, <2>6, <2>7, <2>8 DEF Advances, c,
       SaveResearch
<1>15. CASE ResearchGate(w) \/ ReloadResearch(w)
  <2>1. company[c].research
    BY <1>1, <1>15 DEF ResearchGate, ReloadResearch
  <2>2. claims[c] # "none"
    BY <1>1, <2>1 DEF Justified
  <2>3. CASE GoTo(w, "await") /\ UNCHANGED me /\ Idle
    BY <1>2, <1>7, <2>1, <2>3
  <2>4. CASE claims[c] # "pending" /\ GoTo(w, "score") /\ UNCHANGED me /\ Idle
    BY <1>1, <1>2, <1>7, <2>2, <2>4
  <2>5. CASE Idle /\ \E f \in BOOLEAN : Judge(w, Verdict(f, "retryable"))
    BY <1>6, <1>9, <2>5
  <2>  QED
    BY <1>15, <2>3, <2>4, <2>5 DEF ResearchGate, ReloadResearch, c
<1>17. CASE AwaitReview(w)
  <2> DEFINE r == AwaitingReview(Current(w))
  <2>1. Save(w, r) /\ GoTo(w, "done") /\ UNCHANGED <<claims, me>>
    BY <1>17 DEF AwaitReview
  <2>2. /\ r \in CompanyRows /\ Same(r, company[c])
        /\ r.stage = "awaiting_evidence_review" /\ r.status = "needs_review"
    BY <1>1, RowMethods, RowFields
  <2> HIDE DEF r
  <2>3. Justified(r, claims[c]) /\ ~Active(r)
    BY <1>1, <1>17, <2>2 DEF AwaitReview, Justified, Same, Active, TerminalCompany
  <2>  QED
    BY <1>2, <1>4, <1>17, <2>1, <2>2, <2>3, GoToOK DEF AwaitReview
<1>18. CASE Score(w)
  <2>1. claims[c] = "reviewed"
    BY <1>1, <1>18 DEF Score
  <2>2. CASE company[c].opportunity = "none"
    BY <1>1, <1>2, <1>5, <1>10, <1>18, <2>1, <2>2 DEF Score
  <2>3. CASE company[c].opportunity # "none"
    <3> DEFINE l == Qualify(w, company[c].opportunity)
               m == [me[w] EXCEPT !.verdict = Verdict(FALSE, "final")]
    <3>1. GoTo(w, l) /\ me' = [me EXCEPT ![w] = m] /\ Idle
      BY <1>1, <1>18, <2>3 DEF Score
    <3>2. /\ m \in Locals /\ m.job = me[w].job /\ m.todo = me[w].todo
          /\ m.known = me[w].known /\ m.cur = me[w].cur
      <4>1. Verdict(FALSE, "final") \in Verdicts
        BY <1>9
      <4>  QED
        BY <1>0, <4>1, SetLocal
    <3> HIDE DEF m
    <3>3. Visit(w, l, m)
      BY <3>1, <3>2 DEF Visit, GoTo
    <3>4. l \in CompanySteps \ {"beat"} /\ Promise(l, company[c], claims[c])
      BY <1>2, <2>1 DEF Qualify
    <3> HIDE DEF l
    <3>  QED
      BY <1>2, <1>3, <3>1, <3>3, <3>4 DEF Idle, table
  <2>  QED
    BY <2>2, <2>3
<1>19. CASE Assess(w)
  <2>1. Decisions \subseteq Findings
    BY DEF Findings
  <2>  QED
    BY <1>1, <1>2, <1>6, <1>8, <1>9, <1>19, <2>1 DEF Assess
<1>20. CASE SaveOpportunity(w)
  <2> DEFINE r == [Current(w) EXCEPT !.opportunity = me[w].found]
             l == Qualify(w, me[w].found)
             n == [me[w] EXCEPT !.then = l]
             m == [n EXCEPT !.verdict = Verdict(FALSE, "final")]
  <2>1. /\ Save(w, r) /\ UNCHANGED claims
        /\ pc' = [pc EXCEPT ![w] = "beat"] /\ me' = [me EXCEPT ![w] = m]
        /\ me[w].found \in Decisions
    BY <1>20 DEF SaveOpportunity, GoTo, TInv, WorkersOK
  <2>2. l \in {"contact", "terminal"} /\ l \in Labels
    BY <1>2 DEF Qualify, Labels
  <2>3. l = "contact" => me[w].found = "qualified"
    BY DEF Qualify
  <2>4. /\ r \in CompanyRows /\ r.research = company[c].research
        /\ r.stage = company[c].stage
        /\ r.status = company[c].status /\ r.opportunity = me[w].found
        /\ r.contact = company[c].contact /\ r.draft = company[c].draft
    BY <1>1, <2>1 DEF CompanyRows
  <2> HIDE DEF r, l
  <2>5. n \in Locals /\ n.then = l /\ n.job = me[w].job /\ n.todo = me[w].todo
        /\ n.known = me[w].known /\ n.cur = me[w].cur
    BY <1>0, <2>2, SetLocal
  <2> HIDE DEF n
  <2>6. /\ m \in Locals /\ m.job = n.job /\ m.todo = n.todo /\ m.then = n.then
        /\ m.known = n.known /\ m.cur = n.cur
    <3>1. Verdict(FALSE, "final") \in Verdicts
      BY <1>9
    <3>  QED
      BY <2>5, <3>1, SetLocal
  <2> HIDE DEF m
  <2>7. Visit(w, "beat", m) /\ m.then = l
    BY <2>1, <2>5, <2>6 DEF Visit
  <2>8. claims[c] = "reviewed" /\ company[c].opportunity = "none"
    BY <1>1, <1>20 DEF SaveOpportunity
  <2>9. Justified(r, claims[c]) /\ r.status \notin Judged
    BY <1>1, <2>4, <2>8 DEF Justified
  <2>10. Promise(l, r, claims[c])
    BY <2>2, <2>3, <2>4, <2>8
  <2>  QED
    BY <1>2, <1>4, <1>20, <2>1, <2>2, <2>4, <2>7, <2>9, <2>10 DEF SaveOpportunity
<1>21. CASE FindContact(w)
  BY <1>1, <1>2, <1>5, <1>7, <1>10, <1>21 DEF FindContact
<1>22. CASE Discover(w) \/ WriteDraft(w)
  BY <1>1, <1>2, <1>6, <1>7, <1>9, <1>22 DEF Discover, WriteDraft
\* A row is saved with a heartbeat.
<1>23. ASSUME pc[w] # "beat", NEW r \in CompanyRows, Save(w, r), UNCHANGED claims,
              NEW l \in {"draft", "done"}, BeatThen(w, l),
              Justified(r, claims[c]), r.status \notin Judged, Promise(l, r, claims[c]),
              l = "done" => ~Active(r)
       PROVE  Advances(w)
  <2>1. l \in Labels
    BY <1>2 DEF Labels, BatchSteps
  <2>2. PICK m : Visit(w, "beat", m) /\ m.then = l
    BY <1>23, <2>1, BeatThenOK
  <2> HIDE DEF Promise
  <2>  QED
    BY <1>2, <1>4, <1>23, <2>2
<1>24. CASE SaveContact(w)
  <2> DEFINE r == [Current(w) EXCEPT !.contact = TRUE]
  <2>1. Save(w, r) /\ UNCHANGED claims /\ BeatThen(w, "draft")
    BY <1>24 DEF SaveContact
  <2>2. /\ r \in CompanyRows /\ r.research = company[c].research
        /\ r.stage = company[c].stage
        /\ r.status = company[c].status /\ r.opportunity = company[c].opportunity
        /\ r.contact /\ r.draft = company[c].draft
    BY <1>1 DEF CompanyRows
  <2> HIDE DEF r
  <2>3. Justified(r, claims[c]) /\ r.status \notin Judged /\ Promise("draft", r, claims[c])
    BY <1>1, <1>24, <2>2 DEF SaveContact, Justified
  <2>  QED
    BY <1>23, <1>24, <2>1, <2>2, <2>3 DEF SaveContact
<1>25. CASE Draft(w)
  <2>1. claims[c] = "reviewed" /\ company[c].opportunity = "qualified" /\ company[c].contact
    BY <1>1, <1>25 DEF Draft
  <2>2. CASE company[c].draft
    <3> DEFINE r == CompletedCompany(Current(w))
    <3>1. Save(w, r) /\ UNCHANGED claims /\ BeatThen(w, "done")
      BY <1>1, <1>25, <2>2 DEF Draft
    <3>2. /\ r \in CompanyRows /\ Same(r, company[c])
          /\ r.stage = "completed" /\ r.status = "completed"
      BY <1>1, RowMethods, RowFields, ZenonT(60)
    <3> HIDE DEF r
    <3>3. Justified(r, claims[c]) /\ r.status \notin Judged /\ Promise("done", r, claims[c])
          /\ ~Active(r)
      BY <1>1, <2>1, <2>2, <3>2 DEF Justified, Same, Judged, Active, TerminalCompany
    <3>  QED
      BY <1>23, <1>25, <3>1, <3>2, <3>3 DEF Draft
  <2>3. CASE ~company[c].draft
    BY <1>1, <1>2, <1>5, <1>10, <1>25, <2>1, <2>3 DEF Draft
  <2>  QED
    BY <2>2, <2>3
<1>26. CASE SaveDraft(w)
  <2> DEFINE q == [Current(w) EXCEPT !.draft = TRUE]
             r == CompletedCompany(q)
  <2>1. Save(w, r) /\ UNCHANGED claims /\ BeatThen(w, "done")
    BY <1>26 DEF SaveDraft
  <2>2. /\ q \in CompanyRows /\ q.research = company[c].research
        /\ q.opportunity = company[c].opportunity
        /\ q.contact = company[c].contact /\ q.draft
    BY <1>1 DEF CompanyRows
  <2> HIDE DEF q
  <2>3. /\ r \in CompanyRows /\ Same(r, q)
        /\ r.stage = "completed" /\ r.status = "completed"
    BY <2>2, RowMethods, RowFields
  <2> HIDE DEF r
  <2>4. Justified(r, claims[c]) /\ r.status \notin Judged /\ Promise("done", r, claims[c])
        /\ ~Active(r)
    BY <1>1, <1>26, <2>2, <2>3 DEF SaveDraft, Justified, Same, Judged, Active,
       TerminalCompany
  <2>  QED
    BY <1>23, <1>26, <2>1, <2>3, <2>4 DEF SaveDraft
<1>27. CASE Terminal(w)
  <2> DEFINE r == IF me[w].verdict.failed THEN FailedCompany(Current(w), me[w].verdict.code)
                  ELSE NeedingReview(Current(w), me[w].verdict.code)
  <2>1. Save(w, r) /\ GoTo(w, "done") /\ UNCHANGED <<claims, me>>
    BY <1>27 DEF Terminal
  <2>2. me[w].verdict.code \in Codes
    BY <1>0 DEF Locals, Verdicts, Codes
  <2>3. r \in CompanyRows /\ Same(r, company[c]) /\ r.stage \in Judged /\ r.status \in Judged
    <3>1. ASSUME NEW k \in Codes
          PROVE  /\ FailedCompany(Current(w), k) \in CompanyRows
                 /\ Same(FailedCompany(Current(w), k), company[c])
                 /\ FailedCompany(Current(w), k).stage = "failed"
                 /\ FailedCompany(Current(w), k).status = "failed"
                 /\ NeedingReview(Current(w), k) \in CompanyRows
                 /\ Same(NeedingReview(Current(w), k), company[c])
                 /\ NeedingReview(Current(w), k).stage = "needs_review"
                 /\ NeedingReview(Current(w), k).status = "needs_review"
      BY <1>1, RowMethods, RowFields
    <3>  QED
      BY <2>2, <3>1 DEF Judged
  <2> HIDE DEF r
  <2>4. Justified(r, claims[c]) /\ ~Active(r)
    BY <1>1, <2>3 DEF Justified, Same, Judged, Active, TerminalCompany
  <2>  QED
    BY <1>2, <1>4, <1>27, <2>1, <2>3, <2>4, GoToOK DEF Terminal
<1>28. CASE Beat(w)
  <2>1. Heartbeat(w, "beat", me[w].then) /\ UNCHANGED me /\ pc[w] = "beat"
    BY <1>28 DEF Beat, Heartbeat
  <2>2. me[w].then \in AfterBeat
    BY <2>1 DEF TInv, WorkersOK
  <2>3. UNCHANGED <<company, claims>>
    BY <2>1 DEF Heartbeat, table
  <2>4. CASE GoTo(w, me[w].then)
    <3>1. Visit(w, me[w].then, me[w])
      BY <2>1, <2>4, GoToOK
    <3>2. me[w].then \in (Visiting \union {"done"}) \ {"beat"}
      BY <1>2, <2>2 DEF AfterBeat
    <3>3. Promise(me[w].then, company[c], claims[c])
      BY <1>1, <2>1 DEF At
    <3> HIDE DEF Promise
    <3>  QED
      BY <1>3, <2>1, <2>3, <3>1, <3>2, <3>3
  <2>5. CASE GoTo(w, "unexpected")
    <3>1. Visit(w, "unexpected", me[w])
      BY <2>1, <2>5, GoToOK
    <3>2. Promise("unexpected", company[c], claims[c])
      OBVIOUS
    <3> HIDE DEF Promise
    <3>  QED
      BY <1>2, <1>3, <2>3, <3>1, <3>2
  <2>6. OnError(w) = "unexpected"
    BY <2>1 DEF OnError, CompanySteps, BatchSteps
  <2>  QED
    BY <2>1, <2>4, <2>5, <2>6 DEF Heartbeat
<1>  QED
  BY <1>11, <1>12, <1>13, <1>14, <1>15, <1>17, <1>18, <1>19,
     <1>20, <1>21, <1>22, <1>23, <1>24, <1>25, <1>26, <1>27, <1>28 DEF CompanyStep

\* Every step of a single worker, the API and the clock keeps the gate.
LEMMA GateStep == OneWorker /\ TInv /\ GInv /\ [Next]_vars => GInv'
<1> SUFFICES ASSUME OneWorker, TInv, GInv, [Next]_vars PROVE GInv'
  OBVIOUS
<1>1. CASE UNCHANGED vars
  BY <1>1 DEF vars, GInv, CompaniesOK, VisitsOK, At, Current
<1>2. CASE Next
  BY <1>2, ApiGate, QueueGate, BatchGate, CompanyAdvances, AdvanceStep DEF Next, Run
<1>  QED
  BY <1>1, <1>2

\* Before the batch exists, nothing has been promised.
LEMMA GateInit == Init => GInv
  BY DEF Init, GInv, CompaniesOK, VisitsOK, Justified, QueuedCompany, Rounds,
     HasCurrent, Visiting, CompanySteps

\* The typing and the gate together are an inductive invariant.
LEMMA GateHolds ==
  ASSUME OneWorker
  PROVE  Spec => [](TInv /\ GInv)
<1>1. Init => TInv /\ GInv
  BY InitOK, GateInit
<1>2. TInv /\ GInv /\ [Next]_vars => (TInv /\ GInv)'
  BY TypeStep, GateStep
<1>  QED
  BY <1>1, <1>2, PTL DEF Spec

\* The human gate, for any batch size, number of jobs, attempts and faults:
\* no company is scored, contacted or drafted for while a claim of its
\* research run is undecided (workflow.py: the checks of
\* _pending_claim_count before and after a reload).
THEOREM EvidenceIsGated ==
  ASSUME OneWorker
  PROVE  Spec => []EvidenceGate
<1>1. TInv /\ GInv => EvidenceGate
  BY DEF GInv, CompaniesOK, Justified, EvidenceGate
<1>  QED
  BY GateHolds, <1>1, PTL

\* A completed company has a draft, for a contact, of a qualified
\* opportunity, whichever executions saved them (_process_after_research).
THEOREM CompletedStayJustified ==
  ASSUME OneWorker
  PROVE  Spec => []CompletedIsJustified
<1>1. TInv /\ GInv => CompletedIsJustified
  BY DEF GInv, CompaniesOK, Justified, CompletedIsJustified
<1>  QED
  BY GateHolds, <1>1, PTL

\* A worker in the pipeline of a company changes the row of no other.
LEMMA OneRow ==
  ASSUME TInv, NEW w \in Workers, CompanyStep(w) \/ HandleUnexpected(w)
  PROVE  /\ pc[w] \in Visiting
         /\ UNCHANGED company \/ \E r : company' = [company EXCEPT ![me[w].cur] = r]
<1>1. pc[w] \in Visiting
  BY DEF CompanyStep, Validate, Preflight, BeginResearch, Research, SaveResearch,
     ResearchGate, ReloadResearch, AwaitReview, Score, Assess, SaveOpportunity,
     FindContact, Discover, SaveContact, Draft, WriteDraft, SaveDraft, Terminal, Beat,
     Heartbeat, CompanySteps, Visiting, HandleUnexpected
<1>2. CASE Validate(w) \/ BeginResearch(w) \/ Score(w) \/ FindContact(w) \/ Draft(w)
  <2>1. \/ Idle
        \/ \E s, l : EnterStage(w, s, l)
        \/ \E r : Save(w, r)
    BY <1>2 DEF Validate, BeginResearch, Score, FindContact, Draft
  <2>  QED
    BY <1>1, <2>1 DEF EnterStage, Save, Idle, table
<1>3. CASE Preflight(w) \/ Research(w) \/ ResearchGate(w) \/ ReloadResearch(w) \/ Assess(w)
             \/ Discover(w) \/ WriteDraft(w) \/ Beat(w)
  <2>1. Idle \/ UNCHANGED table
    BY <1>3 DEF Preflight, Research, ResearchGate, ReloadResearch, Assess, Discover,
       WriteDraft, Beat, Heartbeat
  <2>  QED
    BY <1>1, <2>1 DEF Idle, table
<1>4. CASE SaveResearch(w) \/ AwaitReview(w) \/ SaveOpportunity(w) \/ SaveContact(w)
             \/ SaveDraft(w) \/ Terminal(w) \/ HandleUnexpected(w)
  <2>1. \E r : Save(w, r)
    BY <1>4 DEF SaveResearch, AwaitReview, SaveOpportunity, SaveContact, SaveDraft,
       Terminal, HandleUnexpected
  <2>  QED
    BY <1>1, <2>1 DEF Save
<1>  QED
  BY <1>1, <1>2, <1>3, <1>4 DEF CompanyStep

\* The API takes the judgement of a company back.
Reopened(c) ==
  /\ company'[c].status = "queued" /\ batch' = "pending" /\ Len(jobs') = Len(jobs) + 1
  /\ company[c].research => claims[c] # "pending"

\* Whoever changes the row of a judged company reopens it.
LEMMA ChangedRow ==
  ASSUME TInv, GInv, [Next]_vars, NEW c \in Companies, company'[c] # company[c]
  PROVE  company[c].status \notin Judged \/ Reopened(c)
<1>0. company \in [Companies -> CompanyRows] /\ company[c] \in CompanyRows
  BY DEF TInv, TypeOK
<1>1. CASE \E w \in Workers : CompanyStep(w) \/ HandleUnexpected(w)
  <2>1. PICK w \in Workers : CompanyStep(w) \/ HandleUnexpected(w)
    BY <1>1
  <2>2. pc[w] \in Visiting /\ me[w].cur = c
    BY <1>0, <2>1, OneRow
  <2>  QED
    BY <2>2 DEF GInv, VisitsOK, Current
<1>2. CASE \E d \in Companies : RetryCompany(d) \/ ResumeCompany(d)
  <2>1. PICK d \in Companies : RetryCompany(d) \/ ResumeCompany(d)
    BY <1>2
  <2>2. /\ batch' = "pending" /\ AddJob /\ d = c
        /\ company'[c] \in {RetriedCompany(company[c]), ResumedCompany(company[c])}
        /\ company[c].research => claims[c] # "pending"
    BY <1>0, <2>1 DEF RetryCompany, ResumeCompany, Requeue
  <2>3. company'[c].status = "queued"
    BY <1>0, <2>2, RowFields
  <2>4. Len(jobs') = Len(jobs) + 1
    BY <2>2, CreatedOK DEF AddJob, TInv, RowsOK, RowOK
  <2>  QED
    BY <2>2, <2>3, <2>4 DEF Reopened
<1>3. CASE company' = RecoveredCompanies(company) \/ company' = FailedActive(company)
  BY <1>3 DEF RecoveredCompanies, RequeuedCompany, FailedActive, Active,
     TerminalCompany, Judged
<1>  QED
  BY <1>1, <1>2, <1>3 DEF Next, Api, SubmitBatch, CreateRoutingBatch, StartRoutingBatch,
     ReviewClaims, LeaseTick, Run, QueueStep, RecoverStale, Claim, ClaimNothing,
     StartJob,
     CompleteJob, RecordFailure, Restart, BatchStep, LoadBatch, StartBatch, NextCompany,
     NoMoreCompanies, Finish, Finalize, LeaveCompany, Heartbeat, Raise, Crash, Idle,
     table, vars

\* The three parts of ReviewIsBinding hold of every step.
LEMMA BindingStep ==
  TInv /\ GInv /\ [Next]_vars =>
    /\ \A w \in Workers :
         pc[w] = "research" /\ pc'[w] = "saveresearch" => ~company[me[w].cur].research
    /\ \A c \in Companies :
         /\ company[c].stage = "awaiting_evidence_review"
         /\ company'[c] # company[c]
         => claims[c] = "reviewed"
    /\ \A c \in Companies :
         /\ company[c].status \in {"needs_review", "failed"}
         /\ company'[c] # company[c]
         => company'[c].status = "queued" /\ batch' = "pending"
              /\ Len(jobs') = Len(jobs) + 1
<1> SUFFICES ASSUME TInv, GInv, [Next]_vars
             PROVE  /\ \A w \in Workers : pc[w] = "research" => ~company[me[w].cur].research
                    /\ \A c \in Companies :
                         /\ company[c].stage = "awaiting_evidence_review"
                         /\ company'[c] # company[c]
                         => claims[c] = "reviewed"
                    /\ \A c \in Companies :
                         /\ company[c].status \in {"needs_review", "failed"}
                         /\ company'[c] # company[c]
                         => Reopened(c)
  BY DEF Reopened
<1>1. ASSUME NEW w \in Workers, pc[w] = "research"
      PROVE  ~company[me[w].cur].research
  BY <1>1 DEF GInv, VisitsOK, Promise, Before, At, Current, HasCurrent, Visiting,
     CompanySteps
<1>2. ASSUME NEW c \in Companies, company[c].stage = "awaiting_evidence_review",
             company'[c] # company[c]
      PROVE  claims[c] = "reviewed"
  <2>1. company[c].status \in Judged /\ company[c].research /\ claims[c] # "none"
        /\ claims[c] \in {"none", "pending", "reviewed"}
    BY <1>2 DEF GInv, CompaniesOK, Justified, Judged, TInv, TypeOK
  <2>  QED
    BY <1>2, <2>1, ChangedRow DEF Reopened
<1>3. ASSUME NEW c \in Companies, company[c].status \in {"needs_review", "failed"},
             company'[c] # company[c]
      PROVE  Reopened(c)
  BY <1>3, ChangedRow DEF Judged
<1>  QED
  BY <1>1, <1>2, <1>3

\* What was found and reviewed is binding for every later step: a saved
\* run is not researched again, a parked company waits for its reviewer,
\* and only a requeue with a new job reopens a judged company.
THEOREM ReviewStaysBinding ==
  ASSUME OneWorker
  PROVE  Spec => ReviewIsBinding
<1>1. TInv /\ GInv /\ [Next]_vars =>
        /\ [\A w \in Workers :
              pc[w] = "research" /\ pc'[w] = "saveresearch"
                => ~company[me[w].cur].research]_vars
        /\ [\A c \in Companies :
              /\ company[c].stage = "awaiting_evidence_review"
              /\ company'[c] # company[c]
              => claims[c] = "reviewed"]_vars
        /\ [\A c \in Companies :
              /\ company[c].status \in {"needs_review", "failed"}
              /\ company'[c] # company[c]
              => company'[c].status = "queued" /\ batch' = "pending"
                   /\ Len(jobs') = Len(jobs) + 1]_vars
  BY BindingStep
<1>  QED
  BY GateHolds, <1>1, PTL DEF Spec, ReviewIsBinding, ResearchNotRepeated,
     ParkedUntilReviewed, ReopenedWithJob

------------------------------------------------------------------------------
(***************************************************************************)
(* The job, the batch and its companies                                    *)
(***************************************************************************)
\* The last job of the batch.
LastJob == jobs[Len(jobs)]

\* Only the last job of the batch may be active.
LastOK ==
  /\ \A j \in DOMAIN jobs : jobs[j].status # "absent"
  /\ \A j \in DOMAIN jobs : j < Len(jobs) => jobs[j].status \in TerminalStatuses

\* The worker holds the job it works on.
HoldsOK ==
  \A w \in Workers :
    pc[w] \in Working =>
      /\ me[w].job = Len(jobs) /\ LastJob.owner = w
      /\ LastJob.status = IF pc[w] = "start" THEN "leased" ELSE "running"

\* The steps at which the batch is running; its summary is the right one.
Underway == HasCurrent \union {"next", "finish", "finalize"}

BatchOK ==
  /\ batch = "absent" => jobs = <<>>
  /\ jobs = <<>> => /\ batch \in {"absent", "pending"}
                    /\ \A c \in Companies : company[c].status = "queued"
  /\ batch \in FinalStatuses => ~HasActive(company) /\ batch = FinalStatus(company)
  /\ \A w \in Workers : pc[w] \in Underway => batch = "running"

\* A batch whose job does not run any more, or not yet, has an active
\* company or is final, and without an active job it is final.
EndOK ==
  jobs # <<>> =>
    /\ LastJob.status # "running" => HasActive(company) \/ batch \in FinalStatuses
    /\ LastJob.status \in TerminalStatuses => ~HasActive(company)
    /\ \A w \in Workers :
         /\ pc[w] = "load" => HasActive(company) \/ batch \in FinalStatuses
         /\ pc[w] \in {"finish", "finalize", "complete"} => ~HasActive(company)
         /\ pc[w] = "complete" => batch \in FinalStatuses

\* The companies a worker still has to visit are on its list.
LeftOK ==
  \A w \in Workers :
    /\ pc[w] \in {"startbatch", "next"} =>
         \A c \in Companies : Active(company[c]) => c \in me[w].todo
    /\ pc[w] \in HasCurrent =>
         \A c \in Companies : Active(company[c]) =>
           c \in me[w].todo \/ (c = me[w].cur /\ At(w) # "done")

\* A company is running only while the last job is held.
RunningOK ==
  \A c \in Companies : company[c].status = "running" => jobs # <<>> /\ Held(LastJob)

JInv == LastOK /\ HoldsOK /\ BatchOK /\ EndOK /\ LeftOK /\ RunningOK

\* The jobs keep status and owner: a heartbeat, or the clock.
JobsSame ==
  /\ DOMAIN jobs' = DOMAIN jobs /\ Len(jobs') = Len(jobs)
  /\ \A j \in DOMAIN jobs : jobs'[j].status = jobs[j].status /\ jobs'[j].owner = jobs[j].owner

\* The last job, if there is one.
LEMMA Facts ==
  ASSUME TInv
  PROVE  /\ Len(jobs) \in Nat /\ DOMAIN jobs = 1 .. Len(jobs)
         /\ jobs = <<>> <=> Len(jobs) = 0
         /\ jobs # <<>> => Len(jobs) \in DOMAIN jobs
  BY DEF TInv, RowsOK

\* Jobs that keep status and owner keep the last one's.
LEMMA SameNonempty ==
  ASSUME TInv, TInv', JobsSame
  PROVE  /\ jobs' = <<>> <=> jobs = <<>>
         /\ jobs # <<>> => LastJob'.status = LastJob.status /\ LastJob'.owner = LastJob.owner
<1>1. jobs' \in Seq(JobRows) /\ jobs \in Seq(JobRows) /\ Len(jobs') = Len(jobs)
  BY DEF TInv, RowsOK, JobsSame
<1>2. jobs' = <<>> <=> jobs = <<>>
  BY <1>1
<1>  QED
  BY <1>1, <1>2, Facts DEF LastJob, JobsSame

\* Renewing a lease or ageing it is no change here.
LEMMA BeatSame ==
  ASSUME TInv, NEW w \in Workers, NEW at \in Working, NEW l, Heartbeat(w, at, l)
  PROVE  JobsSame /\ UNCHANGED <<table, faults>>
<1>1. me[w].job \in DOMAIN jobs
  BY DEF Heartbeat, TInv, WorkersOK
<1>2. jobs \in Seq(JobRows) /\ jobs[me[w].job] \in JobRows
  BY <1>1 DEF TInv, RowsOK
<1>3. /\ Renewed(jobs[me[w].job]).status = jobs[me[w].job].status
      /\ Renewed(jobs[me[w].job]).owner = jobs[me[w].job].owner
  BY <1>2 DEF Renewed, JobRows
<1>  QED
  BY <1>1, <1>2, <1>3 DEF Heartbeat, JobsSame, Job

\* A step within the pipeline leaves the batch alone, and of the jobs it at
\* most renews a lease.
LEMMA CompanyFrame ==
  ASSUME TInv, NEW w \in Workers, CompanyStep(w) \/ HandleUnexpected(w)
  PROVE  UNCHANGED batch /\ JobsSame /\ (Beat(w) \/ UNCHANGED jobs)
<1>1. CASE UNCHANGED <<batch, jobs>>
  BY <1>1 DEF JobsSame
<1>2. CASE Beat(w)
  <2>1. "beat" \in Working
    BY DEF Working, Labels, CompanySteps
  <2>  QED
    BY <1>2, <2>1, BeatSame DEF Beat, table
<1>3. CASE Validate(w) \/ BeginResearch(w) \/ Score(w) \/ FindContact(w) \/ Draft(w)
  <2>1. \/ Idle
        \/ \E s, l : EnterStage(w, s, l)
        \/ \E r : Save(w, r)
    BY <1>3 DEF Validate, BeginResearch, Score, FindContact, Draft
  <2>  QED
    BY <1>1, <2>1 DEF EnterStage, Save, Idle, table
<1>4. CASE Preflight(w) \/ Research(w) \/ ResearchGate(w) \/ ReloadResearch(w) \/ Assess(w)
             \/ Discover(w) \/ WriteDraft(w)
  BY <1>1, <1>4 DEF Preflight, Research, ResearchGate, ReloadResearch, Assess, Discover,
     WriteDraft, Idle, table
<1>5. CASE SaveResearch(w) \/ AwaitReview(w) \/ SaveOpportunity(w) \/ SaveContact(w)
             \/ SaveDraft(w) \/ Terminal(w) \/ HandleUnexpected(w)
  <2>1. \E r : Save(w, r)
    BY <1>5 DEF SaveResearch, AwaitReview, SaveOpportunity, SaveContact, SaveDraft,
       Terminal, HandleUnexpected
  <2>  QED
    BY <1>1, <2>1 DEF Save
<1>  QED
  BY <1>2, <1>3, <1>4, <1>5 DEF CompanyStep

\* A step within the pipeline of a company.
LEMMA AdvanceJobs ==
  ASSUME OneWorker, TInv, TInv', GInv, JInv, NEW w \in Workers, pc[w] \in Visiting,
         Advances(w),
         JobsSame, UNCHANGED batch
  PROVE  JInv'
<1> USE DEF JInv
<1>0. PICK l \in Visiting \union {"done"}, m \in Locals :
        /\ Visit(w, l, m)
        /\ \A c \in Companies \ {me[w].cur} : company'[c] = company[c]
        /\ IF At(w) = "done" THEN company'[me[w].cur] = company[me[w].cur]
           ELSE (IF l = "beat" THEN m.then ELSE l) = "done" => ~Active(company'[me[w].cur])
  BY DEF Advances
<1>1. /\ pc'[w] = l /\ me'[w] = m /\ m.cur = me[w].cur /\ m.todo = me[w].todo
      /\ m.job = me[w].job
  BY <1>0 DEF Visit, TInv, TypeOK
<1>2. At(w)' = IF l = "beat" THEN m.then ELSE l
  BY <1>1 DEF At
<1>3. /\ jobs # <<>> /\ me[w].job = Len(jobs) /\ LastJob.owner = w /\ LastJob.status = "running"
      /\ batch = "running" /\ pc[w] \in HasCurrent
  <2>1. pc[w] \in Working /\ pc[w] # "start" /\ pc[w] \in HasCurrent
    BY DEF Visiting, CompanySteps, Working, Labels, BatchSteps, HasCurrent
  <2>2. me[w].job \in DOMAIN jobs
    BY <2>1 DEF TInv, WorkersOK
  <2>  QED
    BY <2>1, <2>2, Facts DEF HoldsOK, BatchOK, Underway
<1>4. jobs' # <<>> /\ LastJob'.owner = w /\ LastJob'.status = "running" /\ Len(jobs') = Len(jobs)
  BY <1>3, SameNonempty DEF JobsSame
<1>5. l \in HasCurrent /\ l \in Working /\ l # "start"
      /\ l \notin {"startbatch", "next", "load", "finish", "finalize", "complete"}
  BY DEF Visiting, CompanySteps, Working, Labels, BatchSteps, HasCurrent
<1>6. LastOK'
  BY DEF LastOK, JobsSame
<1>7. HoldsOK'
  BY <1>1, <1>3, <1>4, <1>5 DEF HoldsOK, OneWorker
<1>8. BatchOK'
  BY <1>3, <1>4 DEF BatchOK, FinalStatuses
<1>9. EndOK'
  BY <1>1, <1>4, <1>5 DEF EndOK, OneWorker, TerminalStatuses
<1>10. LeftOK'
  <2> SUFFICES ASSUME NEW c \in Companies, Active(company'[c])
               PROVE  c \in m.todo \/ (c = m.cur /\ At(w)' # "done")
    BY <1>1, <1>5 DEF LeftOK, OneWorker
  <2>1. CASE c # me[w].cur
    BY <1>0, <1>1, <1>3, <2>1 DEF LeftOK
  <2>2. CASE c = me[w].cur
    BY <1>0, <1>1, <1>2, <1>3, <2>2 DEF LeftOK
  <2>  QED
    BY <2>1, <2>2
<1>11. RunningOK'
  BY <1>4 DEF RunningOK, Held, HeldStatuses
<1>  QED
  BY <1>6, <1>7, <1>8, <1>9, <1>10, <1>11
\* The worker goes on with its job, or without one; the rows stay.
LEMMA MoveJobs ==
  ASSUME OneWorker, TInv, TInv', JInv, JobsSame, UNCHANGED <<company, batch>>,
         NEW w \in Workers,
         pc'[w] \in Working =>
           pc[w] \in Working \ {"start"} /\ pc'[w] # "start" /\ me'[w].job = me[w].job,
         pc'[w] \in Underway => batch = "running",
         pc'[w] = "load" => HasActive(company) \/ batch \in FinalStatuses,
         pc'[w] \in {"finish", "finalize", "complete"} => ~HasActive(company),
         pc'[w] = "complete" => batch \in FinalStatuses,
         pc'[w] \in {"startbatch", "next"} =>
           \A c \in Companies : Active(company[c]) => c \in me'[w].todo,
         pc'[w] \in HasCurrent =>
           \A c \in Companies : Active(company[c]) =>
             c \in me'[w].todo \/ (c = me'[w].cur /\ At(w)' # "done")
  PROVE  JInv'
<1> USE DEF JInv
<1>1. /\ jobs' = <<>> <=> jobs = <<>>
      /\ jobs # <<>> => LastJob'.status = LastJob.status /\ LastJob'.owner = LastJob.owner
      /\ Len(jobs') = Len(jobs) /\ HasActive(company') = HasActive(company)
      /\ FinalStatus(company') = FinalStatus(company)
  BY SameNonempty DEF JobsSame
<1>2. LastOK'
  BY DEF LastOK, JobsSame
<1>3. HoldsOK'
  <2> SUFFICES ASSUME pc'[w] \in Working
               PROVE  /\ me'[w].job = Len(jobs') /\ LastJob'.owner = w
                      /\ LastJob'.status = "running" /\ pc'[w] # "start"
    BY DEF HoldsOK, OneWorker
  <2>1. me[w].job \in DOMAIN jobs
    BY DEF TInv, WorkersOK
  <2>  QED
    BY <1>1, <2>1, Facts DEF HoldsOK
<1>4. BatchOK'
  BY <1>1 DEF BatchOK, OneWorker
<1>5. EndOK'
  BY <1>1 DEF EndOK, OneWorker
<1>6. LeftOK'
  BY DEF LeftOK, OneWorker
<1>7. RunningOK'
  BY <1>1 DEF RunningOK, Held
<1>  QED
  BY <1>2, <1>3, <1>4, <1>5, <1>6, <1>7

\* What a worker with a job knows of it.
LEMMA AtWork ==
  ASSUME TInv, JInv, NEW w \in Workers, pc[w] \in Working
  PROVE  /\ jobs # <<>> /\ Job(w) = LastJob /\ me[w].job = Len(jobs)
         /\ me[w].job \in DOMAIN jobs /\ RowOK(LastJob) /\ Owns(LastJob, w)
         /\ LastJob.status = IF pc[w] = "start" THEN "leased" ELSE "running"
<1>1. me[w].job \in DOMAIN jobs
  BY DEF TInv, WorkersOK
<1>  QED
  BY <1>1, Facts DEF JInv, HoldsOK, Job, LastJob, Owns, Held, HeldStatuses, TInv, RowsOK,
     RowOK

\* The steps of execute that leave companies and batch alone.
LEMMA PassJobs ==
  ASSUME OneWorker, TInv, TInv', JInv, NEW w \in Workers,
         LoadBatch(w) \/ NextCompany(w) \/ NoMoreCompanies(w) \/ Finish(w) \/ LeaveCompany(w)
  PROVE  JInv'
<1>0. /\ {"load", "next", "finish", "done"} \subseteq Working \ {"start"}
      /\ Working \subseteq Labels
      /\ {"next", "finish", "done"} \subseteq Underway
      /\ "done" \in HasCurrent
      /\ {"load", "startbatch", "complete", "failing"} \cap Underway = {}
      /\ {"load", "startbatch", "complete", "failing", "next", "finish", "finalize"}
           \cap HasCurrent = {}
  BY DEF Working, Labels, BatchSteps, CompanySteps, QueueSteps, Underway, HasCurrent,
     Visiting
<1>1. pc \in [Workers -> Labels] /\ me \in [Workers -> Locals] /\ me[w] \in Locals
  BY DEF TInv, TypeOK
<1>2. /\ UNCHANGED jobs => JobsSame
      /\ pc[w] \in Working =>
           /\ jobs # <<>> /\ Job(w) = LastJob /\ Owns(LastJob, w)
           /\ LastJob.status = IF pc[w] = "start" THEN "leased" ELSE "running"
  BY AtWork DEF JobsSame
<1>3. CASE LoadBatch(w)
  <2>1. /\ UNCHANGED <<company, batch, jobs>> /\ pc[w] = "load"
        /\ \/ /\ HasActive(company) /\ pc'[w] = "startbatch"
              /\ me'[w] = [[me[w] EXCEPT !.todo = {c \in Companies : Active(company[c])}]
                             EXCEPT !.known = {c \in Companies : company[c].research}]
           \/ ~HasActive(company) /\ pc'[w] = "complete" /\ UNCHANGED me
    BY <1>1, <1>3 DEF LoadBatch, GoTo, Idle, table
  <2>2. /\ me'[w].job = me[w].job
        /\ pc'[w] = "startbatch" => me'[w].todo = {c \in Companies : Active(company[c])}
    BY <1>1, <2>1 DEF Locals
  <2>3. HasActive(company) \/ batch \in FinalStatuses
    BY <1>0, <1>2, <2>1 DEF JInv, EndOK
  <2>  QED
    BY <1>0, <1>2, <2>1, <2>2, <2>3, MoveJobs
<1>4. CASE NextCompany(w)
  <2> DEFINE c == Min(me[w].todo)
             l == IF c \in me[w].known THEN "reload" ELSE "validate"
  <2>1. /\ Heartbeat(w, "next", l) /\ me[w].todo # {}
        /\ me' = [me EXCEPT ![w].cur = c, ![w].todo = @ \ {c}]
    BY <1>4 DEF NextCompany
  <2>2. JobsSame /\ UNCHANGED <<company, batch>> /\ pc[w] = "next"
    BY <1>0, <2>1, BeatSame DEF table, Heartbeat
  <2>3. pc'[w] = l
    BY <1>0, <1>1, <1>2, <2>1, <2>2 DEF Heartbeat, GoTo
  <2>4. me'[w] = [[me[w] EXCEPT !.cur = c] EXCEPT !.todo = me[w].todo \ {c}]
    BY <1>1, <2>1
  <2>5. /\ me'[w].job = me[w].job /\ me'[w].cur = c /\ me'[w].todo = me[w].todo \ {c}
    BY <1>1, <2>4 DEF Locals
  <2>6. /\ l \in Working \ {"start"} /\ l # "beat" /\ l # "done"
        /\ l \notin {"load", "finish", "finalize", "complete", "startbatch", "next"}
    BY DEF Working, Labels, CompanySteps
  <2>7. batch = "running" /\ \A d \in Companies : Active(company[d]) => d \in me[w].todo
    BY <1>0, <2>2 DEF JInv, BatchOK, LeftOK
  <2>8. At(w)' = l
    BY <2>3, <2>6 DEF At
  <2> HIDE DEF c, l
  <2>9. \A d \in Companies : Active(company[d]) =>
          d \in me'[w].todo \/ (d = me'[w].cur /\ At(w)' # "done")
    BY <2>5, <2>6, <2>7, <2>8
  <2>  QED
    BY <1>0, <2>2, <2>3, <2>5, <2>6, <2>7, <2>9, MoveJobs
<1>5. CASE NoMoreCompanies(w)
  <2>1. /\ UNCHANGED <<company, batch, jobs, me>> /\ pc[w] = "next" /\ pc'[w] = "finish"
        /\ me[w].todo = {}
    BY <1>1, <1>5 DEF NoMoreCompanies, GoTo, Idle, table
  <2>2. batch = "running" /\ ~HasActive(company)
    BY <1>0, <2>1 DEF JInv, BatchOK, LeftOK, HasActive
  <2>  QED
    BY <1>0, <1>2, <2>1, <2>2, MoveJobs
<1>6. CASE Finish(w)
  <2>1. /\ UNCHANGED <<company, batch, jobs, me>> /\ pc[w] = "finish"
        /\ pc'[w] = IF HasActive(company) THEN "complete" ELSE "finalize"
    BY <1>1, <1>6 DEF Finish, GoTo, Idle, table
  <2>2. batch = "running" /\ ~HasActive(company)
    BY <1>0, <1>2, <2>1 DEF JInv, BatchOK, EndOK
  <2>  QED
    BY <1>0, <1>2, <2>1, <2>2, MoveJobs
<1>7. CASE LeaveCompany(w)
  <2>1. Heartbeat(w, "done", "next")
    BY <1>7 DEF LeaveCompany
  <2>2. JobsSame /\ UNCHANGED <<company, batch>> /\ pc[w] = "done"
    BY <1>0, <2>1, BeatSame DEF table, Heartbeat
  <2>3. pc'[w] = "next"
    BY <1>0, <1>1, <1>2, <2>1, <2>2 DEF Heartbeat, GoTo
  <2>4. me'[w].job = me[w].job /\ me'[w].todo = me[w].todo
    <3>1. me'[w] = [[[[me[w] EXCEPT !.cur = 0] EXCEPT !.then = "next"]
                      EXCEPT !.verdict = NoVerdict] EXCEPT !.found = "none"]
      BY <1>1, <1>7 DEF LeaveCompany
    <3>  QED
      BY <1>1, <3>1 DEF Locals
  <2>5. batch = "running" /\ \A c \in Companies : Active(company[c]) => c \in me[w].todo
    BY <1>0, <2>2 DEF JInv, BatchOK, LeftOK, At
  <2>  QED
    BY <1>0, <2>2, <2>3, <2>4, <2>5, MoveJobs
<1>  QED
  BY <1>3, <1>4, <1>5, <1>6, <1>7

\* The steps of execute that write the batch.
LEMMA SummaryJobs ==
  ASSUME OneWorker, TInv, TInv', JInv, NEW w \in Workers, StartBatch(w) \/ Finalize(w)
  PROVE  JInv'
<1> USE DEF JInv
<1>1. pc \in [Workers -> Labels] /\ UNCHANGED <<company, jobs>>
      /\ LastJob' = LastJob /\ HasActive(company') = HasActive(company)
      /\ FinalStatus(company') = FinalStatus(company)
  BY DEF StartBatch, Finalize, TInv, TypeOK, LastJob
<1>2. /\ {"startbatch", "next", "finalize", "complete", "failing"} \subseteq Working \ {"start"}
      /\ {"startbatch", "next", "finalize", "complete", "failing"} \cap HasCurrent = {}
      /\ {"complete", "failing"} \cap Underway = {}
      /\ JobsSame
  BY <1>1 DEF Working, Labels, BatchSteps, CompanySteps, QueueSteps, Underway,
     HasCurrent, Visiting, JobsSame
<1>3. CASE UNCHANGED batch
  <2>1. pc[w] \in BatchSteps /\ pc[w] \in {"startbatch", "finalize"} /\ pc[w] \notin CompanySteps
    BY DEF StartBatch, Finalize, BatchSteps, CompanySteps
  <2>2. ~HasActive(company) \/ pc[w] # "finalize"
    BY <1>2, <2>1, AtWork DEF EndOK
  <2>3. CASE Throw(w)
    <3>1. OnError(w) = "failing"
      BY <2>1 DEF OnError
    <3>2. pc'[w] = "failing" /\ UNCHANGED me
      BY <1>1, <2>3, <3>1 DEF Throw, GoTo
    <3>  QED
      BY <1>1, <1>2, <1>3, <2>1, <3>2, MoveJobs
  <2>4. CASE /\ pc[w] = "startbatch" /\ pc'[w] = "next" /\ batch' = "running" /\ UNCHANGED me
    <3>1. batch = "running"
      BY <1>3, <2>4
    <3>2. \A c \in Companies : Active(company[c]) => c \in me'[w].todo
      BY <2>4 DEF LeftOK
    <3>  QED
      BY <1>1, <1>2, <1>3, <2>4, <3>1, <3>2, MoveJobs
  <2>5. CASE /\ pc[w] = "finalize" /\ pc'[w] = "complete" /\ CanFinalize(company)
             /\ batch' = FinalStatus(company) /\ UNCHANGED me
    <3>1. batch \in FinalStatuses
      BY <1>3, <2>5 DEF FinalStatus, FinalStatuses
    <3>2. ~HasActive(company)
      BY <2>5 DEF CanFinalize
    <3>  QED
      BY <1>1, <1>2, <1>3, <2>5, <3>1, <3>2, MoveJobs
  <2>  QED
    BY <1>1, <2>3, <2>4, <2>5 DEF StartBatch, Finalize, GoTo
<1>4. CASE ~UNCHANGED batch /\ StartBatch(w)
  <2>1. /\ pc[w] = "startbatch" /\ pc'[w] = "next" /\ batch' = "running" /\ UNCHANGED me
    BY <1>1, <1>4 DEF StartBatch, GoTo
  <2>2. jobs # <<>> /\ LastJob.status = "running" /\ me[w].job = Len(jobs) /\ LastJob.owner = w
    BY <1>2, <2>1, AtWork DEF Owns
  <2>3. LastOK' /\ RunningOK'
    BY <1>1 DEF LastOK, RunningOK
  <2>4. HoldsOK'
    BY <1>1, <2>1, <2>2 DEF HoldsOK, OneWorker
  <2>5. BatchOK'
    BY <1>1, <2>1, <2>2 DEF BatchOK, OneWorker, FinalStatuses
  <2>6. EndOK'
    BY <1>1, <2>1, <2>2 DEF EndOK, OneWorker, TerminalStatuses
  <2>7. LeftOK'
    BY <1>1, <1>2, <2>1 DEF LeftOK, OneWorker
  <2>  QED
    BY <2>3, <2>4, <2>5, <2>6, <2>7
<1>5. CASE ~UNCHANGED batch /\ Finalize(w)
  <2>1. /\ pc[w] = "finalize" /\ pc'[w] = "complete" /\ batch' = FinalStatus(company)
        /\ UNCHANGED me /\ ~HasActive(company)
    BY <1>1, <1>5 DEF Finalize, GoTo, CanFinalize
  <2>2. jobs # <<>> /\ LastJob.status = "running" /\ me[w].job = Len(jobs) /\ LastJob.owner = w
        /\ FinalStatus(company) \in FinalStatuses
    BY <1>2, <2>1, AtWork DEF Owns, FinalStatus, FinalStatuses
  <2>3. LastOK' /\ RunningOK'
    BY <1>1 DEF LastOK, RunningOK
  <2>4. HoldsOK'
    BY <1>1, <2>1, <2>2 DEF HoldsOK, OneWorker
  <2>5. BatchOK'
    BY <1>1, <1>2, <2>1, <2>2 DEF BatchOK, OneWorker, FinalStatuses
  <2>6. EndOK'
    BY <1>1, <2>1, <2>2 DEF EndOK, OneWorker, TerminalStatuses
  <2>7. LeftOK'
    BY <1>1, <1>2, <2>1 DEF LeftOK, OneWorker
  <2>  QED
    BY <2>3, <2>4, <2>5, <2>6, <2>7
<1>  QED
  BY <1>3, <1>4, <1>5

\* A transaction fails outside the pipeline of a company, or the process dies.
LEMMA FaultJobs ==
  ASSUME OneWorker, TInv, TInv', GInv, JInv, NEW w \in Workers, Raise(w) \/ Crash(w)
  PROVE  JInv'
<1>1. /\ pc \in [Workers -> Labels] /\ UNCHANGED <<company, batch, jobs, claims>>
      /\ JobsSame
      /\ pc[w] \in Labels
  BY DEF Raise, Crash, TInv, TypeOK, table, JobsSame
<1>2. /\ {"down", "failing"} \cap (HasCurrent \union Underway) = {}
      /\ "down" \notin Working
      /\ BatchSteps \union CompanySteps \subseteq Working \ {"start"}
      /\ CompanySteps \subseteq HasCurrent
      /\ CompanySteps \cap {"done"} = {}
      /\ "unexpected" \in HasCurrent \ {"beat", "done"} /\ "failing" \in Working \ {"start"}
  BY DEF Working, Labels, BatchSteps, CompanySteps, QueueSteps, Underway, HasCurrent,
     Visiting
<1>3. CASE Leave(w, "down")
  <2>1. pc'[w] = "down"
    BY <1>1, <1>3 DEF Leave, GoTo
  <2>  QED
    BY <1>1, <1>2, <2>1, MoveJobs
<1>4. CASE Raise(w) /\ ~Leave(w, "down")
  <2>1. /\ pc'[w] = OnError(w) /\ UNCHANGED me /\ OnError(w) # "down"
    <3>1. /\ OnError(w) # "down"
          /\ pc' = [pc EXCEPT ![w] = OnError(w)] /\ UNCHANGED me
      BY <1>4 DEF Raise, Throw, GoTo
    <3> HIDE DEF OnError
    <3>  QED
      BY <1>1, <3>1
  <2>2. CASE pc[w] \in CompanySteps
    <3>1. pc'[w] = "unexpected"
      BY <2>1, <2>2 DEF OnError, CompanySteps, BatchSteps
    <3>2. batch = "running"
      BY <1>2, <2>2 DEF JInv, BatchOK, Underway
    <3>3. \A c \in Companies : Active(company[c]) => c \in me[w].todo \/ c = me[w].cur
      BY <1>2, <2>2 DEF JInv, LeftOK
    <3>4. At(w)' = "unexpected"
      BY <3>1 DEF At
    <3>  QED
      BY <1>1, <1>2, <2>1, <2>2, <3>1, <3>2, <3>3, <3>4, MoveJobs
  <2>3. CASE pc[w] \notin CompanySteps
    <3>1. pc'[w] = "failing" /\ pc[w] \in BatchSteps
      BY <2>1, <2>3 DEF OnError, CompanySteps, BatchSteps
    <3>  QED
      BY <1>1, <1>2, <2>1, <3>1, MoveJobs
  <2>  QED
    BY <2>2, <2>3
<1>  QED
  BY <1>3, <1>4 DEF Crash

\* The worker writes the row of the last job.
LEMMA LastRow ==
  ASSUME TInv, LastOK, jobs # <<>>, NEW row, row.status # "absent",
         jobs' = [jobs EXCEPT ![Len(jobs)] = row]
  PROVE  LastJob' = row /\ LastOK' /\ jobs' # <<>> /\ Len(jobs') = Len(jobs)
<1>1. /\ Len(jobs) \in DOMAIN jobs /\ DOMAIN jobs' = DOMAIN jobs /\ jobs'[Len(jobs)] = row
      /\ \A j \in DOMAIN jobs : j # Len(jobs) => jobs'[j] = jobs[j]
      /\ jobs \in Seq(JobRows) /\ Len(jobs) \in Nat
  BY Facts DEF TInv, RowsOK
<1>2. Len(jobs') = Len(jobs)
  BY <1>1
<1>3. jobs' # <<>>
  BY <1>1
<1>  QED
  BY <1>1, <1>2, <1>3 DEF LastJob, LastOK

\* The worker has given up its job.
LEMMA OffDuty ==
  ASSUME OneWorker, TInv, TInv', LastOK', jobs' # <<>>, NEW w \in Workers,
         pc'[w] \in {"recover", "claim", "down"},
         batch' # "absent",
         batch' \in FinalStatuses => ~HasActive(company') /\ batch' = FinalStatus(company'),
         LastJob'.status # "running" => HasActive(company') \/ batch' \in FinalStatuses,
         LastJob'.status \in TerminalStatuses => ~HasActive(company'),
         \A c \in Companies : company'[c].status # "running"
  PROVE  JInv'
<1>1. \A v \in Workers : /\ pc'[v] \notin Working \union Underway \union HasCurrent
                         /\ pc'[v] \notin {"load", "startbatch", "next", "finish",
                                           "finalize", "complete"}
  BY DEF OneWorker, Working, Underway, HasCurrent, Visiting, CompanySteps
<1>2. HoldsOK' /\ LeftOK' /\ RunningOK'
  BY <1>1 DEF HoldsOK, LeftOK, RunningOK
<1>3. BatchOK' /\ EndOK'
  BY <1>1 DEF BatchOK, EndOK
<1>  QED
  BY <1>2, <1>3 DEF JInv

\* What recovery and exhaustion make of the companies of a batch.
LEMMA Requeued ==
  ASSUME NEW cs \in [Companies -> CompanyRows]
  PROVE  LET rs == RecoveredCompanies(cs)
         IN  /\ HasActive(rs) <=> HasActive(cs)
             /\ \A c \in Companies : rs[c].status # "running"
             /\ RecoveredStatus(cs) # "absent"
             /\ RecoveredStatus(cs) \in FinalStatuses =>
                  ~HasActive(rs) /\ RecoveredStatus(cs) = FinalStatus(rs)
             /\ HasActive(rs) \/ RecoveredStatus(cs) \in FinalStatuses
<1> DEFINE rs == RecoveredCompanies(cs)
<1>1. ASSUME NEW c \in Companies
      PROVE  /\ Active(rs[c]) <=> Active(cs[c])
             /\ rs[c].status # "running"
             /\ ~Active(cs[c]) => rs[c] = cs[c]
  <2>1. cs[c] \in CompanyRows
    OBVIOUS
  <2>2. RetriedCompany(cs[c]).status = "queued"
    BY <2>1, RowFields
  <2>  QED
    BY <2>2 DEF RecoveredCompanies, RequeuedCompany, Active, TerminalCompany
<1>2. HasActive(rs) <=> HasActive(cs)
  BY <1>1 DEF HasActive
<1>3. CASE HasActive(cs)
  BY <1>1, <1>2, <1>3 DEF RecoveredStatus, FinalStatuses
<1>4. CASE ~HasActive(cs)
  <2>1. \A c \in Companies : rs[c] = cs[c]
    BY <1>1, <1>4 DEF HasActive
  <2>2. FinalStatus(rs) = FinalStatus(cs) /\ FinalStatus(cs) \in FinalStatuses
    BY <2>1 DEF FinalStatus, FinalStatuses
  <2>3. RecoveredStatus(cs) = FinalStatus(cs) /\ "absent" \notin FinalStatuses
    BY <1>4 DEF RecoveredStatus, FinalStatuses
  <2>  QED
    BY <1>1, <1>2, <1>4, <2>2, <2>3
<1>  QED
  BY <1>3, <1>4

\* Exhaustion leaves no company active or running.
LEMMA GivenUp ==
  ASSUME NEW cs \in [Companies -> CompanyRows]
  PROVE  /\ ~HasActive(FailedActive(cs))
         /\ \A c \in Companies : FailedActive(cs)[c].status # "running"
         /\ \A rs : FinalStatus(rs) \in FinalStatuses /\ FinalStatus(rs) # "absent"
<1>1. ASSUME NEW c \in Companies
      PROVE  ~Active(FailedActive(cs)[c]) /\ FailedActive(cs)[c].status # "running"
  <2>1. cs[c] \in CompanyRows
    OBVIOUS
  <2>2. FailedCompany(cs[c], "final").status = "failed"
    BY <2>1, RowFields
  <2>  QED
    BY <2>2 DEF FailedActive, Active, TerminalCompany
<1>  QED
  BY <1>1 DEF HasActive, FinalStatus, FinalStatuses

\* What retry_after_error and recover_stale leave of a held row.
LEMMA GivenBack ==
  ASSUME NEW row, RowOK(row), Held(row)
  PROVE  /\ Retried(row).status = IF row.attempts >= MaxAttempts THEN "failed" ELSE "pending"
         /\ Recovered(row).status = IF row.attempts >= MaxAttempts THEN "failed" ELSE "pending"
         /\ Reconciled(row).status = "completed"
         /\ Completed(row).status = "completed"
         /\ Started(row).status = "running" /\ Started(row).owner = row.owner
         /\ \A w : Leased(row, w).status = "leased" /\ Leased(row, w).owner = w
<1>1. row \in JobRows
  BY DEF RowOK
<1>2. Unleased(row) \in JobRows
  BY <1>1, UnleasedType
<1>  QED
  BY <1>1, <1>2 DEF JobRows, Retried, Recovered, Reconciled, Completed, Started, Leased

\* recover_stale: the lost job is the last one; it and its companies go
\* back to the queue together, or come to their end together.
LEMMA RecoverJobs ==
  ASSUME OneWorker, TInv, TInv', JInv, NEW w \in Workers, RecoverStale(w)
  PROVE  JInv'
<1> USE DEF JInv
<1>1. pc'[w] = "claim" /\ UNCHANGED me
  BY DEF RecoverStale, GoTo, TInv, TypeOK
<1>2. {"claim"} \cap (Working \union Underway \union HasCurrent) = {}
  BY DEF Working, Underway, HasCurrent, Visiting, CompanySteps
<1>3. CASE UNCHANGED <<batch, company, jobs>>
  <2>1. JobsSame
    BY <1>3 DEF JobsSame
  <2>  QED
    BY <1>1, <1>2, <1>3, <2>1, MoveJobs
<1>4. ASSUME NEW j \in DOMAIN jobs, CanRecover(jobs[j]), ~HasActive(company),
             jobs' = [jobs EXCEPT ![j] = Reconciled(jobs[j])],
             batch' = IF batch \in FinalStatuses THEN batch ELSE FinalStatus(company),
             UNCHANGED company
      PROVE  JInv'
  <2>1. j = Len(jobs) /\ RowOK(LastJob) /\ Held(LastJob) /\ jobs # <<>> /\ jobs[j] = LastJob
    BY <1>4, Facts DEF LastOK, CanRecover, Held, HeldStatuses, TerminalStatuses, LastJob,
       TInv, RowsOK, RowOK
  <2>2. Reconciled(LastJob).status = "completed"
    BY <2>1, GivenBack
  <2>3. LastJob' = Reconciled(LastJob) /\ LastOK' /\ jobs' # <<>>
    BY <1>4, <2>1, <2>2, LastRow
  <2>4. batch' \in FinalStatuses /\ batch' = FinalStatus(company)
    BY <1>4 DEF BatchOK, FinalStatus, FinalStatuses
  <2>5. HasActive(company') = HasActive(company) /\ FinalStatus(company') = FinalStatus(company)
        /\ batch' # "absent"
    BY <1>4, <2>4 DEF FinalStatuses
  <2>6. \A c \in Companies : company'[c].status # "running"
    BY <1>4 DEF HasActive, Active, TerminalCompany
  <2>  QED
    BY <1>1, <1>4, <2>3, <2>4, <2>5, <2>6, OffDuty
<1>5. ASSUME NEW j \in DOMAIN jobs, CanRecover(jobs[j]),
             jobs' = [jobs EXCEPT ![j] = Recovered(jobs[j])],
             IF jobs'[j].status = "pending"
             THEN company' = RecoveredCompanies(company) /\ batch' = RecoveredStatus(company)
             ELSE company' = FailedActive(company) /\ batch' = FinalStatus(company')
      PROVE  JInv'
  <2>1. j = Len(jobs) /\ RowOK(LastJob) /\ Held(LastJob) /\ jobs # <<>> /\ jobs[j] = LastJob
    BY <1>5, Facts DEF LastOK, CanRecover, Held, HeldStatuses, TerminalStatuses, LastJob,
       TInv, RowsOK, RowOK
  <2>2. Recovered(LastJob).status \in {"pending", "failed"}
    BY <2>1, GivenBack
  <2>3. LastJob' = Recovered(LastJob) /\ LastOK' /\ jobs' # <<>> /\ jobs'[j] = LastJob'
    BY <1>5, <2>1, <2>2, LastRow DEF LastJob
  <2>4. company \in [Companies -> CompanyRows]
    BY DEF TInv, TypeOK
  <2>5. CASE LastJob'.status = "pending"
    <3>1. company' = RecoveredCompanies(company) /\ batch' = RecoveredStatus(company)
      BY <1>5, <2>3, <2>5
    <3>2. /\ \A c \in Companies : company'[c].status # "running"
          /\ batch' # "absent"
          /\ batch' \in FinalStatuses => ~HasActive(company') /\ batch' = FinalStatus(company')
          /\ HasActive(company') \/ batch' \in FinalStatuses
      BY <2>4, <3>1, Requeued
    <3>  QED
      BY <1>1, <2>3, <2>5, <3>2, OffDuty DEF TerminalStatuses
  <2>6. CASE LastJob'.status = "failed"
    <3>1. company' = FailedActive(company) /\ batch' = FinalStatus(company')
      BY <1>5, <2>3, <2>6
    <3>2. /\ \A c \in Companies : company'[c].status # "running"
          /\ ~HasActive(company') /\ batch' \in FinalStatuses /\ batch' # "absent"
      BY <2>4, <3>1, GivenUp
    <3>  QED
      BY <1>1, <2>3, <2>6, <3>1, <3>2, OffDuty
  <2>  QED
    BY <2>2, <2>3, <2>5, <2>6
<1>  QED
  BY <1>3, <1>4, <1>5 DEF RecoverStale

\* The other steps of the queue.
LEMMA QueueJobs ==
  ASSUME OneWorker, TInv, TInv', JInv, NEW w \in Workers, QueueStep(w)
  PROVE  JInv'
<1> USE DEF JInv
<1>0. /\ pc \in [Workers -> Labels] /\ me \in [Workers -> Locals] /\ me[w] \in Locals
      /\ {"start", "complete", "failing", "load"} \subseteq Working
      /\ {"recover", "claim", "down"} \cap (Working \union Underway \union HasCurrent) = {}
      /\ {"start", "load"} \cap (Underway \union HasCurrent) = {}
  BY DEF TInv, TypeOK, Working, Underway, HasCurrent, Visiting, CompanySteps, Labels,
     QueueSteps, BatchSteps
<1>1. CASE RecoverStale(w)
  BY <1>1, RecoverJobs
<1>2. CASE ClaimNothing(w) \/ Restart(w)
  <2>1. /\ pc'[w] = "recover" /\ UNCHANGED <<company, batch>> /\ JobsSame
    BY <1>0, <1>2 DEF ClaimNothing, Restart, GoTo, Idle, table, JobsSame
  <2>  QED
    BY <1>0, <2>1, MoveJobs
<1>3. CASE Claim(w)
  <2>1. PICK j \in DOMAIN jobs :
          /\ CanLease(jobs[j])
          /\ jobs' = [jobs EXCEPT ![j] = Leased(jobs[j], w)]
          /\ me' = [me EXCEPT ![w].job = j]
          /\ pc' = [pc EXCEPT ![w] = "start"]
          /\ UNCHANGED <<company, batch>>
    BY <1>3 DEF Claim, GoTo, table
  <2>2. j = Len(jobs) /\ jobs[j] = LastJob /\ jobs # <<>> /\ LastJob \in JobRows
        /\ LastJob.status = "pending"
    BY <2>1, Facts DEF LastOK, CanLease, TerminalStatuses, LastJob, TInv, RowsOK
  <2>3. Leased(LastJob, w).status = "leased" /\ Leased(LastJob, w).owner = w
    BY <2>2 DEF Leased, JobRows
  <2>4. LastJob'.status = "leased" /\ LastJob'.owner = w /\ LastOK' /\ jobs' # <<>>
        /\ Len(jobs') = Len(jobs)
    BY <2>1, <2>2, <2>3, LastRow
  <2>5. pc'[w] = "start" /\ me'[w].job = j
    BY <1>0, <2>1 DEF Locals
  <2>6. HasActive(company') = HasActive(company) /\ FinalStatus(company') = FinalStatus(company)
    BY <2>1
  <2>7. HoldsOK'
    BY <2>2, <2>4, <2>5 DEF HoldsOK, OneWorker
  <2>8. BatchOK'
    BY <1>0, <2>1, <2>2, <2>4, <2>5, <2>6 DEF BatchOK, OneWorker
  <2>9. EndOK'
    BY <2>1, <2>2, <2>4, <2>5, <2>6 DEF EndOK, OneWorker, TerminalStatuses
  <2>10. LeftOK' /\ RunningOK'
    BY <1>0, <2>4, <2>5 DEF LeftOK, RunningOK, OneWorker, Held, HeldStatuses
  <2>  QED
    BY <2>4, <2>7, <2>8, <2>9, <2>10
<1>4. CASE StartJob(w)
  <2>1. /\ pc[w] = "start" /\ jobs # <<>> /\ Job(w) = LastJob /\ me[w].job = Len(jobs)
        /\ RowOK(LastJob) /\ Owns(LastJob, w) /\ LastJob.status = "leased"
    BY <1>0, <1>4, AtWork DEF StartJob
  <2>2. CanStart(Job(w), w)
    BY <2>1 DEF CanStart, Owns
  <2>3. /\ jobs' = [jobs EXCEPT ![Len(jobs)] = Started(LastJob)]
        /\ pc'[w] = "load" /\ UNCHANGED <<me, company, batch>>
    BY <1>0, <1>4, <2>1, <2>2 DEF StartJob, GoTo, table, LastJob
  <2>4. Started(LastJob).status = "running" /\ Started(LastJob).owner = w
    BY <2>1, GivenBack DEF Owns
  <2>5. LastJob'.status = "running" /\ LastJob'.owner = w /\ LastOK' /\ jobs' # <<>>
        /\ Len(jobs') = Len(jobs)
    BY <2>1, <2>3, <2>4, LastRow
  <2>6. HasActive(company') = HasActive(company) /\ FinalStatus(company') = FinalStatus(company)
    BY <2>3
  <2>7. HoldsOK'
    BY <2>1, <2>3, <2>5 DEF HoldsOK, OneWorker
  <2>8. BatchOK'
    BY <1>0, <2>1, <2>3, <2>5, <2>6 DEF BatchOK, OneWorker
  <2>9. EndOK'
    BY <2>1, <2>3, <2>5, <2>6 DEF EndOK, OneWorker, TerminalStatuses
  <2>10. LeftOK' /\ RunningOK'
    BY <1>0, <2>3, <2>5 DEF LeftOK, RunningOK, OneWorker, Held, HeldStatuses
  <2>  QED
    BY <2>5, <2>7, <2>8, <2>9, <2>10
<1>5. CASE CompleteJob(w)
  <2>1. /\ pc[w] = "complete" /\ jobs # <<>> /\ Job(w) = LastJob /\ me[w].job = Len(jobs)
        /\ RowOK(LastJob) /\ Owns(LastJob, w) /\ LastJob.status = "running"
    BY <1>0, <1>5, AtWork DEF CompleteJob
  <2>2. CanComplete(Job(w), w)
    BY <2>1 DEF CanComplete
  <2>3. /\ jobs' = [jobs EXCEPT ![Len(jobs)] = Completed(LastJob)]
        /\ pc'[w] = "recover" /\ UNCHANGED <<company, batch>>
    BY <1>0, <1>5, <2>1, <2>2 DEF CompleteJob, Leave, GoTo, table, LastJob
  <2>4. Completed(LastJob).status = "completed"
    BY <2>1, GivenBack DEF Owns
  <2>5. LastJob'.status = "completed" /\ LastOK' /\ jobs' # <<>>
    BY <2>1, <2>3, <2>4, LastRow
  <2>6. ~HasActive(company) /\ batch \in FinalStatuses /\ batch = FinalStatus(company)
        /\ batch # "absent"
    BY <2>1 DEF EndOK, BatchOK
  <2>7. HasActive(company') = HasActive(company) /\ FinalStatus(company') = FinalStatus(company)
    BY <2>3
  <2>8. \A c \in Companies : company'[c].status # "running"
    BY <2>3, <2>6 DEF HasActive, Active, TerminalCompany
  <2>  QED
    BY <2>3, <2>5, <2>6, <2>7, <2>8, OffDuty
<1>6. CASE RecordFailure(w)
  <2>1. /\ pc[w] = "failing" /\ jobs # <<>> /\ Job(w) = LastJob /\ me[w].job = Len(jobs)
        /\ RowOK(LastJob) /\ Owns(LastJob, w)
        /\ LastJob.status = "running" /\ Len(jobs) \in DOMAIN jobs
    BY <1>0, <1>6, AtWork DEF RecordFailure
  <2>2. /\ jobs' = [jobs EXCEPT ![Len(jobs)] = Retried(LastJob)]
        /\ IF jobs'[Len(jobs)].status = "pending"
           THEN company' = RecoveredCompanies(company) /\ batch' = RecoveredStatus(company)
           ELSE company' = FailedActive(company) /\ batch' = FinalStatus(company')
        /\ pc'[w] = "recover"
    BY <1>0, <1>6, <2>1 DEF RecordFailure, Leave, GoTo, LastJob
  <2>3. Retried(LastJob).status \in {"pending", "failed"}
    BY <2>1, GivenBack DEF Owns
  <2>4. LastJob' = Retried(LastJob) /\ LastOK' /\ jobs' # <<>> /\ jobs'[Len(jobs)] = LastJob'
    BY <2>1, <2>2, <2>3, LastRow DEF LastJob
  <2>5. company \in [Companies -> CompanyRows]
    BY DEF TInv, TypeOK
  <2>6. CASE LastJob'.status = "pending"
    <3>1. company' = RecoveredCompanies(company) /\ batch' = RecoveredStatus(company)
      BY <2>2, <2>4, <2>6
    <3>2. /\ \A c \in Companies : company'[c].status # "running"
          /\ batch' # "absent"
          /\ batch' \in FinalStatuses => ~HasActive(company') /\ batch' = FinalStatus(company')
          /\ HasActive(company') \/ batch' \in FinalStatuses
      BY <2>5, <3>1, Requeued
    <3>  QED
      BY <2>2, <2>4, <2>6, <3>2, OffDuty DEF TerminalStatuses
  <2>7. CASE LastJob'.status = "failed"
    <3>1. company' = FailedActive(company) /\ batch' = FinalStatus(company')
      BY <2>2, <2>4, <2>7
    <3>2. /\ \A c \in Companies : company'[c].status # "running"
          /\ ~HasActive(company') /\ batch' \in FinalStatuses /\ batch' # "absent"
      BY <2>5, <3>1, GivenUp
    <3>  QED
      BY <2>2, <2>4, <2>7, <3>1, <3>2, OffDuty
  <2>  QED
    BY <2>3, <2>4, <2>6, <2>7
<1>  QED
  BY <1>1, <1>2, <1>3, <1>4, <1>5, <1>6 DEF QueueStep

\* Nobody of the queue's or the batch's business did anything.
LEMMA IdleJobs ==
  ASSUME TInv, TInv', JInv, JobsSame, UNCHANGED <<company, batch, pc, me>>
  PROVE  JInv'
<1> USE DEF JInv
<1>1. /\ jobs' = <<>> <=> jobs = <<>>
      /\ jobs # <<>> => LastJob'.status = LastJob.status /\ LastJob'.owner = LastJob.owner
      /\ Len(jobs') = Len(jobs) /\ HasActive(company') = HasActive(company)
      /\ FinalStatus(company') = FinalStatus(company)
  BY SameNonempty DEF JobsSame
<1>2. LastOK'
  BY DEF LastOK, JobsSame
<1>3. HoldsOK'
  <2> SUFFICES ASSUME NEW w \in Workers, pc[w] \in Working
               PROVE  /\ me[w].job = Len(jobs') /\ LastJob'.owner = w
                      /\ LastJob'.status = IF pc[w] = "start" THEN "leased" ELSE "running"
    BY DEF HoldsOK
  <2>  QED
    BY <1>1, AtWork DEF Owns
<1>4. BatchOK' /\ EndOK'
  BY <1>1 DEF BatchOK, EndOK
<1>5. LeftOK' /\ RunningOK'
  BY <1>1 DEF LeftOK, RunningOK, At, Held
<1>  QED
  BY <1>2, <1>3, <1>4, <1>5

\* Without an active job no worker has one and no company is running.
LEMMA NobodyWorks ==
  ASSUME TInv, JInv, ~ActiveJob
  PROVE  /\ \A w \in Workers : pc[w] \notin Working
         /\ \A c \in Companies : company[c].status # "running"
         /\ \A j \in DOMAIN jobs : jobs[j].status \in TerminalStatuses
         /\ jobs # <<>> => ~HasActive(company)
<1>1. ASSUME jobs # <<>> PROVE ~Held(LastJob)
  BY <1>1, Facts DEF ActiveJob, Held, ActiveStatuses, LastJob
<1>2. ASSUME NEW w \in Workers PROVE pc[w] \notin Working
  BY <1>1, AtWork DEF Owns
<1>3. ASSUME NEW c \in Companies PROVE company[c].status # "running"
  BY <1>1 DEF JInv, RunningOK
<1>4. ASSUME NEW j \in DOMAIN jobs PROVE jobs[j].status \in TerminalStatuses
  <2>1. jobs[j] \in JobRows
    BY DEF TInv, RowsOK
  <2>  QED
    BY <2>1 DEF JobRows, Statuses, ActiveJob, ActiveStatuses, HeldStatuses,
       TerminalStatuses,
       JInv, LastOK
<1>5. jobs # <<>> => ~HasActive(company)
  BY <1>4, Facts DEF JInv, EndOK, LastJob
<1>  QED
  BY <1>2, <1>3, <1>4, <1>5

\* The API adds a job only where no worker has one and none is waiting, and
\* always for a batch with an active company.
LEMMA ApiJobs ==
  ASSUME TInv, TInv', JInv, Api \/ LeaseTick
  PROVE  JInv'
<1> USE DEF JInv
<1>1. CASE \E c \in Companies : ReviewClaims(c)
  <2>1. JobsSame /\ UNCHANGED <<company, batch, pc, me>>
    BY <1>1 DEF ReviewClaims, JobsSame
  <2>  QED
    BY <2>1, IdleJobs
<1>2. CASE LeaseTick
  <2>1. \A j \in DOMAIN jobs : jobs[j] \in JobRows
    BY DEF TInv, RowsOK
  <2>2. \A j \in DOMAIN jobs : /\ Aged(jobs[j]).status = jobs[j].status
                               /\ Aged(jobs[j]).owner = jobs[j].owner
    BY <2>1 DEF JobRows, Aged
  <2>3. DOMAIN jobs' = DOMAIN jobs /\ Len(jobs') = Len(jobs)
    BY <1>2 DEF LeaseTick, TInv, RowsOK
  <2>4. JobsSame /\ UNCHANGED <<company, batch, pc, me>>
    BY <1>2, <2>2, <2>3 DEF LeaseTick, JobsSame, table
  <2>  QED
    BY <2>4, IdleJobs
<1>3. CASE CreateRoutingBatch
  <2>1. /\ batch = "absent" /\ batch' = "pending" /\ UNCHANGED <<company, jobs, pc, me>>
        /\ jobs = <<>> /\ LastJob' = LastJob
    BY <1>3 DEF CreateRoutingBatch, BatchOK, LastJob
  <2>2. \A w \in Workers : pc[w] \notin Working /\ pc[w] \notin Underway /\ pc[w] \notin HasCurrent
                           /\ pc[w] \notin {"startbatch", "next"}
    <3>1. \A w \in Workers : pc[w] \notin Working
      BY <2>1, AtWork
    <3>  QED
      BY <3>1 DEF Working, Labels, Underway, HasCurrent, Visiting, BatchSteps,
         CompanySteps
  <2>3. LastOK' /\ HoldsOK' /\ EndOK'
    BY <2>1, <2>2 DEF LastOK, HoldsOK, EndOK
  <2>4. LeftOK' /\ RunningOK'
    BY <2>1, <2>2 DEF LeftOK, RunningOK
  <2>5. BatchOK'
    BY <2>1, <2>2 DEF BatchOK, FinalStatuses
  <2>  QED
    BY <2>3, <2>4, <2>5
<1>4. CASE AddJob /\ ~LeaseTick /\ ~CreateRoutingBatch /\ ~\E c \in Companies : ReviewClaims(c)
  <2>1. UNCHANGED <<pc, me>> /\ batch' = "pending"
    BY <1>4 DEF Api, SubmitBatch, StartRoutingBatch, RetryCompany, ResumeCompany,
       Requeue, table
  <2>2. HasActive(company') /\ \A c \in Companies : company'[c].status # "running"
    <3>1. \A c \in Companies : company[c].status # "running"
      BY <1>4, NobodyWorks DEF AddJob
    <3>2. CASE SubmitBatch \/ StartRoutingBatch
      <4>1. UNCHANGED company /\ jobs = <<>>
        BY <3>2 DEF SubmitBatch, StartRoutingBatch, BatchOK, table
      <4>2. 1 \in Companies
        BY BatchAssumption DEF Companies, MaxBatchCompanies
      <4>  QED
        BY <3>1, <4>1, <4>2 DEF BatchOK, HasActive, Active, TerminalCompany
    <3>3. ASSUME NEW c \in Companies, NEW r, Requeue(c, r), r.status = "queued"
          PROVE  HasActive(company') /\ \A d \in Companies : company'[d].status # "running"
      <4>1. company'[c] = r /\ \A d \in Companies \ {c} : company'[d] = company[d]
        BY <3>3 DEF Requeue, TInv, TypeOK
      <4>  QED
        BY <3>1, <3>3, <4>1 DEF HasActive, Active, TerminalCompany
    <3>4. ASSUME NEW c \in Companies
          PROVE  /\ RetriedCompany(company[c]).status = "queued"
                 /\ ResumedCompany(company[c]).status = "queued"
      <4>1. company[c] \in CompanyRows
        BY DEF TInv, TypeOK
      <4>  QED
        BY <4>1, RowFields
    <3>  QED
      BY <1>4, <3>2, <3>3, <3>4 DEF Api, RetryCompany, ResumeCompany
  <2>3. /\ \A w \in Workers : pc[w] \notin Working
        /\ \A j \in DOMAIN jobs : jobs[j].status \in TerminalStatuses
    BY <1>4, NobodyWorks DEF AddJob
  <2>4. \A w \in Workers : pc[w] \notin Underway /\ pc[w] \notin HasCurrent
                           /\ pc[w] \notin {"startbatch", "next", "load", "finish", "finalize",
                                            "complete"}
    BY <2>3 DEF Working, Labels, Underway, HasCurrent, Visiting, BatchSteps,
       CompanySteps, QueueSteps
  <2>5. /\ LastJob' = Created /\ jobs' # <<>> /\ Len(jobs') = Len(jobs) + 1
        /\ \A j \in DOMAIN jobs' : j < Len(jobs') => j \in DOMAIN jobs /\ jobs'[j] = jobs[j]
        /\ \A j \in DOMAIN jobs' : j = Len(jobs') \/ j < Len(jobs')
        /\ jobs'[Len(jobs')] = Created
    <3>1. jobs \in Seq(JobRows) /\ Created \in JobRows /\ jobs' = Append(jobs, Created)
      BY <1>4, CreatedOK DEF AddJob, TInv, RowsOK, RowOK
    <3>2. /\ Len(jobs') = Len(jobs) + 1 /\ DOMAIN jobs' = 1 .. Len(jobs) + 1
          /\ DOMAIN jobs = 1 .. Len(jobs) /\ Len(jobs) \in Nat
          /\ \A j \in DOMAIN jobs : jobs'[j] = jobs[j]
          /\ jobs'[Len(jobs) + 1] = Created
      BY <3>1
    <3>3. jobs' # <<>>
      BY <3>1
    <3>  QED
      BY <3>2, <3>3 DEF LastJob
  <2>6. Created.status = "pending"
    BY DEF Created, AbsentRow
  <2>7. LastOK'
    BY <2>3, <2>5, <2>6 DEF LastOK, TerminalStatuses
  <2>8. HoldsOK' /\ LeftOK'
    BY <2>1, <2>3, <2>4 DEF HoldsOK, LeftOK
  <2>9. BatchOK'
    BY <2>1, <2>4, <2>5 DEF BatchOK, FinalStatuses
  <2>10. EndOK'
    BY <2>1, <2>2, <2>4, <2>5, <2>6 DEF EndOK, TerminalStatuses
  <2>11. RunningOK'
    BY <2>2 DEF RunningOK
  <2>  QED
    BY <2>7, <2>8, <2>9, <2>10, <2>11
<1>  QED
  BY <1>1, <1>2, <1>3, <1>4 DEF Api, SubmitBatch, StartRoutingBatch, RetryCompany,
     ResumeCompany, Requeue

\* Every step keeps job, batch and companies in agreement.
LEMMA JobsStep == OneWorker /\ TInv /\ TInv' /\ GInv /\ JInv /\ [Next]_vars => JInv'
<1> SUFFICES ASSUME OneWorker, TInv, TInv', GInv, JInv, [Next]_vars PROVE JInv'
  OBVIOUS
<1>1. CASE UNCHANGED vars
  <2>1. JobsSame /\ UNCHANGED <<company, batch, pc, me>>
    BY <1>1 DEF vars, JobsSame
  <2>  QED
    BY <2>1, IdleJobs
<1>2. CASE Api \/ LeaseTick
  BY <1>2, ApiJobs
<1>3. ASSUME NEW w \in Workers, Run(w) \/ Raise(w) \/ Crash(w)
      PROVE  JInv'
  <2>1. CASE QueueStep(w)
    BY <2>1, QueueJobs
  <2>2. CASE BatchStep(w) /\ ~HandleUnexpected(w)
    BY <2>2, PassJobs, SummaryJobs DEF BatchStep
  <2>3. CASE CompanyStep(w) \/ HandleUnexpected(w)
    <3>1. pc[w] \in Visiting /\ Advances(w)
      BY <2>3, CompanyAdvances, HandlerAdvances
    <3>2. UNCHANGED batch /\ JobsSame
      BY <2>3, CompanyFrame
    <3>  QED
      BY <3>1, <3>2, AdvanceJobs
  <2>4. CASE Raise(w) \/ Crash(w)
    BY <2>4, FaultJobs
  <2>  QED
    BY <1>3, <2>1, <2>2, <2>3, <2>4 DEF Run
<1>  QED
  BY <1>1, <1>2, <1>3 DEF Next

\* Before the batch exists, they agree.
LEMMA JobsInit == Init => JInv
<1> SUFFICES ASSUME Init PROVE JInv
  OBVIOUS
<1>1. /\ jobs = <<>> /\ DOMAIN jobs = {} /\ batch = "absent" /\ batch \notin FinalStatuses
      /\ \A c \in Companies : company[c].status = "queued"
      /\ \A w \in Workers : /\ pc[w] \notin Working \union Underway \union HasCurrent
                            /\ pc[w] \notin {"startbatch", "next"}
  BY DEF Init, QueuedCompany, FinalStatuses, Working, Underway, HasCurrent, Visiting,
     CompanySteps, BatchSteps
<1>2. LastOK /\ HoldsOK
  BY <1>1 DEF LastOK, HoldsOK
<1>3. BatchOK /\ EndOK
  BY <1>1 DEF BatchOK, EndOK
<1>4. LeftOK /\ RunningOK
  BY <1>1 DEF LeftOK, RunningOK
<1>  QED
  BY <1>2, <1>3, <1>4 DEF JInv

\* The inductive invariant of the pipeline under one worker.
LEMMA PipelineInvariant ==
  ASSUME OneWorker
  PROVE  Spec => [](TInv /\ GInv /\ JInv)
<1>1. Init => TInv /\ GInv /\ JInv
  BY InitOK, GateInit, JobsInit
<1>2. TInv /\ GInv /\ JInv /\ [Next]_vars => (TInv /\ GInv /\ JInv)'
  BY TypeStep, GateStep, JobsStep
<1>  QED
  BY <1>1, <1>2, PTL DEF Spec

\* Every variable keeps its type, for any number of workers.
THEOREM PipelineTypeCorrect == Spec => []TypeOK
<1>1. Init => TInv
  BY InitOK
<1>2. TInv /\ [Next]_vars => TInv'
  BY TypeStep
<1>3. TInv => TypeOK
  BY DEF TInv
<1>  QED
  BY <1>1, <1>2, <1>3, PTL DEF Spec

\* The last job is the only one that can be active.
LEMMA LastIsActive ==
  ASSUME TInv, JInv
  PROVE  ActiveJob <=> jobs # <<>> /\ LastJob.status \notin TerminalStatuses
<1>1. ASSUME jobs # <<>> /\ LastJob.status \notin TerminalStatuses PROVE ActiveJob
  BY <1>1, Facts, NobodyWorks DEF LastJob
<1>2. ASSUME ActiveJob PROVE jobs # <<>> /\ LastJob.status \notin TerminalStatuses
  <2>1. PICK j \in DOMAIN jobs : jobs[j].status \in ActiveStatuses
    BY <1>2 DEF ActiveJob
  <2>2. jobs[j].status \notin TerminalStatuses
    BY <2>1 DEF ActiveStatuses, HeldStatuses, TerminalStatuses
  <2>3. j = Len(jobs) /\ jobs # <<>>
    BY <2>2, Facts DEF JInv, LastOK
  <2>  QED
    BY <2>2, <2>3 DEF LastJob
<1>  QED
  BY <1>1, <1>2

\* No company of a started batch is left queued or running without a job
\* that will process it, after any crash, recovery, exhaustion or requeue.
THEOREM NobodyWaitsInVain ==
  ASSUME OneWorker
  PROVE  Spec => []NothingWaitsInVain
<1>1. TInv /\ JInv => NothingWaitsInVain
  BY LastIsActive DEF JInv, EndOK, NothingWaitsInVain
<1>  QED
  BY PipelineInvariant, <1>1, PTL

\* Companies, summary and jobs agree in every state: a final status is the
\* right one and leaves no company active, a batch without an active job is
\* final, and a company is running only under a lease (finalize, fail and
\* recover of aggregate.py, and the transactions that call them).
THEOREM BatchStaysConsistent ==
  ASSUME OneWorker
  PROVE  Spec => []BatchConsistent
<1>1. GInv => CompletedIsJustified
  BY DEF GInv, CompaniesOK, Justified, CompletedIsJustified
<1>2. TInv /\ JInv => SummaryAgrees
  <2> SUFFICES ASSUME TInv, JInv PROVE SummaryAgrees
    OBVIOUS
  <2>1. jobs # <<>> /\ ~ActiveJob => batch \in FinalStatuses
    BY LastIsActive DEF JInv, EndOK, TerminalStatuses
  <2>  QED
    BY <2>1 DEF JInv, BatchOK, SummaryAgrees
<1>3. TInv /\ JInv => RunningUnderLease
  <2> SUFFICES ASSUME TInv, JInv, NEW c \in Companies, company[c].status = "running"
               PROVE  \E j \in DOMAIN jobs : Held(jobs[j])
    BY DEF RunningUnderLease
  <2>1. jobs # <<>> /\ Held(LastJob)
    BY DEF JInv, RunningOK
  <2>  QED
    BY <2>1, Facts DEF LastJob
<1>4. TInv /\ GInv /\ JInv => BatchConsistent
  BY <1>1, <1>2, <1>3 DEF BatchConsistent, TInv
<1>  QED
  BY PipelineInvariant, <1>4, PTL

------------------------------------------------------------------------------
(***************************************************************************)
(* The worker drives its queue as ProspectJobQueue says                    *)
(***************************************************************************)
\* The job of each worker, as the queue sees it.
Work == [w \in Workers |-> me[w].job]

\* The rows of the queue are the rows of this module.
LEMMA SameRows ==
  /\ Queue!AbsentRow = AbsentRow /\ Queue!Created = Created
  /\ Queue!ActiveStatuses = ActiveStatuses
  /\ \A row : /\ Queue!CanLease(row) = CanLease(row)
              /\ Queue!CanRecover(row) = CanRecover(row)
              /\ Queue!Recovered(row) = Recovered(row)
              /\ Queue!Reconciled(row) = Reconciled(row)
              /\ Queue!Completed(row) = Completed(row)
              /\ Queue!Started(row) = Started(row)
              /\ Queue!Renewed(row) = Renewed(row)
              /\ Queue!Retried(row) = Retried(row)
              /\ Queue!Aged(row) = Aged(row)
              /\ \A w : /\ Queue!Leased(row, w) = Leased(row, w)
                        /\ Queue!Owns(row, w) = Owns(row, w)
                        /\ Queue!CanStart(row, w) = CanStart(row, w)
                        /\ Queue!CanComplete(row, w) = CanComplete(row, w)
<1>1. /\ Queue!HeldStatuses = HeldStatuses
      /\ \A row : /\ Queue!Unleased(row) = Unleased(row)
                  /\ Queue!Held(row) = Held(row) /\ Queue!Expired(row) = Expired(row)
  BY DEF Queue!HeldStatuses, HeldStatuses, Queue!Unleased, Unleased, Queue!Held, Held,
     Queue!Expired, Expired
<1>2. /\ Queue!AbsentRow = AbsentRow /\ Queue!Created = Created
      /\ Queue!ActiveStatuses = ActiveStatuses
  BY <1>1 DEF Queue!AbsentRow, AbsentRow, Queue!Created, Created,
     Queue!ActiveStatuses, ActiveStatuses
<1>3. \A row : /\ Queue!CanLease(row) = CanLease(row)
               /\ Queue!CanRecover(row) = CanRecover(row)
               /\ \A w : /\ Queue!Owns(row, w) = Owns(row, w)
                         /\ Queue!CanStart(row, w) = CanStart(row, w)
                         /\ Queue!CanComplete(row, w) = CanComplete(row, w)
  BY <1>1 DEF Queue!CanLease, CanLease, Queue!CanRecover, CanRecover, Queue!Owns, Owns,
     Queue!CanStart, CanStart, Queue!CanComplete, CanComplete
<1>4. \A row : /\ Queue!Recovered(row) = Recovered(row)
               /\ Queue!Reconciled(row) = Reconciled(row)
               /\ Queue!Completed(row) = Completed(row)
               /\ Queue!Retried(row) = Retried(row)
  BY <1>1 DEF Queue!Recovered, Recovered, Queue!Reconciled, Reconciled,
     Queue!Completed, Completed, Queue!Retried, Retried
<1>5. \A row : /\ Queue!Started(row) = Started(row)
               /\ Queue!Renewed(row) = Renewed(row)
               /\ Queue!Aged(row) = Aged(row)
               /\ \A w : Queue!Leased(row, w) = Leased(row, w)
  BY DEF Queue!Started, Started, Queue!Renewed, Renewed, Queue!Aged, Aged,
     Queue!Leased, Leased
<1>  QED
  BY <1>2, <1>3, <1>4, <1>5

\* The rows that the queue sees.
LEMMA Table ==
  ASSUME TInv
  PROVE  /\ JobTable \in [1 .. MaxJobs -> JobRows]
         /\ DOMAIN jobs \subseteq 1 .. MaxJobs /\ 0 \notin 1 .. MaxJobs
         /\ \A j \in DOMAIN jobs : JobTable[j] = jobs[j]
         /\ \A j \in 1 .. MaxJobs : j \notin DOMAIN jobs => JobTable[j] = AbsentRow
         /\ \A j \in 1 .. MaxJobs : j \notin DOMAIN jobs =>
              /\ JobTable[j].status = "absent" /\ ~CanRecover(JobTable[j])
              /\ ~CanLease(JobTable[j]) /\ Aged(JobTable[j]) = JobTable[j]
<1>1. /\ jobs \in Seq(JobRows) /\ Len(jobs) \in Nat /\ DOMAIN jobs = 1 .. Len(jobs)
      /\ Len(jobs) <= MaxJobs /\ MaxJobs \in Nat
      /\ \A j \in DOMAIN jobs : jobs[j] \in JobRows
  BY PipelineAssumption DEF TInv, TypeOK
<1>2. AbsentRow \in JobRows
  BY CreatedOK DEF RowOK
<1>3. /\ AbsentRow.status = "absent" /\ AbsentRow.availableIn = 0
      /\ AbsentRow.expiresIn = -1
  BY DEF AbsentRow
<1>4. ASSUME NEW row \in JobRows, row.availableIn = 0, row.expiresIn = -1
      PROVE  Aged(row) = row
  <2>1. [row EXCEPT !.availableIn = 0] = row
    BY <1>4 DEF JobRows
  <2>2. [row EXCEPT !.expiresIn = -1] = row
    BY <1>4 DEF JobRows
  <2>3. Aged(row) = [[row EXCEPT !.availableIn = 0] EXCEPT !.expiresIn = -1]
    BY <1>4 DEF Aged
  <2>  QED
    BY <2>1, <2>2, <2>3
<1>5. ~CanRecover(AbsentRow) /\ ~CanLease(AbsentRow)
  BY <1>3 DEF CanRecover, CanLease, Held, HeldStatuses
<1>6. \A j \in 1 .. MaxJobs : JobTable[j] = IF j \in DOMAIN jobs THEN jobs[j] ELSE AbsentRow
  BY <1>1 DEF JobTable
<1>7. JobTable \in [1 .. MaxJobs -> JobRows]
  BY <1>1, <1>2 DEF JobTable
<1>  QED
  BY <1>1, <1>3, <1>4, <1>5, <1>6, <1>7

\* Jobs that keep their rows keep the table, and one row written is one
\* row of the table written.
LEMMA TableSame ==
  ASSUME UNCHANGED jobs
  PROVE  UNCHANGED JobTable
  BY DEF JobTable

\* One row written is one row of the table written.
LEMMA TableRow ==
  ASSUME TInv, NEW j \in DOMAIN jobs, NEW row, jobs' = [jobs EXCEPT ![j] = row]
  PROVE  JobTable' = [JobTable EXCEPT ![j] = row]
<1>1. /\ jobs \in Seq(JobRows) /\ Len(jobs) \in Nat /\ DOMAIN jobs = 1 .. Len(jobs)
      /\ Len(jobs') = Len(jobs) /\ MaxJobs \in Nat /\ Len(jobs) <= MaxJobs
  BY PipelineAssumption DEF TInv, TypeOK
<1>2. ASSUME NEW k \in 1 .. MaxJobs
      PROVE  JobTable'[k] = IF k = j THEN row ELSE JobTable[k]
  BY <1>1, <1>2 DEF JobTable
<1>3. j \in 1 .. MaxJobs
  BY <1>1
<1>4. JobTable' = [k \in 1 .. MaxJobs |-> IF k = j THEN row ELSE JobTable[k]]
  BY <1>2 DEF JobTable
<1>  QED
  BY <1>3, <1>4 DEF JobTable

\* The jobs that are settled: the earlier ones, and the last one with the
\* last company.
LEMMA SettledJobs ==
  ASSUME TInv
  PROVE  /\ Settled \in SUBSET DOMAIN jobs
         /\ HasActive(company) => Settled = DOMAIN jobs \ {Len(jobs)}
         /\ ~HasActive(company) => Settled = DOMAIN jobs
<1>1. Len(jobs) \in Nat /\ DOMAIN jobs = 1 .. Len(jobs)
  BY Facts
<1>  QED
  BY <1>1 DEF Settled

\* What the queue sees of a worker.
LEMMA Views ==
  ASSUME TInv, NEW w \in Workers, NEW l, pc' = [pc EXCEPT ![w] = l]
  PROVE  /\ QueuePc' = [QueuePc EXCEPT ![w] =
                          IF l \in CompanySteps \union BatchSteps THEN "execute" ELSE l]
         /\ QueuePc[w] = IF pc[w] \in CompanySteps \union BatchSteps THEN "execute" ELSE pc[w]
         /\ QueuePc' = [QueuePc EXCEPT ![w] = QueuePc'[w]]
<1>1. pc \in [Workers -> Labels]
  BY DEF TInv, TypeOK
<1> DEFINE view(x) == IF x \in CompanySteps \union BatchSteps THEN "execute" ELSE x
<1>2. pc'[w] = l /\ \A v \in Workers \ {w} : pc'[v] = pc[v]
  BY <1>1
<1>3. /\ QueuePc = [v \in Workers |-> view(pc[v])]
      /\ QueuePc' = [v \in Workers |-> view(pc'[v])]
  BY DEF QueuePc
<1> HIDE DEF view
<1>4. QueuePc' = [QueuePc EXCEPT ![w] = view(l)] /\ QueuePc[w] = view(pc[w])
  <2>1. \A v \in Workers : QueuePc'[v] = IF v = w THEN view(l) ELSE QueuePc[v]
    BY <1>2, <1>3
  <2>  QED
    BY <1>3, <2>1
<1>5. QueuePc' = [QueuePc EXCEPT ![w] = QueuePc'[w]]
  BY <1>3, <1>4
<1>  QED
  BY <1>4, <1>5 DEF view

\* The job a worker runs, as the queue sees it.
LEMMA WorkSame ==
  ASSUME TInv, NEW w \in Workers, NEW m, me' = [me EXCEPT ![w] = m]
  PROVE  /\ Work' = [Work EXCEPT ![w] = m.job]
         /\ m.job = me[w].job => UNCHANGED Work
<1>1. me \in [Workers -> Locals]
  BY DEF TInv, TypeOK
<1>2. me'[w] = m /\ \A v \in Workers \ {w} : me'[v] = me[v]
  BY <1>1
<1>3. Work' = [Work EXCEPT ![w] = m.job]
  <2>1. \A v \in Workers : me'[v].job = IF v = w THEN m.job ELSE me[v].job
    BY <1>2
  <2>2. Work' = [v \in Workers |-> IF v = w THEN m.job ELSE Work[v]]
    BY <2>1 DEF Work
  <2>  QED
    BY <2>2 DEF Work
<1>4. m.job = me[w].job => UNCHANGED Work
  BY <1>3 DEF Work
<1>  QED
  BY <1>3, <1>4

\* No step within the pipeline makes a company active again.
LEMMA StaysInactive ==
  ASSUME TInv, NEW w \in Workers, CompanyStep(w) \/ HandleUnexpected(w), HasActive(company')
  PROVE  HasActive(company)
<1>1. pc[w] \in Visiting /\ me[w].cur \in Companies /\ pc[w] \in HasCurrent
  BY OneRow DEF TInv, WorkersOK, HasCurrent
<1>2. company \in [Companies -> CompanyRows] /\ Current(w) \in CompanyRows
      /\ Current(w) = company[me[w].cur]
  BY <1>1 DEF TInv, TypeOK, Current
<1>3. CASE UNCHANGED company
  BY <1>3
<1>4. ASSUME NEW r, Save(w, r), Active(r) => Active(Current(w))
      PROVE  HasActive(company)
  <2>1. PICK c \in Companies : Active(company'[c])
    BY DEF HasActive
  <2>2. Active(company[c])
    BY <1>1, <1>2, <1>4, <2>1 DEF Save
  <2>  QED
    BY <2>2 DEF HasActive
<1>5. CASE Validate(w) \/ BeginResearch(w) \/ Score(w) \/ FindContact(w) \/ Draft(w)
  <2>1. ~Active(CompletedCompany(Current(w)))
    BY <1>2, RowFields DEF Active, TerminalCompany
  <2>2. ASSUME NEW s, NEW l, EnterStage(w, s, l)
        PROVE  HasActive(company)
    BY <1>3, <1>4, <2>2 DEF EnterStage, CanMove, table
  <2>  QED
    BY <1>3, <1>4, <1>5, <2>1, <2>2 DEF Validate, BeginResearch, Score, FindContact,
       Draft,
       Idle, table
<1>6. CASE Preflight(w) \/ Research(w) \/ ResearchGate(w) \/ ReloadResearch(w) \/ Assess(w)
             \/ Discover(w) \/ WriteDraft(w) \/ Beat(w)
  <2>1. UNCHANGED table
    BY <1>6 DEF Preflight, Research, ResearchGate, ReloadResearch, Assess, Discover,
       WriteDraft, Beat, Heartbeat, Idle
  <2>  QED
    BY <1>3, <2>1 DEF table
<1>7. CASE SaveResearch(w) \/ SaveOpportunity(w) \/ SaveContact(w)
  <2>1. PICK r : Save(w, r) /\ r \in {[Current(w) EXCEPT !.research = TRUE],
                                      [Current(w) EXCEPT !.opportunity = me[w].found],
                                      [Current(w) EXCEPT !.contact = TRUE]}
    BY <1>7 DEF SaveResearch, SaveOpportunity, SaveContact
  <2>2. r.status = Current(w).status
    BY <1>2, <2>1 DEF CompanyRows
  <2>  QED
    BY <1>4, <2>1, <2>2 DEF Active
<1>8. CASE AwaitReview(w) \/ SaveDraft(w) \/ Terminal(w) \/ HandleUnexpected(w)
  <2>1. [Current(w) EXCEPT !.draft = TRUE] \in CompanyRows
    BY <1>2 DEF CompanyRows
  <2>2. PICK r : /\ Save(w, r)
                 /\ \/ r = AwaitingReview(Current(w))
                    \/ r = CompletedCompany([Current(w) EXCEPT !.draft = TRUE])
                    \/ \E k : r = FailedCompany(Current(w), k) \/ r = NeedingReview(Current(w), k)
    BY <1>8 DEF AwaitReview, SaveDraft, Terminal, HandleUnexpected
  <2>3. r.status \in {"needs_review", "completed", "failed"}
    <3>1. CASE r = AwaitingReview(Current(w))
      BY <1>2, <3>1, RowFields
    <3>2. CASE r = CompletedCompany([Current(w) EXCEPT !.draft = TRUE])
      BY <2>1, <3>2, RowFields
    <3>3. ASSUME NEW k, r = FailedCompany(Current(w), k) \/ r = NeedingReview(Current(w), k)
          PROVE  r.status \in {"needs_review", "failed"}
      BY <1>2, <3>3, RowFields
    <3>  QED
      BY <2>2, <3>1, <3>2, <3>3
  <2>  QED
    BY <1>4, <2>2, <2>3 DEF Active, TerminalCompany
<1>  QED
  BY <1>5, <1>6, <1>7, <1>8 DEF CompanyStep

\* The steps that the queue sees as one, "execute".
Executing == CompanySteps \union BatchSteps

\* Nothing that the queue sees happens.
LEMMA Unseen ==
  ASSUME UNCHANGED <<JobTable, Settled, QueuePc, Work>>
  PROVE  UNCHANGED Queue!vars
  BY DEF Queue!vars, Work

\* Within execute: the companies settle, the lease is renewed, or nothing.
LEMMA ExecuteRefines ==
  ASSUME TInv, TInv', JInv, NEW w \in Workers, pc[w] \in Executing, NEW l \in Executing,
         pc' = [pc EXCEPT ![w] = l], UNCHANGED Work,
         \/ UNCHANGED jobs /\ (HasActive(company') => HasActive(company))
         \/ /\ jobs' = [jobs EXCEPT ![me[w].job] = Renewed(Job(w))]
            /\ UNCHANGED company
  PROVE  Queue!Next \/ UNCHANGED Queue!vars
<1>1. /\ pc[w] \in Working /\ pc[w] # "start"
  BY DEF Executing, Working, Labels, BatchSteps, CompanySteps
<1>2. /\ jobs # <<>> /\ Job(w) = LastJob /\ me[w].job = Len(jobs) /\ Len(jobs) \in DOMAIN jobs
      /\ Owns(LastJob, w) /\ Work[w] = me[w].job
  BY <1>1, AtWork DEF Work
<1>3. UNCHANGED QueuePc /\ QueuePc[w] = "execute"
  BY Views DEF Executing, QueuePc
<1>4. CASE UNCHANGED <<jobs, company>>
  <2>1. UNCHANGED <<JobTable, Settled>>
    BY <1>4, TableSame DEF Settled
  <2>  QED
    BY <1>3, <2>1, Unseen
<1>5. CASE UNCHANGED jobs /\ (HasActive(company') => HasActive(company))
  <2>1. CASE HasActive(company') <=> HasActive(company)
    <3>1. UNCHANGED JobTable
      BY <1>5, TableSame
    <3>2. UNCHANGED Settled
      BY <1>5, <2>1 DEF Settled
    <3>  QED
      BY <1>3, <3>1, <3>2, Unseen
  <2>2. CASE ~HasActive(company') /\ HasActive(company)
    <3>1. Settled' = DOMAIN jobs
      BY <1>5, <2>2 DEF Settled
    <3>2. Settled' = Settled \union {Work[w]}
      BY <1>2, <2>2, <3>1, SettledJobs
    <3>3. Queue!BatchSettles(w)
      BY <1>3, <1>5, <3>2, TableSame DEF Queue!BatchSettles, Work
    <3>  QED
      BY <3>3 DEF Queue!Next
  <2>  QED
    BY <1>5, <2>1, <2>2
<1>6. CASE /\ jobs' = [jobs EXCEPT ![me[w].job] = Renewed(Job(w))]
           /\ UNCHANGED company
  <2>1. JobTable' = [JobTable EXCEPT ![Work[w]] = Renewed(LastJob)]
    BY <1>2, <1>6, TableRow
  <2>2. JobTable[Work[w]] = LastJob
    BY <1>2, Table DEF LastJob
  <2>3. UNCHANGED Settled
    <3>1. DOMAIN jobs' = DOMAIN jobs /\ Len(jobs') = Len(jobs)
      BY <1>6 DEF TInv, RowsOK
    <3>  QED
      BY <1>6, <3>1 DEF Settled
  <2>4. /\ Queue!Owns(JobTable[Work[w]], w)
        /\ JobTable' = [JobTable EXCEPT ![Work[w]] = Queue!Renewed(JobTable[Work[w]])]
    BY <1>2, <2>1, <2>2, SameRows
  <2>5. Queue!HeartbeatJob(w)
    BY <1>3, <2>3, <2>4 DEF Queue!HeartbeatJob, Work
  <2>  QED
    BY <2>5 DEF Queue!Next
<1>  QED
  BY <1>5, <1>6

\* execute returns, or raises.
LEMMA EndRefines ==
  ASSUME TInv, JInv, NEW w \in Workers, pc[w] \in Executing,
         NEW l \in {"complete", "failing"},
         pc' = [pc EXCEPT ![w] = l], UNCHANGED <<Work, jobs, company>>,
         l = "complete" => ~HasActive(company)
  PROVE  Queue!Next
<1>1. /\ pc[w] \in Working
      /\ l \notin CompanySteps \union BatchSteps
  BY DEF Executing, Working, Labels, BatchSteps, CompanySteps
<1>2. QueuePc' = [QueuePc EXCEPT ![w] = l] /\ QueuePc[w] = "execute"
  BY <1>1, Views DEF Executing
<1>3. UNCHANGED <<JobTable, Settled>>
  BY TableSame DEF Settled
<1>4. CASE l = "complete"
  <2>1. Work[w] \in Settled
    BY <1>1, <1>4, SettledJobs, AtWork DEF Work
  <2>2. Queue!ExecuteReturns(w)
    BY <1>2, <1>3, <1>4, <2>1 DEF Queue!ExecuteReturns, Queue!GoTo, Work
  <2>  QED
    BY <2>2 DEF Queue!Next
<1>5. CASE l = "failing"
  <2>1. Queue!ExecuteRaises(w)
    BY <1>2, <1>3, <1>5 DEF Queue!ExecuteRaises, Queue!GoTo, Work
  <2>  QED
    BY <2>1 DEF Queue!Next
<1>  QED
  BY <1>4, <1>5

\* The worker dies.
LEMMA DieRefines ==
  ASSUME TInv, NEW w \in Workers, pc[w] # "down", Leave(w, "down"),
         UNCHANGED <<jobs, company>>
  PROVE  Queue!Next
<1>1. pc' = [pc EXCEPT ![w] = "down"] /\ me' = [me EXCEPT ![w] = NoLocals]
  BY DEF Leave, GoTo
<1>2. Work' = [Work EXCEPT ![w] = 0]
  <2>1. NoLocals.job = 0
    BY DEF NoLocals
  <2>2. Work' = [Work EXCEPT ![w] = NoLocals.job]
    BY <1>1, WorkSame
  <2>  QED
    BY <2>1, <2>2
<1>3. "down" \notin CompanySteps \union BatchSteps
  BY DEF BatchSteps, CompanySteps
<1>4. QueuePc' = [QueuePc EXCEPT ![w] = "down"] /\ QueuePc[w] # "down"
  BY <1>1, <1>3, Views
<1>5. UNCHANGED <<JobTable, Settled>>
  BY TableSame DEF Settled
<1>6. Queue!Die(w)
  BY <1>2, <1>4, <1>5 DEF Queue!Die, Queue!Leave, Queue!GoTo, Work
<1>  QED
  BY <1>6 DEF Queue!Next

\* A worker executes a batch.
LEMMA BatchRefines ==
  ASSUME TInv, TInv', GInv, JInv, NEW w \in Workers, BatchStep(w) \/ CompanyStep(w)
  PROVE  Queue!Next \/ UNCHANGED Queue!vars
<1>0. /\ pc \in [Workers -> Labels] /\ me[w] \in Locals
      /\ Executing \subseteq Working
      /\ CompanySteps \subseteq Executing /\ BatchSteps \subseteq Executing
      /\ Visiting \union {"done"} \subseteq Executing
      /\ "complete" \notin Executing /\ "failing" \notin Executing
  BY DEF TInv, TypeOK, Executing, Working, Labels, BatchSteps, CompanySteps, Visiting,
     QueueSteps
<1>1. ASSUME NEW at, NEW l, Heartbeat(w, at, l), pc[w] \in Executing
      PROVE  /\ pc' = [pc EXCEPT ![w] = l] /\ UNCHANGED company
             /\ jobs' = [jobs EXCEPT ![me[w].job] = Renewed(Job(w))]
  BY <1>0, <1>1, AtWork DEF Heartbeat, GoTo, table, Job
<1>2. CASE CompanyStep(w) \/ HandleUnexpected(w)
  <2>1. pc[w] \in Visiting /\ Advances(w)
    BY <1>2, CompanyAdvances, HandlerAdvances
  <2>2. PICK l \in Visiting \union {"done"}, m \in Locals : Visit(w, l, m)
    BY <2>1 DEF Advances
  <2>3. pc' = [pc EXCEPT ![w] = l] /\ UNCHANGED Work
    BY <2>2, WorkSame DEF Visit
  <2>4. /\ Beat(w) \/ UNCHANGED jobs
        /\ HasActive(company') => HasActive(company)
    BY <1>2, CompanyFrame, StaysInactive
  <2>5. Beat(w) => /\ jobs' = [jobs EXCEPT ![me[w].job] = Renewed(Job(w))]
                   /\ UNCHANGED company
    BY <1>0, <1>1, <2>1 DEF Beat
  <2>  QED
    BY <1>0, <2>1, <2>3, <2>4, <2>5, ExecuteRefines
<1>3. CASE LoadBatch(w)
  <2>1. UNCHANGED <<jobs, company>> /\ pc[w] \in Executing
    BY <1>0, <1>3 DEF LoadBatch, Idle, table, BatchSteps
  <2>2. CASE HasActive(company)
    <3> DEFINE m == [[me[w] EXCEPT !.todo = {c \in Companies : Active(company[c])}]
                      EXCEPT !.known = {c \in Companies : company[c].research}]
    <3>1. /\ pc' = [pc EXCEPT ![w] = "startbatch"] /\ me' = [me EXCEPT ![w] = m]
      BY <1>3, <2>2 DEF LoadBatch, GoTo
    <3>2. m.job = me[w].job
      BY <1>0 DEF Locals
    <3> HIDE DEF m
    <3>3. UNCHANGED Work
      BY <3>1, <3>2, WorkSame
    <3>4. "startbatch" \in Executing
      BY DEF Executing, BatchSteps
    <3>  QED
      BY <2>1, <3>1, <3>3, <3>4, ExecuteRefines
  <2>3. CASE ~HasActive(company)
    <3>1. pc' = [pc EXCEPT ![w] = "complete"] /\ UNCHANGED Work
      BY <1>3, <2>3 DEF LoadBatch, GoTo, Work
    <3>  QED
      BY <2>1, <2>3, <3>1, EndRefines
  <2>  QED
    BY <2>2, <2>3
<1>4. CASE StartBatch(w) \/ Finalize(w)
  <2>1. /\ UNCHANGED <<jobs, company>> /\ pc[w] \in Executing
        /\ pc[w] \in BatchSteps /\ pc[w] \notin CompanySteps
    BY <1>0, <1>4 DEF StartBatch, Finalize, BatchSteps, CompanySteps
  <2>2. CASE Throw(w)
    <3>1. OnError(w) = "failing"
      BY <2>1 DEF OnError
    <3>2. pc' = [pc EXCEPT ![w] = "failing"] /\ UNCHANGED Work
      BY <2>2, <3>1 DEF Throw, GoTo, Work
    <3>  QED
      BY <2>1, <3>2, EndRefines
  <2>3. CASE /\ pc' = [pc EXCEPT ![w] = "next"] /\ UNCHANGED me
    <3>1. "next" \in Executing /\ UNCHANGED Work
      BY <2>3 DEF Executing, BatchSteps, Work
    <3>  QED
      BY <2>1, <2>3, <3>1, ExecuteRefines
  <2>4. CASE /\ pc' = [pc EXCEPT ![w] = "complete"] /\ UNCHANGED me /\ ~HasActive(company)
    <3>1. UNCHANGED Work
      BY <2>4 DEF Work
    <3>  QED
      BY <2>1, <2>4, <3>1, EndRefines
  <2>  QED
    BY <1>4, <2>2, <2>3, <2>4 DEF StartBatch, Finalize, GoTo, CanFinalize
<1>5. CASE NextCompany(w)
  <2> DEFINE c == Min(me[w].todo)
             l == IF c \in me[w].known THEN "reload" ELSE "validate"
             m == [[me[w] EXCEPT !.cur = c] EXCEPT !.todo = me[w].todo \ {c}]
  <2>1. Heartbeat(w, "next", l) /\ me' = [me EXCEPT ![w] = m]
    BY <1>5 DEF NextCompany
  <2>2. m.job = me[w].job /\ l \in Executing
    BY <1>0 DEF Locals, CompanySteps
  <2> HIDE DEF l, m
  <2>3. pc[w] \in Executing
    BY <1>0, <2>1 DEF Heartbeat, BatchSteps
  <2>4. UNCHANGED Work
    BY <2>1, <2>2, WorkSame
  <2>  QED
    BY <1>1, <2>1, <2>2, <2>3, <2>4, ExecuteRefines
<1>6. CASE LeaveCompany(w)
  <2> DEFINE m == [[[[me[w] EXCEPT !.cur = 0] EXCEPT !.then = "next"]
                      EXCEPT !.verdict = NoVerdict] EXCEPT !.found = "none"]
  <2>1. Heartbeat(w, "done", "next") /\ me' = [me EXCEPT ![w] = m]
    BY <1>6 DEF LeaveCompany
  <2>2. m.job = me[w].job
    BY <1>0 DEF Locals
  <2> HIDE DEF m
  <2>3. pc[w] \in Executing /\ "next" \in Executing
    BY <1>0, <2>1 DEF Heartbeat, BatchSteps
  <2>4. UNCHANGED Work
    BY <2>1, <2>2, WorkSame
  <2>  QED
    BY <1>1, <2>1, <2>3, <2>4, ExecuteRefines
<1>7. CASE NoMoreCompanies(w)
  <2>1. /\ UNCHANGED <<jobs, company, Work>> /\ pc[w] \in Executing
        /\ "finish" \in Executing
        /\ pc' = [pc EXCEPT ![w] = "finish"]
    BY <1>0, <1>7 DEF NoMoreCompanies, Idle, table, BatchSteps, Work, GoTo
  <2>  QED
    BY <2>1, ExecuteRefines
<1>8. CASE Finish(w)
  <2>1. /\ UNCHANGED <<jobs, company, Work>> /\ pc[w] \in Executing
        /\ "finalize" \in Executing
        /\ pc[w] = "finish"
        /\ pc' = [pc EXCEPT ![w] = IF HasActive(company) THEN "complete" ELSE "finalize"]
    BY <1>0, <1>8 DEF Finish, Idle, table, BatchSteps, Work, GoTo
  <2>2. ~HasActive(company)
    BY <1>0, <2>1, AtWork DEF JInv, EndOK
  <2>  QED
    BY <2>1, <2>2, ExecuteRefines
<1>  QED
  BY <1>2, <1>3, <1>4, <1>5, <1>6, <1>7, <1>8 DEF BatchStep

\* Recovery.
LEMMA RecoverRefines ==
  ASSUME TInv, JInv, NEW w \in Workers, RecoverStale(w)
  PROVE  Queue!Next
<1>1. /\ pc[w] = "recover" /\ pc' = [pc EXCEPT ![w] = "claim"] /\ UNCHANGED Work
  BY DEF RecoverStale, GoTo, Work
<1>2. /\ QueuePc[w] = "recover" /\ QueuePc' = [QueuePc EXCEPT ![w] = "claim"]
  <2>1. /\ "claim" \notin CompanySteps \union BatchSteps
        /\ "recover" \notin CompanySteps \union BatchSteps
    BY DEF BatchSteps, CompanySteps
  <2>  QED
    BY <1>1, <2>1, Views
<1>3. ASSUME NEW j \in 1 .. MaxJobs, CanRecover(JobTable[j])
      PROVE  /\ j = Len(jobs) /\ j \in DOMAIN jobs /\ jobs # <<>> /\ jobs[j] = JobTable[j]
             /\ RowOK(jobs[j]) /\ Held(jobs[j])
  <2>1. j \in DOMAIN jobs /\ jobs[j] = JobTable[j]
    BY <1>3, Table
  <2>2. jobs[j].status \notin TerminalStatuses /\ Held(jobs[j])
    BY <1>3, <2>1 DEF CanRecover, Held, HeldStatuses, TerminalStatuses
  <2>  QED
    BY <2>1, <2>2, Facts DEF JInv, LastOK, TInv, RowsOK, RowOK
<1> DEFINE Lost == {j \in 1 .. MaxJobs : /\ CanRecover(JobTable[j])
                                        /\ JobTable[j].attempts >= MaxAttempts}
           After(j) == IF ~CanRecover(JobTable[j]) THEN JobTable[j]
                       ELSE IF j \in Settled THEN Reconciled(JobTable[j])
                       ELSE Recovered(JobTable[j])
<1>4. SUFFICES /\ JobTable' = [j \in 1 .. MaxJobs |-> After(j)]
               /\ Settled' = Settled \union Lost
  <2>1. \A j \in 1 .. MaxJobs : Queue!RecoveredJob(j) = After(j)
    BY SameRows DEF Queue!RecoveredJob
  <2>2. Lost = {j \in 1 .. MaxJobs : /\ Queue!CanRecover(JobTable[j])
                                     /\ JobTable[j].attempts >= MaxAttempts}
    BY SameRows
  <2> HIDE DEF After, Lost
  <2>3. ASSUME JobTable' = [j \in 1 .. MaxJobs |-> After(j)], Settled' = Settled \union Lost
        PROVE  Queue!RecoverStale(w)
    <3>1. JobTable' = [j \in 1 .. MaxJobs |-> Queue!RecoveredJob(j)]
      BY <2>1, <2>3
    <3>  QED
      BY <1>1, <1>2, <2>2, <2>3, <3>1 DEF Queue!RecoverStale, Queue!GoTo, Work
  <2>  QED
    BY <2>3 DEF Queue!Next, Queue!Run
<1>5. CASE /\ \A j \in DOMAIN jobs : ~CanRecover(jobs[j])
           /\ UNCHANGED <<batch, company, jobs>>
  <2>1. \A j \in 1 .. MaxJobs : ~CanRecover(JobTable[j])
    BY <1>3, <1>5
  <2>2. Lost = {} /\ \A j \in 1 .. MaxJobs : After(j) = JobTable[j]
    BY <2>1
  <2>3. UNCHANGED Settled
    BY <1>5 DEF Settled
  <2>4. UNCHANGED JobTable
    BY <1>5, TableSame
  <2> HIDE DEF After, Lost
  <2>5. JobTable = [j \in 1 .. MaxJobs |-> JobTable[j]]
    BY DEF JobTable
  <2>  QED
    BY <2>2, <2>3, <2>4, <2>5
<1>6. ASSUME NEW j \in DOMAIN jobs, CanRecover(jobs[j]), NEW row,
             jobs' = [jobs EXCEPT ![j] = row], row = After(j)
      PROVE  JobTable' = [k \in 1 .. MaxJobs |-> After(k)]
  <2>1. j \in 1 .. MaxJobs /\ JobTable[j] = jobs[j] /\ JobTable \in [1 .. MaxJobs -> JobRows]
    BY Table
  <2>2. j = Len(jobs)
    BY <1>3, <1>6, <2>1
  <2>3. \A k \in 1 .. MaxJobs : k # j => After(k) = JobTable[k]
    BY <1>3, <2>2
  <2>4. JobTable' = [JobTable EXCEPT ![j] = row]
    BY <1>6, TableRow
  <2> HIDE DEF After
  <2>5. \A k \in 1 .. MaxJobs : JobTable'[k] = After(k)
    BY <1>6, <2>1, <2>3, <2>4
  <2>  QED
    BY <2>1, <2>4, <2>5
<1>7. ASSUME NEW j \in DOMAIN jobs, CanRecover(jobs[j])
      PROVE  /\ j = Len(jobs) /\ j \in 1 .. MaxJobs
             /\ JobTable[j] = jobs[j] /\ RowOK(jobs[j])
             /\ Held(jobs[j])
             /\ Lost = IF jobs[j].attempts >= MaxAttempts THEN {j} ELSE {}
  <2>1. j \in 1 .. MaxJobs /\ JobTable[j] = jobs[j]
    BY Table
  <2>2. j = Len(jobs) /\ RowOK(jobs[j]) /\ Held(jobs[j])
    BY <1>3, <1>7, <2>1
  <2>3. \A k \in 1 .. MaxJobs : CanRecover(JobTable[k]) => k = j
    BY <1>3, <2>2
  <2>  QED
    BY <1>7, <2>1, <2>2, <2>3
<1>8. ASSUME NEW j \in DOMAIN jobs, CanRecover(jobs[j]), ~HasActive(company),
             jobs' = [jobs EXCEPT ![j] = Reconciled(jobs[j])], UNCHANGED company
      PROVE  /\ JobTable' = [k \in 1 .. MaxJobs |-> After(k)]
             /\ Settled' = Settled \union Lost
  <2>1. Settled = DOMAIN jobs
    BY <1>8, SettledJobs
  <2>2. After(j) = Reconciled(jobs[j])
    BY <1>7, <1>8, <2>1
  <2>3. JobTable' = [k \in 1 .. MaxJobs |-> After(k)]
    <3> HIDE DEF After
    <3>  QED
      BY <1>6, <1>8, <2>2
  <2>4. Lost \subseteq {j}
    BY <1>7, <1>8
  <2>5. Settled' = Settled
    <3>1. DOMAIN jobs' = DOMAIN jobs /\ Len(jobs') = Len(jobs)
      BY <1>8 DEF TInv, RowsOK
    <3>  QED
      BY <1>8, <3>1 DEF Settled
  <2>  QED
    BY <2>1, <2>3, <2>4, <2>5
<1>9. ASSUME NEW j \in DOMAIN jobs, CanRecover(jobs[j]), HasActive(company),
             jobs' = [jobs EXCEPT ![j] = Recovered(jobs[j])],
             IF jobs'[j].status = "pending"
             THEN company' = RecoveredCompanies(company)
             ELSE company' = FailedActive(company)
      PROVE  /\ JobTable' = [k \in 1 .. MaxJobs |-> After(k)]
             /\ Settled' = Settled \union Lost
  <2>1. Settled = DOMAIN jobs \ {j}
    BY <1>7, <1>9, SettledJobs
  <2>2. After(j) = Recovered(jobs[j])
    BY <1>7, <1>9, <2>1
  <2>3. JobTable' = [k \in 1 .. MaxJobs |-> After(k)]
    <3> HIDE DEF After
    <3>  QED
      BY <1>6, <1>9, <2>2
  <2>4. /\ DOMAIN jobs' = DOMAIN jobs /\ Len(jobs') = Len(jobs)
        /\ jobs'[j] = Recovered(jobs[j])
        /\ company \in [Companies -> CompanyRows]
        /\ jobs'[j].status = IF jobs[j].attempts >= MaxAttempts THEN "failed" ELSE "pending"
    <3>1. jobs'[j] = Recovered(jobs[j]) /\ DOMAIN jobs' = DOMAIN jobs /\ Len(jobs') = Len(jobs)
      BY <1>9 DEF TInv, RowsOK
    <3>  QED
      BY <1>7, <1>9, <3>1, GivenBack DEF TInv, TypeOK
  <2>5. CASE jobs[j].attempts >= MaxAttempts
    <3>1. ~HasActive(company')
      BY <1>9, <2>4, <2>5, GivenUp
    <3>2. Settled' = DOMAIN jobs
      BY <2>4, <3>1, Facts DEF Settled
    <3>3. Lost = {j}
      BY <1>7, <1>9, <2>5
    <3>  QED
      BY <2>1, <2>3, <3>2, <3>3
  <2>6. CASE ~(jobs[j].attempts >= MaxAttempts)
    <3>1. HasActive(company')
      BY <1>9, <2>4, <2>6, Requeued
    <3>2. Settled' = Settled
      BY <1>9, <2>4, <3>1 DEF Settled
    <3>3. Lost = {}
      BY <1>7, <1>9, <2>6
    <3>  QED
      BY <2>3, <3>2, <3>3
  <2>  QED
    BY <2>5, <2>6
<1>  QED
  BY <1>5, <1>8, <1>9 DEF RecoverStale

\* The other transactions of the queue.
LEMMA QueueRefines ==
  ASSUME TInv, TInv', JInv, NEW w \in Workers, QueueStep(w)
  PROVE  Queue!Next
<1>0. /\ pc \in [Workers -> Labels] /\ me \in [Workers -> Locals] /\ me[w] \in Locals
      /\ {"start", "complete", "failing"} \subseteq Working
      /\ {"recover", "claim", "start", "complete", "failing", "down"} \cap Executing = {}
      /\ "load" \in Executing
  BY DEF TInv, TypeOK, Working, CompanySteps, Labels, QueueSteps, BatchSteps, Executing
<1>1. CASE RecoverStale(w)
  BY <1>1, RecoverRefines
<1>2. CASE ClaimNothing(w)
  <2>1. /\ pc[w] = "claim" /\ pc' = [pc EXCEPT ![w] = "recover"]
        /\ UNCHANGED <<Work, jobs, company>> /\ \A j \in DOMAIN jobs : ~CanLease(jobs[j])
    BY <1>2 DEF ClaimNothing, GoTo, table, Work
  <2>2. QueuePc[w] = "claim" /\ QueuePc' = [QueuePc EXCEPT ![w] = "recover"]
    BY <1>0, <2>1, Views DEF Executing
  <2>3. \A j \in 1 .. MaxJobs : ~Queue!CanLease(JobTable[j])
    BY <2>1, Table, SameRows
  <2>4. UNCHANGED <<JobTable, Settled>>
    BY <2>1, TableSame DEF Settled
  <2>5. Queue!ClaimNothing(w)
    BY <2>1, <2>2, <2>3, <2>4 DEF Queue!ClaimNothing, Queue!GoTo, Work
  <2>  QED
    BY <2>5 DEF Queue!Next, Queue!Run
<1>3. CASE Restart(w)
  <2>1. /\ pc[w] = "down" /\ pc' = [pc EXCEPT ![w] = "recover"]
        /\ UNCHANGED <<Work, jobs, company>>
    BY <1>3 DEF Restart, GoTo, Idle, table, Work
  <2>2. QueuePc[w] = "down" /\ QueuePc' = [QueuePc EXCEPT ![w] = "recover"]
    BY <1>0, <2>1, Views DEF Executing
  <2>3. UNCHANGED <<JobTable, Settled>>
    BY <2>1, TableSame DEF Settled
  <2>4. Queue!Restart(w)
    BY <2>1, <2>2, <2>3 DEF Queue!Restart, Queue!GoTo, Work
  <2>  QED
    BY <2>4 DEF Queue!Next, Queue!Run
<1>4. CASE Claim(w)
  <2>1. PICK j \in DOMAIN jobs :
          /\ CanLease(jobs[j])
          /\ jobs' = [jobs EXCEPT ![j] = Leased(jobs[j], w)]
          /\ me' = [me EXCEPT ![w].job = j]
          /\ pc[w] = "claim" /\ pc' = [pc EXCEPT ![w] = "start"]
          /\ UNCHANGED company
    BY <1>4 DEF Claim, GoTo, table
  <2>2. QueuePc[w] = "claim" /\ QueuePc' = [QueuePc EXCEPT ![w] = "start"]
    BY <1>0, <2>1, Views DEF Executing
  <2>3. j \in 1 .. MaxJobs /\ JobTable[j] = jobs[j]
    BY Table
  <2>4. JobTable' = [JobTable EXCEPT ![j] = Queue!Leased(JobTable[j], w)]
    BY <2>1, <2>3, TableRow, SameRows
  <2>5. UNCHANGED Settled
    <3>1. DOMAIN jobs' = DOMAIN jobs /\ Len(jobs') = Len(jobs)
      BY <2>1 DEF TInv, RowsOK
    <3>  QED
      BY <2>1, <3>1 DEF Settled
  <2>6. Work' = [Work EXCEPT ![w] = j]
    <3> DEFINE m == [me[w] EXCEPT !.job = j]
    <3>1. m.job = j /\ me' = [me EXCEPT ![w] = m]
      BY <1>0, <2>1 DEF Locals
    <3> HIDE DEF m
    <3>  QED
      BY <3>1, WorkSame
  <2>7. Queue!CanLease(JobTable[j])
    BY <2>1, <2>3, SameRows
  <2>8. Queue!Claim(w)
    BY <2>2, <2>3, <2>4, <2>5, <2>6, <2>7 DEF Queue!Claim, Queue!GoTo, Work
  <2>  QED
    BY <2>8 DEF Queue!Next, Queue!Run
<1>5. CASE StartJob(w) \/ CompleteJob(w) \/ RecordFailure(w)
  <2>1. /\ pc[w] \in {"start", "complete", "failing"} /\ jobs # <<>>
        /\ Job(w) = LastJob /\ me[w].job = Len(jobs) /\ Len(jobs) \in DOMAIN jobs
        /\ RowOK(LastJob) /\ Owns(LastJob, w) /\ Work[w] = Len(jobs)
        /\ LastJob.status = IF pc[w] = "start" THEN "leased" ELSE "running"
        /\ jobs[me[w].job] = LastJob
    BY <1>0, <1>5, AtWork DEF StartJob, CompleteJob, RecordFailure, Work, Job
  <2>2. JobTable[Work[w]] = LastJob
    BY <2>1, Table
  <2>3. QueuePc[w] = pc[w] /\ Work[w] = me[w].job
    BY <1>0, <2>1 DEF QueuePc, Executing
  <2>4. ASSUME NEW row, jobs' = [jobs EXCEPT ![me[w].job] = row]
        PROVE  /\ JobTable' = [JobTable EXCEPT ![Work[w]] = row]
               /\ DOMAIN jobs' = DOMAIN jobs /\ Len(jobs') = Len(jobs)
               /\ jobs'[me[w].job] = row
               /\ (HasActive(company') <=> HasActive(company)) => UNCHANGED Settled
               /\ ~HasActive(company') => Settled' = Settled \union {Work[w]}
    <3>1. JobTable' = [JobTable EXCEPT ![Work[w]] = row]
      BY <2>1, <2>4, TableRow
    <3>2. DOMAIN jobs' = DOMAIN jobs /\ Len(jobs') = Len(jobs) /\ jobs'[me[w].job] = row
      BY <2>1, <2>4 DEF TInv, RowsOK
    <3>3. (HasActive(company') <=> HasActive(company)) => UNCHANGED Settled
      BY <3>2 DEF Settled
    <3>4. ~HasActive(company') => Settled' = DOMAIN jobs
      BY <3>2 DEF Settled
    <3>5. Settled \union {Work[w]} = DOMAIN jobs
      <4>1. CASE HasActive(company)
        BY <2>1, <4>1, SettledJobs
      <4>2. CASE ~HasActive(company)
        BY <2>1, <4>2, SettledJobs
      <4>  QED
        BY <4>1, <4>2
    <3>  QED
      BY <3>1, <3>2, <3>3, <3>4, <3>5
  <2>5. CASE StartJob(w)
    <3>1. pc[w] = "start" /\ CanStart(LastJob, w)
      BY <2>1, <2>5 DEF StartJob, CanStart, Owns
    <3>2. /\ jobs' = [jobs EXCEPT ![me[w].job] = Started(LastJob)]
          /\ pc' = [pc EXCEPT ![w] = "load"] /\ UNCHANGED <<company, Work>>
      BY <2>1, <2>5, <3>1 DEF StartJob, GoTo, table, Work
    <3>3. QueuePc' = [QueuePc EXCEPT ![w] = "execute"]
      BY <1>0, <3>2, Views DEF Executing
    <3>4. /\ JobTable' = [JobTable EXCEPT ![Work[w]] = Started(LastJob)]
          /\ UNCHANGED Settled
      BY <2>4, <3>2
    <3>5. /\ Queue!CanStart(JobTable[Work[w]], w)
          /\ JobTable' = [JobTable EXCEPT ![Work[w]] = Queue!Started(JobTable[Work[w]])]
      BY <2>2, <3>1, <3>4, SameRows
    <3>6. Queue!StartJob(w)
      BY <2>3, <3>1, <3>2, <3>3, <3>4, <3>5 DEF Queue!StartJob, Queue!GoTo, Work
    <3>  QED
      BY <3>6 DEF Queue!Next, Queue!Run
  <2>6. CASE CompleteJob(w)
    <3>1. pc[w] = "complete" /\ CanComplete(LastJob, w) /\ LastJob.status # "completed"
      BY <2>1, <2>6 DEF CompleteJob, CanComplete
    <3>2. /\ jobs' = [jobs EXCEPT ![me[w].job] = Completed(LastJob)]
          /\ pc' = [pc EXCEPT ![w] = "recover"] /\ UNCHANGED company
          /\ me' = [me EXCEPT ![w] = NoLocals]
      BY <2>1, <2>6, <3>1 DEF CompleteJob, Leave, GoTo, table
    <3>3. QueuePc' = [QueuePc EXCEPT ![w] = "recover"]
      BY <1>0, <3>2, Views DEF Executing
    <3>4. /\ JobTable' = [JobTable EXCEPT ![Work[w]] = Completed(LastJob)]
          /\ UNCHANGED Settled
      BY <2>4, <3>2
    <3>5. /\ Queue!CanComplete(JobTable[Work[w]], w)
          /\ JobTable[Work[w]].status # "completed"
          /\ JobTable' = [JobTable EXCEPT ![Work[w]] = Queue!Completed(JobTable[Work[w]])]
      BY <2>2, <3>1, <3>4, SameRows
    <3>6. Work' = [Work EXCEPT ![w] = 0]
      <4>1. NoLocals.job = 0
        BY DEF NoLocals
      <4>2. Work' = [Work EXCEPT ![w] = NoLocals.job]
        BY <3>2, WorkSame
      <4>  QED
        BY <4>1, <4>2
    <3>7. Queue!CompleteJob(w)
      BY <2>3, <3>1, <3>3, <3>4, <3>5, <3>6
      DEF Queue!CompleteJob, Queue!Leave, Queue!GoTo, Work
    <3>  QED
      BY <3>7 DEF Queue!Next, Queue!Run
  <2>7. CASE RecordFailure(w)
    <3>1. /\ pc[w] = "failing"
          /\ jobs' = [jobs EXCEPT ![me[w].job] = Retried(LastJob)]
          /\ IF jobs'[me[w].job].status = "pending"
             THEN company' = RecoveredCompanies(company)
             ELSE company' = FailedActive(company)
          /\ pc' = [pc EXCEPT ![w] = "recover"]
          /\ me' = [me EXCEPT ![w] = NoLocals]
      BY <2>1, <2>7 DEF RecordFailure, Leave, GoTo
    <3>2. QueuePc' = [QueuePc EXCEPT ![w] = "recover"]
      BY <1>0, <3>1, Views DEF Executing
    <3>3. /\ JobTable' = [JobTable EXCEPT ![Work[w]] = Retried(LastJob)]
          /\ jobs'[me[w].job] = Retried(LastJob)
      BY <2>4, <3>1
    <3>4. Retried(LastJob).status = IF LastJob.attempts >= MaxAttempts THEN "failed" ELSE "pending"
      BY <2>1, GivenBack DEF Owns
    <3>5. company \in [Companies -> CompanyRows]
      BY DEF TInv, TypeOK
    <3>6. Settled' = IF LastJob.attempts >= MaxAttempts THEN Settled \union {Work[w]} ELSE Settled
      <4>1. CASE LastJob.attempts >= MaxAttempts
        <5>1. ~HasActive(company')
          BY <3>1, <3>3, <3>4, <3>5, <4>1, GivenUp
        <5>  QED
          BY <2>4, <3>1, <4>1, <5>1
      <4>2. CASE ~(LastJob.attempts >= MaxAttempts)
        <5>1. HasActive(company') <=> HasActive(company)
          BY <3>1, <3>3, <3>4, <3>5, <4>2, Requeued
        <5>  QED
          BY <2>4, <3>1, <4>2, <5>1
      <4>  QED
        BY <4>1, <4>2
    <3>7. /\ Queue!Owns(JobTable[Work[w]], w)
          /\ JobTable' = [JobTable EXCEPT ![Work[w]] = Queue!Retried(JobTable[Work[w]])]
      BY <2>1, <2>2, <3>3, SameRows
    <3>8. Work' = [Work EXCEPT ![w] = 0]
      <4>1. NoLocals.job = 0
        BY DEF NoLocals
      <4>2. Work' = [Work EXCEPT ![w] = NoLocals.job]
        BY <3>1, WorkSame
      <4>  QED
        BY <4>1, <4>2
    <3>9. Queue!RecordFailure(w)
      BY <2>2, <2>3, <3>1, <3>2, <3>6, <3>7, <3>8
      DEF Queue!RecordFailure, Queue!Leave, Queue!GoTo, Work
    <3>  QED
      BY <3>9 DEF Queue!Next, Queue!Run
  <2>  QED
    BY <1>5, <2>5, <2>6, <2>7
<1>  QED
  BY <1>1, <1>2, <1>3, <1>4, <1>5 DEF QueueStep

\* A failed transaction, or the death of the process.
LEMMA FaultRefines ==
  ASSUME TInv, TInv', JInv, NEW w \in Workers, Raise(w) \/ Crash(w)
  PROVE  Queue!Next \/ UNCHANGED Queue!vars
<1>1. pc[w] # "down" /\ UNCHANGED <<jobs, company>>
  BY DEF Raise, Crash, table
<1>2. CASE Leave(w, "down")
  BY <1>1, <1>2, DieRefines
<1>3. CASE Raise(w) /\ ~Leave(w, "down")
  <2>1. /\ OnError(w) # "down"
        /\ pc' = [pc EXCEPT ![w] = OnError(w)] /\ UNCHANGED Work
    BY <1>3 DEF Raise, Throw, GoTo, Work
  <2>2. CASE pc[w] \in CompanySteps
    <3>1. OnError(w) = "unexpected"
      BY <2>2 DEF OnError, CompanySteps, BatchSteps
    <3>2. pc[w] \in Executing /\ "unexpected" \in Executing
      BY <2>2 DEF Executing, BatchSteps
    <3>  QED
      BY <1>1, <2>1, <3>1, <3>2, ExecuteRefines
  <2>3. CASE pc[w] \notin CompanySteps
    <3>1. OnError(w) = "failing" /\ pc[w] \in Executing
      BY <2>1, <2>3 DEF OnError, CompanySteps, BatchSteps, Executing
    <3>  QED
      BY <1>1, <2>1, <3>1, EndRefines
  <2>  QED
    BY <2>2, <2>3
<1>  QED
  BY <1>2, <1>3 DEF Crash

\* The API and the clock.
LEMMA ApiRefines ==
  ASSUME TInv, TInv', JInv, JInv', Api \/ LeaseTick
  PROVE  Queue!Next \/ UNCHANGED Queue!vars
<1>1. UNCHANGED <<pc, me>>
  BY DEF Api, LeaseTick, SubmitBatch, CreateRoutingBatch, StartRoutingBatch,
     RetryCompany,
     ResumeCompany, ReviewClaims, Requeue
<1>2. UNCHANGED <<QueuePc, Work>>
  BY <1>1 DEF QueuePc, Work
<1>3. CASE UNCHANGED <<jobs, company>>
  <2>1. UNCHANGED <<JobTable, Settled>>
    BY <1>3, TableSame DEF Settled
  <2>  QED
    BY <1>2, <2>1, Unseen
<1>4. CASE LeaseTick
  <2>1. /\ jobs' = [j \in DOMAIN jobs |-> Aged(jobs[j])] /\ UNCHANGED company
    BY <1>4 DEF LeaseTick, table
  <2>2. /\ DOMAIN jobs' = DOMAIN jobs /\ Len(jobs') = Len(jobs)
        /\ \A j \in DOMAIN jobs : jobs'[j] = Aged(jobs[j])
        /\ DOMAIN jobs = 1 .. Len(jobs) /\ Len(jobs) \in Nat
        /\ jobs' \in Seq(JobRows)
    BY <2>1 DEF TInv, RowsOK
  <2>3. \A j \in 1 .. MaxJobs : JobTable'[j] = Aged(JobTable[j])
    <3>1. ASSUME NEW j \in 1 .. MaxJobs, j \in DOMAIN jobs
          PROVE  JobTable'[j] = Aged(JobTable[j])
      <4>1. JobTable[j] = jobs[j]
        BY <3>1, Table
      <4>2. JobTable'[j] = jobs'[j]
        BY <2>2, <3>1 DEF JobTable
      <4>  QED
        BY <2>2, <3>1, <4>1, <4>2
    <3>2. ASSUME NEW j \in 1 .. MaxJobs, j \notin DOMAIN jobs
          PROVE  JobTable'[j] = Aged(JobTable[j])
      <4>1. Aged(JobTable[j]) = AbsentRow
        BY <3>2, Table
      <4>2. JobTable'[j] = AbsentRow
        BY <2>2, <3>2 DEF JobTable
      <4>  QED
        BY <4>1, <4>2
    <3>  QED
      BY <3>1, <3>2
  <2>4. JobTable' = [j \in 1 .. MaxJobs |-> Queue!Aged(JobTable[j])]
    <3>1. JobTable' = [j \in 1 .. MaxJobs |-> Aged(JobTable[j])]
      BY <2>3 DEF JobTable
    <3>  QED
      BY <3>1, SameRows
  <2>5. \E j \in 1 .. MaxJobs : Queue!Aged(JobTable[j]) # JobTable[j]
    <3>1. PICK j \in DOMAIN jobs : Aged(jobs[j]) # jobs[j]
      BY <1>4 DEF LeaseTick
    <3>2. j \in 1 .. MaxJobs /\ JobTable[j] = jobs[j]
      BY Table
    <3>  QED
      BY <3>1, <3>2, SameRows
  <2>6. UNCHANGED Settled
    BY <2>1, <2>2 DEF Settled
  <2>7. Queue!Tick
    BY <1>2, <2>4, <2>5, <2>6 DEF Queue!Tick, Work
  <2>  QED
    BY <2>7 DEF Queue!Next
<1>5. CASE AddJob /\ ~LeaseTick /\ ~UNCHANGED <<jobs, company>>
  <2> DEFINE j == Len(jobs) + 1
  <2>1. /\ jobs' = Append(jobs, Created) /\ jobs \in Seq(JobRows) /\ Created \in JobRows
        /\ Len(jobs) < MaxJobs /\ Len(jobs) \in Nat /\ MaxJobs \in Nat
        /\ DOMAIN jobs = 1 .. Len(jobs)
    BY <1>5, CreatedOK, PipelineAssumption DEF AddJob, TInv, RowsOK, RowOK
  <2>2. /\ Len(jobs') = j /\ DOMAIN jobs' = 1 .. j /\ jobs'[j] = Created
        /\ \A k \in DOMAIN jobs : jobs'[k] = jobs[k]
    BY <2>1
  <2>3. j \in 1 .. MaxJobs /\ j \notin DOMAIN jobs
    BY <2>1
  <2>4. JobTable' = [JobTable EXCEPT ![j] = Created]
    <3>1. \A k \in 1 .. MaxJobs : JobTable'[k] = IF k = j THEN Created ELSE JobTable[k]
      BY <2>1, <2>2 DEF JobTable
    <3>2. JobTable' = [k \in 1 .. MaxJobs |-> IF k = j THEN Created ELSE JobTable[k]]
      BY <3>1 DEF JobTable
    <3>  QED
      BY <2>3, <3>2 DEF JobTable
  <2>5. /\ JobTable[j].status = "absent"
        /\ \A k \in 1 .. MaxJobs : JobTable[k].status \notin ActiveStatuses
    <3>1. \A k \in DOMAIN jobs : jobs[k].status \notin ActiveStatuses
      BY <1>5 DEF AddJob, ActiveJob
    <3>2. "absent" \notin ActiveStatuses
      BY DEF ActiveStatuses, HeldStatuses
    <3>  QED
      BY <2>3, <3>1, <3>2, Table
  <2>6. HasActive(company')
    <3>1. jobs' # <<>> /\ LastJob' = Created
      BY <2>2 DEF LastJob
    <3>2. batch' = "pending"
      BY <1>5 DEF Api, SubmitBatch, CreateRoutingBatch, StartRoutingBatch,
         RetryCompany, ResumeCompany, ReviewClaims, Requeue, table
    <3>3. Created.status # "running" /\ "pending" \notin FinalStatuses
      BY DEF Created, AbsentRow, FinalStatuses
    <3>  QED
      BY <3>1, <3>2, <3>3 DEF JInv, EndOK
  <2>7. Settled' = DOMAIN jobs
    BY <2>1, <2>2, <2>6 DEF Settled
  <2>8. Settled = DOMAIN jobs
    <3>1. CASE jobs = <<>>
      BY <3>1, SettledJobs
    <3>2. CASE jobs # <<>>
      BY <1>5, <3>2, NobodyWorks, SettledJobs DEF AddJob
    <3>  QED
      BY <3>1, <3>2
  <2>9. Queue!Enqueue(j)
    BY <1>2, <2>4, <2>5, <2>7, <2>8, SameRows DEF Queue!Enqueue, Work
  <2>  QED
    BY <2>3, <2>9 DEF Queue!Next
<1>  QED
  BY <1>3, <1>4, <1>5 DEF Api, SubmitBatch, CreateRoutingBatch, StartRoutingBatch,
     RetryCompany, ResumeCompany, ReviewClaims, Requeue, table

\* Every step of the pipeline is a step of ProspectJobQueue or a stutter.
LEMMA StepRefines ==
  TInv /\ GInv /\ JInv /\ TInv' /\ JInv' /\ [Next]_vars => [Queue!Next]_(Queue!vars)
<1> SUFFICES ASSUME TInv, GInv, JInv, TInv', JInv', [Next]_vars
             PROVE  Queue!Next \/ UNCHANGED Queue!vars
  OBVIOUS
<1>1. CASE UNCHANGED vars
  <2>1. UNCHANGED <<jobs, company, pc, me>>
    BY <1>1 DEF vars
  <2>2. UNCHANGED <<JobTable, Settled, QueuePc, Work>>
    BY <2>1, TableSame DEF Settled, QueuePc, Work
  <2>  QED
    BY <2>2, Unseen
<1>  QED
  BY <1>1, ApiRefines, QueueRefines, BatchRefines, FaultRefines DEF Next, Run

\* So is its beginning.
LEMMA InitRefines == Init => Queue!Init
<1> SUFFICES ASSUME Init PROVE Queue!Init
  OBVIOUS
<1>1. jobs = <<>> /\ \A w \in Workers : pc[w] = "recover" /\ me[w].job = 0
  BY DEF Init, NoLocals
<1>2. JobTable = [j \in 1 .. MaxJobs |-> Queue!AbsentRow]
  <2>1. \A j \in 1 .. MaxJobs : JobTable[j] = AbsentRow
    BY <1>1 DEF JobTable
  <2>  QED
    BY <2>1, SameRows DEF JobTable
<1>3. Settled = {}
  BY <1>1 DEF Settled
<1>4. "recover" \notin CompanySteps \union BatchSteps
  BY DEF CompanySteps, BatchSteps
<1>5. QueuePc = [w \in Workers |-> "recover"]
  BY <1>1, <1>4 DEF QueuePc
<1>6. [w \in Workers |-> me[w].job] = [w \in Workers |-> 0]
  BY <1>1
<1>  QED
  BY <1>2, <1>3, <1>5, <1>6 DEF Queue!Init

\* The worker drives its queue exactly as ProspectJobQueue says, where the
\* queue's one fact about a batch (it is settled) means that the batch has no
\* active company: all that is proved of the queue holds of the pipeline.
THEOREM PipelineImplementsQueue ==
  ASSUME OneWorker
  PROVE  Spec => ImplementsQueue
<1>1. Init => Queue!Init
  BY InitRefines
<1>2. TInv /\ GInv /\ JInv /\ (TInv /\ GInv /\ JInv)' /\ [Next]_vars => [Queue!Next]_(Queue!vars)
  BY StepRefines
<1>  QED
  BY PipelineInvariant, <1>1, <1>2, PTL DEF Spec, ImplementsQueue, Queue!Spec

(***************************************************************************)
(* Opportunity score                                                       *)
(***************************************************************************)

\* Signals and sources are those that may be found, finitely many.
OInv ==
  /\ signals \in Seq(CompanySignals)
  /\ sources \subseteq Sources /\ IsFiniteSet(sources)
  /\ website \in BOOLEAN

\* Initially nothing is found.
LEMMA ScoreInitOK == ScoreInit => OInv
<1>1. <<>> \in Seq(CompanySignals)
  BY EmptySeq
<1>2. IsFiniteSet({})
  BY FS_EmptySet
<1>  QED
  BY <1>1, <1>2 DEF ScoreInit, OInv

\* More is found, one at a time.
LEMMA ScoreStepOK == OInv /\ [ScoreNext]_scoreVars => OInv'
<1> SUFFICES ASSUME OInv, [ScoreNext]_scoreVars PROVE OInv'
  OBVIOUS
<1>1. CASE RecordSignal
  <2>1. PICK s \in CompanySignals : signals' = Append(signals, s)
    BY <1>1 DEF RecordSignal
  <2>2. signals' \in Seq(CompanySignals)
    BY <2>1, AppendProperties DEF OInv
  <2>  QED
    BY <1>1, <2>2 DEF RecordSignal, OInv
<1>2. CASE Project
  BY <1>2 DEF Project, OInv
<1>3. CASE Cite
  <2>1. PICK source \in Sources : sources' = sources \union {source}
    BY <1>3 DEF Cite
  <2>2. IsFiniteSet(sources')
    BY <2>1, FS_AddElement DEF OInv
  <2>  QED
    BY <1>3, <2>1, <2>2 DEF Cite, OInv
<1>4. CASE FindWebsite
  BY <1>4 DEF FindWebsite, OInv
<1>5. CASE UNCHANGED scoreVars
  BY <1>5 DEF scoreVars, OInv
<1>  QED
  BY <1>1, <1>2, <1>3, <1>4, <1>5 DEF ScoreNext

\* OInv is an invariant.
LEMMA ScoreInvariant == ScoreSpec => []OInv
<1>  QED
  BY ScoreInitOK, ScoreStepOK, PTL DEF ScoreSpec

\* The first of some positions is one of them.
LEMMA FirstOf ==
  ASSUME NEW S, S \subseteq Nat, S # {}
  PROVE  Min(S) \in S
<1>1. \E x \in S : \A y \in S : x <= y
  BY Least
<1>  QED
  BY <1>1 DEF Min

\* Merging makes up nothing, and of no kind does it drop all.
LEMMA MergedFromEvidence ==
  ASSUME OInv
  PROVE  /\ Selected \subseteq Range(signals) \union projected
         /\ \A s \in Range(signals) \union projected :
              s.kind # NoKind => \E t \in Selected : t.kind = s.kind
<1>1. \A kind : OfKind(kind) \subseteq Nat /\ OfKind(kind) \subseteq DOMAIN signals
  BY LenProperties DEF OInv, OfKind
<1>2. ASSUME NEW kind, kind \in Kinds
      PROVE  /\ Winner(kind) # {} /\ Winner(kind) \subseteq Range(signals) \union projected
             /\ \A t \in Winner(kind) : t.kind = kind
  <2>1. CASE OfKind(kind) \ researched # {}
    <3>1. PICK p : p = Min(OfKind(kind) \ researched)
      OBVIOUS
    <3>2. p \in OfKind(kind) \ researched
      <4>1. OfKind(kind) \ researched \subseteq Nat
        BY <1>1
      <4>  QED
        BY <2>1, <3>1, <4>1, FirstOf
    <3>3. Winner(kind) = {signals[p]}
      BY <2>1, <3>1 DEF Winner
    <3>  QED
      BY <3>2, <3>3 DEF OfKind, Range
  <2>2. CASE OfKind(kind) \ researched = {} /\ Projected(kind) # {}
    <3>1. Winner(kind) = Projected(kind)
      BY <2>2 DEF Winner
    <3>  QED
      BY <2>2, <3>1 DEF Projected
  <2>3. CASE OfKind(kind) \ researched = {} /\ Projected(kind) = {}
    <3>1. OfKind(kind) # {}
      BY <2>3, <1>2 DEF Kinds, OfKind, Projected
    <3>2. PICK p : p = Min(OfKind(kind))
      OBVIOUS
    <3>3. p \in OfKind(kind)
      BY <1>1, <3>1, <3>2, FirstOf
    <3>4. Winner(kind) = {signals[p]}
      BY <2>3, <3>2 DEF Winner
    <3>  QED
      BY <3>3, <3>4 DEF OfKind, Range
  <2>  QED
    BY <2>1, <2>2, <2>3
<1>3. \A s : s \in Selected <=>
        \/ \E kind \in Kinds \ {NoKind} : s \in Winner(kind)
        \/ \E p \in OfKind(NoKind) : s = signals[p]
  <2>1. PICK W, T : /\ W = UNION {Winner(kind) : kind \in Kinds \ {NoKind}}
                    /\ T = {signals[p] : p \in OfKind(NoKind)}
    OBVIOUS
  <2>2. \A s : s \in W <=> \E kind \in Kinds \ {NoKind} : s \in Winner(kind)
    BY <2>1, Zenon
  <2>3. \A s : s \in T <=> \E p \in OfKind(NoKind) : s = signals[p]
    BY <2>1
  <2>4. Selected = W \union T
    BY <2>1 DEF Selected
  <2>  QED
    BY <2>2, <2>3, <2>4
<1>4. Selected \subseteq Range(signals) \union projected
  <2>1. ASSUME NEW p \in OfKind(NoKind) PROVE signals[p] \in Range(signals)
    BY <2>1 DEF OfKind, Range
  <2>  QED
    BY <1>2, <1>3, <2>1
<1>5. ASSUME NEW s \in Range(signals) \union projected, s.kind # NoKind
      PROVE  \E t \in Selected : t.kind = s.kind
  <2>1. s.kind \in Kinds \ {NoKind}
    BY <1>5 DEF Kinds, Range
  <2>  QED
    BY <2>1, <1>2, <1>3
<1>  QED
  BY <1>4, <1>5

\* A gate is hit exactly if some evidence rules the company out.
LEMMA GatesAreDecisive ==
  ASSUME OInv
  PROVE  GateHit <=> /\ SourcesOf # {}
                     /\ {s \in Range(signals) \union projected : s.kind \in Gates} # {}
<1>1. NoKind \notin Gates
  BY EvidenceAssumption
<1>  QED
  BY <1>1, MergedFromEvidence DEF GateHit

\* What the verdicts ask for.
LEMMA VerdictsAre ==
  /\ Decision = "disqualified" <=> SourcesOf # {} /\ GateHit
  /\ Decision = "qualified" => SourcesOf # {} /\ TotalTenths >= 700 /\ Confidence >= 650
<1>1. PICK score, confidence, completeness :
        score = TotalTenths /\ confidence = Confidence /\ completeness = Completeness
  OBVIOUS
<1>2. ASSUME GateHit PROVE Decide(score, confidence, completeness, GateHit) = "disqualified"
  BY <1>2 DEF Decide
<1>3. ASSUME ~GateHit
      PROVE  /\ Decide(score, confidence, completeness, GateHit) # "disqualified"
             /\ Decide(score, confidence, completeness, GateHit) = "qualified" =>
                  score >= 700 /\ confidence >= 650
  BY <1>3 DEF Decide
<1>4. Decision = IF SourcesOf = {} THEN "skipped"
                 ELSE Decide(score, confidence, completeness, GateHit)
  BY <1>1 DEF Decision
<1>  QED
  BY <1>1, <1>2, <1>3, <1>4

\* All the weights together are just above the bar, and none is so light that
\* it can be missing.
LEMMA AllIsAssessed ==
  ASSUME TotalTenths >= 700
  PROVE  \A d \in Dimensions : Assessed(d)
<1> DEFINE f == [d \in Dimensions |-> IF d \in AssessedDimensions THEN TenthsOf[d] ELSE 0]
<1>1. Dimensions = {"import_activity", "china_dependency", "shipping_fit", "cargo_value_potential",
                    "company_scale", "growth_signal", "contactability", "logistics_complexity"}
  BY DEF Dimensions, TenthsOf
<1>2. /\ f.import_activity = IF "import_activity" \in AssessedDimensions THEN 160 ELSE 0
      /\ f.china_dependency = IF "china_dependency" \in AssessedDimensions THEN 105 ELSE 0
      /\ f.shipping_fit = IF "shipping_fit" \in AssessedDimensions THEN 120 ELSE 0
      /\ f.cargo_value_potential = IF "cargo_value_potential" \in AssessedDimensions THEN 60 ELSE 0
      /\ f.company_scale = IF "company_scale" \in AssessedDimensions THEN 60 ELSE 0
      /\ f.growth_signal = IF "growth_signal" \in AssessedDimensions THEN 80 ELSE 0
      /\ f.contactability = IF "contactability" \in AssessedDimensions THEN 50 ELSE 0
      /\ f.logistics_complexity = IF "logistics_complexity" \in AssessedDimensions THEN 70 ELSE 0
  BY <1>1 DEF TenthsOf
<1>3. f.import_activity + f.china_dependency + f.shipping_fit + f.cargo_value_potential
        + f.company_scale + f.growth_signal + f.contactability + f.logistics_complexity >= 700
  BY DEF TotalTenths, SumOver
<1> HIDE DEF f
<1>4. \A d \in Dimensions : d \in AssessedDimensions
  BY <1>1, <1>2, <1>3
<1>  QED
  BY <1>4 DEF AssessedDimensions

\* Without a trusted source four are needed, for three stay just below the bar;
\* with one, two.
LEMMA EnoughSources ==
  ASSUME OInv, Confidence >= 650
  PROVE  \/ Cardinality(sources) >= 4
         \/ Cardinality(sources) >= 1 /\ projected # {}
         \/ Cardinality(sources) >= 2 /\ sources \intersect Trusted # {}
<1>1. PICK n, m : n = Cardinality(SourcesOf) /\ m = Cardinality(sources)
  OBVIOUS
<1>2. n \in Nat /\ m \in Nat /\ n = IF projected # {} THEN m + 1 ELSE m
  <2>1. "import_evidence" \notin sources /\ IsFiniteSet(sources)
    BY EvidenceAssumption DEF OInv
  <2>2. m \in Nat
    BY <1>1, <2>1, FS_CardinalityType
  <2>3. CASE projected # {}
    <3>1. SourcesOf = sources \union {"import_evidence"}
      BY <2>3 DEF SourcesOf
    <3>2. Cardinality(sources \union {"import_evidence"}) = Cardinality(sources) + 1
      BY <2>1, FS_AddElement
    <3>  QED
      BY <1>1, <2>2, <2>3, <3>1, <3>2
  <2>4. CASE projected = {}
    <3>1. SourcesOf = sources
      BY <2>4 DEF SourcesOf
    <3>  QED
      BY <1>1, <2>2, <2>4, <3>1
  <2>  QED
    BY <2>3, <2>4
<1>3. PICK base, bonus :
        /\ base = (200 + 150 * n - IF n = 3 THEN 1 ELSE 0)
        /\ bonus = (IF SourcesOf \intersect (Trusted \union {"import_evidence"}) # {}
                    THEN 200 ELSE 0)
  OBVIOUS
<1>4. base \in Int /\ bonus \in {0, 200}
  BY <1>2, <1>3
<1>5. Confidence = Min({900, base + bonus})
  BY <1>1, <1>3 DEF Confidence
<1>6. base + bonus >= 650
  <2>1. Min({900, base + bonus}) <= base + bonus
    <3>1. \E x \in {900, base + bonus} : \A y \in {900, base + bonus} : x <= y
      BY <1>4
    <3>  QED
      BY <3>1 DEF Min
  <2>2. Min({900, base + bonus}) \in {900, base + bonus}
    <3>1. \E x \in {900, base + bonus} : \A y \in {900, base + bonus} : x <= y
      BY <1>4
    <3>  QED
      BY <3>1 DEF Min
  <2>  QED
    BY <1>4, <1>5, <2>1, <2>2
<1>7. CASE projected # {}
  <2>1. n >= 2
    BY <1>2, <1>3, <1>4, <1>6
  <2>  QED
    BY <1>1, <1>2, <1>7, <2>1
<1>8. CASE projected = {} /\ bonus = 0
  BY <1>1, <1>2, <1>3, <1>6, <1>8
<1>9. CASE projected = {} /\ bonus = 200
  <2>1. SourcesOf = sources /\ SourcesOf \intersect (Trusted \union {"import_evidence"}) # {}
    BY <1>3, <1>9 DEF SourcesOf
  <2>2. sources \intersect Trusted # {}
    BY <2>1, EvidenceAssumption DEF OInv
  <2>3. m >= 2
    BY <1>2, <1>3, <1>6, <1>9
  <2>  QED
    BY <1>1, <2>2, <2>3
<1>  QED
  BY <1>4, <1>7, <1>8, <1>9

\* A company qualifies only if every dimension is evidenced by enough sources,
\* and a fact that rules it out is never outweighed (domain/scoring.py).
THEOREM QualificationIsEarnedHolds == ScoreSpec => []QualificationIsEarned
<1>1. ASSUME OInv PROVE QualificationIsEarned
  <2>1. Decision = "disqualified" <=>
          {s \in Range(signals) \union projected : s.kind \in Gates} # {} /\ SourcesOf # {}
    BY <1>1, GatesAreDecisive, VerdictsAre
  <2>2. ASSUME Decision = "qualified"
        PROVE  /\ website
               /\ \A d \in Dimensions \ {"contactability"} :
                    \E s \in Range(signals) \union projected : s.kind = d \/ d \in s.says
               /\ \/ Cardinality(sources) >= 4
                  \/ Cardinality(sources) >= 1 /\ projected # {}
                  \/ Cardinality(sources) >= 2 /\ sources \intersect Trusted # {}
    <3>1. TotalTenths >= 700 /\ Confidence >= 650
      BY <2>2, VerdictsAre
    <3>2. \A d \in Dimensions : Assessed(d)
      BY <3>1, AllIsAssessed
    <3>3. website
      <4>1. "contactability" \in Dimensions
        BY DEF Dimensions, TenthsOf
      <4>  QED
        BY <3>2, <4>1 DEF Assessed
    <3>4. \A d \in Dimensions \ {"contactability"} :
            \E s \in Range(signals) \union projected : s.kind = d \/ d \in s.says
      BY <1>1, <3>2, MergedFromEvidence DEF Assessed
    <3>  QED
      BY <1>1, <3>1, <3>3, <3>4, EnoughSources
  <2>  QED
    BY <2>1, <2>2 DEF QualificationIsEarned
<1>  QED
  BY <1>1, ScoreInvariant, PTL

(***************************************************************************)
(* Decision maker                                                          *)
(***************************************************************************)

\* Contacts have a source and finitely many channels.
PersonType ==
  [name : {c.name : c \in Candidates}, title : TitleType, channels : SUBSET ChannelType,
   sources : SUBSET DOMAIN SourceRank]
People == {c \in PersonType : IsFiniteSet(c.channels) /\ c.sources # {}}
FilingType == [at : {"idle", "store"}, who : Nat, mine : People \union {0}]

\* Nobody eligible in the ranking is before the one who was chosen.
ChosenIsTop ==
  \A x, y \in selection.ranked :
    x.who = selection.person /\ y.eligible => y.total <= x.total

\* What an ingester is about to store is a contact, of one who is there or of
\* somebody new.
MInv ==
  /\ people \in Seq(People)
  /\ filing \in [Ingesters -> FilingType]
  /\ \A g \in Ingesters : filing[g].at = "store" =>
       filing[g].mine \in People /\ filing[g].who \in {0} \union DOMAIN people
  /\ size \in SizeHints
  /\ \A x \in recorded : IsAssessment(x)
  /\ IsAnswer(selection) /\ ChosenIsTop

\* Initially nobody is known.
LEMMA SelectionInitOK == SelectionInit => MInv
<1> SUFFICES ASSUME SelectionInit PROVE MInv
  OBVIOUS
<1>1. people \in Seq(People)
  BY EmptySeq DEF SelectionInit
<1>2. filing \in [Ingesters -> FilingType] /\ \A g \in Ingesters : filing[g].at = "idle"
  BY DEF SelectionInit, NotFiling, FilingType
<1>3. size \in SizeHints /\ recorded = {} /\ selection = NoSelection
  BY DEF SelectionInit, SizeHints
<1>4. IsAnswer(selection) /\ ChosenIsTop
  BY <1>3 DEF NoSelection, IsAnswer, ChosenIsTop
<1>  QED
  BY <1>1, <1>2, <1>3, <1>4 DEF MInv

\* What a claim makes of a contact, or of nobody, is a contact.
LEMMA MergedIsPerson ==
  ASSUME NEW candidate \in Candidates
  PROVE  /\ \A c \in People : MergedWithCandidate(c, candidate) \in People
         /\ NewContact(candidate) \in People
<1>1. /\ candidate.title \in TitleType /\ candidate.channels \subseteq ChannelType
      /\ IsFiniteSet(candidate.channels) /\ candidate.source \in DOMAIN SourceRank
  BY ClaimAssumption
<1>2. ASSUME NEW c \in PersonType, IsFiniteSet(c.channels)
      PROVE  MergedWithCandidate(c, candidate) \in People
  <2>1. PICK m : m = MergedWithCandidate(c, candidate)
    OBVIOUS
  <2>2. PICK title, channels, origins :
          /\ title = (IF c.title = Untitled THEN candidate.title ELSE c.title)
          /\ channels = c.channels \union candidate.channels
          /\ origins = c.sources \union {candidate.source}
    OBVIOUS
  <2>3. m = [name |-> c.name, title |-> title, channels |-> channels, sources |-> origins]
    BY <2>1, <2>2 DEF MergedWithCandidate, PersonType
  <2>4. title \in TitleType /\ channels \subseteq ChannelType /\ origins \subseteq DOMAIN SourceRank
        /\ origins # {} /\ c.name \in {x.name : x \in Candidates}
    BY <1>1, <2>2 DEF PersonType
  <2>5. IsFiniteSet(channels)
    BY <1>1, <1>2, <2>2, FS_Union
  <2>6. m \in PersonType /\ m.channels = channels /\ m.sources = origins
    BY <2>3, <2>4 DEF PersonType
  <2>  QED
    BY <2>1, <2>4, <2>5, <2>6 DEF People
<1>3. \A c \in People : MergedWithCandidate(c, candidate) \in People
  BY <1>2 DEF People
<1>4. NewContact(candidate) \in People
  <2>1. PICK c :
          c = [name |-> candidate.name, title |-> candidate.title, channels |-> {}, sources |-> {}]
    OBVIOUS
  <2>2. c \in PersonType /\ c.channels = {}
    BY <1>1, <2>1 DEF PersonType
  <2>3. IsFiniteSet(c.channels)
    BY <2>2, FS_EmptySet
  <2>  QED
    BY <1>2, <2>1, <2>2, <2>3 DEF NewContact
<1>  QED
  BY <1>3, <1>4

\* A claim is taken for somebody who is there, or for nobody.
LEMMA MatchesArePeople ==
  ASSUME NEW candidate
  PROVE  Matches(candidate) \subseteq {0} \union DOMAIN people
<1>1. \A type : HavingChannel(candidate, type) \subseteq DOMAIN people
  BY DEF HavingChannel
<1>2. CASE HavingChannel(candidate, "email") # {}
  <2>1. Matches(candidate) = HavingChannel(candidate, "email")
    BY <1>2 DEF Matches
  <2>  QED
    BY <1>1, <2>1
<1>3. CASE HavingChannel(candidate, "email") = {} /\ HavingChannel(candidate, "linkedin") # {}
  <2>1. Matches(candidate) = HavingChannel(candidate, "linkedin")
    BY <1>3 DEF Matches
  <2>  QED
    BY <1>1, <2>1
<1>4. CASE HavingChannel(candidate, "email") = {} /\ HavingChannel(candidate, "linkedin") = {}
  <2>1. Matches(candidate) =
          IF Namesake(candidate) = 0 THEN {0}
          ELSE {Namesake(candidate)} \intersect
                 {i \in DOMAIN people : /\ people[i].title = candidate.title
                                        /\ candidate.title # Untitled}
    BY <1>4 DEF Matches
  <2>  QED
    BY <2>1
<1>  QED
  BY <1>2, <1>3, <1>4

\* The greatest of some numbers up to n is one of them.
LEMMA GreatestOf ==
  ASSUME NEW n \in Nat, NEW S, S \subseteq 0 .. n, S # {}
  PROVE  Max(S) \in S /\ \A y \in S : Max(S) >= y
<1> DEFINE T == {n - y : y \in S}
<1>1. T \subseteq Nat /\ T # {}
  <2>1. \A y \in S : n - y \in Nat
    <3>1. \A y \in S : y \in 0 .. n
      OBVIOUS
    <3>  QED
      BY <3>1
  <2>  QED
    BY <2>1
<1>2. PICK t \in T : \A u \in T : t <= u
  BY <1>1, Least
<1>3. PICK x \in S : t = n - x
  BY <1>2
<1>4. \A y \in S : x >= y
  <2> SUFFICES ASSUME NEW y \in S PROVE x >= y
    OBVIOUS
  <2>1. n - y \in T
    OBVIOUS
  <2>2. n - x <= n - y
    BY <1>2, <1>3, <2>1
  <2>3. x \in Nat /\ y \in Nat
    OBVIOUS
  <2>  QED
    BY <2>2, <2>3
<1>  QED
  BY <1>4 DEF Max

\* The least of two numbers is one of them.
LEMMA LeastOfTwo ==
  ASSUME NEW a \in Int, NEW b \in Int
  PROVE  Min({a, b}) \in {a, b} /\ Min({a, b}) <= a /\ Min({a, b}) <= b
<1>1. \E x \in {a, b} : \A y \in {a, b} : x <= y
  OBVIOUS
<1>  QED
  BY <1>1 DEF Min

\* Roles are those of the taxonomy.
LEMMA RolesAre ==
  ASSUME NEW title \in TitleType
  PROVE  Roles(title) \subseteq RoleNames
<1>1. \A role \in DOMAIN Implied : Implied[role] \subseteq RoleNames
  BY DEF Implied, RoleNames
<1>2. title.names \subseteq RoleNames
  BY DEF TitleType
<1>  QED
  BY <1>1, <1>2 DEF Roles

\* The points of every role.
LEMMA PointsOfRoles ==
  \A role \in RoleNames : RelevanceOf[role] \in 0 .. 40 /\ LogisticsOf[role] \in 0 .. 15
  BY DEF RoleNames, RelevanceOf, LogisticsOf

\* Each factor is within its bounds.
LEMMA RelevanceBound ==
  ASSUME NEW roles, roles \subseteq RoleNames
  PROVE  RoleRelevance(roles) \in 0 .. 40
<1>1. IsFiniteSet(roles \intersect FreightRoles)
  <2>1. IsFiniteSet(FreightRoles)
    <3>1. \A a, b, c, d, e : IsFiniteSet({a, b, c, d, e})
      <4> SUFFICES ASSUME NEW a, NEW b, NEW c, NEW d, NEW e PROVE IsFiniteSet({a, b, c, d, e})
        OBVIOUS
      <4>1. IsFiniteSet({a})
        BY FS_Singleton
      <4>2. IsFiniteSet({a} \union {b})
        BY <4>1, FS_AddElement
      <4>3. IsFiniteSet({a} \union {b} \union {c})
        BY <4>2, FS_AddElement
      <4>4. IsFiniteSet({a} \union {b} \union {c} \union {d})
        BY <4>3, FS_AddElement
      <4>5. IsFiniteSet({a} \union {b} \union {c} \union {d} \union {e})
        BY <4>4, FS_AddElement
      <4>6. {a} \union {b} \union {c} \union {d} \union {e} = {a, b, c, d, e}
        OBVIOUS
      <4>  QED
        BY <4>5, <4>6
    <3>  QED
      BY <3>1 DEF FreightRoles
  <2>  QED
    BY <2>1, FS_Intersection
<1>2. PICK freight : freight = Cardinality(roles \intersect FreightRoles)
  OBVIOUS
<1>3. freight \in Nat
  BY <1>1, <1>2, FS_CardinalityType
<1>4. PICK bonus : bonus = (IF freight >= 2 THEN Min({(freight - 1) * 2, 6}) ELSE 0)
  OBVIOUS
<1>5. bonus \in Nat
  <2>1. CASE freight >= 2
    <3>1. (freight - 1) * 2 \in Nat
      BY <1>3, <2>1
    <3>2. PICK m : m = (freight - 1) * 2
      OBVIOUS
    <3>3. m \in Nat
      BY <3>1, <3>2
    <3>4. Min({m, 6}) \in {m, 6}
      <4>1. m \in Int /\ 6 \in Int
        BY <3>3
      <4>  QED
        BY <4>1, LeastOfTwo
    <3>  QED
      BY <1>4, <2>1, <3>2, <3>3, <3>4
  <2>2. CASE ~(freight >= 2)
    BY <1>4, <2>2
  <2>  QED
    BY <2>1, <2>2
<1>6. CASE roles = {}
  BY <1>6 DEF RoleRelevance
<1>7. CASE roles # {}
  <2>1. PICK S : S = {RelevanceOf[role] : role \in roles}
    OBVIOUS
  <2>2. S \subseteq 0 .. 40 /\ S # {}
    BY <2>1, <1>7, PointsOfRoles
  <2>3. PICK x : x = Max(S)
    OBVIOUS
  <2>4. x \in Nat
    <3>1. x \in S
      BY <2>2, <2>3, GreatestOf
    <3>  QED
      BY <2>2, <3>1
  <2>5. PICK y : y = x + bonus
    OBVIOUS
  <2>6. y \in Nat
    BY <1>5, <2>4, <2>5
  <2>7. Min({40, y}) \in {40, y} /\ Min({40, y}) <= 40
    BY <2>6, LeastOfTwo
  <2>8. RoleRelevance(roles) = Min({40, y})
    BY <1>2, <1>4, <1>7, <2>1, <2>3, <2>5 DEF RoleRelevance
  <2>  QED
    BY <2>6, <2>7, <2>8
<1>  QED
  BY <1>6, <1>7

\* An assistant has at most three points for seniority, and one who left has none.
LEMMA SeniorityBound ==
  ASSUME NEW title \in TitleType
  PROVE  SeniorityPoints(title) \in 0 .. 15
<1>1. PICK s : s = SeniorityOf[title.seniority]
  OBVIOUS
<1>2. s \in 0 .. 15
  <2>1. title.seniority \in Seniorities
    BY DEF TitleType
  <2>  QED
    BY <1>1, <2>1 DEF Seniorities, SeniorityOf
<1>3. Min({s, 3}) \in {s, 3}
  BY <1>2, LeastOfTwo
<1>4. SeniorityPoints(title) = IF title.historical THEN 0
                               ELSE IF title.assistant THEN Min({s, 3}) ELSE s
  BY <1>1 DEF SeniorityPoints
<1>  QED
  BY <1>2, <1>3, <1>4

\* The size of the company counts four to ten, and five where it is unknown.
LEMMA SizeBound ==
  ASSUME NEW title, NEW hint \in SizeHints
  PROVE  SizeFit(title, hint) \in 4 .. 10 /\ SizeFit(title, "unknown") = 5
<1>1. SizeFit(title, "unknown") = 5
  BY DEF SizeFit
<1>2. CASE hint \in {"unknown", "micro"}
  BY <1>2 DEF SizeFit
<1>3. CASE hint = "small"
  BY <1>3 DEF SizeFit
<1>4. CASE hint = "medium"
  BY <1>4 DEF SizeFit
<1>5. CASE hint = "large"
  BY <1>5 DEF SizeFit
<1>  QED
  BY <1>1, <1>2, <1>3, <1>4, <1>5 DEF SizeHints

\* The best of the roles counts for logistics.
LEMMA LogisticsBound ==
  ASSUME NEW roles, roles \subseteq RoleNames
  PROVE  LogisticsFit(roles) \in 0 .. 15
<1>1. PICK S : S = {0} \union {LogisticsOf[role] : role \in roles}
  OBVIOUS
<1>2. S \subseteq 0 .. 15 /\ S # {}
  BY <1>1, PointsOfRoles
<1>3. Max(S) \in S
  BY <1>2, GreatestOf
<1>  QED
  BY <1>1, <1>2, <1>3 DEF LogisticsFit

\* However many channels a person has, they count no more than fifteen.
LEMMA ReachabilityBound ==
  ASSUME NEW channels, IsFiniteSet(channels)
  PROVE  Reachability(channels) \in 0 .. 15
<1> DEFINE Of(type) == {ch \in channels : ch.type = type}
<1>1. PICK a, b, c : /\ a = Cardinality(Of("email")) /\ b = Cardinality(Of("linkedin"))
                     /\ c = Cardinality(Of("phone"))
  OBVIOUS
<1>2. \A type : IsFiniteSet(Of(type))
  BY FS_Subset
<1>3. a \in Nat /\ b \in Nat /\ c \in Nat
  BY <1>1, <1>2, FS_CardinalityType
<1>4. PICK total : total = 11 * a + 8 * b + 6 * c
  OBVIOUS
<1>5. Reachability(channels) = Min({15, total})
  BY <1>1, <1>4 DEF Reachability, ChannelPoints
<1>6. total \in Nat
  BY <1>3, <1>4
<1>7. Min({15, total}) \in {15, total} /\ Min({15, total}) <= 15
  BY <1>6, LeastOfTwo
<1>  QED
  BY <1>5, <1>6, <1>7

\* The best of the sources counts.
LEMMA ConfidenceBound ==
  ASSUME NEW found, found \subseteq DOMAIN SourceRank
  PROVE  SourceConfidence(found) \in 0 .. 5
<1>1. PICK S : S = {1} \union {SourceRank[s] : s \in found}
  OBVIOUS
<1>2. S \subseteq 0 .. 5 /\ S # {}
  BY <1>1, ClaimAssumption
<1>3. Max(S) \in S
  BY <1>2, GreatestOf
<1>  QED
  BY <1>1, <1>2, <1>3 DEF SourceConfidence

\* A score is within its bounds, and the size of the company shifts it by at
\* most five points up and one down.
LEMMA ScoredIs ==
  ASSUME MInv, NEW i \in DOMAIN people, NEW hint \in SizeHints
  PROVE  /\ IsAssessment(Scored(i, hint)) /\ Scored(i, hint).who = i
         /\ Scored(i, hint).total <= Scored(i, "unknown").total + 5
         /\ Scored(i, "unknown").total <= Scored(i, hint).total + 1
         /\ Scored(i, hint).eligible =>
              /\ Scored(i, hint).total >= 25
              /\ Scored(i, "unknown").total >= 25 => Scored(i, "unknown").eligible
<1>1. PICK p : p = people[i]
  OBVIOUS
<1>2. /\ p.title \in TitleType /\ IsFiniteSet(p.channels)
      /\ p.sources \subseteq DOMAIN SourceRank
  <2>1. p \in People
    <3>1. i \in 1 .. Len(people)
      BY LenProperties DEF MInv
    <3>  QED
      BY <1>1, <3>1, ElementOfSeq DEF MInv
  <2>  QED
    BY <2>1 DEF People, PersonType
<1>3. PICK a, b, c, d, e, f, u :
        /\ a = RoleRelevance(Roles(p.title)) /\ b = SeniorityPoints(p.title)
        /\ c = SizeFit(p.title, hint) /\ d = LogisticsFit(Roles(p.title))
        /\ e = Reachability(p.channels) /\ f = SourceConfidence(p.sources)
        /\ u = SizeFit(p.title, "unknown")
  OBVIOUS
<1>4. /\ a \in 0 .. 40 /\ b \in 0 .. 15 /\ c \in 4 .. 10 /\ d \in 0 .. 15
      /\ e \in 0 .. 15 /\ f \in 0 .. 5 /\ u = 5
  <2>1. Roles(p.title) \subseteq RoleNames
    BY <1>2, RolesAre
  <2>  QED
    BY <1>2, <1>3, <2>1, RelevanceBound, SeniorityBound, SizeBound, LogisticsBound,
       ReachabilityBound, ConfidenceBound
<1>5. PICK x, y : x = Scored(i, hint) /\ y = Scored(i, "unknown")
  OBVIOUS
<1>6. PICK s, t : s = a + b + c + d + e + f /\ t = a + b + u + d + e + f
  OBVIOUS
<1>7. /\ s \in 0 .. 100 /\ t \in 0 .. 100 /\ s <= t + 5 /\ t <= s + 1
  BY <1>4, <1>6
<1>8. Min({100, s}) = s /\ Min({100, t}) = t
  <2>0. s \in Int /\ t \in Int /\ 100 \in Int
    BY <1>7
  <2>1. Min({100, s}) \in {100, s} /\ Min({100, s}) <= s
    BY <2>0, LeastOfTwo
  <2>2. Min({100, t}) \in {100, t} /\ Min({100, t}) <= t
    BY <2>0, LeastOfTwo
  <2>  QED
    BY <1>7, <2>1, <2>2
<1>9. /\ Factors(p, hint) = <<a, b, c, d, e, f>>
      /\ Factors(p, "unknown") = <<a, b, u, d, e, f>>
  BY <1>3 DEF Factors
<1>10. /\ Overall(Factors(p, hint)) = s
       /\ Overall(Factors(p, "unknown")) = t
  BY <1>6, <1>8, <1>9 DEF Overall
<1>11. /\ x = [who |-> i, factors |-> <<a, b, c, d, e, f>>, total |-> s,
               eligible |-> EligibleContact(p, s)]
       /\ y = [who |-> i, factors |-> <<a, b, u, d, e, f>>, total |-> t,
               eligible |-> EligibleContact(p, t)]
  BY <1>1, <1>5, <1>9, <1>10 DEF Scored
<1>12. /\ EligibleContact(p, s) \in BOOLEAN
       /\ EligibleContact(p, s) => s >= 25 /\ (t >= 25 => EligibleContact(p, t))
  BY DEF EligibleContact
<1>13. \A k \in 1 .. 6 : x.factors[k] \in 0 .. <<40, 15, 10, 15, 15, 5>>[k]
  <2>1. /\ x.factors[1] = a /\ x.factors[2] = b /\ x.factors[3] = c
        /\ x.factors[4] = d /\ x.factors[5] = e /\ x.factors[6] = f
    BY <1>11
  <2>2. \A k \in 1 .. 6 : k \in {1, 2, 3, 4, 5, 6}
    OBVIOUS
  <2>  QED
    BY <1>4, <2>1, <2>2
<1>14. IsAssessment(x)
  BY <1>7, <1>11, <1>12, <1>13 DEF IsAssessment
<1>15. x.who = i /\ x.total = s /\ y.total = t
  BY <1>11
<1>16. x.eligible => x.total >= 25 /\ (y.total >= 25 => y.eligible)
  BY <1>11, <1>12
<1>  QED
  BY <1>5, <1>7, <1>14, <1>15, <1>16

\* Whoever is chosen is well above everybody else who is eligible.
LEMMA ChoiceIs ==
  ASSUME NEW S, \A x \in S : x.total \in 0 .. 100
  PROVE  /\ Choice(S).status \in {"selected", "review", "nobody"}
         /\ Choice(S).status # "selected" => Choice(S).who = 0
         /\ Choice(S).status = "selected" =>
              \E best \in S : /\ Choice(S).who = best.who /\ best.total >= 55
                             /\ \A x \in S : x.eligible /\ x # best => x.total < best.total - 5
<1> DEFINE eligible == {x \in S : x.eligible}
           top == {x \in eligible : \A y \in eligible : y.total <= x.total}
           best == CHOOSE x \in top : TRUE
           doubtful == \/ best.total < SelectBar
                       \/ Close(best, eligible \ {best})
                       \/ best.factors[5] = 0
                       \/ Trust(people[best.who].title) < 6
<1>1. CASE eligible = {} \/ \A x \in eligible : x.total < ReviewBar
  <2>1. Choice(S) = [status |-> "nobody", who |-> 0]
    <3>1. ~(eligible # {} /\ \E x \in eligible : x.total >= ReviewBar)
      BY <1>1 DEF ReviewBar
    <3>  QED
      BY <1>1, <3>1 DEF Choice
  <2>  QED
    BY <2>1
<1>2. CASE eligible # {} /\ \E x \in eligible : x.total >= ReviewBar
  <2>1. Choice(S) = IF doubtful THEN [status |-> "review", who |-> 0]
                    ELSE [status |-> "selected", who |-> best.who]
    <3>1. ~(eligible = {} \/ \A x \in eligible : x.total < ReviewBar)
      BY <1>2 DEF ReviewBar
    <3>  QED
      BY <1>2, <3>1 DEF Choice
  <2>2. top # {}
    <3>1. PICK T : T = {x.total : x \in eligible}
      OBVIOUS
    <3>2. T \subseteq 0 .. 100 /\ T # {}
      BY <1>2, <3>1
    <3>3. Max(T) \in T /\ \A y \in T : Max(T) >= y
      BY <3>2, GreatestOf
    <3>4. PICK x \in eligible : x.total = Max(T)
      BY <3>1, <3>3
    <3>5. \A y \in eligible : y.total <= x.total
      <4>1. ASSUME NEW y \in eligible PROVE y.total <= x.total
        <5>1. y.total \in T /\ x.total >= y.total
          BY <3>1, <3>3, <3>4
        <5>2. x.total \in 0 .. 100 /\ y.total \in 0 .. 100
          OBVIOUS
        <5>  QED
          BY <5>1, <5>2
      <4>  QED
        BY <4>1
    <3>  QED
      BY <3>5
  <2>3. best \in top
    BY <2>2
  <2>4. CASE doubtful
    <3>1. Choice(S) = [status |-> "review", who |-> 0]
      BY <2>1, <2>4
    <3>  QED
      BY <3>1
  <2>5. CASE ~doubtful
    <3>1. Choice(S) = [status |-> "selected", who |-> best.who]
      BY <2>1, <2>5
    <3>2. PICK b : b = best
      OBVIOUS
    <3>3. b \in S /\ b.total \in 0 .. 100 /\ b.total >= 55
      <4>1. ~(b.total < 55)
        BY <2>5, <3>2 DEF SelectBar
      <4>2. b \in S
        BY <2>3, <3>2
      <4>3. b.total \in 0 .. 100
        BY <4>2
      <4>  QED
        BY <4>1, <4>2, <4>3
    <3>4. ASSUME NEW x \in S, x.eligible, x # b PROVE x.total < b.total - 5
      <4>1. ~(b.total - x.total <= 5)
        BY <2>5, <3>2, <3>4 DEF Close
      <4>2. x.total \in 0 .. 100
        OBVIOUS
      <4>  QED
        BY <3>3, <4>1, <4>2
    <3>5. Choice(S).status = "selected" /\ Choice(S).who = b.who
      BY <3>1, <3>2
    <3>  QED
      BY <3>3, <3>4, <3>5
  <2>  QED
    BY <2>4, <2>5
<1>3. \/ eligible = {} \/ \A x \in eligible : x.total < ReviewBar
      \/ eligible # {} /\ \E x \in eligible : x.total >= ReviewBar
  BY DEF ReviewBar
<1>  QED
  BY <1>1, <1>2, <1>3

\* Ingesting leaves the contacts well formed and nobody out of the register.
LEMMA IngestionOK ==
  ASSUME MInv, NEW g \in Ingesters, Classify(g) \/ Store(g)
  PROVE  MInv'
<1>1. /\ Len(people) \in Nat /\ DOMAIN people = 1 .. Len(people) /\ people \in Seq(People)
      /\ filing \in [Ingesters -> FilingType]
  BY LenProperties DEF MInv
<1>2. CASE Classify(g)
  <2>0. PICK candidate \in Candidates : \E i \in Matches(candidate) :
          filing' = [filing EXCEPT ![g] =
            [at |-> "store", who |-> i,
             mine |-> IF i = 0 THEN NewContact(candidate)
                      ELSE MergedWithCandidate(people[i], candidate)]]
    BY <1>2 DEF Classify
  <2>1. PICK i \in Matches(candidate) :
          filing' = [filing EXCEPT ![g] =
            [at |-> "store", who |-> i,
             mine |-> IF i = 0 THEN NewContact(candidate)
                      ELSE MergedWithCandidate(people[i], candidate)]]
    BY <2>0
  <2>2. i \in {0} \union DOMAIN people
    BY MatchesArePeople
  <2>3. PICK mine : mine = (IF i = 0 THEN NewContact(candidate)
                            ELSE MergedWithCandidate(people[i], candidate))
    OBVIOUS
  <2>4. mine \in People
    <3>1. CASE i = 0
      BY <2>3, <3>1, MergedIsPerson
    <3>2. CASE i # 0
      <4>1. people[i] \in People
        BY <1>1, <2>2, <3>2, ElementOfSeq
      <4>  QED
        BY <2>3, <3>2, <4>1, MergedIsPerson
    <3>  QED
      BY <3>1, <3>2
  <2>5. filing' = [filing EXCEPT ![g] = [at |-> "store", who |-> i, mine |-> mine]]
    BY <2>1, <2>3
  <2>6. [at |-> "store", who |-> i, mine |-> mine] \in FilingType
    BY <1>1, <2>2, <2>4 DEF FilingType
  <2>7. filing' \in [Ingesters -> FilingType]
    BY <1>1, <2>5, <2>6
  <2>8. /\ UNCHANGED <<people, size, recorded, selection>>
        /\ \A h \in Ingesters : filing'[h].at = "store" =>
             filing'[h].mine \in People /\ filing'[h].who \in {0} \union DOMAIN people'
    <3>1. UNCHANGED <<people, size, recorded, selection>>
      BY <1>2 DEF Classify
    <3>2. ASSUME NEW h \in Ingesters, h # g PROVE filing'[h] = filing[h]
      BY <1>1, <2>5, <3>2
    <3>3. filing'[g] = [at |-> "store", who |-> i, mine |-> mine]
      BY <1>1, <2>5
    <3>  QED
      BY <2>2, <2>4, <3>1, <3>2, <3>3 DEF MInv
  <2>  QED
    BY <2>7, <2>8 DEF MInv, IsAssessment, IsAnswer, ChosenIsTop
<1>3. CASE Store(g)
  <2>1. PICK i, mine : i = filing[g].who /\ mine = filing[g].mine
    OBVIOUS
  <2>2. mine \in People /\ i \in {0} \union DOMAIN people
    BY <1>3, <2>1 DEF Store, MInv
  <2>3. people' = IF i = 0 THEN Append(people, mine) ELSE [people EXCEPT ![i] = mine]
    BY <1>3, <2>1 DEF Store
  <2>4. people' \in Seq(People) /\ DOMAIN people \subseteq DOMAIN people'
    <3>1. CASE i = 0
      <4>1. people' = Append(people, mine)
        BY <2>3, <3>1
      <4>2. people' \in Seq(People) /\ Len(people') = Len(people) + 1
        BY <1>1, <2>2, <4>1, AppendProperties
      <4>3. DOMAIN people' = 1 .. Len(people')
        BY <4>2, LenProperties
      <4>  QED
        BY <1>1, <4>2, <4>3
    <3>2. CASE i # 0
      <4>1. people' = [people EXCEPT ![i] = mine] /\ i \in 1 .. Len(people)
        BY <1>1, <2>2, <2>3, <3>2
      <4>2. people' \in Seq(People)
        BY <1>1, <2>2, <4>1, ExceptSeq
      <4>  QED
        BY <4>1, <4>2
    <3>  QED
      BY <3>1, <3>2
  <2>5. /\ filing' \in [Ingesters -> FilingType]
        /\ \A h \in Ingesters : filing'[h].at = "store" =>
             filing'[h].mine \in People /\ filing'[h].who \in {0} \union DOMAIN people'
    <3>1. filing' = [filing EXCEPT ![g] = NotFiling]
      BY <1>3 DEF Store
    <3>2. NotFiling \in FilingType /\ NotFiling.at # "store"
      BY DEF NotFiling, FilingType
    <3>  QED
      BY <1>1, <2>4, <3>1, <3>2 DEF MInv
  <2>6. UNCHANGED <<size, recorded, selection>>
    BY <1>3 DEF Store
  <2>7. \A x \in recorded : IsAssessment(x)'
    BY <2>4 DEF MInv, IsAssessment
  <2>8. (IsAnswer(selection) /\ ChosenIsTop)'
    BY <2>6 DEF MInv, IsAnswer, ChosenIsTop
  <2>  QED
    BY <2>4, <2>5, <2>6, <2>7, <2>8 DEF MInv
<1>  QED
  BY <1>2, <1>3

\* Whoever is chosen regardless of the size is the first of the ranking that
\* knows it.
LEMMA SelectionOK ==
  ASSUME MInv, SelectDecisionMaker
  PROVE  MInv'
<1>1. PICK S, ranked : /\ S = {Scored(i, "unknown") : i \in Pool}
                       /\ ranked = {Scored(i, size) : i \in Pool}
  OBVIOUS
<1>2. PICK choice : choice = Choice(S)
  OBVIOUS
<1>3. PICK plausible \in BOOLEAN : plausible = \E x \in ranked : x.total >= ReviewBar
  OBVIOUS
<1>4. /\ selection' =
           [ranked |-> ranked, person |-> choice.who,
            action |-> CASE choice.status \in {"selected", "review"} -> choice.status
                         [] choice.status = "nobody" ->
                              IF plausible THEN "review" ELSE "research_more"]
      /\ recorded' = IF ranked \intersect recorded = {} THEN recorded \union ranked ELSE recorded
      /\ UNCHANGED <<people, filing, size>>
  BY <1>1, <1>2, <1>3 DEF SelectDecisionMaker
<1>5. Pool \subseteq DOMAIN people /\ 0 \notin DOMAIN people
  BY LenProperties DEF Pool, MInv
<1>6. size \in SizeHints /\ "unknown" \in SizeHints
  BY DEF MInv, SizeHints
<1>7. \A x \in ranked : IsAssessment(x)
  BY <1>1, <1>5, <1>6, ScoredIs
<1>8. \A x \in S : x.total \in 0 .. 100 /\ x.who # 0
  <2>1. \A x \in S : IsAssessment(x)
    BY <1>1, <1>5, <1>6, ScoredIs
  <2>  QED
    BY <2>1, <1>5 DEF IsAssessment
<1>9. /\ choice.status \in {"selected", "review", "nobody"}
      /\ choice.status # "selected" => choice.who = 0
      /\ choice.status = "selected" =>
           \E best \in S : /\ choice.who = best.who /\ best.total >= 55
                          /\ \A x \in S : x.eligible /\ x # best => x.total < best.total - 5
  BY <1>2, <1>8, ChoiceIs
<1>10. IsAnswer(selection')
  <2>1. choice.status = "selected" <=> choice.who # 0
    BY <1>8, <1>9
  <2>  QED
    BY <1>3, <1>4, <1>9, <2>1 DEF IsAnswer
<1>11. ASSUME NEW x \in ranked, NEW y \in ranked, x.who = choice.who, y.eligible
       PROVE  y.total <= x.total
  <2>1. PICK i \in Pool, j \in Pool : x = Scored(i, size) /\ y = Scored(j, size)
    BY <1>1
  <2>2. PICK u, v : u = Scored(i, "unknown") /\ v = Scored(j, "unknown")
    OBVIOUS
  <2>3. /\ u \in S /\ v \in S /\ x.who = i /\ y.who = j /\ u.who = i /\ v.who = j
    <3>1. Scored(i, size).who = i /\ Scored(j, size).who = j
      BY <1>5, <1>6, ScoredIs
    <3>2. Scored(i, "unknown").who = i /\ Scored(j, "unknown").who = j
      BY <1>5, <1>6, ScoredIs
    <3>  QED
      BY <1>1, <2>1, <2>2, <3>1, <3>2
  <2>4. /\ u.total <= x.total + 1 /\ y.total <= v.total + 5
        /\ v.total >= 25 => v.eligible
    <3>1. Scored(i, "unknown").total <= Scored(i, size).total + 1
      BY <1>5, <1>6, ScoredIs
    <3>2. /\ Scored(j, size).total <= Scored(j, "unknown").total + 5
          /\ Scored(j, size).eligible =>
               (Scored(j, "unknown").total >= 25 => Scored(j, "unknown").eligible)
      BY <1>5, <1>6, ScoredIs
    <3>  QED
      BY <1>11, <2>1, <2>2, <3>1, <3>2
  <2>5. x.total \in 0 .. 100 /\ y.total \in 0 .. 100 /\ u.total \in 0 .. 100 /\ v.total \in 0 .. 100
    BY <1>7, <1>8, <2>3 DEF IsAssessment
  <2>6. choice.status = "selected"
    BY <1>5, <1>9, <1>11, <2>3
  <2>7. PICK best \in S : /\ choice.who = best.who /\ best.total >= 55
                         /\ \A z \in S : z.eligible /\ z # best => z.total < best.total - 5
    BY <1>9, <2>6
  <2>8. best = u
    <3>1. PICK k \in Pool : best = Scored(k, "unknown")
      BY <1>1, <2>7
    <3>2. Scored(k, "unknown").who = k
      BY <1>5, <1>6, ScoredIs
    <3>3. k = i
      BY <1>11, <2>3, <2>7, <3>1, <3>2
    <3>  QED
      BY <2>2, <3>1, <3>3
  <2>9. CASE j = i
    BY <2>1, <2>5, <2>9
  <2>10. CASE j # i
    <3>1. v # u
      BY <2>3, <2>10
    <3>2. v.eligible => v.total < u.total - 5
      BY <2>3, <2>7, <2>8, <3>1
    <3>3. v.total < 25 \/ v.total < u.total - 5
      BY <2>4, <2>5, <3>2
    <3>4. u.total >= 55
      BY <2>7, <2>8
    <3>5. PICK xt, yt, ut, vt :
            xt = x.total /\ yt = y.total /\ ut = u.total /\ vt = v.total
      OBVIOUS
    <3>6. /\ xt \in Nat /\ yt \in Nat /\ ut \in Nat /\ vt \in Nat
          /\ ut <= xt + 1 /\ yt <= vt + 5 /\ ut >= 55 /\ (vt < 25 \/ vt < ut - 5)
      BY <2>4, <2>5, <3>3, <3>4, <3>5
    <3>7. yt <= xt
      BY <3>6
    <3>  QED
      BY <3>5, <3>7
  <2>  QED
    BY <2>9, <2>10
<1>12. ChosenIsTop'
  <2>1. selection'.ranked = ranked /\ selection'.person = choice.who
    BY <1>4
  <2>  QED
    BY <2>1, <1>11 DEF ChosenIsTop
<1>13. \A x \in recorded' : IsAssessment(x)'
  <2>1. \A x \in recorded' : IsAssessment(x)
    BY <1>4, <1>7 DEF MInv
  <2>  QED
    BY <1>4, <2>1 DEF IsAssessment
<1>  QED
  BY <1>4, <1>10, <1>12, <1>13 DEF MInv, IsAnswer

\* MInv is an invariant.
LEMMA SelectionInvariant == SelectionSpec => []MInv
<1>1. MInv /\ [SelectionNext]_selectionVars => MInv'
  <2> SUFFICES ASSUME MInv, [SelectionNext]_selectionVars PROVE MInv'
    OBVIOUS
  <2>1. CASE \E g \in Ingesters : Classify(g) \/ Store(g)
    BY <2>1, IngestionOK
  <2>2. CASE SelectDecisionMaker
    BY <2>2, SelectionOK
  <2>3. CASE Resize
    BY <2>3 DEF Resize, MInv, IsAssessment, IsAnswer, ChosenIsTop
  <2>4. CASE UNCHANGED selectionVars
    BY <2>4 DEF selectionVars, MInv, IsAssessment, IsAnswer, ChosenIsTop
  <2>  QED
    BY <2>1, <2>2, <2>3, <2>4 DEF SelectionNext
<1>  QED
  BY <1>1, SelectionInitOK, PTL DEF SelectionSpec

\* Nobody eligible is before the chosen one in the ranking that is stored,
\* which looks at the size of the company (selector.py CLOSE_MARGIN).
THEOREM SelectedIsTopOfRankingHolds == SelectionSpec => []SelectedIsTopOfRanking
<1>1. ASSUME MInv PROVE SelectedIsTopOfRanking
  <2>1. \A i \in DOMAIN people : IsContact(people[i])
    <3>1. ASSUME NEW i \in DOMAIN people PROVE people[i] \in People
      <4>1. people \in Seq(People) /\ i \in 1 .. Len(people)
        BY <1>1, LenProperties DEF MInv
      <4>  QED
        BY <4>1, ElementOfSeq
    <3>  QED
      BY <3>1 DEF People, PersonType, IsContact
  <2>  QED
    BY <1>1, <2>1 DEF MInv, ChosenIsTop, SelectedIsTopOfRanking, SelectionTypeOK
<1>  QED
  BY <1>1, SelectionInvariant, PTL

===============================================================================
