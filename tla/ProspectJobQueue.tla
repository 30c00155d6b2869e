--------------------------- MODULE ProspectJobQueue ---------------------------
(***************************************************************************)
(* The PostgreSQL work queue under any number of worker processes          *)
(* (app/workflows/prospect_batch/execution.py,                             *)
(* app/database/repositories/prospect_job.py, app/worker.py).              *)
(*                                                                         *)
(* Every action of a worker is one transaction of the coordinator, or the  *)
(* outcome of ProspectBatchWorkflow.execute, of which this module keeps    *)
(* one fact: whether the job's batch still has active companies            *)
(* (ProspectPipeline models the rest).  A transaction locks the rows it    *)
(* writes (FOR UPDATE, SKIP LOCKED), so it is atomic here.  An exception   *)
(* that run_once does not catch ends the process; docker restarts it       *)
(* (docker-compose.prod.yml: restart: unless-stopped).                     *)
(***************************************************************************)
EXTENDS ProspectJob

CONSTANTS Jobs, BusinessKeys,
          KeyOf,   \* the business_key of each job
          NoJob    \* the worker runs no job

ASSUME QueueAssumption == KeyOf \in [Jobs -> BusinessKeys] /\ NoJob \notin Jobs

VARIABLES job,      \* the table prospect_batch_jobs
          settled,  \* the jobs whose batch has no active company
          pc,       \* where each worker is in run_once, or "down"
          work      \* the job each worker believes it runs

vars == <<job, settled, pc, work>>

TypeOK ==
  /\ job \in [Jobs -> JobRows]
  /\ settled \in SUBSET Jobs
  /\ pc \in [Workers -> {"recover", "claim", "start", "execute", "complete",
                         "failing", "down"}]
  /\ work \in [Workers -> Jobs \union {NoJob}]

Init ==
  /\ job = [j \in Jobs |-> AbsentRow]
  /\ settled = {}
  /\ pc = [w \in Workers |-> "recover"]
  /\ work = [w \in Workers |-> NoJob]

------------------------------------------------------------------------------
\* The API inserts a job for a batch with active companies; the unique
\* partial index on business_key refuses a second active one.
Enqueue(j) ==
  /\ job[j].status = "absent"
  /\ \A k \in Jobs : KeyOf[k] = KeyOf[j] => job[k].status \notin ActiveStatuses
  /\ job' = [job EXCEPT ![j] = Created]
  /\ UNCHANGED <<settled, pc, work>>

Tick ==
  /\ \E j \in Jobs : Aged(job[j]) # job[j]
  /\ job' = [j \in Jobs |-> Aged(job[j])]
  /\ UNCHANGED <<settled, pc, work>>

GoTo(w, label) == pc' = [pc EXCEPT ![w] = label]

\* recover_stale: every expired lease, in one transaction.  A batch without
\* active companies completes the job; an exhausted job fails what is left
\* of its batch.
RecoveredJob(j) ==
  IF ~CanRecover(job[j]) THEN job[j]
  ELSE IF j \in settled THEN Reconciled(job[j]) ELSE Recovered(job[j])

RecoverStale(w) ==
  /\ pc[w] = "recover"
  /\ job' = [j \in Jobs |-> RecoveredJob(j)]
  /\ settled' = settled \union {j \in Jobs : CanRecover(job[j])
                                             /\ job[j].attempts >= MaxAttempts}
  /\ GoTo(w, "claim")
  /\ UNCHANGED work

Claim(w) ==
  /\ pc[w] = "claim"
  /\ \E j \in Jobs :
       /\ CanLease(job[j])
       /\ job' = [job EXCEPT ![j] = Leased(@, w)]
       /\ work' = [work EXCEPT ![w] = j]
  /\ GoTo(w, "start")
  /\ UNCHANGED settled

\* Nothing to claim: run_once returns and the worker polls again.
ClaimNothing(w) ==
  /\ pc[w] = "claim"
  /\ \A j \in Jobs : ~CanLease(job[j])
  /\ GoTo(w, "recover")
  /\ UNCHANGED <<job, settled, work>>

StartJob(w) ==
  /\ pc[w] = "start"
  /\ CanStart(job[work[w]], w)
  /\ job' = [job EXCEPT ![work[w]] = Started(@)]
  /\ GoTo(w, "execute")
  /\ UNCHANGED <<settled, work>>

HeartbeatJob(w) ==
  /\ pc[w] = "execute"
  /\ Owns(job[work[w]], w)
  /\ job' = [job EXCEPT ![work[w]] = Renewed(@)]
  /\ UNCHANGED <<settled, pc, work>>

\* The last active company of the batch reaches a terminal status.
BatchSettles(w) ==
  /\ pc[w] = "execute"
  /\ settled' = settled \union {work[w]}
  /\ UNCHANGED <<job, pc, work>>

\* (a mistake: execute returns with companies left)
ExecuteReturnsEarly(w) ==
  /\ pc[w] = "execute"
  /\ GoTo(w, "complete")
  /\ UNCHANGED <<job, settled, work>>

ExecuteReturns(w) ==
  /\ pc[w] = "execute"
  /\ work[w] \in settled
  /\ GoTo(w, "complete")
  /\ UNCHANGED <<job, settled, work>>

\* Any exception of execute, a refused heartbeat included.
ExecuteRaises(w) ==
  /\ pc[w] = "execute"
  /\ GoTo(w, "failing")
  /\ UNCHANGED <<job, settled, work>>

Leave(w, label) ==
  /\ GoTo(w, label)
  /\ work' = [work EXCEPT ![w] = NoJob]

CompleteJob(w) ==
  /\ pc[w] = "complete"
  /\ CanComplete(job[work[w]], w)
  /\ job' = IF job[work[w]].status = "completed" THEN job
            ELSE [job EXCEPT ![work[w]] = Completed(@)]
  /\ Leave(w, "recover")
  /\ UNCHANGED settled

\* record_failure: retry_after_error, and fail_active_execution on the
\* batch when the attempts are used up.
RecordFailure(w) ==
  /\ pc[w] = "failing"
  /\ Owns(job[work[w]], w)
  /\ job' = [job EXCEPT ![work[w]] = Retried(@)]
  /\ settled' = IF job[work[w]].attempts >= MaxAttempts
                THEN settled \union {work[w]} ELSE settled
  /\ Leave(w, "recover")

\* A crash, or an exception that leaves run_once: start, complete and
\* record_failure of a worker that lost its lease raise one.
Die(w) ==
  /\ pc[w] # "down"
  /\ Leave(w, "down")
  /\ UNCHANGED <<job, settled>>

LostLease(w) ==
  \/ pc[w] = "start" /\ ~CanStart(job[work[w]], w)
  \/ pc[w] = "complete" /\ ~CanComplete(job[work[w]], w)
  \/ pc[w] = "failing" /\ ~Owns(job[work[w]], w)

DieOnLostLease(w) == LostLease(w) /\ Die(w)

Restart(w) ==
  /\ pc[w] = "down"
  /\ GoTo(w, "recover")
  /\ UNCHANGED <<job, settled, work>>

\* What a worker does when nothing kills it.
Run(w) ==
  \/ RecoverStale(w) \/ Claim(w) \/ ClaimNothing(w) \/ StartJob(w)
  \/ CompleteJob(w) \/ RecordFailure(w) \/ DieOnLostLease(w) \/ Restart(w)

Next ==
  \/ \E j \in Jobs : Enqueue(j)
  \/ Tick
  \/ \E w \in Workers : \/ Run(w) \/ HeartbeatJob(w) \/ BatchSettles(w)
                        \/ ExecuteReturns(w) \/ ExecuteRaises(w) \/ Die(w)

\* Time passes; a worker process keeps running and is restarted; the
\* processing of a batch ends (every external call has a timeout), by
\* settling its companies and returning, unless it raises first.
Fairness ==
  /\ WF_vars(Tick)
  /\ \A w \in Workers : /\ WF_vars(Run(w))
                        /\ WF_vars(BatchSettles(w))
                        /\ WF_vars(ExecuteReturns(w))

Spec == Init /\ [][Next]_vars
FairSpec == Spec /\ Fairness
------------------------------------------------------------------------------
(***************************************************************************)
(* Properties                                                              *)
(***************************************************************************)

\* Every row of the table agrees with itself: no orphaned lease, no waiting
\* job without an attempt left, no failed job with one, whatever worker,
\* recovery and clock did to it.
LeaseConsistent == \A j \in Jobs : RowConsistent(job[j])

\* The index on business_key: at most one active job per business key, so
\* a batch is never queued twice.
OneActivePerKey ==
  \A j, k \in Jobs :
    /\ j # k
    /\ KeyOf[j] = KeyOf[k]
    => ~(job[j].status \in ActiveStatuses /\ job[k].status \in ActiveStatuses)

\* The rows of the table as a whole: their types, each row in itself, and
\* the rows of one batch with each other.
RowsConsistent == TypeOK /\ LeaseConsistent /\ OneActivePerKey

\* A job leaves the queue only when its batch has no active company left,
\* whether a worker completed it, an error or lost leases exhausted it, or
\* recovery reconciled it: no company waits for a job that will not run.
NothingLeftBehind ==
  \A j \in Jobs : job[j].status \in TerminalStatuses => j \in settled

\* While its lease is live, a job changes hands only because its owner
\* finished it or gave it up: recovery never takes a job from a worker
\* whose heartbeats arrive in time.
LiveLeaseProtected ==
  [][\A j \in Jobs :
       /\ Held(job[j]) /\ ~Expired(job[j])
       /\ job'[j].owner # job[j].owner
       => \E w \in Workers : /\ job[j].owner = w /\ work[w] = j
                             /\ pc[w] \in {"complete", "failing"}
                             /\ pc'[w] = "recover"]_vars

\* A worker whose job was recovered while it ran (its lease had expired)
\* changes nothing of the row any more, whoever owns it now: each of its
\* steps leaves the row alone (_require_owner).
StaleWorkerHarmless ==
  [][\A w \in Workers :
       /\ work[w] # NoJob
       /\ ~Owns(job[work[w]], w)
       /\ pc'[w] # pc[w]
       => job'[work[w]] = job[work[w]]]_vars

\* A finished job is never claimed, recovered or failed again.
FinishedStaysFinished ==
  [][\A j \in Jobs :
       job[j].status \in TerminalStatuses => job'[j] = job[j]]_vars

\* Who may write a job's row, step by step: a live lease is its owner's, a
\* lost one is nobody's any more, and a finished job is left alone.
LeasesAreRespected == LiveLeaseProtected /\ StaleWorkerHarmless /\ FinishedStaysFinished

\* The queue keeps the promises of JobLease.
Abstract == INSTANCE JobLease WITH
              phase  <- [j \in Jobs |-> PhaseOf(job[j])],
              holder <- [j \in Jobs |-> job[j].owner],
              tries  <- [j \in Jobs |-> job[j].attempts]

ImplementsJobLease == Abstract!Spec

\* Unless workers are killed over and over, every queued job is finished:
\* the jobs of crashed workers included, which the next recovery requeues
\* (docs/deployment.md: an expired lease recovers after a worker restart).
NoMoreKills == [][\A w \in Workers : ~(Die(w) /\ ~LostLease(w))]_vars

EveryJobFinishes ==
  <>NoMoreKills =>
    \A j \in Jobs : job[j].status = "pending" ~> job[j].status \in TerminalStatuses
==============================================================================
