--------------------------- MODULE BatchSubmission ---------------------------
(***************************************************************************)
(* How concurrent HTTP requests create discovery batches and their jobs    *)
(* (ProspectBatchSubmissionWorkflow.submit and _find_reused_submission in  *)
(* app/workflows/prospect_batch/workflow.py, the two unique indexes of     *)
(* prospect_batch_jobs).  A selection is what _business_key hashes, the    *)
(* task and its chosen companies; a key is an Idempotency-Key.             *)
(*                                                                         *)
(* Each query is a statement of its own under READ COMMITTED, so other     *)
(* requests and the worker come in between.  What the worker does with a   *)
(* job (ProspectJobQueue) is seen here only as its end, and a user may     *)
(* retry a company of an earlier batch.                                    *)
(***************************************************************************)
EXTENDS Integers, Sequences, SequencesExt, FiniteSets

CONSTANTS Clients, Selections, Keys,
          NoKey,       \* a request without an Idempotency-Key
          MaxBatches,  \* bound on batches
          MaxRetries   \* bound on the jobs that retries add

ASSUME SubmissionAssumption ==
  /\ Selections # {} /\ NoKey \notin Keys
  /\ MaxBatches \in Nat \ {0}
  /\ MaxRetries \in Nat

VARIABLES batches,  \* the selection of each batch, in the order of creation
          jobs,     \* every job: its batch, request_key_hash, whether it is active
          step,     \* the next statement of each client's request, or "idle"
          request,  \* selection and key of each client's request, and the batch
                    \* that is owed for the key when it is sent (ghost)
          second,   \* the request lost a race and looks again
          answers   \* what has been answered to whom (ghost)

submissionVars == <<batches, jobs, step, request, second, answers>>

JobRecords == [batch : 1 .. MaxBatches, key : Keys \union {NoKey},
               active : BOOLEAN]
RequestTypes == [selection : Selections, key : Keys \union {NoKey},
             owed : 0 .. MaxBatches]
Outcomes == {"created", "reused", "conflict", "duplicate"}
Answers == [request : RequestTypes, outcome : Outcomes, batch : 0 .. MaxBatches]

SubmissionTypeOK ==
  /\ batches \in Seq(Selections) /\ Len(batches) <= MaxBatches
  /\ jobs \in Seq(JobRecords) /\ Len(jobs) <= MaxBatches + MaxRetries
  /\ step \in [Clients -> {"idle", "bykey", "byactive", "insert"}]
  /\ request \in [Clients -> RequestTypes]
  /\ second \in [Clients -> BOOLEAN]
  /\ answers \subseteq Answers

NoRequest == [selection |-> CHOOSE s \in Selections : TRUE, key |-> NoKey,
              owed |-> 0]

SubmissionInit ==
  /\ batches = <<>> /\ jobs = <<>> /\ answers = {}
  /\ step = [c \in Clients |-> "idle"]
  /\ request = [c \in Clients |-> NoRequest]
  /\ second = [c \in Clients |-> FALSE]

------------------------------------------------------------------------------
\* business_key of a job: that of its batch.
SelectionOf(job) == batches[job.batch]

\* find_active_by_business_key, and the unique index it relies on.
ActiveFor(s) == {j \in ToSet(jobs) : j.active /\ SelectionOf(j) = s}

\* find_by_request_key_hash, and its index.
UsedBy(k) == IF k = NoKey THEN {} ELSE {j \in ToSet(jobs) : j.key = k}

Job(b, k) == [batch |-> b, key |-> k, active |-> TRUE]

Proceed(c, label) ==
  /\ step' = [step EXCEPT ![c] = label]
  /\ UNCHANGED <<batches, jobs, request, answers>>

Reply(c, outcome, b) ==
  /\ step' = [step EXCEPT ![c] = "idle"]
  /\ second' = [second EXCEPT ![c] = FALSE]
  /\ answers' = answers \union
       {[request |-> request[c], outcome |-> outcome, batch |-> b]}
  /\ request' = [request EXCEPT ![c] = NoRequest]

\* The batch that a key with a job names, if it has these companies.
OwedTo(s, k) == LET js == {j \in UsedBy(k) : SelectionOf(j) = s}
                IN  IF js = {} THEN 0 ELSE (CHOOSE j \in js : TRUE).batch

Send(c, s, k) ==
  /\ step[c] = "idle"
  /\ step' = [step EXCEPT ![c] = "bykey"]
  /\ request' = [request EXCEPT ![c] =
                   [selection |-> s, key |-> k, owed |-> OwedTo(s, k)]]
  /\ UNCHANGED <<batches, jobs, second, answers>>

\* A key used before names its job, finished or not; used for another
\* selection it is a conflict.
FindByRequestKey(c) ==
  /\ step[c] = "bykey"
  /\ \/ /\ UsedBy(request[c].key) = {}
        /\ Proceed(c, "byactive") /\ UNCHANGED second
     \/ \E j \in UsedBy(request[c].key) :
          /\ IF SelectionOf(j) = request[c].selection
             THEN Reply(c, "reused", j.batch)
             ELSE Reply(c, "conflict", 0)
          /\ UNCHANGED <<batches, jobs>>

\* An active job for the same selection serves the request as well.  After
\* a lost race there may be none left: DuplicateOperation is raised again.
FindActive(c) ==
  /\ step[c] = "byactive"
  /\ \/ /\ ActiveFor(request[c].selection) = {}
        /\ ~second[c]
        /\ Proceed(c, "insert") /\ UNCHANGED second
     \/ /\ ActiveFor(request[c].selection) = {}
        /\ second[c]
        /\ Reply(c, "duplicate", 0) /\ UNCHANGED <<batches, jobs>>
     \/ \E j \in ActiveFor(request[c].selection) :
          Reply(c, "reused", j.batch) /\ UNCHANGED <<batches, jobs>>

\* (a mistake: no index on request_key_hash)
CommitWithoutKeyIndex(c) ==
  /\ step[c] = "insert"
  /\ Len(batches) < MaxBatches
  /\ IF ActiveFor(request[c].selection) = {}
     THEN /\ batches' = Append(batches, request[c].selection)
          /\ jobs' = Append(jobs, Job(Len(batches'), request[c].key))
          /\ Reply(c, "created", Len(batches'))
     ELSE /\ second' = [second EXCEPT ![c] = TRUE]
          /\ Proceed(c, "bykey")

\* Batch and job are committed together; a unique index that refuses the
\* job rolls both back, and the request looks for the winner.
CommitSubmission(c) ==
  /\ step[c] = "insert"
  /\ Len(batches) < MaxBatches
  /\ IF ActiveFor(request[c].selection) = {} /\ UsedBy(request[c].key) = {}
     THEN /\ batches' = Append(batches, request[c].selection)
          /\ jobs' = Append(jobs, Job(Len(batches'), request[c].key))
          /\ Reply(c, "created", Len(batches'))
     ELSE /\ second' = [second EXCEPT ![c] = TRUE]
          /\ Proceed(c, "bykey")

\* The worker completes a job or gives it up.
JobEnds(j) ==
  /\ jobs[j].active
  /\ jobs' = [jobs EXCEPT ![j].active = FALSE]
  /\ UNCHANGED <<batches, step, request, second, answers>>

\* (a mistake: a retry does not look at the jobs of other batches)
RequeueFreely(b) ==
  /\ Len(jobs) < Len(batches) + MaxRetries
  /\ \A j \in ToSet(jobs) : j.batch = b => ~j.active
  /\ jobs' = Append(jobs, Job(b, NoKey))
  /\ UNCHANGED <<batches, step, request, second, answers>>

\* retry_company and resume_company: a new job without a request key, unless
\* a job for the same selection is active, of whatever batch.
Requeue(b) ==
  /\ Len(jobs) < Len(batches) + MaxRetries
  /\ ActiveFor(batches[b]) = {}
  /\ jobs' = Append(jobs, Job(b, NoKey))
  /\ UNCHANGED <<batches, step, request, second, answers>>

Submit(c) == FindByRequestKey(c) \/ FindActive(c) \/ CommitSubmission(c)

SubmissionNext ==
  \/ \E c \in Clients :
       \/ Submit(c)
       \/ \E s \in Selections, k \in Keys \union {NoKey} : Send(c, s, k)
  \/ \E j \in DOMAIN jobs : JobEnds(j)
  \/ \E b \in DOMAIN batches : Requeue(b)

SubmissionSpec == SubmissionInit /\ [][SubmissionNext]_submissionVars
------------------------------------------------------------------------------
(***************************************************************************)
(* Properties                                                              *)
(***************************************************************************)

\* An accepted request names a batch of the companies it asked for, found
\* or created, whichever of its statements found it and whoever else was
\* submitting (_find_reused_submission).
AnswersFit ==
  \A a \in answers : a.outcome \in {"created", "reused"} =>
    /\ a.batch \in DOMAIN batches
    /\ batches[a.batch] = a.request.selection

\* A request that is sent again, once its key has created a batch, gets that
\* batch, however long ago that was and whatever became of its job.
CreatorKeyIsKept ==
  \A a \in answers : a.request.owed # 0 =>
    a.outcome = "reused" /\ a.batch = a.request.owed

\* A key creates one batch at most, in every race of equal requests.
KeyCreatesOnce ==
  \A a, b \in answers :
    /\ a.outcome = "created" /\ b.outcome = "created"
    /\ a.request.key = b.request.key /\ a.request.key # NoKey
    => a = b

\* What clients are told, whatever they repeat and race for.
RequestsAreIdempotent == SubmissionTypeOK /\ AnswersFit /\ CreatorKeyIsKept /\ KeyCreatesOnce

\* No selection is worked on twice at once, through new batches, retries of
\* old ones and any race between them.
OneJobPerSelection ==
  \A s \in Selections :
    Cardinality({j \in DOMAIN jobs : jobs[j].active /\ SelectionOf(jobs[j]) = s}) <= 1
==============================================================================
