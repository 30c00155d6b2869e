------------------------ MODULE ProspectRouting_proofs ------------------------
(***************************************************************************)
(* Proofs about ProspectRouting for any number of workers, clients,        *)
(* companies, generations and faults.                                      *)
(*                                                                         *)
(* RInv ties the rows of the queue to the run: every generation was given  *)
(* one job, and while the run is active the job of its current generation  *)
(* is.  What keeps that true is the order of the worker: a job is          *)
(* completed after the run (CompleteOK).  CompletedIsCurrent needs one     *)
(* thing more, that a worker that finds the run running is the one that    *)
(* started it (ReadOK): that holds with one worker and is assumed there.   *)
(*                                                                         *)
(* The score the routes are made of (RoutingScore) is at the end: KInv     *)
(* says of what kind the facts known of a company are, and every part of   *)
(* the score is a monotone function of them (PartsGrow).                   *)
(***************************************************************************)
EXTENDS ProspectRouting, RoutingScore, ProspectJob_proofs, Order_proofs, FiniteSetTheorems,
        SequenceTheorems

RowsOK == jobs \in Seq(JobRows) /\ \A j \in DOMAIN jobs : RowConsistent(jobs[j])

\* One job per generation.
JobsFit == Len(jobs) = run.generation /\ (run.status = "absent" <=> run.generation = 0)

WorkersOK ==
  \A w \in Workers :
    /\ pc[w] \notin {"recover", "claim", "down"} => me[w].job \in DOMAIN jobs
    /\ pc[w] \in {"beat", "persist"} => me[w].generation \in Generations

RequestsOK ==
  \A k \in Clients :
    request[k].doing \in {"batching", "reviewing"} =>
      request[k].generation \in Generations

CompleteOK ==
  \A w \in Workers :
    pc[w] = "complete" =>
      run.status \notin {"pending", "running"} \/ me[w].job < run.generation

CurrentJobActive ==
  run.status \in {"pending", "running"} =>
    jobs[run.generation].status \in ActiveStatuses

RInv == TypeOK /\ RowsOK /\ JobsFit /\ WorkersOK /\ RequestsOK
          /\ CompleteOK /\ CurrentJobActive

------------------------------------------------------------------------------
(***************************************************************************)
(* Lemmas                                                                  *)
(***************************************************************************)

\* The counters of any routes are within bounds.
LEMMA CountersType ==
  ASSUME NEW scored
  PROVE  CountersOf(scored) \in Counters
<1>1. ASSUME NEW S \in SUBSET Companies
      PROVE  Cardinality(S) \in 0 .. Cardinality(Companies)
  BY FS_Subset, FS_CardinalityType, RoutingAssumption
<1>  QED
  BY <1>1 DEF CountersOf, Counters

\* Scoring gives a route to every company.
LEMMA ScoredType ==
  ASSUME NEW state \in States, NEW scored \in Scored(state)
  PROVE  /\ scored \in [Companies -> Routes]
         /\ \A c \in Companies : scored[c].review # "none" /\ scored[c].from = state
<1>1. ASSUME NEW c \in Companies
      PROVE  scored[c] \in Routes /\ scored[c].review # "none" /\ scored[c].from = state
  BY DEF Scored, Routes, Tiers, NoRoute
<1>2. scored = [c \in Companies |-> scored[c]]
  BY DEF Scored
<1>  QED
  BY <1>1, <1>2

\* What the methods do to the status of a row.
LEMMA StatusOf ==
  ASSUME NEW row \in JobRows, NEW w
  PROVE  /\ Leased(row, w).status = "leased"
         /\ Started(row).status = "running"
         /\ Renewed(row).status = row.status
         /\ Aged(row).status = row.status
         /\ Retried(row).status \in {"pending", "failed"}
         /\ Recovered(row).status \in {"pending", "failed"}
  BY UnleasedType DEF Leased, Started, Renewed, Aged, Retried, Recovered, JobRows

\* The methods of the run keep its type and its generation.
LEMMA RunMethods ==
  ASSUME run \in Runs
  PROVE  /\ Paused \in Runs /\ Failed \in Runs
         /\ Paused.generation = run.generation /\ Failed.generation = run.generation
         /\ Failed.status = "failed"
         /\ Paused.status = IF run.status = "running" THEN "pending" ELSE run.status
  BY DEF Paused, Failed, Runs, RunStatuses

LEMMA FinishedType ==
  ASSUME run \in Runs, NEW scored, NEW state \in States
  PROVE  /\ Finished(scored, state) \in Runs
         /\ Finished(scored, state).generation = run.generation
         /\ Finished(scored, state).status \in Done
         /\ Finished(scored, state).state = state
  BY CountersType DEF Finished, Runs, RunStatuses, Done

\* Replacing one row by a consistent one keeps the queue well formed.
LEMMA UpdateRow ==
  ASSUME RowsOK, NEW j \in DOMAIN jobs, NEW row, RowOK(row),
         jobs' = [jobs EXCEPT ![j] = row]
  PROVE  RowsOK' /\ DOMAIN jobs' = DOMAIN jobs /\ Len(jobs') = Len(jobs)
  BY DEF RowsOK, RowOK

------------------------------------------------------------------------------
(***************************************************************************)
(* The inductive invariant                                                 *)
(***************************************************************************)
LEMMA InitOK == Init => RInv
<1> SUFFICES ASSUME Init PROVE RInv
  OBVIOUS
<1> USE DEF Init
<1>1. run \in Runs
  BY FS_CardinalityType, RoutingAssumption
     DEF Runs, RunStatuses, NoCounters, Counters, States
<1>2. routes \in [Generations -> [Companies -> Routes]]
  BY RoutingAssumption DEF Routes, NoRoute, States
<1>3. TypeOK
  BY <1>1, <1>2, RoutingAssumption
     DEF TypeOK, States, Labels, NoLocals, Locals, NoRequest, Requests
<1>  QED
  BY <1>3 DEF RInv, RowsOK, JobsFit, WorkersOK, RequestsOK, CompleteOK,
              CurrentJobActive, NoRequest

\* A request read or answered, an entity changed: the queue and the run stay.
LEMMA ClientStep ==
  ASSUME RInv, NEW k \in Clients,
         \/ ReadSources(k) \/ SubmitReuse(k) \/ RefuseReview(k)
         \/ OpenBatch(k) \/ RefuseBatch(k)
         \/ \E c \in Companies : OpenReview(k, c)
  PROVE  RInv'
<1> USE DEF RInv
<1>1. /\ UNCHANGED <<entities, run, routes, batches, jobs, pc, me, faults>>
      /\ \E r \in Requests :
           /\ r.doing \in {"batching", "reviewing"} => r.generation \in Generations
           /\ request' = [request EXCEPT ![k] = r]
  <2>1. NoRequest \in Requests /\ NoRequest.doing = "nothing"
    BY RoutingAssumption DEF NoRequest, Requests, States
  <2>2. run.generation \in 0 .. MaxGenerations
    BY DEF TypeOK, Runs
  <2>3. CASE SubmitReuse(k) \/ RefuseReview(k) \/ RefuseBatch(k)
    BY <2>1, <2>3 DEF SubmitReuse, RefuseReview, RefuseBatch, Answer
  <2>4. CASE ReadSources(k)
    <3> DEFINE r == [doing |-> "submitting", state |-> entities,
                     generation |-> run.generation, company |-> {}]
    <3>1. r \in Requests
      BY <2>2 DEF Requests, TypeOK
    <3>  QED
      BY <2>4, <3>1 DEF ReadSources, Ask
  <2>5. CASE OpenBatch(k)
    <3> DEFINE r == [doing |-> "batching", state |-> 0,
                     generation |-> run.generation, company |-> {}]
    <3>1. r \in Requests
      BY <2>2, RoutingAssumption DEF Requests, States
    <3>2. run.generation \in Generations
      BY <2>2, <2>5 DEF OpenBatch, Done, JobsFit, Generations
    <3>  QED
      BY <2>5, <3>1, <3>2 DEF OpenBatch, Ask
  <2>6. CASE \E c \in Companies : OpenReview(k, c)
    <3>1. PICK c \in Companies : OpenReview(k, c)
      BY <2>6
    <3> DEFINE r == [doing |-> "reviewing", state |-> 0,
                     generation |-> run.generation, company |-> {c}]
    <3>2. r \in Requests
      BY <2>2, RoutingAssumption DEF Requests, States
    <3>3. run.generation \in Generations
      BY <2>2, <3>1 DEF OpenReview, Generations
    <3>  QED
      BY <3>1, <3>2, <3>3 DEF OpenReview, Ask
  <2>  QED
    BY <2>3, <2>4, <2>5, <2>6
<1>2. TypeOK'
  BY <1>1 DEF TypeOK
<1>3. RequestsOK'
  BY <1>1 DEF RequestsOK, TypeOK
<1>  QED
  BY <1>1, <1>2, <1>3
     DEF RowsOK, JobsFit, WorkersOK, CompleteOK, CurrentJobActive

\* A new generation comes with a job of its own, at the end of the queue.
LEMMA GenerationStep ==
  ASSUME RInv, NEW k \in Clients, SubmitGeneration(k)
  PROVE  RInv'
<1> USE DEF RInv, SubmitGeneration
<1>1. /\ NoRequest \in Requests /\ NoRequest.doing = "nothing"
      /\ request[k].state \in States
      /\ run.generation \in 0 .. MaxGenerations
      /\ NoCounters \in Counters
      /\ Len(jobs) \in Nat
  BY FS_CardinalityType, RoutingAssumption
     DEF NoRequest, Requests, States, TypeOK, Runs, NoCounters, Counters, RowsOK
<1>2. run' \in Runs /\ run'.generation = run.generation + 1 /\ run'.status = "pending"
  BY <1>1, RoutingAssumption DEF Reset, Runs, RunStatuses
<1>3. Created \in JobRows /\ RowConsistent(Created) /\ Created.status = "pending"
  BY CreatedOK DEF RowOK, Created, AbsentRow
<1>4. /\ jobs' \in Seq(JobRows)
      /\ Len(jobs') = run.generation + 1
      /\ \A j \in DOMAIN jobs : jobs'[j] = jobs[j]
      /\ jobs'[run.generation + 1] = Created
      /\ DOMAIN jobs' = 1 .. run.generation + 1 /\ DOMAIN jobs = 1 .. run.generation
  BY <1>1, <1>3 DEF RowsOK, JobsFit
<1>5. TypeOK'
  BY <1>1, <1>2, <1>4, RoutingAssumption DEF TypeOK, Answer
<1>6. RowsOK' /\ JobsFit'
  BY <1>1, <1>2, <1>3, <1>4 DEF RowsOK, JobsFit
<1>7. WorkersOK' /\ CompleteOK'
  BY <1>1, <1>2, <1>4 DEF WorkersOK, CompleteOK
<1>8. RequestsOK'
  BY <1>1 DEF RequestsOK, Answer, TypeOK
<1>9. CurrentJobActive'
  BY <1>2, <1>3, <1>4 DEF CurrentJobActive, ActiveStatuses
<1>  QED
  BY <1>5, <1>6, <1>7, <1>8, <1>9

\* A decision changes one route, a batch adds to the batches.
LEMMA DecisionStep ==
  ASSUME RInv, NEW k \in Clients, DecideReview(k) \/ CreateBatch(k)
  PROVE  RInv'
<1> USE DEF RInv
<1>1. UNCHANGED <<entities, run, jobs, pc, me, faults>> /\ Answer(k)
  BY DEF DecideReview, CreateBatch
<1>2. NoRequest \in Requests /\ NoRequest.doing = "nothing"
  BY RoutingAssumption DEF NoRequest, Requests, States
<1>3. routes' \in [Generations -> [Companies -> Routes]]
  <2>1. CASE CreateBatch(k)
    BY <2>1 DEF CreateBatch, TypeOK
  <2>2. CASE DecideReview(k)
    <3> DEFINE g == request[k].generation
    <3>1. PICK c \in request[k].company :
            \E d \in {Confirmed(routes[g][c])}
                    \union {Overridden(routes[g][c], t) : t \in Tiers} :
              routes' = [routes EXCEPT ![g][c] = d]
      BY <2>2 DEF DecideReview
    <3>2. c \in Companies /\ g \in Generations
      BY <2>2 DEF DecideReview, RequestsOK, TypeOK, Requests
    <3>3. \A route \in Routes : /\ Confirmed(route) \in Routes
                                /\ \A t \in Tiers : Overridden(route, t) \in Routes
      BY DEF Routes, Confirmed, Overridden
    <3>4. routes[g][c] \in Routes
      BY <3>2 DEF TypeOK
    <3>5. PICK d \in Routes : routes' = [routes EXCEPT ![g][c] = d]
      BY <3>1, <3>3, <3>4
    <3>  QED
      BY <3>2, <3>5 DEF TypeOK
  <2>  QED
    BY <2>1, <2>2
<1>4. batches' \subseteq [generation : Generations, companies : SUBSET Companies]
  BY DEF DecideReview, CreateBatch, TypeOK, RequestsOK
<1>5. TypeOK'
  BY <1>1, <1>2, <1>3, <1>4 DEF TypeOK, Answer
<1>6. RequestsOK'
  BY <1>1, <1>2 DEF RequestsOK, Answer, TypeOK
<1>  QED
  BY <1>1, <1>5, <1>6
     DEF RowsOK, JobsFit, WorkersOK, CompleteOK, CurrentJobActive

\* The clock changes no status.
LEMMA TickStep ==
  ASSUME RInv, LeaseTick
  PROVE  RInv'
<1> USE DEF RInv, LeaseTick
<1>1. \A j \in DOMAIN jobs :
        RowOK(Aged(jobs[j])) /\ Aged(jobs[j]).status = jobs[j].status
  <2>1. ASSUME NEW j \in DOMAIN jobs PROVE RowOK(jobs[j])
    BY DEF RowsOK, RowOK
  <2>2. \A row \in JobRows : Aged(row).status = row.status
    BY StatusOf
  <2>  QED
    BY <2>1, <2>2, AgedOK DEF RowOK
<1>2. /\ jobs' \in Seq(JobRows)
      /\ Len(jobs') = Len(jobs) /\ DOMAIN jobs' = DOMAIN jobs
      /\ \A j \in DOMAIN jobs : jobs'[j] = Aged(jobs[j])
  BY <1>1 DEF RowsOK, RowOK
<1>3. TypeOK' /\ RowsOK' /\ JobsFit'
  BY <1>1, <1>2 DEF TypeOK, RowsOK, RowOK, JobsFit
<1>4. CurrentJobActive'
  <2>1. ASSUME run.status \in {"pending", "running"} PROVE run.generation \in DOMAIN jobs
    BY <2>1 DEF JobsFit, RowsOK, TypeOK, Runs
  <2>  QED
    BY <1>1, <1>2, <2>1 DEF CurrentJobActive
<1>  QED
  BY <1>2, <1>3, <1>4 DEF WorkersOK, RequestsOK, CompleteOK

\* Recovery either reconciles jobs of a run that is done, or takes them back
\* and the run with them; it fails the run with a job it fails.
LEMMA RecoverStep ==
  ASSUME RInv, NEW w \in Workers, RecoverStale(w)
  PROVE  RInv'
<1> USE DEF RInv, RecoverStale
<1>1. \A j \in DOMAIN jobs : RowOK(jobs[j])
  BY DEF RowsOK, RowOK
<1>2. run.generation \in 0 .. MaxGenerations /\ run \in Runs
  BY DEF TypeOK, Runs
<1>3. /\ \A j \in DOMAIN jobs : RowOK(jobs'[j])
      /\ \A j \in DOMAIN jobs \ Stale : jobs'[j] = jobs[j]
      /\ run.status \notin Done =>
           \A j \in Stale : jobs'[j].status \in {"pending", "failed"}
      /\ jobs' \in Seq(JobRows) /\ Len(jobs') = Len(jobs)
      /\ DOMAIN jobs' = DOMAIN jobs
  <2>1. CASE run.status \in Done
    <3>1. \A j \in DOMAIN jobs : j \in Stale => RowOK(Reconciled(jobs[j]))
      BY <1>1, RecoveredOK DEF Stale, CanRecover
    <3>2. jobs' = [j \in DOMAIN jobs |-> IF j \in Stale THEN Reconciled(jobs[j]) ELSE jobs[j]]
      BY <2>1 DEF RecoverAll
    <3>  QED
      BY <1>1, <2>1, <3>1, <3>2 DEF RowsOK, RowOK
  <2>2. CASE run.status \notin Done
    <3>1. \A j \in DOMAIN jobs : j \in Stale => RowOK(Recovered(jobs[j]))
      BY <1>1, RecoveredOK DEF Stale, CanRecover
    <3>2. jobs' = [j \in DOMAIN jobs |-> IF j \in Stale THEN Recovered(jobs[j]) ELSE jobs[j]]
      BY <2>2 DEF RecoverAll
    <3>3. \A row \in JobRows : Recovered(row).status \in {"pending", "failed"}
      BY StatusOf
    <3>  QED
      BY <1>1, <3>1, <3>2, <3>3 DEF RowsOK, RowOK, Stale
  <2>  QED
    BY <2>1, <2>2
<1>4. /\ run' \in Runs /\ run'.generation = run.generation
      /\ run'.status = "absent" <=> run.status = "absent"
      /\ run'.status \in {"pending", "running"} =>
           /\ run.status \in {"pending", "running"}
           /\ \A j \in Stale : jobs'[j].status # "failed"
  <2>1. CASE run' = run /\ (run.status \in Done \/ Stale = {})
    BY <1>2, <2>1 DEF Done
  <2>2. CASE Stale # {} /\ run.status \notin Done
    <3>1. run.status # "absent"
      BY <2>2 DEF JobsFit, Stale, RowsOK
    <3>2. CASE \E j \in Stale : jobs'[j].status = "failed"
      BY <1>2, <2>2, <3>1, <3>2, RunMethods
    <3>3. CASE ~ \E j \in Stale : jobs'[j].status = "failed"
      BY <1>2, <2>2, <3>1, <3>3, RunMethods
    <3>  QED
      BY <3>2, <3>3
  <2>  QED
    BY <2>1, <2>2
<1>5. TypeOK'
  BY <1>3, <1>4 DEF TypeOK, outside, GoTo, Labels
<1>6. RowsOK' /\ JobsFit'
  BY <1>3, <1>4 DEF RowsOK, RowOK, JobsFit
<1>7. WorkersOK' /\ RequestsOK' /\ CompleteOK'
  BY <1>3, <1>4 DEF WorkersOK, RequestsOK, CompleteOK, GoTo, TypeOK, outside
<1>8. CurrentJobActive'
  <2> SUFFICES ASSUME run'.status \in {"pending", "running"}
               PROVE  jobs'[run.generation].status \in ActiveStatuses
    BY <1>4 DEF CurrentJobActive
  <2>1. run.generation \in DOMAIN jobs /\ run.status \in {"pending", "running"}
    BY <1>2, <1>4 DEF JobsFit, RowsOK
  <2>2. run.status \notin Done
    BY <2>1 DEF Done
  <2>  QED
    BY <1>3, <1>4, <2>1, <2>2 DEF CurrentJobActive, ActiveStatuses
<1>  QED
  BY <1>5, <1>6, <1>7, <1>8

\* Moving a worker on, to a label that its local variables allow.
LEMMA Moved ==
  ASSUME RInv, NEW w \in Workers, NEW label \in Labels, NEW l \in Locals,
         label \notin {"recover", "claim", "down"} => l.job \in DOMAIN jobs,
         label \in {"beat", "persist"} => l.generation \in Generations,
         label # "complete",
         pc' = [pc EXCEPT ![w] = label], me' = [me EXCEPT ![w] = l],
         DOMAIN jobs' = DOMAIN jobs,
         run'.generation = run.generation,
         run'.status \in {"pending", "running"} => run.status \in {"pending", "running"}
  PROVE  /\ pc' \in [Workers -> Labels] /\ me' \in [Workers -> Locals]
         /\ WorkersOK' /\ CompleteOK'
  BY DEF RInv, TypeOK, WorkersOK, CompleteOK

\* An exception leaves the worker with its job, or without one.
LEMMA Thrown ==
  ASSUME RInv, NEW w \in Workers, Throw(w), UNCHANGED <<jobs, run>>
  PROVE  /\ pc' \in [Workers -> Labels] /\ me' \in [Workers -> Locals]
         /\ WorkersOK' /\ CompleteOK'
<1>1. CASE pc[w] \in ExecuteSteps
  <2>1. pc' = [pc EXCEPT ![w] = "failing"] /\ me' = [me EXCEPT ![w] = me[w]]
    BY <1>1 DEF Throw, GoTo, RInv, TypeOK
  <2>2. me[w] \in Locals /\ me[w].job \in DOMAIN jobs
    BY <1>1 DEF RInv, TypeOK, WorkersOK, ExecuteSteps
  <2>  QED
    BY <2>1, <2>2, Moved DEF Labels
<1>2. CASE pc[w] \notin ExecuteSteps
  <2>1. pc' = [pc EXCEPT ![w] = "down"] /\ me' = [me EXCEPT ![w] = NoLocals]
    BY <1>2 DEF Throw, Leave, GoTo
  <2>2. NoLocals \in Locals
    BY RoutingAssumption DEF NoLocals, Locals, States
  <2>  QED
    BY <2>1, <2>2, Moved DEF Labels
<1>  QED
  BY <1>1, <1>2

\* What the other conjuncts need of a step that writes one row, or none.
LEMMA Written ==
  ASSUME RInv, UNCHANGED <<entities, batches, request>>, faults' \in 0 .. MaxFaults,
         pc' \in [Workers -> Labels], me' \in [Workers -> Locals],
         WorkersOK', CompleteOK',
         run' \in Runs, run'.generation = run.generation,
         run'.status = "absent" <=> run.status = "absent",
         run'.status \in {"pending", "running"} => run.status \in {"pending", "running"},
         routes' \in [Generations -> [Companies -> Routes]],
         \/ jobs' = jobs
         \/ \E j \in DOMAIN jobs : \E row :
              /\ RowOK(row) /\ jobs' = [jobs EXCEPT ![j] = row]
              /\ \/ row.status \in ActiveStatuses
                 \/ run'.status \notin {"pending", "running"}
                 \/ j # run.generation
  PROVE  RInv'
<1> USE DEF RInv
<1>1. /\ RowsOK' /\ Len(jobs') = Len(jobs)
      /\ run'.status \in {"pending", "running"} =>
           jobs'[run.generation].status \in ActiveStatuses
  <2>1. CASE jobs' = jobs
    BY <2>1 DEF RowsOK, CurrentJobActive
  <2>2. ASSUME NEW j \in DOMAIN jobs, NEW row, RowOK(row),
               jobs' = [jobs EXCEPT ![j] = row],
               \/ row.status \in ActiveStatuses
               \/ run'.status \notin {"pending", "running"}
               \/ j # run.generation
        PROVE  /\ RowsOK' /\ Len(jobs') = Len(jobs)
               /\ run'.status \in {"pending", "running"} =>
                    jobs'[run.generation].status \in ActiveStatuses
    <3>1. RowsOK' /\ Len(jobs') = Len(jobs)
      BY <2>2, UpdateRow
    <3>2. ASSUME run'.status \in {"pending", "running"}
          PROVE  jobs'[run.generation].status \in ActiveStatuses
      <4>1. run.generation \in DOMAIN jobs
        BY <3>2 DEF JobsFit, TypeOK, Runs, RowsOK
      <4>  QED
        BY <2>2, <3>2, <4>1 DEF CurrentJobActive
    <3>  QED
      BY <3>1, <3>2
  <2>  QED
    BY <2>1, <2>2
<1>2. TypeOK'
  BY <1>1 DEF TypeOK, RowsOK
<1>3. JobsFit' /\ RequestsOK' /\ CurrentJobActive'
  BY <1>1 DEF JobsFit, RequestsOK, CurrentJobActive
<1>  QED
  BY <1>1, <1>2, <1>3

\* The steps of a worker, but for recovery.
LEMMA WorkStep ==
  ASSUME RInv, NEW w \in Workers,
         \/ Claim(w) \/ ClaimNothing(w) \/ StartJob(w) \/ BeginRun(w)
         \/ ReadRun(w) \/ Beat(w) \/ PersistRoutes(w) \/ CompleteJob(w)
         \/ RecordFailure(w) \/ Restart(w) \/ Raise(w) \/ Crash(w)
  PROVE  RInv'
<1> USE DEF outside
<1>l. /\ me[w] \in Locals /\ NoLocals \in Locals
      /\ run \in Runs /\ run.generation \in 0 .. MaxGenerations
      /\ routes \in [Generations -> [Companies -> Routes]]
      /\ jobs \in Seq(JobRows) /\ faults \in 0 .. MaxFaults
      /\ me = [me EXCEPT ![w] = me[w]]
      /\ pc[w] \notin {"recover", "claim", "down"} => me[w].job \in DOMAIN jobs
  BY RoutingAssumption
     DEF NoLocals, Locals, States, RInv, TypeOK, Runs, WorkersOK
<1>r. \A j \in DOMAIN jobs : RowOK(jobs[j]) /\ jobs[j] \in JobRows
  BY <1>l DEF RInv, RowsOK, RowOK
<1>1. CASE Claim(w)
  <2>1. PICK j \in DOMAIN jobs :
          /\ CanLease(jobs[j])
          /\ jobs' = [jobs EXCEPT ![j] = Leased(jobs[j], w)]
          /\ me' = [me EXCEPT ![w].job = j]
    BY <1>1 DEF Claim
  <2>2. RowOK(Leased(jobs[j], w)) /\ Leased(jobs[j], w).status \in ActiveStatuses
    BY <1>r, <2>1, LeasedOK, StatusOf DEF ActiveStatuses, HeldStatuses
  <2> DEFINE l == [me[w] EXCEPT !.job = j]
  <2>3. l \in Locals /\ l.job = j
    <3>1. j \in 0 .. MaxGenerations
      BY <1>l, RoutingAssumption DEF RInv, TypeOK
    <3>  QED
      BY <1>l, <3>1 DEF Locals
  <2>4. me' = [me EXCEPT ![w] = l]
    BY <2>1
  <2> HIDE DEF l
  <2>5. DOMAIN jobs' = DOMAIN jobs
    BY <1>l, <2>1
  <2>6. /\ pc' \in [Workers -> Labels] /\ me' \in [Workers -> Locals]
        /\ WorkersOK' /\ CompleteOK'
    BY <1>1, <2>3, <2>4, <2>5, Moved DEF Claim, GoTo, Labels
  <2>  QED
    BY <1>1, <1>l, <2>1, <2>2, <2>6, Written DEF Claim
<1>2. CASE ClaimNothing(w) \/ Restart(w)
  <2>1. /\ pc' \in [Workers -> Labels] /\ me' \in [Workers -> Locals]
        /\ WorkersOK' /\ CompleteOK'
    BY <1>2, <1>l, Moved DEF ClaimNothing, Restart, GoTo, Labels
  <2>  QED
    BY <1>2, <1>l, <2>1, Written DEF ClaimNothing, Restart
<1>3. CASE StartJob(w)
  <2>1. CASE CanStart(Job(w), w)
    <3>1. /\ me[w].job \in DOMAIN jobs
          /\ RowOK(Started(Job(w))) /\ Started(Job(w)).status \in ActiveStatuses
      BY <1>3, <1>l, <1>r, <2>1, StartedOK, StatusOf
         DEF StartJob, CanStart, Job, ActiveStatuses, HeldStatuses
    <3>2. jobs' = [jobs EXCEPT ![me[w].job] = Started(Job(w))] /\ DOMAIN jobs' = DOMAIN jobs
      BY <1>3, <1>l, <2>1 DEF StartJob, Job
    <3>3. /\ pc' \in [Workers -> Labels] /\ me' \in [Workers -> Locals]
          /\ WorkersOK' /\ CompleteOK'
      BY <1>3, <1>l, <2>1, <3>1, <3>2, Moved DEF StartJob, GoTo, Labels
    <3>  QED
      BY <1>3, <1>l, <3>1, <3>2, <3>3, Written DEF StartJob
  <2>2. CASE ~CanStart(Job(w), w)
    BY <1>3, <1>l, <2>2, Thrown, Written DEF StartJob
  <2>  QED
    BY <2>1, <2>2
<1>4. CASE BeginRun(w)
  <2>1. CASE run.status = "failed"
    BY <1>4, <1>l, <2>1, Thrown, Written DEF BeginRun
  <2>2. CASE run.status # "failed"
    <3>1. run.status # "absent"
      BY <1>4, <1>l DEF BeginRun, RInv, JobsFit
    <3>2. /\ run' \in Runs /\ run'.generation = run.generation
          /\ run'.status = IF run.status \in Done THEN run.status ELSE "running"
      BY <1>4, <1>l, <2>2 DEF BeginRun, Runs, RunStatuses
    <3>3. /\ run'.status \in {"pending", "running"} => run.status \in {"pending", "running"}
          /\ run'.status # "absent"
      BY <1>l, <2>2, <3>1, <3>2 DEF Runs, RunStatuses, Done
    <3>4. /\ pc' \in [Workers -> Labels] /\ me' \in [Workers -> Locals]
          /\ WorkersOK' /\ CompleteOK'
      BY <1>4, <1>l, <2>2, <3>2, <3>3, Moved DEF BeginRun, GoTo, Labels
    <3>  QED
      BY <1>4, <1>l, <3>1, <3>2, <3>3, <3>4, Written DEF BeginRun
  <2>  QED
    BY <2>1, <2>2
<1>5. CASE ReadRun(w)
  <2> DEFINE l == [me[w] EXCEPT !.generation = run.generation, !.state = entities]
  <2>1. l \in Locals /\ l.job = me[w].job /\ l.generation = run.generation
    <3> DEFINE m == [me[w] EXCEPT !.generation = run.generation]
    <3>1. m \in Locals /\ m.job = me[w].job /\ m.generation = run.generation
      BY <1>l DEF Locals
    <3>2. l = [m EXCEPT !.state = entities]
      OBVIOUS
    <3> HIDE DEF m, l
    <3>  QED
      BY <3>1, <3>2 DEF Locals, RInv, TypeOK
  <2>2. me' = [me EXCEPT ![w] = l]
    BY <1>5 DEF ReadRun
  <2>3. run.generation \in Generations
    BY <1>5, <1>l DEF ReadRun, RInv, JobsFit, Generations
  <2> HIDE DEF l
  <2>4. PICK label \in {"beat", "persist"} : pc' = [pc EXCEPT ![w] = label]
    BY <1>5 DEF ReadRun, GoTo
  <2>5. /\ pc' \in [Workers -> Labels] /\ me' \in [Workers -> Locals]
        /\ WorkersOK' /\ CompleteOK'
    BY <1>5, <1>l, <2>1, <2>2, <2>3, <2>4, Moved DEF ReadRun, Labels
  <2>  QED
    BY <1>5, <1>l, <2>5, Written DEF ReadRun
<1>6. CASE Beat(w)
  <2>1. CASE Owns(Job(w), w)
    <3>1. /\ me[w].job \in DOMAIN jobs
          /\ RowOK(Renewed(Job(w))) /\ Renewed(Job(w)).status \in ActiveStatuses
      BY <1>6, <1>l, <1>r, <2>1, RenewedOK, StatusOf
         DEF Beat, Owns, Held, Job, ActiveStatuses
    <3>2. jobs' = [jobs EXCEPT ![me[w].job] = Renewed(Job(w))] /\ DOMAIN jobs' = DOMAIN jobs
      BY <1>6, <1>l, <2>1 DEF Beat, Job
    <3>3. me[w].generation \in Generations
      BY <1>6 DEF Beat, RInv, WorkersOK
    <3>4. /\ pc' \in [Workers -> Labels] /\ me' \in [Workers -> Locals]
          /\ WorkersOK' /\ CompleteOK'
      BY <1>6, <1>l, <2>1, <3>1, <3>2, <3>3, Moved DEF Beat, GoTo, Labels
    <3>  QED
      BY <1>6, <1>l, <3>1, <3>2, <3>4, Written DEF Beat
  <2>2. CASE ~Owns(Job(w), w)
    BY <1>6, <1>l, <2>2, Thrown, Written DEF Beat
  <2>  QED
    BY <2>1, <2>2
<1>7. CASE PersistRoutes(w)
  <2>1. CASE routes' = routes
    <3>1. CASE run.status = "running" /\ \A c \in Companies : routes[me[w].generation][c] = NoRoute
      <4>1. PICK scored \in Scored(me[w].state) :
              routes' = [routes EXCEPT ![me[w].generation] = scored]
        BY <1>7, <3>1 DEF PersistRoutes
      <4>2. me[w].state \in States /\ me[w].generation \in Generations
        BY <1>7, <1>l DEF PersistRoutes, RInv, WorkersOK, Locals
      <4>3. \A c \in Companies : routes[me[w].generation][c].review # "none"
        BY <1>l, <2>1, <4>1, <4>2, ScoredType
      <4>  QED
        BY <3>1, <4>3, RoutingAssumption DEF NoRoute
    <3>2. CASE ~(run.status = "running" /\ \A c \in Companies : routes[me[w].generation][c] = NoRoute)
      BY <1>7, <1>l, <3>2, Thrown, Written DEF PersistRoutes
    <3>  QED
      BY <3>1, <3>2
  <2>2. CASE routes' # routes
    <3>1. PICK scored \in Scored(me[w].state) :
            /\ run.status = "running"
            /\ routes' = [routes EXCEPT ![me[w].generation] = scored]
            /\ run' = Finished(scored, me[w].state)
            /\ GoTo(w, "complete") /\ UNCHANGED me
      BY <1>7, <2>2 DEF PersistRoutes
    <3>2. me[w].state \in States /\ me[w].generation \in Generations
      BY <1>7, <1>l DEF PersistRoutes, RInv, WorkersOK, Locals
    <3>3. routes' \in [Generations -> [Companies -> Routes]]
      BY <1>l, <3>1, <3>2, ScoredType
    <3>4. /\ run' \in Runs /\ run'.generation = run.generation
          /\ run'.status \notin {"pending", "running", "absent"}
      BY <1>l, <3>1, <3>2, FinishedType DEF Done
    <3>5. /\ pc' \in [Workers -> Labels] /\ me' \in [Workers -> Locals]
          /\ WorkersOK' /\ CompleteOK'
      BY <1>7, <1>l, <3>1, <3>4
         DEF PersistRoutes, GoTo, Labels, RInv, TypeOK, WorkersOK, CompleteOK
    <3>  QED
      BY <1>7, <1>l, <3>1, <3>3, <3>4, <3>5, Written DEF PersistRoutes
  <2>  QED
    BY <2>1, <2>2
<1>8. CASE CompleteJob(w)
  <2>1. CASE CanComplete(Job(w), w)
    <3> DEFINE row == IF Job(w).status = "completed" THEN Job(w) ELSE Completed(Job(w))
    <3>1. me[w].job \in DOMAIN jobs /\ RowOK(row)
      BY <1>8, <1>l, <1>r, <2>1, CompletedOK DEF CompleteJob, CanComplete, Owns, Job
    <3>2. jobs' = [jobs EXCEPT ![me[w].job] = row] /\ DOMAIN jobs' = DOMAIN jobs
      BY <1>8, <1>l, <2>1 DEF CompleteJob, Job
    <3>3. run.status \notin {"pending", "running"} \/ me[w].job # run.generation
      BY <1>8, <1>l, <3>1 DEF CompleteJob, RInv, CompleteOK
    <3> HIDE DEF row
    <3>4. /\ pc' \in [Workers -> Labels] /\ me' \in [Workers -> Locals]
          /\ WorkersOK' /\ CompleteOK'
      BY <1>8, <1>l, <2>1, <3>2, Moved DEF CompleteJob, Leave, GoTo, Labels
    <3>  QED
      BY <1>8, <1>l, <3>1, <3>2, <3>3, <3>4, Written DEF CompleteJob
  <2>2. CASE ~CanComplete(Job(w), w)
    BY <1>8, <1>l, <2>2, Thrown, Written DEF CompleteJob
  <2>  QED
    BY <2>1, <2>2
<1>9. CASE RecordFailure(w)
  <2>1. CASE Owns(Job(w), w)
    <3>1. /\ me[w].job \in DOMAIN jobs /\ RowOK(Retried(Job(w)))
          /\ Retried(Job(w)).status \in {"pending", "failed"}
      BY <1>9, <1>l, <1>r, <2>1, RetriedOK, StatusOf DEF RecordFailure, Owns, Job
    <3>2. /\ jobs' = [jobs EXCEPT ![me[w].job] = Retried(Job(w))]
          /\ DOMAIN jobs' = DOMAIN jobs
          /\ jobs'[me[w].job] = Retried(Job(w))
      BY <1>9, <1>l, <2>1, <3>1 DEF RecordFailure, Job
    <3>3. run.status # "absent"
      BY <1>l, <3>1 DEF RInv, JobsFit
    <3>4. run' = IF Retried(Job(w)).status = "pending" THEN Paused ELSE Failed
      BY <1>9, <2>1, <3>2 DEF RecordFailure
    <3>5. /\ run' \in Runs /\ run'.generation = run.generation /\ run'.status # "absent"
          /\ run'.status \in {"pending", "running"} =>
               run.status \in {"pending", "running"} /\ Retried(Job(w)).status = "pending"
      BY <1>l, <3>3, <3>4, RunMethods
    <3>6. /\ pc' \in [Workers -> Labels] /\ me' \in [Workers -> Locals]
          /\ WorkersOK' /\ CompleteOK'
      BY <1>9, <1>l, <2>1, <3>2, <3>5, Moved DEF RecordFailure, Leave, GoTo, Labels
    <3>  QED
      BY <1>9, <1>l, <3>1, <3>2, <3>3, <3>5, <3>6, Written
         DEF RecordFailure, ActiveStatuses
  <2>2. CASE ~Owns(Job(w), w)
    BY <1>9, <1>l, <2>2, Thrown, Written DEF RecordFailure
  <2>  QED
    BY <2>1, <2>2
<1>10. CASE Raise(w) \/ Crash(w)
  <2>1. faults' \in 0 .. MaxFaults
    BY <1>10, <1>l, RoutingAssumption DEF Raise, Crash
  <2>2. /\ pc' \in [Workers -> Labels] /\ me' \in [Workers -> Locals]
        /\ WorkersOK' /\ CompleteOK'
    <3>1. CASE Raise(w)
      BY <3>1, Thrown DEF Raise
    <3>2. CASE Crash(w)
      BY <1>l, <3>2, Moved DEF Crash, Leave, GoTo, Labels
    <3>  QED
      BY <1>10, <3>1, <3>2
  <2>  QED
    BY <1>10, <1>l, <2>1, <2>2, Written DEF Raise, Crash
<1>  QED
  BY <1>1, <1>2, <1>3, <1>4, <1>5, <1>6, <1>7, <1>8, <1>9, <1>10

LEMMA StepOK == RInv /\ [Next]_vars => RInv'
<1> SUFFICES ASSUME RInv, [Next]_vars PROVE RInv'
  OBVIOUS
<1>1. CASE ChangeEntities
  BY <1>1, RoutingAssumption
     DEF ChangeEntities, RInv, TypeOK, States, RowsOK, JobsFit, WorkersOK,
         RequestsOK, CompleteOK, CurrentJobActive
<1>2. CASE LeaseTick
  BY <1>2, TickStep
<1>3. ASSUME NEW k \in Clients, Serve(k) PROVE RInv'
  BY <1>3, ClientStep, GenerationStep, DecisionStep DEF Serve
<1>4. ASSUME NEW w \in Workers, Work(w) \/ Raise(w) \/ Crash(w) PROVE RInv'
  BY <1>4, RecoverStep, WorkStep DEF Work
<1>5. CASE UNCHANGED vars
  BY <1>5 DEF vars, RInv, TypeOK, RowsOK, JobsFit, WorkersOK, RequestsOK,
              CompleteOK, CurrentJobActive
<1>  QED
  BY <1>1, <1>2, <1>3, <1>4, <1>5 DEF Next

------------------------------------------------------------------------------
(***************************************************************************)
(* The theorems                                                            *)
(***************************************************************************)

\* Rows, routes, batches and local variables have their types.
THEOREM RoutingTypeCorrect == Spec => []TypeOK
<1>1. RInv => TypeOK
  BY DEF RInv
<1>  QED
  BY InitOK, StepOK, <1>1, PTL DEF Spec

\* A run that is waiting or running has an active job, for any number of
\* workers: overlapping ones included, which the other properties of the
\* run do not survive.
THEOREM ActiveRunsHaveJobs == Spec => []ActiveRunHasJob
<1>1. RInv => ActiveRunHasJob
  <2> SUFFICES ASSUME RInv, run.status \in {"pending", "running"}
               PROVE  ActiveJob
    BY DEF ActiveRunHasJob
  <2>1. run.generation \in DOMAIN jobs
    BY DEF RInv, JobsFit, TypeOK, Runs
  <2>  QED
    BY <2>1 DEF RInv, CurrentJobActive, ActiveJob
<1>  QED
  BY InitOK, StepOK, <1>1, PTL DEF Spec

\* Saved routes are never removed or scored again, and change once.
LEMMA RoutesStep ==
  ASSUME RInv, [Next]_vars, NEW g \in Generations, NEW c \in Companies,
         routes[g][c].review # "none", routes'[g][c] # routes[g][c]
  PROVE  /\ routes[g][c].review = "suggested"
         /\ routes'[g][c].review \in {"confirmed", "overridden"}
         /\ routes'[g][c].recommended = routes[g][c].recommended
         /\ routes'[g][c].from = routes[g][c].from
<1>1. routes \in [Generations -> [Companies -> Routes]]
  BY DEF RInv, TypeOK
<1>2. CASE \E k \in Clients : DecideReview(k)
  <2>1. PICK k \in Clients : DecideReview(k)
    BY <1>2
  <2> DEFINE h == request[k].generation
  <2>2. PICK d \in request[k].company :
          /\ CanDecide(routes[h][d])
          /\ \E decided \in {Confirmed(routes[h][d])}
                     \union {Overridden(routes[h][d], t) : t \in Tiers} :
               routes' = [routes EXCEPT ![h][d] = decided]
    BY <2>1 DEF DecideReview
  <2>3. h \in Generations /\ d \in Companies
    BY <2>1 DEF DecideReview, RInv, RequestsOK, TypeOK, Requests
  <2>4. h = g /\ d = c
    BY <1>1, <2>2, <2>3
  <2>5. /\ CanDecide(routes[g][c])
        /\ routes'[g][c] \in {Confirmed(routes[g][c])}
                     \union {Overridden(routes[g][c], t) : t \in Tiers}
    BY <1>1, <2>2, <2>4
  <2>6. \A route \in Routes : \A t \in Tiers :
          /\ Confirmed(route).review = "confirmed"
          /\ Confirmed(route).recommended = route.recommended
          /\ Confirmed(route).from = route.from
          /\ Overridden(route, t).review = "overridden"
          /\ Overridden(route, t).recommended = route.recommended
          /\ Overridden(route, t).from = route.from
    BY DEF Routes, Confirmed, Overridden
  <2>7. routes[g][c] \in Routes
    BY <1>1
  <2>  QED
    BY <2>5, <2>6, <2>7 DEF CanDecide, Tiers
<1>3. CASE \E w \in Workers : PersistRoutes(w)
  <2>1. PICK w \in Workers : PersistRoutes(w)
    BY <1>3
  <2>2. /\ \A e \in Companies : routes[me[w].generation][e] = NoRoute
        /\ \E scored : routes' = [routes EXCEPT ![me[w].generation] = scored]
    BY <2>1 DEF PersistRoutes
  <2>3. me[w].generation # g
    BY <2>2 DEF NoRoute
  <2>  QED
    BY <1>1, <2>2, <2>3
<1>4. CASE UNCHANGED routes
  BY <1>4
<1>5. \/ \E k \in Clients : DecideReview(k)
      \/ \E w \in Workers : PersistRoutes(w)
      \/ UNCHANGED routes
  BY DEF Next, vars, Serve, Work, ChangeEntities, LeaseTick, ReadSources, Ask,
     SubmitReuse, SubmitGeneration, RefuseReview, OpenBatch, CreateBatch,
     RefuseBatch, OpenReview, RecoverStale, Claim, ClaimNothing, StartJob,
     BeginRun, ReadRun, Beat, CompleteJob, RecordFailure, Restart, Raise, Crash
<1>  QED
  BY <1>2, <1>3, <1>4, <1>5

THEOREM HistoryIsNeverLost == Spec => HistoryIsKept
<1>1. RInv /\ [Next]_vars =>
        [\A g \in Generations : \A c \in Companies :
           LET old == routes[g][c]
               new == routes'[g][c]
           IN  old.review # "none" /\ new # old =>
                 /\ old.review = "suggested"
                 /\ new.review \in {"confirmed", "overridden"}
                 /\ new.recommended = old.recommended /\ new.from = old.from]_vars
  BY RoutesStep
<1>  QED
  BY InitOK, StepOK, <1>1, PTL DEF Spec, HistoryIsKept

\* A batch keeps the decided tier-A routes it was made of.
LEMMA BatchStep ==
  ASSUME RInv, BatchesAreDecided, [Next]_vars
  PROVE  BatchesAreDecided'
<1>1. ASSUME NEW g \in Generations, NEW c \in Companies, Admissible(routes[g][c])
      PROVE  Admissible(routes[g][c])'
  <2>1. CASE routes'[g][c] = routes[g][c]
    BY <1>1, <2>1 DEF Admissible
  <2>2. CASE routes'[g][c] # routes[g][c]
    <3>1. routes[g][c].review = "suggested"
      BY <1>1, <2>2, RoutesStep DEF Admissible
    <3>  QED
      BY <1>1, <3>1 DEF Admissible
  <2>  QED
    BY <2>1, <2>2
<1>2. ASSUME NEW b \in batches', b \notin batches, NEW c \in b.companies
      PROVE  b.generation \in Generations /\ c \in Companies
               /\ Admissible(routes[b.generation][c])
  <2>1. PICK k \in Clients : CreateBatch(k)
    BY <1>2 DEF Next, vars, Serve, Work, ChangeEntities, LeaseTick, ReadSources,
       Ask, SubmitReuse, SubmitGeneration, DecideReview, RefuseReview, OpenBatch,
       RefuseBatch, OpenReview, RecoverStale, Claim, ClaimNothing, StartJob,
       BeginRun, ReadRun, Beat, PersistRoutes, CompleteJob, RecordFailure,
       Restart, Raise, Crash, outside
  <2>2. request[k].generation \in Generations
    BY <2>1 DEF CreateBatch, RInv, RequestsOK
  <2>  QED
    BY <1>2, <2>1, <2>2 DEF CreateBatch
<1>3. ASSUME NEW b \in batches, NEW c \in b.companies
      PROVE  b.generation \in Generations /\ c \in Companies
               /\ Admissible(routes[b.generation][c])
  BY <1>3 DEF RInv, TypeOK, BatchesAreDecided
<1>4. ASSUME NEW b \in batches', NEW c \in b.companies
      PROVE  Admissible(routes[b.generation][c])'
  BY <1>1, <1>2, <1>3, <1>4
<1>  QED
  BY <1>4 DEF BatchesAreDecided

THEOREM BatchesStayDecided == Spec => []BatchesAreDecided
<1>1. Init => BatchesAreDecided
  BY DEF Init, BatchesAreDecided
<1>2. RInv /\ BatchesAreDecided /\ [Next]_vars => BatchesAreDecided'
  BY BatchStep
<1>  QED
  BY InitOK, StepOK, <1>1, <1>2, PTL DEF Spec

\* What a worker read still holds when it writes: nobody else starts a run.
ReadOK ==
  \A w \in Workers :
    pc[w] \in {"beat", "persist"} /\ run.status = "running"
      => me[w].generation = run.generation

OneWorker == \A v, w \in Workers : v = w

LEMMA CurrentStep ==
  ASSUME OneWorker, RInv, ReadOK, CompletedIsCurrent, [Next]_vars
  PROVE  ReadOK' /\ CompletedIsCurrent'
<1>0. /\ run \in Runs /\ pc \in [Workers -> Labels] /\ me \in [Workers -> Locals]
      /\ routes \in [Generations -> [Companies -> Routes]]
      /\ run.status \in Done => run.generation \in Generations
  BY DEF RInv, TypeOK, JobsFit, Runs, Generations, Done
<1>1. CASE \E w \in Workers : PersistRoutes(w)
  <2>1. PICK w \in Workers : PersistRoutes(w)
    BY <1>1
  <2>2. CASE pc' = [pc EXCEPT ![w] = "failing"] /\ UNCHANGED <<run, routes, me>>
    BY <1>0, <2>2 DEF ReadOK, CompletedIsCurrent
  <2>3. CASE \E scored \in Scored(me[w].state) :
               /\ run.status = "running"
               /\ routes' = [routes EXCEPT ![me[w].generation] = scored]
               /\ run' = Finished(scored, me[w].state)
    <3>1. PICK scored \in Scored(me[w].state) :
               /\ run.status = "running"
               /\ routes' = [routes EXCEPT ![me[w].generation] = scored]
               /\ run' = Finished(scored, me[w].state)
      BY <2>3
    <3>2. /\ me[w].state \in States /\ me[w].generation \in Generations
          /\ me[w].generation = run.generation
      BY <1>0, <2>1, <3>1 DEF PersistRoutes, Locals, RInv, WorkersOK, ReadOK
    <3>3. /\ run'.status \in Done /\ run'.generation = run.generation
          /\ run'.state = me[w].state
      BY <1>0, <3>1, <3>2, FinishedType
    <3>4. routes'[run.generation] = scored
      BY <1>0, <3>1, <3>2
    <3>5. \A c \in Companies : scored[c].review # "none" /\ scored[c].from = me[w].state
      BY <3>2, ScoredType
    <3>6. CompletedIsCurrent'
      BY <3>3, <3>4, <3>5 DEF CompletedIsCurrent
    <3>7. ReadOK'
      BY <3>3 DEF ReadOK, Done
    <3>  QED
      BY <3>6, <3>7
  <2>  QED
    BY <2>1, <2>2, <2>3 DEF PersistRoutes, Throw, GoTo, ExecuteSteps
<1>2. CASE /\ UNCHANGED <<run, pc, me>>
           /\ \A g \in Generations : \A c \in Companies :
                routes[g][c].review # "none" =>
                  routes'[g][c].review # "none" /\ routes'[g][c].from = routes[g][c].from
  <2>1. ReadOK'
    BY <1>2 DEF ReadOK
  <2>2. CompletedIsCurrent'
    BY <1>0, <1>2 DEF CompletedIsCurrent
  <2>  QED
    BY <2>1, <2>2
<1>3. CASE UNCHANGED <<routes, pc, me>> /\ \E k \in Clients : SubmitGeneration(k)
  <2>1. run'.status = "pending"
    BY <1>3 DEF SubmitGeneration, Reset
  <2>  QED
    BY <2>1 DEF ReadOK, CompletedIsCurrent, Done
<1>4. CASE \E w \in Workers : /\ pc'[w] \notin {"beat", "persist"}
                              /\ UNCHANGED routes
                              /\ run'.status \in Done => run' = run
  <2>1. ReadOK'
    BY <1>4 DEF ReadOK, OneWorker
  <2>2. CompletedIsCurrent'
    BY <1>4 DEF CompletedIsCurrent
  <2>  QED
    BY <2>1, <2>2
<1>5. ASSUME NEW w \in Workers,
             \/ RecoverStale(w) \/ Claim(w) \/ ClaimNothing(w) \/ StartJob(w)
             \/ BeginRun(w) \/ CompleteJob(w) \/ RecordFailure(w) \/ Restart(w)
             \/ Raise(w) \/ Crash(w)
      PROVE  /\ pc'[w] \notin {"beat", "persist"}
             /\ UNCHANGED routes
             /\ run'.status \in Done => run' = run
  <2>1. /\ UNCHANGED routes
        /\ \E label \in Labels \ {"beat", "persist"} : pc' = [pc EXCEPT ![w] = label]
    BY <1>5 DEF RecoverStale, Claim, ClaimNothing, StartJob, BeginRun,
       CompleteJob, RecordFailure, Restart, Raise, Crash, Throw, GoTo, Leave, Labels
  <2>2. \/ run' = run \/ run' = Paused \/ run' = Failed \/ run'.status \notin Done
        \/ run' = [run EXCEPT !.status = run.status]
    <3>1. CASE BeginRun(w)
      <4>1. CASE run.status \in Done
        BY <3>1, <4>1 DEF BeginRun, Done
      <4>2. CASE run.status \notin Done
        BY <1>0, <3>1, <4>2 DEF BeginRun, Runs, Done
      <4>  QED
        BY <4>1, <4>2
    <3>2. CASE ~BeginRun(w)
      BY <1>5, <3>2 DEF RecoverStale, Claim, ClaimNothing, StartJob,
         CompleteJob, RecordFailure, Restart, Raise, Crash
    <3>  QED
      BY <3>1, <3>2
  <2>3. Paused.status \in Done => Paused = run
    BY <1>0 DEF Paused, Runs, Done
  <2>4. Failed.status \notin Done /\ [run EXCEPT !.status = run.status] = run
    BY <1>0, RunMethods DEF Done, Runs
  <2>  QED
    BY <1>0, <2>1, <2>2, <2>3, <2>4
<1>6. ASSUME NEW w \in Workers, ReadRun(w)
      PROVE  ReadOK' /\ CompletedIsCurrent'
  <2>1. me'[w].generation = run.generation /\ UNCHANGED <<run, routes>>
    BY <1>0, <1>6 DEF ReadRun, Locals
  <2>  QED
    BY <2>1 DEF ReadOK, CompletedIsCurrent, OneWorker
<1>7. ASSUME NEW w \in Workers, Beat(w)
      PROVE  ReadOK' /\ CompletedIsCurrent'
  <2>1. UNCHANGED <<run, routes, me>> /\ pc[w] = "beat"
    BY <1>7 DEF Beat, Throw, GoTo, ExecuteSteps
  <2>2. ReadOK'
    BY <2>1 DEF ReadOK, OneWorker
  <2>  QED
    BY <2>1, <2>2 DEF CompletedIsCurrent
<1>8. ASSUME \/ ChangeEntities \/ LeaseTick \/ UNCHANGED vars
             \/ \E k \in Clients :
                  \/ ReadSources(k) \/ SubmitReuse(k) \/ DecideReview(k)
                  \/ RefuseReview(k) \/ OpenBatch(k) \/ CreateBatch(k)
                  \/ RefuseBatch(k) \/ \E c \in Companies : OpenReview(k, c)
      PROVE  ReadOK' /\ CompletedIsCurrent'
  <2>1. UNCHANGED <<run, pc, me>>
    BY <1>8 DEF ChangeEntities, LeaseTick, vars, ReadSources, Ask, SubmitReuse,
       DecideReview, RefuseReview, OpenBatch, CreateBatch, RefuseBatch, OpenReview
  <2>2. ASSUME NEW g \in Generations, NEW c \in Companies, routes[g][c].review # "none"
        PROVE  routes'[g][c].review # "none" /\ routes'[g][c].from = routes[g][c].from
    BY <2>2, RoutesStep
  <2>  QED
    BY <1>2, <2>1, <2>2
<1>9. ASSUME NEW k \in Clients, SubmitGeneration(k)
      PROVE  ReadOK' /\ CompletedIsCurrent'
  BY <1>3, <1>9 DEF SubmitGeneration
<1>  QED
  BY <1>1, <1>4, <1>5, <1>6, <1>7, <1>8, <1>9 DEF Next, Serve, Work

\* With the one worker of the deployment, a completed run shows the routes
\* of its current generation, computed from the entity state it records.
THEOREM CompletedRunsAreCurrent ==
  ASSUME OneWorker
  PROVE  Spec => []CompletedIsCurrent
<1>1. Init => ReadOK /\ CompletedIsCurrent
  BY DEF Init, ReadOK, CompletedIsCurrent, Done
<1>2. RInv /\ ReadOK /\ CompletedIsCurrent /\ [Next]_vars
        => (ReadOK /\ CompletedIsCurrent)'
  BY CurrentStep
<1>  QED
  BY InitOK, StepOK, <1>1, <1>2, PTL DEF Spec

(***************************************************************************)
(* The run's jobs implement JobLease                                     *)
(***************************************************************************)
\* A step after which JobLease can tell no row from what it was.
LEMMA LeaseStutters ==
  ASSUME \A j \in 1 .. MaxGenerations : Alike(RowIn(jobs', j), RowIn(jobs, j))
  PROVE  UNCHANGED Lease!leaseVars
<1>1. /\ [j \in 1 .. MaxGenerations |-> PhaseOf(RowIn(jobs', j))]
           = [j \in 1 .. MaxGenerations |-> PhaseOf(RowIn(jobs, j))]
      /\ [j \in 1 .. MaxGenerations |-> RowIn(jobs', j).owner] = [j \in 1 .. MaxGenerations |-> RowIn(jobs, j).owner]
      /\ [j \in 1 .. MaxGenerations |-> RowIn(jobs', j).attempts]
           = [j \in 1 .. MaxGenerations |-> RowIn(jobs, j).attempts]
  BY DEF Alike
<1> QED  BY <1>1 DEF Lease!leaseVars

\* Jobs that are all let go make a Release.
LEMMA LeaseReleases ==
  ASSUME NEW S \in SUBSET (1 .. MaxGenerations),
         \A j \in S : LetGo(RowIn(jobs, j), RowIn(jobs', j)),
         \A j \in (1 .. MaxGenerations) \ S : RowIn(jobs', j) = RowIn(jobs, j)
  PROVE  Lease!Next
<1>1. PICK p \in [S -> {"waiting", "completed", "failed"}] :
        \A j \in S : p[j] = PhaseOf(RowIn(jobs', j))
  <2>1. [j \in S |-> PhaseOf(RowIn(jobs', j))] \in [S -> {"waiting", "completed", "failed"}]
    BY DEF LetGo
  <2> QED  BY <2>1
<1>2. ASSUME NEW j \in S
      PROVE  /\ PhaseOf(RowIn(jobs, j)) = "held"
             /\ p[j] = "waiting" => RowIn(jobs, j).attempts < MaxAttempts
             /\ p[j] = "failed" => RowIn(jobs, j).attempts = MaxAttempts
  BY <1>1 DEF LetGo
<1>3. /\ [j \in 1 .. MaxGenerations |-> PhaseOf(RowIn(jobs', j))]
           = [j \in 1 .. MaxGenerations |-> IF j \in S THEN p[j]
                ELSE [k \in 1 .. MaxGenerations |-> PhaseOf(RowIn(jobs, k))][j]]
      /\ [j \in 1 .. MaxGenerations |-> RowIn(jobs', j).owner]
           = [j \in 1 .. MaxGenerations |-> IF j \in S THEN NoOwner
                ELSE [k \in 1 .. MaxGenerations |-> RowIn(jobs, k).owner][j]]
      /\ [j \in 1 .. MaxGenerations |-> RowIn(jobs', j).attempts]
           = [j \in 1 .. MaxGenerations |-> RowIn(jobs, j).attempts]
  BY <1>1 DEF LetGo
<1>4. Lease!Release(S, p)  BY <1>2, <1>3 DEF Lease!Release
<1> QED  BY <1>4 DEF Lease!Next

\* The rows of the queue are typed and consistent.
LEMMA RowsAreOK ==
  ASSUME RInv
  PROVE  \A j \in DOMAIN jobs : RowOK(jobs[j])
BY DEF RInv, RowsOK, RowOK

\* The jobs are numbered from 1.
LEMMA JobNumbers ==
  ASSUME RInv
  PROVE  /\ jobs \in Seq(JobRows)
         /\ DOMAIN jobs = 1 .. Len(jobs) /\ Len(jobs) \in Nat
         /\ DOMAIN jobs \subseteq 1 .. MaxGenerations /\ MaxGenerations \in Nat
BY RoutingAssumption DEF RInv, TypeOK

\* A new value of one row, which JobLease does not see, or which is let go.
LEMMA LeaseOfRow ==
  ASSUME RInv, NEW j \in DOMAIN jobs, NEW row, jobs' = [jobs EXCEPT ![j] = row],
         Alike(row, jobs[j]) \/ LetGo(jobs[j], row)
  PROVE  Lease!Next \/ UNCHANGED Lease!leaseVars
<1>1. j \in 1 .. MaxGenerations /\ {j} \in SUBSET (1 .. MaxGenerations)  BY JobNumbers
<1>2. /\ RowIn(jobs, j) = jobs[j] /\ RowIn(jobs', j) = row
      /\ \A k \in (1 .. MaxGenerations) \ {j} : RowIn(jobs', k) = RowIn(jobs, k)
  BY DEF RowIn
<1>3. CASE Alike(row, jobs[j])
  <2>1. \A k \in 1 .. MaxGenerations : Alike(RowIn(jobs', k), RowIn(jobs, k))
    BY <1>2, <1>3 DEF Alike
  <2> QED  BY <2>1, LeaseStutters
<1>4. CASE LetGo(jobs[j], row)
  <2>1. \A k \in {j} : LetGo(RowIn(jobs, k), RowIn(jobs', k))  BY <1>2, <1>4
  <2> QED  BY <1>1, <1>2, <2>1, LeaseReleases
<1> QED  BY <1>3, <1>4

\* The step of a worker on a job of the queue: any other leaves the queue
\* alone.
LEMMA LeaseWork ==
  ASSUME RInv, NEW w \in Workers, Work(w) \/ Raise(w) \/ Crash(w)
  PROVE  Lease!Next \/ UNCHANGED Lease!leaseVars
<1>r. \A j \in DOMAIN jobs : RowOK(jobs[j])  BY RowsAreOK
<1>0. CASE jobs' = jobs
  BY <1>0, LeaseStutters DEF Alike
<1>1. CASE RecoverStale(w)
  <2>1. /\ \A j \in Stale : /\ j \in DOMAIN jobs /\ Held(jobs[j])
                            /\ jobs'[j] \in {Recovered(jobs[j]), Reconciled(jobs[j])}
        /\ DOMAIN jobs' = DOMAIN jobs
        /\ \A j \in DOMAIN jobs \ Stale : jobs'[j] = jobs[j]
    BY <1>1 DEF RecoverStale, RecoverAll, Stale, CanRecover
  <2>2. Stale \in SUBSET (1 .. MaxGenerations)  BY JobNumbers DEF Stale
  <2>3. \A j \in Stale : LetGo(jobs[j], jobs'[j])  BY <1>r, <2>1, LettingGo
  <2>4. /\ \A j \in Stale : LetGo(RowIn(jobs, j), RowIn(jobs', j))
        /\ \A j \in (1 .. MaxGenerations) \ Stale : RowIn(jobs', j) = RowIn(jobs, j)
    BY <2>1, <2>3 DEF RowIn
  <2> QED  BY <2>2, <2>4, LeaseReleases
<1>2. CASE Claim(w)
  <2>1. PICK j \in DOMAIN jobs : CanLease(jobs[j]) /\ jobs' = [jobs EXCEPT ![j] = Leased(@, w)]
    BY <1>2 DEF Claim
  <2>2. Handed(jobs[j], Leased(jobs[j], w), w)  BY <1>r, <2>1, HandingOut
  <2>3. /\ RowIn(jobs, j) = jobs[j] /\ RowIn(jobs', j) = Leased(jobs[j], w)
        /\ \A k \in (1 .. MaxGenerations) \ {j} : RowIn(jobs', k) = RowIn(jobs, k)
    BY <2>1 DEF RowIn
  <2>4. j \in 1 .. MaxGenerations  BY JobNumbers
  <2>5. /\ [k \in 1 .. MaxGenerations |-> PhaseOf(RowIn(jobs', k))]
             = [[k \in 1 .. MaxGenerations |-> PhaseOf(RowIn(jobs, k))] EXCEPT ![j] = "held"]
        /\ [k \in 1 .. MaxGenerations |-> RowIn(jobs', k).owner]
             = [[k \in 1 .. MaxGenerations |-> RowIn(jobs, k).owner] EXCEPT ![j] = w]
        /\ [k \in 1 .. MaxGenerations |-> RowIn(jobs', k).attempts]
             = [[k \in 1 .. MaxGenerations |-> RowIn(jobs, k).attempts] EXCEPT ![j] = @ + 1]
    BY <2>2, <2>3, <2>4 DEF Handed
  <2>6. Lease!Acquire(j, w)  BY <2>2, <2>3, <2>4, <2>5 DEF Lease!Acquire, Handed
  <2> QED  BY <2>4, <2>6 DEF Lease!Next
<1>3. CASE (StartJob(w) \/ Beat(w) \/ CompleteJob(w) \/ RecordFailure(w)) /\ jobs' # jobs
  <2>1. me[w].job \in DOMAIN jobs
    BY <1>3  DEF StartJob, Beat, CompleteJob, RecordFailure, RInv, WorkersOK
  <2>2. RowOK(Job(w)) /\ Job(w) = jobs[me[w].job]  BY <1>r, <2>1 DEF Job
  <2>3. CASE StartJob(w)
    <3>1. Job(w).status = "leased" /\ jobs' = [jobs EXCEPT ![me[w].job] = Started(Job(w))]
      BY <1>3, <2>3, <2>2 DEF StartJob, CanStart
    <3>2. Alike(Started(Job(w)), Job(w))  BY <2>2, <3>1, UnseenMethods
    <3> QED  BY <2>1, <2>2, <3>1, <3>2, LeaseOfRow
  <2>4. CASE Beat(w)
    <3>1. Held(Job(w)) /\ jobs' = [jobs EXCEPT ![me[w].job] = Renewed(Job(w))]
      BY <1>3, <2>4, <2>2 DEF Beat, Owns
    <3>2. Alike(Renewed(Job(w)), Job(w))  BY <2>2, <3>1, UnseenMethods
    <3> QED  BY <2>1, <2>2, <3>1, <3>2, LeaseOfRow
  <2>5. CASE CompleteJob(w)
    <3>1. Job(w).status # "completed"
      BY <1>3, <2>1, <2>5, <2>2, JobNumbers DEF CompleteJob
    <3>2. Held(Job(w)) /\ jobs' = [jobs EXCEPT ![me[w].job] = Completed(Job(w))]
      BY <1>3, <2>5, <2>2, <3>1 DEF CompleteJob, CanComplete, Owns
    <3>3. LetGo(Job(w), Completed(Job(w)))  BY <2>2, <3>2, LettingGo
    <3> QED  BY <2>1, <2>2, <3>2, <3>3, LeaseOfRow
  <2>6. CASE RecordFailure(w)
    <3>1. Held(Job(w)) /\ jobs' = [jobs EXCEPT ![me[w].job] = Retried(Job(w))]
      BY <1>3, <2>6, <2>2 DEF RecordFailure, Owns
    <3>2. LetGo(Job(w), Retried(Job(w)))  BY <2>2, <3>1, LettingGo
    <3> QED  BY <2>1, <2>2, <3>1, <3>2, LeaseOfRow
  <2> QED  BY <1>3, <2>3, <2>4, <2>5, <2>6
<1>4. \/ jobs' = jobs \/ RecoverStale(w) \/ Claim(w)
      \/ (StartJob(w) \/ Beat(w) \/ CompleteJob(w) \/ RecordFailure(w)) /\ jobs' # jobs
  BY DEF Work, ClaimNothing, BeginRun, ReadRun, PersistRoutes, Restart, Raise,
     Crash
<1> QED  BY <1>0, <1>1, <1>2, <1>3, <1>4

\* A client leaves the queue alone, or adds the job of a new generation.
LEMMA LeaseClients ==
  ASSUME RInv, NEW k \in Clients, Serve(k)
  PROVE  jobs' = jobs \/ (jobs' = Append(jobs, Created) /\ Len(jobs) < MaxGenerations)
<1>1. CASE SubmitGeneration(k)
  BY <1>1 DEF SubmitGeneration, RInv, JobsFit
<1>2. CASE ~SubmitGeneration(k)
  BY <1>2 DEF Serve, ReadSources, SubmitReuse, DecideReview, RefuseReview, OpenBatch, CreateBatch,
     RefuseBatch, OpenReview, Ask
<1> QED  BY <1>1, <1>2

\* Every step of the run is a step of JobLease or a stutter.
LEMMA LeaseStep == RInv /\ [Next]_vars => [Lease!Next]_(Lease!leaseVars)
<1> SUFFICES ASSUME RInv, [Next]_vars PROVE Lease!Next \/ UNCHANGED Lease!leaseVars
  OBVIOUS
<1>1. CASE jobs' = jobs
  BY <1>1, LeaseStutters DEF Alike
<1>2. CASE LeaseTick
  <2>1. \A j \in DOMAIN jobs : Alike(Aged(jobs[j]), jobs[j])
    BY RowsAreOK, UnseenMethods
  <2>2. \A j \in 1 .. MaxGenerations : Alike(RowIn(jobs', j), RowIn(jobs, j))
    BY <1>2, <2>1 DEF LeaseTick, RowIn, Alike
  <2> QED  BY <2>2, LeaseStutters
<1>3. CASE jobs' = Append(jobs, Created) /\ Len(jobs) < MaxGenerations
  <2> DEFINE n == Len(jobs) + 1
  <2>0. Created \in JobRows  BY CreatedOK DEF RowOK
  <2>1. /\ n \in 1 .. MaxGenerations /\ DOMAIN jobs = 1 .. Len(jobs) /\ Len(jobs) \in Nat
        /\ DOMAIN jobs' = 1 .. n /\ jobs'[n] = Created
        /\ \A j \in DOMAIN jobs : jobs'[j] = jobs[j]
    BY <1>3, <2>0, JobNumbers
  <2>2. /\ RowIn(jobs, n) = AbsentRow /\ RowIn(jobs', n) = Created
        /\ \A j \in (1 .. MaxGenerations) \ {n} : RowIn(jobs', j) = RowIn(jobs, j)
    BY <2>1 DEF RowIn
  <2>3. n \in 1 .. MaxGenerations  BY <2>1
  <2> HIDE DEF n
  <2>4. /\ AbsentRow.status = "absent" /\ Created.status = "pending"
        /\ Created.owner = AbsentRow.owner /\ Created.attempts = AbsentRow.attempts
    BY DEF AbsentRow, Created
  <2>5. PhaseOf(AbsentRow) = "absent" /\ PhaseOf(Created) = "waiting"
    BY <2>4, Phases
  <2>6. \A j \in 1 .. MaxGenerations :
          /\ PhaseOf(RowIn(jobs', j)) = IF j = n THEN "waiting" ELSE PhaseOf(RowIn(jobs, j))
          /\ RowIn(jobs', j).owner = RowIn(jobs, j).owner
          /\ RowIn(jobs', j).attempts = RowIn(jobs, j).attempts
    BY <2>2, <2>4, <2>5
  <2>7. /\ [j \in 1 .. MaxGenerations |-> PhaseOf(RowIn(jobs', j))]
             = [[j \in 1 .. MaxGenerations |-> PhaseOf(RowIn(jobs, j))] EXCEPT ![n] = "waiting"]
        /\ [j \in 1 .. MaxGenerations |-> RowIn(jobs', j).owner]
             = [j \in 1 .. MaxGenerations |-> RowIn(jobs, j).owner]
        /\ [j \in 1 .. MaxGenerations |-> RowIn(jobs', j).attempts]
             = [j \in 1 .. MaxGenerations |-> RowIn(jobs, j).attempts]
    BY <2>3, <2>6
  <2>8. Lease!Enqueue(n)  BY <2>2, <2>3, <2>5, <2>7 DEF Lease!Enqueue
  <2> QED  BY <2>3, <2>8 DEF Lease!Next
<1>4. CASE \E w \in Workers : Work(w) \/ Raise(w) \/ Crash(w)
  BY <1>4, LeaseWork
<1>5. \/ jobs' = jobs \/ LeaseTick \/ (jobs' = Append(jobs, Created) /\ Len(jobs) < MaxGenerations)
      \/ \E w \in Workers : Work(w) \/ Raise(w) \/ Crash(w)
  BY LeaseClients DEF Next, vars, ChangeEntities
<1> QED  BY <1>1, <1>2, <1>3, <1>4, <1>5

\* The run's jobs keep the promises of JobLease, for any number of
\* generations and workers: one holder at a time, at most MaxAttempts
\* attempts, failure only after the last of them, and no life after the end,
\* though a worker computes whichever generation is current.
THEOREM RoutingImplementsJobLease == Spec => ImplementsJobLease
<1>1. Init => Lease!Init
  <2>1. ASSUME Init, NEW j \in 1 .. MaxGenerations PROVE RowIn(jobs, j) = AbsentRow
    BY <2>1 DEF Init, RowIn
  <2>2. /\ PhaseOf(AbsentRow) = "absent" /\ AbsentRow.owner = NoOwner /\ AbsentRow.attempts = 0
    BY Phases DEF AbsentRow
  <2> QED  BY <2>1, <2>2 DEF Lease!Init
<1> QED  BY <1>1, InitOK, StepOK, LeaseStep, PTL DEF Spec, ImplementsJobLease, Lease!Spec

(***************************************************************************)
(* Routing score                                                           *)
(***************************************************************************)

\* Rows, contacts and the profile are of the kinds that may become known.
KInv ==
  /\ rows \in Seq(RowKinds)
  /\ contacts \subseteq ContactKinds /\ IsFiniteSet(contacts)
  /\ profile \in [website : BOOLEAN, domain : BOOLEAN, type : {Missing, "importer"}]

\* Nothing that was known is forgotten.
NothingForgotten ==
  /\ \A i \in DOMAIN rows : \E j \in DOMAIN rows' : rows'[j] = rows[i]
  /\ contacts \subseteq contacts'
  /\ profile.website => profile'.website
  /\ profile.domain => profile'.domain
  /\ profile.type # Missing => profile'.type = profile.type

\* Initially nothing is known.
LEMMA KnownInitOK == KnownInit => KInv
<1> SUFFICES ASSUME KnownInit PROVE KInv
  OBVIOUS
<1>1. <<>> \in Seq(RowKinds)
  BY EmptySeq
<1>2. IsFiniteSet({})
  BY FS_EmptySet
<1>  QED
  BY <1>1, <1>2 DEF KnownInit, KInv

\* A row that is inserted leaves the others there.
LEMMA InsertedRow ==
  ASSUME NEW S, NEW s \in Seq(S), NEW i \in 1 .. Len(s) + 1, NEW e \in S
  PROVE  /\ InsertAt(s, i, e) \in Seq(S)
         /\ \A k \in DOMAIN s : \E j \in DOMAIN InsertAt(s, i, e) : InsertAt(s, i, e)[j] = s[k]
<1>1. Len(s) \in Nat /\ DOMAIN s = 1 .. Len(s) /\ \A k \in 1 .. Len(s) : s[k] \in S
  BY LenProperties, ElementOfSeq
<1>2. PICK n : n = Len(s)
  OBVIOUS
<1>3. n \in Nat /\ i \in 1 .. n + 1 /\ DOMAIN s = 1 .. n /\ \A k \in 1 .. n : s[k] \in S
  BY <1>1, <1>2
<1>4. PICK a, b, c : a = SubSeq(s, 1, i - 1) /\ b = <<e>> /\ c = SubSeq(s, i, n)
  OBVIOUS
<1>5. /\ a \in Seq(S) /\ Len(a) = i - 1 /\ \A k \in 1 .. i - 1 : a[k] = s[k]
  <2>1. \A k \in 1 .. i - 1 : s[k] \in S
    BY <1>3
  <2>2. 1 \in Int /\ i - 1 \in Int
    BY <1>3
  <2>3. /\ SubSeq(s, 1, i - 1) \in Seq(S)
        /\ Len(SubSeq(s, 1, i - 1)) = IF 1 <= i - 1 THEN i - 1 - 1 + 1 ELSE 0
        /\ \A k \in 1 .. i - 1 - 1 + 1 : SubSeq(s, 1, i - 1)[k] = s[1 + k - 1]
    BY <2>1, <2>2, SubSeqProperties
  <2>4. Len(a) = IF 1 <= i - 1 THEN i - 1 - 1 + 1 ELSE 0
    BY <2>3, <1>4
  <2>5. Len(a) = i - 1
    BY <2>4, <1>3
  <2>6. \A k \in 1 .. i - 1 : k \in 1 .. i - 1 - 1 + 1 /\ 1 + k - 1 = k
    BY <1>3
  <2>  QED
    BY <2>3, <2>5, <2>6, <1>4
<1>6. /\ c \in Seq(S) /\ Len(c) = n - i + 1
      /\ \A k \in i .. n : k - i + 1 \in 1 .. Len(c) /\ c[k - i + 1] = s[k]
  <2>1. \A k \in i .. n : s[k] \in S
    BY <1>3
  <2>2. i \in Int /\ n \in Int
    BY <1>3
  <2>3. /\ SubSeq(s, i, n) \in Seq(S)
        /\ Len(SubSeq(s, i, n)) = IF i <= n THEN n - i + 1 ELSE 0
        /\ \A k \in 1 .. n - i + 1 : SubSeq(s, i, n)[k] = s[i + k - 1]
    BY <2>1, <2>2, SubSeqProperties
  <2>4. Len(c) = IF i <= n THEN n - i + 1 ELSE 0
    BY <2>3, <1>4
  <2>5. Len(c) = n - i + 1
    BY <2>4, <1>3
  <2>6. \A k \in i .. n : k - i + 1 \in 1 .. n - i + 1 /\ i + (k - i + 1) - 1 = k
    BY <1>3
  <2>  QED
    BY <2>3, <2>5, <2>6, <1>4
<1>7. b \in Seq(S) /\ Len(b) = 1
  BY <1>4
<1>8. /\ a \o b \in Seq(S) /\ Len(a \o b) = i
      /\ \A k \in 1 .. i - 1 : (a \o b)[k] = a[k]
  <2>1. /\ a \o b \in Seq(S) /\ Len(a \o b) = Len(a) + Len(b)
        /\ \A k \in 1 .. Len(a) + Len(b) :
             (a \o b)[k] = IF k <= Len(a) THEN a[k] ELSE b[k - Len(a)]
    BY <1>5, <1>7, ConcatProperties
  <2>  QED
    BY <2>1, <1>3, <1>5, <1>7
<1>9. PICK ab : ab = a \o b
  OBVIOUS
<1>10. /\ ab \o c \in Seq(S) /\ Len(ab \o c) = n + 1
       /\ \A k \in 1 .. i : (ab \o c)[k] = ab[k]
       /\ \A k \in 1 .. n - i + 1 : (ab \o c)[k + i] = c[k]
  <2>0. ab \in Seq(S) /\ Len(ab) = i /\ c \in Seq(S) /\ Len(c) = n - i + 1
    BY <1>6, <1>8, <1>9
  <2>1. /\ ab \o c \in Seq(S) /\ Len(ab \o c) = Len(ab) + Len(c)
        /\ \A k \in 1 .. Len(ab) + Len(c) :
             (ab \o c)[k] = IF k <= Len(ab) THEN ab[k] ELSE c[k - Len(ab)]
    BY <2>0, ConcatProperties
  <2>2. \A k \in 1 .. n - i + 1 : k + i \in 1 .. i + (n - i + 1) /\ ~(k + i <= i) /\ k + i - i = k
    BY <1>3
  <2>3. \A k \in 1 .. i : k \in 1 .. i + (n - i + 1) /\ k <= i
    BY <1>3
  <2>4. i + (n - i + 1) = n + 1
    BY <1>3
  <2>  QED
    BY <2>0, <2>1, <2>2, <2>3, <2>4
<1>11. PICK t : t = ab \o c
  OBVIOUS
<1>12. t = InsertAt(s, i, e)
  BY <1>2, <1>4, <1>9, <1>11 DEF InsertAt
<1>13. t \in Seq(S) /\ DOMAIN t = 1 .. n + 1
  BY <1>10, <1>11, LenProperties
<1>14. ASSUME NEW k \in 1 .. n PROVE \E j \in 1 .. n + 1 : t[j] = s[k]
  <2>1. CASE k < i
    <3>1. k \in 1 .. i /\ k \in 1 .. i - 1 /\ k \in 1 .. n + 1
      BY <2>1, <1>3
    <3>2. t[k] = ab[k] /\ ab[k] = a[k] /\ a[k] = s[k]
      BY <3>1, <1>5, <1>8, <1>9, <1>10, <1>11
    <3>  QED
      BY <3>1, <3>2
  <2>2. CASE i <= k
    <3>1. k \in i .. n /\ k - i + 1 \in 1 .. n - i + 1 /\ k - i + 1 + i = k + 1
          /\ k + 1 \in 1 .. n + 1
      BY <2>2, <1>3
    <3>2. c[k - i + 1] = s[k]
      BY <3>1, <1>6
    <3>3. t[k - i + 1 + i] = c[k - i + 1]
      BY <3>1, <1>10, <1>11
    <3>  QED
      BY <3>1, <3>2, <3>3
  <2>  QED
    BY <2>1, <2>2, <1>3
<1>  QED
  BY <1>3, <1>12, <1>13, <1>14

\* What is known stays known, and stays of its kind.
LEMMA KnownStepOK ==
  ASSUME KInv, [KnownNext]_knownVars
  PROVE  KInv' /\ NothingForgotten
<1>1. CASE ResolveRow
  <2>1. PICK row \in RowKinds, i \in 1 .. Len(rows) + 1 : rows' = InsertAt(rows, i, row)
    BY <1>1 DEF ResolveRow
  <2>2. /\ rows' \in Seq(RowKinds)
        /\ \A k \in DOMAIN rows : \E j \in DOMAIN rows' : rows'[j] = rows[k]
    BY <2>1, InsertedRow DEF KInv
  <2>  QED
    BY <1>1, <2>2 DEF ResolveRow, KInv, NothingForgotten
<1>2. CASE FindContact
  <2>1. PICK c \in ContactKinds : contacts' = contacts \union {c}
    BY <1>2 DEF FindContact
  <2>2. IsFiniteSet(contacts')
    BY <2>1, FS_AddElement DEF KInv
  <2>  QED
    BY <1>2, <2>1, <2>2 DEF FindContact, KInv, NothingForgotten
<1>3. CASE Enrich
  BY <1>3 DEF Enrich, KInv, NothingForgotten
<1>4. CASE Dispute
  BY <1>4 DEF Dispute, KInv, NothingForgotten
<1>5. CASE UNCHANGED knownVars
  BY <1>5 DEF knownVars, KInv, NothingForgotten
<1>  QED
  BY <1>1, <1>2, <1>3, <1>4, <1>5 DEF KnownNext

\* KInv is an invariant.
LEMMA KnownInvariant == KnownSpec => []KInv
<1>1. KInv /\ [KnownNext]_knownVars => KInv'
  BY KnownStepOK
<1>  QED
  BY <1>1, KnownInitOK, PTL DEF KnownSpec

\* There are units, and as many as there are criteria of either kind.
LEMMA UnitIs ==
  /\ Unit \in Nat /\ Unit > 0
  /\ Cardinality(Keywords) <= Unit /\ Cardinality(Codes) <= Unit
<1>1. PICK k, c : k = Parts(Keywords) /\ c = Parts(Codes)
  OBVIOUS
<1>2. \A S : IsFiniteSet(S) => /\ Parts(S) \in Nat /\ Parts(S) > 0
                              /\ Cardinality(S) \in Nat /\ Cardinality(S) <= Parts(S)
  <2> SUFFICES ASSUME NEW S, IsFiniteSet(S)
               PROVE  /\ Parts(S) \in Nat /\ Parts(S) > 0
                      /\ Cardinality(S) \in Nat /\ Cardinality(S) <= Parts(S)
    OBVIOUS
  <2>1. Cardinality(S) \in Nat /\ (Cardinality(S) = 0 <=> S = {})
    BY FS_CardinalityType, FS_EmptySet
  <2>  QED
    BY <2>1 DEF Parts
<1>3. /\ k \in Nat /\ k > 0 /\ Cardinality(Keywords) \in Nat /\ Cardinality(Keywords) <= k
      /\ c \in Nat /\ c > 0 /\ Cardinality(Codes) \in Nat /\ Cardinality(Codes) <= c
  BY <1>1, <1>2, ScoreAssumption
<1>4. PICK p : p = k * c
  OBVIOUS
<1>5. p \in Nat /\ p >= k /\ p >= c /\ p > 0
  BY <1>3, <1>4
<1>6. Unit = 420 * p
  BY <1>1, <1>3, <1>4 DEF Unit
<1>  QED
  BY <1>3, <1>5, <1>6

\* A share grows with the parts that are there, and is nothing only if none is.
LEMMA RatioGrows ==
  ASSUME NEW n \in Nat, NEW m \in Nat, NEW d \in Nat, n <= m
  PROVE  /\ Ratio(n, d) \in Nat /\ Ratio(n, d) <= Ratio(m, d)
         /\ d <= Unit /\ Ratio(n, d) = 0 => n = 0 \/ d = 0
<1>1. CASE d = 0
  BY <1>1 DEF Ratio
<1>2. CASE d # 0
  <2>1. PICK a, b, u, p : a = Lesser(n, d) /\ b = Lesser(m, d) /\ u = Unit /\ p = u \div d
    OBVIOUS
  <2>2. a \in Nat /\ b \in Nat /\ a <= b /\ (a = 0 => n = 0)
    BY <1>2, <2>1 DEF Lesser
  <2>3. u \in Nat /\ d > 0
    BY <1>2, <2>1, UnitIs
  <2>4. p \in Nat
    BY <2>1, <2>3
  <2>5. d <= u => p >= 1
    BY <2>1, <2>3
  <2>6. a * p \in Nat /\ a * p <= b * p
    BY <2>2, <2>4
  <2>7. p >= 1 /\ a * p = 0 => a = 0
    BY <2>2, <2>4
  <2>8. Ratio(n, d) = a * p /\ Ratio(m, d) = b * p
    BY <1>2, <2>1 DEF Ratio
  <2>  QED
    BY <2>1, <2>2, <2>5, <2>6, <2>7, <2>8
<1>  QED
  BY <1>1, <1>2

\* A ratio of the criteria is nothing only if none of them is met.
LEMMA NoneIsMet ==
  ASSUME NEW wanted, IsFiniteSet(wanted), Cardinality(wanted) <= Unit, NEW found,
         Ratio(Cardinality(wanted \intersect found), Cardinality(wanted)) = 0
  PROVE  wanted \intersect found = {}
<1>1. /\ IsFiniteSet(wanted \intersect found)
      /\ Cardinality(wanted) \in Nat /\ Cardinality(wanted \intersect found) \in Nat
      /\ Cardinality(wanted \intersect found) <= Cardinality(wanted)
  BY FS_Intersection, FS_CardinalityType
<1>2. PICK n, d : n = Cardinality(wanted \intersect found) /\ d = Cardinality(wanted)
  OBVIOUS
<1>3. n \in Nat /\ d \in Nat /\ n <= d /\ d <= Unit /\ Ratio(n, d) = 0
  BY <1>1, <1>2
<1>4. n = 0 \/ d = 0
  <2>1. n <= n
    BY <1>3
  <2>2. d <= Unit /\ Ratio(n, d) = 0 => n = 0 \/ d = 0
    BY <1>3, <2>1, RatioGrows
  <2>  QED
    BY <2>2, <1>3
<1>5. n = 0
  BY <1>3, <1>4
<1>  QED
  BY <1>1, <1>2, <1>5, FS_EmptySet

\* TiersAreJustified needs only that rows and profile say what they may.
LEMMA JustifiedTiers == KInv => TiersAreJustified
<1> SUFFICES ASSUME KInv PROVE TiersAreJustified
  OBVIOUS
<1>1. /\ \A i \in DOMAIN rows : rows[i] \in RowType
      /\ Missing \notin Places
  BY ScoreAssumption, LenProperties, ElementOfSeq DEF KInv
<1> DEFINE Intermediary == \E t \in CompanyTypes : t \notin {"importer"}
           Described(i) == rows[i].product # Missing \/ rows[i].hs # Missing
           Wanting(i) == \/ rows[i].product # Missing /\ rows[i].product \intersect Keywords # {}
                         \/ rows[i].hs # Missing /\ rows[i].hs \intersect Codes # {}
<1>2. StrongExclusion => Intermediary
  <2>1. ASSUME Cardinality(Signals) >= 2 PROVE Intermediary
    <3>1. Signals # {}
      BY <2>1, FS_EmptySet
    <3>  QED
      BY <3>1 DEF Signals
  <2>  QED
    BY <2>1 DEF StrongExclusion
<1>3. /\ \A w : w \in UNION Products <=>
                 \E i \in DOMAIN rows : rows[i].product # Missing /\ w \in rows[i].product
      /\ \A w : w \in UNION HsCodes <=>
                 \E i \in DOMAIN rows : rows[i].hs # Missing /\ w \in rows[i].hs
  BY DEF Products, HsCodes, Said
<1>4. CostlyTiersAreOnTarget
  <2>1. TierV11 \in {"A", "B"} => TaxonomyTarget
    BY DEF TierV11
  <2>  QED
    BY <2>1, <1>3 DEF TaxonomyTarget, CostlyTiersAreOnTarget
<1>5. ASSUME TierV11 = "D"
      PROVE  \/ Intermediary
             \/ \E i \in DOMAIN rows :
                  \/ rows[i].product # Missing /\ rows[i].product \intersect OtherWords # {}
                  \/ rows[i].hs # Missing /\ rows[i].hs \intersect OtherCodes # {}
                  \/ /\ rows[i].importer \in {"asia", "europe"}
                     /\ \A j \in DOMAIN rows : rows[j].importer # "us"
  <2>1. HardExclusion
    BY <1>5 DEF TierV11
  <2>2. CASE Importers # {} /\ "us" \notin Importers
    <3>1. PICK i \in DOMAIN rows : rows[i].importer # Missing
      BY <2>2 DEF Importers, Said
    <3>2. ASSUME NEW j \in DOMAIN rows, rows[j].importer = "us" PROVE FALSE
      <4>1. "us" # Missing
        BY <1>1 DEF Places
      <4>2. rows[j].importer \in Importers
        BY <3>2, <4>1 DEF Importers, Said
      <4>  QED
        BY <2>2, <3>2, <4>2
    <3>3. rows[i].importer \in {"asia", "europe"}
      BY <3>1, <3>2, <1>1 DEF RowType, Regions, Places
    <3>  QED
      BY <3>2, <3>3
  <2>3. CASE TaxonomyOther
    BY <2>3, <1>3 DEF TaxonomyOther
  <2>  QED
    BY <2>1, <2>2, <2>3, <1>2 DEF HardExclusion
<1>6. ASSUME TierV1 = "D", PreScoreV1 >= 3000
      PROVE  \/ Intermediary
             \/ (\E i \in DOMAIN rows : Described(i)) /\ ~\E i \in DOMAIN rows : Wanting(i)
  <2>1. StrongExclusion \/ ExplicitMismatch
    BY <1>6 DEF TierV1
  <2>2. ASSUME ExplicitMismatch
        PROVE  (\E i \in DOMAIN rows : Described(i)) /\ ~\E i \in DOMAIN rows : Wanting(i)
    <3>1. \/ Keywords # {} /\ Products # {}
          \/ Codes # {} /\ HsCodes # {}
      BY <2>2 DEF ExplicitMismatch
    <3>2. \E i \in DOMAIN rows : Described(i)
      BY <3>1 DEF Products, HsCodes, Said
    <3>3. Keywords # {} /\ Products # {} => Keywords \intersect UNION Products = {}
      BY <2>2, NoneIsMet, UnitIs, ScoreAssumption DEF ExplicitMismatch, ProductRatio
    <3>4. Codes # {} /\ HsCodes # {} => Codes \intersect UNION HsCodes = {}
      BY <2>2, NoneIsMet, UnitIs, ScoreAssumption DEF ExplicitMismatch, HsRatio
    <3>5. ASSUME NEW i \in DOMAIN rows, Wanting(i) PROVE FALSE
      <4>1. CASE rows[i].product # Missing /\ rows[i].product \intersect Keywords # {}
        <5>1. Products # {}
          BY <4>1 DEF Products, Said
        <5>  QED
          BY <4>1, <5>1, <3>3, <1>3
      <4>2. CASE rows[i].hs # Missing /\ rows[i].hs \intersect Codes # {}
        <5>1. HsCodes # {}
          BY <4>2 DEF HsCodes, Said
        <5>  QED
          BY <4>2, <5>1, <3>4, <1>3
      <4>  QED
        BY <3>5, <4>1, <4>2
    <3>  QED
      BY <3>2, <3>5
  <2>  QED
    BY <2>1, <2>2, <1>2
<1>7. ExclusionHasEvidence
  BY <1>5, <1>6 DEF ExclusionHasEvidence
<1>  QED
  BY <1>4, <1>7 DEF TiersAreJustified

\* Whatever becomes known of a company, the tiers that exclude and the tiers
\* that cost are justified by a row or by its types (scorer.py).
THEOREM TiersAreJustifiedHolds == KnownSpec => []TiersAreJustified
  BY KnownInvariant, JustifiedTiers, PTL

\* What is said, and who is known, only grows.
LEMMA MoreIsKnown ==
  ASSUME KInv, NothingForgotten
  PROVE  /\ Products \subseteq Products' /\ HsCodes \subseteq HsCodes' /\ Origins \subseteq Origins'
         /\ HasSupplier => HasSupplier'
         /\ HasLastImport => HasLastImport'
         /\ Eligible \subseteq Eligible' /\ Emails \subseteq Emails' /\ Persons \subseteq Persons'
         /\ Preferred(Persons) \subseteq Preferred(Persons)'
         /\ HasSite => HasSite'
<1>1. /\ \A i \in DOMAIN rows : \E j \in DOMAIN rows' : rows'[j] = rows[i]
      /\ contacts \subseteq contacts'
  BY DEF NothingForgotten
<1>2. Products \subseteq Products' /\ HsCodes \subseteq HsCodes' /\ Origins \subseteq Origins'
  BY <1>1 DEF Products, HsCodes, Origins, Said
<1>3. (HasSupplier => HasSupplier') /\ (HasLastImport => HasLastImport')
  BY <1>1 DEF HasSupplier, HasLastImport
<1>4. Eligible \subseteq Eligible' /\ Emails \subseteq Emails' /\ Persons \subseteq Persons'
  BY <1>1 DEF Eligible, Emails, Persons
<1>5. Preferred(Persons) \subseteq Preferred(Persons)'
  BY <1>4 DEF Preferred
<1>6. HasSite => HasSite'
  BY DEF HasSite, NothingForgotten
<1>  QED
  BY <1>2, <1>3, <1>4, <1>5, <1>6

\* More flags that are up are more flags.
LEMMA CountGrows ==
  ASSUME NEW n \in Nat, NEW f, NEW g, DOMAIN f = 1 .. n, DOMAIN g = 1 .. n,
         \A i \in 1 .. n : f[i] => g[i]
  PROVE  Count(f) \in Nat /\ Count(g) \in Nat /\ Count(f) <= Count(g)
<1>1. IsFiniteSet(1 .. n)
  BY FS_Interval
<1>2. PICK S, T : S = {i \in 1 .. n : f[i]} /\ T = {i \in 1 .. n : g[i]}
  OBVIOUS
<1>3. S \in SUBSET T /\ T \in SUBSET (1 .. n)
  BY <1>2
<1>4. IsFiniteSet(T) /\ IsFiniteSet(S) /\ Cardinality(S) <= Cardinality(T)
  BY <1>1, <1>3, FS_Subset
<1>5. Cardinality(S) \in Nat /\ Cardinality(T) \in Nat
  BY <1>4, FS_CardinalityType
<1>6. Count(f) = Cardinality(S) /\ Count(g) = Cardinality(T)
  BY <1>2 DEF Count
<1>  QED
  BY <1>4, <1>5, <1>6

\* A ratio of the criteria grows with what is found.
LEMMA MetGrows ==
  ASSUME NEW wanted, IsFiniteSet(wanted), NEW found, NEW more, found \subseteq more
  PROVE  LET d == Cardinality(wanted)
             few == Ratio(Cardinality(wanted \intersect found), d)
             many == Ratio(Cardinality(wanted \intersect more), d)
         IN  few \in Nat /\ many \in Nat /\ few <= many
<1>1. PICK S, T : S = wanted \intersect found /\ T = wanted \intersect more
  OBVIOUS
<1>2. S \in SUBSET T /\ T \in SUBSET wanted
  BY <1>1
<1>3. IsFiniteSet(T) /\ IsFiniteSet(S) /\ Cardinality(S) <= Cardinality(T)
  BY <1>2, FS_Subset
<1>4. PICK n, m, d : n = Cardinality(S) /\ m = Cardinality(T) /\ d = Cardinality(wanted)
  OBVIOUS
<1>5. n \in Nat /\ m \in Nat /\ d \in Nat /\ n <= m
  BY <1>3, <1>4, FS_CardinalityType
<1>6. m <= m
  BY <1>5
<1>7. Ratio(n, d) \in Nat /\ Ratio(n, d) <= Ratio(m, d)
  BY <1>5, <1>6, RatioGrows
<1>8. Ratio(m, d) \in Nat
  BY <1>5, <1>6, RatioGrows
<1>  QED
  BY <1>1, <1>4, <1>7, <1>8

Asked == <<Products # {}, HsCodes # {}, HasSupplier, Amount # Missing, HasLastImport, Origins # {}>>
Answered == <<Products \union HsCodes # {}, Origins # {}, Amount # Missing, HasSupplier,
              HasLastImport, HasSite, Eligible # {}>>

\* The flags of Asked one by one, before and after a step.
LEMMA AskedFlags ==
  /\ DOMAIN Asked = 1 .. 6 /\ (DOMAIN Asked = 1 .. 6)'
  /\ Asked[1] = (Products # {}) /\ (Asked[1] = (Products # {}))'
  /\ Asked[2] = (HsCodes # {}) /\ (Asked[2] = (HsCodes # {}))'
  /\ Asked[3] = (HasSupplier) /\ (Asked[3] = (HasSupplier))'
  /\ Asked[4] = (Amount # Missing) /\ (Asked[4] = (Amount # Missing))'
  /\ Asked[5] = (HasLastImport) /\ (Asked[5] = (HasLastImport))'
  /\ Asked[6] = (Origins # {}) /\ (Asked[6] = (Origins # {}))'
  BY DEF Asked

\* The flags of Answered one by one, before and after a step.
LEMMA AnsweredFlags ==
  /\ DOMAIN Answered = 1 .. 7 /\ (DOMAIN Answered = 1 .. 7)'
  /\ Answered[1] = (Products \union HsCodes # {}) /\ (Answered[1] = (Products \union HsCodes # {}))'
  /\ Answered[2] = (Origins # {}) /\ (Answered[2] = (Origins # {}))'
  /\ Answered[3] = (Amount # Missing) /\ (Answered[3] = (Amount # Missing))'
  /\ Answered[4] = (HasSupplier) /\ (Answered[4] = (HasSupplier))'
  /\ Answered[5] = (HasLastImport) /\ (Answered[5] = (HasLastImport))'
  /\ Answered[6] = (HasSite) /\ (Answered[6] = (HasSite))'
  /\ Answered[7] = (Eligible # {}) /\ (Answered[7] = (Eligible # {}))'
  BY DEF Answered

\* Every part of the score grows.
LEMMA PartsGrow ==
  ASSUME KInv, KInv', NothingForgotten, Amount = Missing \/ Amount' = Amount
  PROVE  /\ Ratio(Count(Asked), 6) \in Nat /\ (Ratio(Count(Asked), 6) \in Nat)'
         /\ Ratio(Count(Asked), 6) <= Ratio(Count(Asked), 6)'
         /\ Ratio(Count(Answered), 7) \in Nat /\ (Ratio(Count(Answered), 7) \in Nat)'
         /\ Ratio(Count(Answered), 7) <= Ratio(Count(Answered), 7)'
         /\ ProductRatio \in Nat /\ ProductRatio' \in Nat /\ ProductRatio <= ProductRatio'
         /\ HsRatio \in Nat /\ HsRatio' \in Nat /\ HsRatio <= HsRatio'
         /\ TaxonomyTarget => TaxonomyTarget'
         /\ ValuePoints \in Nat /\ ValuePoints' \in Nat /\ ValuePoints <= ValuePoints'
         /\ PersonPoints \in Nat /\ PersonPoints' \in Nat /\ PersonPoints <= PersonPoints'
         /\ Ratio(Cardinality(Eligible), 2) \in Nat /\ (Ratio(Cardinality(Eligible), 2) \in Nat)'
         /\ Ratio(Cardinality(Eligible), 2) <= Ratio(Cardinality(Eligible), 2)'
<1>0. /\ Products \subseteq Products' /\ HsCodes \subseteq HsCodes' /\ Origins \subseteq Origins'
      /\ HasSupplier => HasSupplier'
      /\ HasLastImport => HasLastImport'
      /\ Eligible \subseteq Eligible' /\ Emails \subseteq Emails' /\ Persons \subseteq Persons'
      /\ Preferred(Persons) \subseteq Preferred(Persons)'
      /\ HasSite => HasSite'
  BY MoreIsKnown
<1>1. Amount # Missing => Amount' # Missing
  OBVIOUS
<1>2. \A n, m, d : n \in Nat /\ m \in Nat /\ d \in Nat /\ n <= m =>
        Ratio(n, d) \in Nat /\ Ratio(m, d) \in Nat /\ Ratio(n, d) <= Ratio(m, d)
  <2> SUFFICES ASSUME NEW n, NEW m, NEW d, n \in Nat, m \in Nat, d \in Nat, n <= m
               PROVE  Ratio(n, d) \in Nat /\ Ratio(m, d) \in Nat /\ Ratio(n, d) <= Ratio(m, d)
    OBVIOUS
  <2>1. m <= m
    OBVIOUS
  <2>  QED
    BY <2>1, RatioGrows
<1>3. PICK a, b : a = Count(Asked) /\ b = Count(Asked)'
  OBVIOUS
<1>4. a \in Nat /\ b \in Nat /\ a <= b
  <2>1. /\ DOMAIN Asked = 1 .. 6 /\ (DOMAIN Asked = 1 .. 6)'
        /\ \A i \in 1 .. 6 : Asked[i] => Asked'[i]
    <3>1. /\ Asked[1] => Asked'[1]
          /\ Asked[2] => Asked'[2]
          /\ Asked[3] => Asked'[3]
      BY <1>0, <1>1, AskedFlags
    <3>2. /\ Asked[4] => Asked'[4]
          /\ Asked[5] => Asked'[5]
          /\ Asked[6] => Asked'[6]
      BY <1>0, <1>1, AskedFlags
    <3>3. \A i \in 1 .. 6 : i \in {1, 2, 3, 4, 5, 6}
      OBVIOUS
    <3>4. \A i \in 1 .. 6 : Asked[i] => Asked'[i]
      BY <3>1, <3>2, <3>3
    <3>  QED
      BY <3>4, AskedFlags
  <2>2. PICK f, g : f = Asked /\ g = Asked'
    OBVIOUS
  <2>3. Count(f) \in Nat /\ Count(g) \in Nat /\ Count(f) <= Count(g)
    BY <2>1, <2>2, CountGrows
  <2>4. Count(f) = a /\ Count(g) = b
    BY <2>2, <1>3 DEF Count
  <2>  QED
    BY <2>3, <2>4
<1>5. PICK c, d : c = Count(Answered) /\ d = Count(Answered)'
  OBVIOUS
<1>6. c \in Nat /\ d \in Nat /\ c <= d
  <2>1. /\ DOMAIN Answered = 1 .. 7 /\ (DOMAIN Answered = 1 .. 7)'
        /\ \A i \in 1 .. 7 : Answered[i] => Answered'[i]
    <3>1. /\ Answered[1] => Answered'[1]
          /\ Answered[2] => Answered'[2]
          /\ Answered[3] => Answered'[3]
          /\ Answered[4] => Answered'[4]
      BY <1>0, <1>1, AnsweredFlags
    <3>2. /\ Answered[5] => Answered'[5]
          /\ Answered[6] => Answered'[6]
          /\ Answered[7] => Answered'[7]
      BY <1>0, <1>1, AnsweredFlags
    <3>3. \A i \in 1 .. 7 : i \in {1, 2, 3, 4, 5, 6, 7}
      OBVIOUS
    <3>4. \A i \in 1 .. 7 : Answered[i] => Answered'[i]
      BY <3>1, <3>2, <3>3
    <3>  QED
      BY <3>4, AnsweredFlags
  <2>2. PICK f, g : f = Answered /\ g = Answered'
    OBVIOUS
  <2>3. Count(f) \in Nat /\ Count(g) \in Nat /\ Count(f) <= Count(g)
    BY <2>1, <2>2, CountGrows
  <2>4. Count(f) = c /\ Count(g) = d
    BY <2>2, <1>5 DEF Count
  <2>  QED
    BY <2>3, <2>4
<1>7. /\ Ratio(Count(Asked), 6) = Ratio(a, 6) /\ Ratio(Count(Asked), 6)' = Ratio(b, 6)
      /\ Ratio(Count(Answered), 7) = Ratio(c, 7) /\ Ratio(Count(Answered), 7)' = Ratio(d, 7)
  BY <1>3, <1>5 DEF Ratio, Lesser
<1>8. ProductRatio \in Nat /\ ProductRatio' \in Nat /\ ProductRatio <= ProductRatio'
  <2>1. PICK found, more : found = UNION Products /\ more = UNION Products'
    OBVIOUS
  <2>2. found \subseteq more
    BY <2>1, <1>0
  <2>3. PICK few, many :
          /\ few = Ratio(Cardinality(Keywords \intersect found), Cardinality(Keywords))
          /\ many = Ratio(Cardinality(Keywords \intersect more), Cardinality(Keywords))
    OBVIOUS
  <2>4. few \in Nat /\ many \in Nat /\ few <= many
    BY <2>2, <2>3, MetGrows, ScoreAssumption
  <2>5. ProductRatio = few /\ ProductRatio' = many
    BY <2>1, <2>3 DEF ProductRatio, Ratio, Lesser
  <2>  QED
    BY <2>4, <2>5
<1>9. HsRatio \in Nat /\ HsRatio' \in Nat /\ HsRatio <= HsRatio'
  <2>1. PICK found, more : found = UNION HsCodes /\ more = UNION HsCodes'
    OBVIOUS
  <2>2. found \subseteq more
    BY <2>1, <1>0
  <2>3. PICK few, many : /\ few = Ratio(Cardinality(Codes \intersect found), Cardinality(Codes))
                         /\ many = Ratio(Cardinality(Codes \intersect more), Cardinality(Codes))
    OBVIOUS
  <2>4. few \in Nat /\ many \in Nat /\ few <= many
    BY <2>2, <2>3, MetGrows, ScoreAssumption
  <2>5. HsRatio = few /\ HsRatio' = many
    BY <2>1, <2>3 DEF HsRatio, Ratio, Lesser
  <2>  QED
    BY <2>4, <2>5
<1>10. TaxonomyTarget => TaxonomyTarget'
  <2>1. UNION Products \subseteq UNION Products' /\ UNION HsCodes \subseteq UNION HsCodes'
    BY <1>0
  <2>  QED
    BY <2>1 DEF TaxonomyTarget
<1>11. ValuePoints \in Nat /\ ValuePoints' \in Nat /\ ValuePoints <= ValuePoints'
  <2>1. ValuePoints \in {0, 5, 10, 15} /\ ValuePoints' \in {0, 5, 10, 15}
    BY DEF ValuePoints
  <2>2. ValuePoints = 0 \/ ValuePoints' = ValuePoints
    BY DEF ValuePoints
  <2>  QED
    BY <2>1, <2>2
<1>12. PersonPoints \in Nat /\ PersonPoints' \in Nat /\ PersonPoints <= PersonPoints'
  <2>1. /\ Preferred(Persons) # {} => Preferred(Persons)' # {}
        /\ Persons # {} => Persons' # {}
        /\ Emails # {} => Emails' # {}
    BY <1>0
  <2>  QED
    BY <2>1 DEF PersonPoints
<1>13. /\ Ratio(Cardinality(Eligible), 2) \in Nat /\ (Ratio(Cardinality(Eligible), 2) \in Nat)'
       /\ Ratio(Cardinality(Eligible), 2) <= Ratio(Cardinality(Eligible), 2)'
  <2>1. PICK S, T : S = Eligible /\ T = Eligible'
    OBVIOUS
  <2>2. S \in SUBSET T /\ T \in SUBSET contacts' /\ IsFiniteSet(contacts')
    BY <2>1, <1>0 DEF Eligible, KInv
  <2>3. IsFiniteSet(T)
    BY <2>2, FS_Subset
  <2>4. IsFiniteSet(S) /\ Cardinality(S) <= Cardinality(T)
    BY <2>2, <2>3, FS_Subset
  <2>5. PICK n, m : n = Cardinality(S) /\ m = Cardinality(T)
    OBVIOUS
  <2>6. n \in Nat /\ m \in Nat /\ n <= m
    BY <2>3, <2>4, <2>5, FS_CardinalityType
  <2>7. Ratio(n, 2) \in Nat /\ Ratio(m, 2) \in Nat /\ Ratio(n, 2) <= Ratio(m, 2)
    BY <2>6, <1>2
  <2>8. /\ Ratio(Cardinality(Eligible), 2) = Ratio(n, 2)
        /\ Ratio(Cardinality(Eligible), 2)' = Ratio(m, 2)
    BY <2>1, <2>5 DEF Ratio, Lesser
  <2>  QED
    BY <2>7, <2>8
<1>14. /\ Ratio(a, 6) \in Nat /\ Ratio(b, 6) \in Nat /\ Ratio(a, 6) <= Ratio(b, 6)
       /\ Ratio(c, 7) \in Nat /\ Ratio(d, 7) \in Nat /\ Ratio(c, 7) <= Ratio(d, 7)
  BY <1>2, <1>4, <1>6
<1>15. /\ Ratio(Count(Asked), 6) \in Nat /\ (Ratio(Count(Asked), 6) \in Nat)'
       /\ Ratio(Count(Asked), 6) <= Ratio(Count(Asked), 6)'
       /\ Ratio(Count(Answered), 7) \in Nat /\ (Ratio(Count(Answered), 7) \in Nat)'
       /\ Ratio(Count(Answered), 7) <= Ratio(Count(Answered), 7)'
  BY <1>7, <1>14
<1>  QED
  BY <1>8, <1>9, <1>10, <1>11, <1>12, <1>13, <1>15

\* So the score does not fall.
LEMMA ScoreGrows ==
  ASSUME KInv, KInv', NothingForgotten, Amount = Missing \/ Amount' = Amount
  PROVE  PreScoreV11' >= PreScoreV11
<1> DEFINE Best == Greater(Greater(ProductRatio, HsRatio), IF TaxonomyTarget THEN Unit ELSE 0)
           Site == IF HasSite THEN 8 * Unit ELSE 0
           Type == IF profile.type # Missing THEN 2 * Unit ELSE 0
<1>1. PICK a, a1, b, b1, c, c1, d, d1, e, e1, f, f1 :
        /\ a = Ratio(Count(Asked), 6) /\ a1 = Ratio(Count(Asked), 6)'
        /\ b = Best /\ b1 = Best'
        /\ c = ValuePoints /\ c1 = ValuePoints'
        /\ d = Ratio(Cardinality(Eligible), 2) /\ d1 = Ratio(Cardinality(Eligible), 2)'
        /\ e = PersonPoints /\ e1 = PersonPoints'
        /\ f = Ratio(Count(Answered), 7) /\ f1 = Ratio(Count(Answered), 7)'
  OBVIOUS
<1>2. b \in Nat /\ b1 \in Nat /\ b <= b1
  <2>1. /\ ProductRatio \in Nat /\ ProductRatio' \in Nat /\ ProductRatio <= ProductRatio'
        /\ HsRatio \in Nat /\ HsRatio' \in Nat /\ HsRatio <= HsRatio'
        /\ TaxonomyTarget => TaxonomyTarget'
    BY PartsGrow
  <2>2. PICK p, q, r, s : p = ProductRatio /\ q = HsRatio /\ r = ProductRatio' /\ s = HsRatio'
    OBVIOUS
  <2>3. PICK x, y : /\ x = (IF TaxonomyTarget THEN Unit ELSE 0)
                    /\ y = (IF TaxonomyTarget THEN Unit ELSE 0)'
    OBVIOUS
  <2>4. x \in Nat /\ y \in Nat /\ x <= y
    BY <2>1, <2>3, UnitIs
  <2>5. b = Greater(Greater(p, q), x) /\ b1 = Greater(Greater(r, s), y)
    BY <1>1, <2>2, <2>3 DEF Greater
  <2>6. /\ p \in Nat /\ q \in Nat /\ r \in Nat /\ s \in Nat /\ p <= r /\ q <= s
    BY <2>1, <2>2
  <2>  QED
    BY <2>4, <2>5, <2>6 DEF Greater
<1>3. /\ a \in Nat /\ a1 \in Nat /\ a <= a1 /\ c \in Nat /\ c1 \in Nat /\ c <= c1
      /\ d \in Nat /\ d1 \in Nat /\ d <= d1 /\ e \in Nat /\ e1 \in Nat /\ e <= e1
      /\ f \in Nat /\ f1 \in Nat /\ f <= f1
  BY <1>1, PartsGrow
<1>4. PICK g, g1, h, h1 : g = Site /\ g1 = Site' /\ h = Type /\ h1 = Type'
  OBVIOUS
<1>u. PICK unit : unit = Unit /\ unit \in Nat /\ unit > 0
  BY UnitIs
<1>5. g \in Nat /\ g1 \in Nat /\ g <= g1 /\ h \in Nat /\ h1 \in Nat /\ h <= h1
  <2>1. HasSite => HasSite'
    BY MoreIsKnown
  <2>2. profile.type # Missing => profile'.type # Missing
    BY DEF NothingForgotten
  <2>  QED
    BY <1>4, <1>u, <2>1, <2>2
<1>6. /\ PointsV11 = 20 * a + 25 * b + c * unit + g + h + 15 * d + e * unit + 5 * f
      /\ PointsV11' = 20 * a1 + 25 * b1 + c1 * unit + g1 + h1 + 15 * d1 + e1 * unit + 5 * f1
  <2>1. PointsV11 = Points(20, Ratio(Count(Asked), 6)) + Points(25, Best) + ValuePoints * Unit
                      + Site + Type + Points(15, Ratio(Cardinality(Eligible), 2))
                      + PersonPoints * Unit + Points(5, Ratio(Count(Answered), 7))
    BY DEF PointsV11, Asked, Answered
  <2>2. PointsV11' = Points(20, Ratio(Count(Asked), 6)') + Points(25, Best') + ValuePoints' * Unit
                       + Site' + Type' + Points(15, Ratio(Cardinality(Eligible), 2)')
                       + PersonPoints' * Unit + Points(5, Ratio(Count(Answered), 7)')
    BY DEF PointsV11, Asked, Answered
  <2> HIDE DEF Best, Site, Type
  <2>  QED
    BY <2>1, <2>2, <1>1, <1>4, <1>u DEF Points
<1>7. PICK x, y : x = PointsV11 /\ y = PointsV11'
  OBVIOUS
<1>8. x \in Nat /\ y \in Nat /\ x <= y
  <2>1. PICK i, i1, j, j1 : i = c * unit /\ i1 = c1 * unit /\ j = e * unit /\ j1 = e1 * unit
    OBVIOUS
  <2>2. i \in Nat /\ i1 \in Nat /\ i <= i1 /\ j \in Nat /\ j1 \in Nat /\ j <= j1
    BY <1>3, <1>u, <2>1
  <2>  QED
    BY <1>2, <1>3, <1>5, <1>6, <1>7, <2>1, <2>2
<1>9. /\ PreScoreV11 = Lesser(10000, (100 * x + unit \div 2) \div unit)
      /\ PreScoreV11' = Lesser(10000, (100 * y + unit \div 2) \div unit)
  BY <1>7, <1>u DEF PreScoreV11, Hundredths, Lesser
<1>10. PICK u, v : u = (100 * x + unit \div 2) \div unit /\ v = (100 * y + unit \div 2) \div unit
  OBVIOUS
<1>11. u \in Nat /\ v \in Nat /\ u <= v
  <2>1. PICK i, j : i = 100 * x + unit \div 2 /\ j = 100 * y + unit \div 2
    OBVIOUS
  <2>2. i \in Nat /\ j \in Nat /\ i <= j
    BY <1>8, <1>u, <2>1
  <2>3. u = i \div unit /\ v = j \div unit
    BY <1>10, <2>1
  <2>  QED
    BY <1>u, <2>2, <2>3
<1>  QED
  BY <1>9, <1>10, <1>11 DEF Lesser

\* Whatever becomes known of a company, its score does not fall, unless the
\* amount that is counted is another one (evaluate).
THEOREM KnowledgeNeverCostsHolds == KnownSpec => KnowledgeNeverCosts
<1>1. KInv /\ [KnownNext]_knownVars =>
        [knownVars' # knownVars /\ (Amount = Missing \/ Amount' = Amount) =>
           PreScoreV11' >= PreScoreV11]_knownVars
  BY KnownStepOK, ScoreGrows
<1>  QED
  BY <1>1, KnownInvariant, PTL DEF KnownSpec, KnowledgeNeverCosts

===============================================================================
