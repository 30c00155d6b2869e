--------------------------- MODULE ProspectRouting ---------------------------
(***************************************************************************)
(* One ProspectRoutingRun: the clients that submit it, review its routes   *)
(* and form batches of them (app/workflows/prospect_routing/workflow.py),  *)
(* the reviewers of imported entities, who change what it is computed      *)
(* from, and the workers that compute it through the queue of              *)
(* ImportProcessingJobs (app/workflows/import_resolution/execution.py).    *)
(*                                                                         *)
(* The job aggregate has the methods of ProspectJob.  The entity-state     *)
(* hash is a counter: a hash is only ever compared for equality and a      *)
(* review is final, so no earlier state returns.  The scores are any that  *)
(* the policy could give: a route is blocked, of tier A, or of another.    *)
(* Every read of a row that is not locked and the write that relies on it  *)
(* are two actions, and so are the transactions of the worker.             *)
(***************************************************************************)
EXTENDS ProspectJob, Sequences, FiniteSets

CONSTANTS Companies,      \* the resolved companies of the import session
          Clients,        \* concurrent requests to the API
          MaxGenerations, \* bound on recalculations, and so on jobs
          MaxStates,      \* bound on changes of the entity state
          MaxFaults       \* bound on failed transactions and crashes

ASSUME RoutingAssumption ==
  /\ IsFiniteSet(Companies) /\ Companies # {}
  /\ MaxGenerations \in Nat \ {0} /\ MaxStates \in Nat /\ MaxFaults \in Nat

VARIABLES entities,  \* the state of the resolved entities
          run,       \* the row of the run
          routes,    \* per generation and company
          batches,   \* the batches formed
          jobs,      \* the run's jobs, oldest first
          pc, me,    \* each worker's next step and local variables
          request,   \* what each client is doing, and what it has read
          faults     \* failed transactions and crashes so far

vars == <<entities, run, routes, batches, jobs, pc, me, request, faults>>

Generations == 1 .. MaxGenerations
States == 0 .. MaxStates
Tiers == {"A", "other"}

\* "absent" before the run's first submission.
RunStatuses == {"absent", "pending", "running", "completed",
                "partial_completed", "failed"}
Done == {"completed", "partial_completed"}

Counters == [routed : 0 .. Cardinality(Companies),
             blocked : 0 .. Cardinality(Companies),
             tierA : 0 .. Cardinality(Companies)]
NoCounters == [routed |-> 0, blocked |-> 0, tierA |-> 0]

Runs == [status : RunStatuses, generation : 0 .. MaxGenerations,
         state : States, counters : Counters]

\* from is the state the features of the route were projected from.
Routes == [review : {"none", "suggested", "confirmed", "overridden", "blocked"},
           recommended : Tiers \union {"none"},
           effective : Tiers \union {"none"},
           from : States]
NoRoute == [review |-> "none", recommended |-> "none", effective |-> "none",
            from |-> 0]

Labels == {"recover", "claim", "start", "begin", "read", "beat", "persist",
           "complete", "failing", "down"}
Locals == [job : 0 .. MaxGenerations, generation : 0 .. MaxGenerations,
           state : States]
NoLocals == [job |-> 0, generation |-> 0, state |-> 0]

Requests == [doing : {"nothing", "submitting", "batching", "reviewing"},
             state : States,                     \* the hash it computed
             generation : 0 .. MaxGenerations,   \* the generation it read
             company : SUBSET Companies]         \* the one it reviews
NoRequest == [doing |-> "nothing", state |-> 0, generation |-> 0, company |-> {}]

TypeOK ==
  /\ entities \in States
  /\ run \in Runs
  /\ routes \in [Generations -> [Companies -> Routes]]
  /\ batches \subseteq [generation : Generations, companies : SUBSET Companies]
  /\ jobs \in Seq(JobRows) /\ Len(jobs) <= MaxGenerations
  /\ pc \in [Workers -> Labels]
  /\ me \in [Workers -> Locals]
  /\ request \in [Clients -> Requests]
  /\ faults \in 0 .. MaxFaults

Init ==
  /\ entities = 0
  /\ run = [status |-> "absent", generation |-> 0, state |-> 0,
            counters |-> NoCounters]
  /\ routes = [g \in Generations |-> [c \in Companies |-> NoRoute]]
  /\ batches = {}
  /\ jobs = <<>>
  /\ pc = [w \in Workers |-> "recover"]
  /\ me = [w \in Workers |-> NoLocals]
  /\ request = [k \in Clients |-> NoRequest]
  /\ faults = 0

------------------------------------------------------------------------------
(***************************************************************************)
(* The run aggregate                                                       *)
(***************************************************************************)
\* create, and reset_for_recalculation: a new generation, whatever the
\* status of the last.
Reset(state) ==
  [status |-> "pending", generation |-> run.generation + 1, state |-> state,
   counters |-> NoCounters]

\* pause_for_retry.
Paused == [run EXCEPT !.status = IF @ = "running" THEN "pending" ELSE @]

\* fail: no status is refused.
Failed == [run EXCEPT !.status = "failed"]

CountersOf(scored) ==
  [routed  |-> Cardinality({c \in Companies : scored[c].recommended # "none"}),
   blocked |-> Cardinality({c \in Companies : scored[c].review = "blocked"}),
   tierA   |-> Cardinality({c \in Companies : scored[c].recommended = "A"})]

\* (a mistake: the state recorded stays that of the submission)
FinishedAsSubmitted(scored, state) ==
  [run EXCEPT !.status = IF \E c \in Companies : scored[c].review = "blocked"
                         THEN "partial_completed" ELSE "completed",
              !.counters = CountersOf(scored)]

\* complete, after the state was set to the one the worker has read.
Finished(scored, state) ==
  [run EXCEPT !.status = IF \E c \in Companies : scored[c].review = "blocked"
                         THEN "partial_completed" ELSE "completed",
              !.state = state,
              !.counters = CountersOf(scored)]

------------------------------------------------------------------------------
(***************************************************************************)
(* The API                                                                 *)
(***************************************************************************)
Ask(k, doing, state, generation, company) ==
  /\ request[k].doing = "nothing"
  /\ request' = [request EXCEPT ![k] =
       [doing |-> doing, state |-> state, generation |-> generation,
        company |-> company]]
  /\ UNCHANGED <<entities, run, routes, batches, jobs, pc, me, faults>>

Answer(k) == request' = [request EXCEPT ![k] = NoRequest]

\* A reviewer decides on an imported entity, a contact's channel changes...
ChangeEntities ==
  /\ entities < MaxStates
  /\ entities' = entities + 1
  /\ UNCHANGED <<run, routes, batches, jobs, pc, me, request, faults>>

\* submit: the sources are loaded and hashed without a lock.
ReadSources(k) == Ask(k, "submitting", entities, run.generation, {})

Reusable(k) == run.state = request[k].state /\ run.status # "failed"

\* The run for this configuration, locked, was computed from that state or
\* is waiting to be: its latest job is the answer.  A client that found no
\* run and then lost the race to insert one gets the same answer.
SubmitReuse(k) ==
  /\ request[k].doing = "submitting"
  /\ run.status # "absent"
  /\ Reusable(k) \/ request[k].generation = 0
  /\ Answer(k)
  /\ UNCHANGED <<entities, run, routes, batches, jobs, pc, me, faults>>

\* (a mistake: the recalculation relies on the job that is there)
RecalculateWithoutJob(k) ==
  /\ request[k].doing = "submitting"
  /\ ~Reusable(k)
  /\ run.generation < MaxGenerations
  /\ run' = Reset(request[k].state)
  /\ jobs' = IF jobs = <<>> THEN <<Created>> ELSE jobs
  /\ Answer(k)
  /\ UNCHANGED <<entities, routes, batches, pc, me, faults>>

\* The first generation, or the next: with a job of its own, whose business
\* key names the generation and is therefore never taken.
SubmitGeneration(k) ==
  /\ request[k].doing = "submitting"
  /\ run.status = "absent" \/ ~Reusable(k)
  /\ run.generation < MaxGenerations
  /\ run' = Reset(request[k].state)
  /\ jobs' = Append(jobs, Created)
  /\ Answer(k)
  /\ UNCHANGED <<entities, routes, batches, pc, me, faults>>

\* review: the route is locked, the run that says whether it is history is
\* only read.
OpenReview(k, c) ==
  /\ run.generation > 0
  /\ routes[run.generation][c].review # "none"
  /\ \A other \in Clients :
       request[other].doing = "reviewing" =>
         request[other].generation # run.generation \/ request[other].company # {c}
  /\ Ask(k, "reviewing", 0, run.generation, {c})

\* (a mistake: a decided route can be decided again)
CanDecideAgain(route) == route.review \in {"suggested", "confirmed", "overridden"}

CanDecide(route) == route.review = "suggested"
Confirmed(route) == [route EXCEPT !.review = "confirmed"]
Overridden(route, tier) ==
  [route EXCEPT !.review = "overridden", !.effective = tier]

\* confirm, override or exclude; an exclusion is an override to tier D.
DecideReview(k) ==
  /\ request[k].doing = "reviewing"
  /\ \E c \in request[k].company :
       LET route == routes[request[k].generation][c]
       IN  /\ CanDecide(route)
           /\ \E decided \in {Confirmed(route)}
                          \union {Overridden(route, t) : t \in Tiers} :
                routes' = [routes EXCEPT ![request[k].generation][c] = decided]
  /\ Answer(k)
  /\ UNCHANGED <<entities, run, batches, jobs, pc, me, faults>>

\* The route was decided before, or is blocked: 409, or the same decision.
RefuseReview(k) ==
  /\ request[k].doing = "reviewing"
  /\ \A c \in request[k].company : ~CanDecide(routes[request[k].generation][c])
  /\ Answer(k)
  /\ UNCHANGED <<entities, run, routes, batches, jobs, pc, me, faults>>

\* create (batch): the run is read without a lock, then its routes.
OpenBatch(k) ==
  /\ run.status \in Done
  /\ Ask(k, "batching", 0, run.generation, {})

Admissible(route) ==
  /\ route.effective = "A"
  /\ route.review \in {"confirmed", "overridden"}

\* At most five companies; a selection made before is answered with its
\* batch, also when the unique index on the selection finds it.
CreateBatch(k) ==
  /\ request[k].doing = "batching"
  /\ \E chosen \in SUBSET Companies :
       /\ Cardinality(chosen) \in 1 .. 5
       /\ \A c \in chosen : Admissible(routes[request[k].generation][c])
       /\ batches' = batches \union
            {[generation |-> request[k].generation, companies |-> chosen]}
  /\ Answer(k)
  /\ UNCHANGED <<entities, run, routes, jobs, pc, me, faults>>

\* The selection is refused.
RefuseBatch(k) ==
  /\ request[k].doing = "batching"
  /\ \E c \in Companies : ~Admissible(routes[request[k].generation][c])
  /\ Answer(k)
  /\ UNCHANGED <<entities, run, routes, batches, jobs, pc, me, faults>>

LeaseTick ==
  /\ \E j \in DOMAIN jobs : Aged(jobs[j]) # jobs[j]
  /\ jobs' = [j \in DOMAIN jobs |-> Aged(jobs[j])]
  /\ UNCHANGED <<entities, run, routes, batches, pc, me, request, faults>>

------------------------------------------------------------------------------
(***************************************************************************)
(* The worker: run_once, and execute                                       *)
(***************************************************************************)
outside == <<entities, batches, request>>

Job(w) == jobs[me[w].job]
GoTo(w, label) == pc' = [pc EXCEPT ![w] = label]
Leave(w, label) ==
  /\ GoTo(w, label)
  /\ me' = [me EXCEPT ![w] = NoLocals]

\* execute runs inside the try of run_once; an exception elsewhere ends
\* the process.
ExecuteSteps == {"begin", "read", "beat", "persist"}
Throw(w) ==
  IF pc[w] \in ExecuteSteps THEN GoTo(w, "failing") /\ UNCHANGED me
  ELSE Leave(w, "down")

Stale == {j \in DOMAIN jobs : CanRecover(jobs[j])}
RecoverAll(Recover(_)) ==
  jobs' = [j \in DOMAIN jobs |-> IF j \in Stale THEN Recover(jobs[j]) ELSE jobs[j]]

\* recover_stale: one transaction for all expired jobs.  The run fails with
\* the first of them that has no attempt left.
RecoverStale(w) ==
  /\ pc[w] = "recover"
  /\ IF run.status \in Done
     THEN RecoverAll(Reconciled) /\ UNCHANGED run
     ELSE /\ RecoverAll(Recovered)
          /\ run' = CASE Stale = {} -> run
                      [] \E j \in Stale : jobs'[j].status = "failed" -> Failed
                      [] OTHER -> Paused
  /\ GoTo(w, "claim")
  /\ UNCHANGED <<outside, routes, me, faults>>

Claim(w) ==
  /\ pc[w] = "claim"
  /\ \E j \in DOMAIN jobs :
       /\ CanLease(jobs[j])
       /\ jobs' = [jobs EXCEPT ![j] = Leased(@, w)]
       /\ me' = [me EXCEPT ![w].job = j]
  /\ GoTo(w, "start")
  /\ UNCHANGED <<outside, run, routes, faults>>

ClaimNothing(w) ==
  /\ pc[w] = "claim"
  /\ \A j \in DOMAIN jobs : ~CanLease(jobs[j])
  /\ GoTo(w, "recover")
  /\ UNCHANGED <<outside, run, routes, jobs, me, faults>>

StartJob(w) ==
  /\ pc[w] = "start"
  /\ IF CanStart(Job(w), w)
     THEN /\ jobs' = [jobs EXCEPT ![me[w].job] = Started(@)]
          /\ GoTo(w, "begin") /\ UNCHANGED me
     ELSE Throw(w) /\ UNCHANGED jobs
  /\ UNCHANGED <<outside, run, routes, faults>>

\* execute, first transaction: start.  A completed run stays as it is.
BeginRun(w) ==
  /\ pc[w] = "begin"
  /\ IF run.status = "failed"
     THEN Throw(w) /\ UNCHANGED run
     ELSE /\ run' = [run EXCEPT !.status = IF @ \in Done THEN @ ELSE "running"]
          /\ GoTo(w, "read") /\ UNCHANGED me
  /\ UNCHANGED <<outside, routes, jobs, faults>>

\* Second transaction: the run and the sources to score.
ReadRun(w) ==
  /\ pc[w] = "read"
  /\ me' = [me EXCEPT ![w].generation = run.generation, ![w].state = entities]
  /\ \E label \in {"beat", "persist"} : GoTo(w, label)
  /\ UNCHANGED <<outside, run, routes, jobs, faults>>

\* The heartbeat after every hundredth company.
Beat(w) ==
  /\ pc[w] = "beat"
  /\ IF Owns(Job(w), w)
     THEN /\ jobs' = [jobs EXCEPT ![me[w].job] = Renewed(@)]
          /\ GoTo(w, "persist") /\ UNCHANGED me
     ELSE Throw(w) /\ UNCHANGED jobs
  /\ UNCHANGED <<outside, run, routes, faults>>

\* The routes that scoring the state can give.
Scored(state) ==
  [Companies ->
     {[review |-> "suggested", recommended |-> t, effective |-> t,
       from |-> state] : t \in Tiers}
     \union {[review |-> "blocked", recommended |-> "none",
              effective |-> "none", from |-> state]}]

\* Last transaction: the routes go in whole, under the generation read
\* before; the unique index refuses a second set.
PersistRoutes(w) ==
  /\ pc[w] = "persist"
  /\ IF /\ run.status = "running"
        /\ \A c \in Companies : routes[me[w].generation][c] = NoRoute
     THEN \E scored \in Scored(me[w].state) :
            /\ routes' = [routes EXCEPT ![me[w].generation] = scored]
            /\ run' = Finished(scored, me[w].state)
            /\ GoTo(w, "complete") /\ UNCHANGED me
     ELSE Throw(w) /\ UNCHANGED <<routes, run>>
  /\ UNCHANGED <<outside, jobs, faults>>

CompleteJob(w) ==
  /\ pc[w] = "complete"
  /\ IF CanComplete(Job(w), w)
     THEN /\ jobs' = [jobs EXCEPT ![me[w].job] =
                        IF @.status = "completed" THEN @ ELSE Completed(@)]
          /\ Leave(w, "recover")
     ELSE Throw(w) /\ UNCHANGED jobs
  /\ UNCHANGED <<outside, run, routes, faults>>

\* record_failure: the run fails with the job, whatever its status and
\* whichever generation the job was made for.
RecordFailure(w) ==
  /\ pc[w] = "failing"
  /\ IF Owns(Job(w), w)
     THEN /\ jobs' = [jobs EXCEPT ![me[w].job] = Retried(@)]
          /\ run' = IF jobs'[me[w].job].status = "pending" THEN Paused ELSE Failed
          /\ Leave(w, "recover")
     ELSE Throw(w) /\ UNCHANGED <<jobs, run>>
  /\ UNCHANGED <<outside, routes, faults>>

\* A transaction fails and is rolled back.
Raise(w) ==
  /\ pc[w] # "down" /\ faults < MaxFaults
  /\ faults' = faults + 1
  /\ Throw(w)
  /\ UNCHANGED <<outside, run, routes, jobs>>

\* The process is killed.
Crash(w) ==
  /\ pc[w] # "down" /\ faults < MaxFaults
  /\ faults' = faults + 1
  /\ Leave(w, "down")
  /\ UNCHANGED <<outside, run, routes, jobs>>

Restart(w) ==
  /\ pc[w] = "down"
  /\ GoTo(w, "recover")
  /\ UNCHANGED <<outside, run, routes, jobs, me, faults>>

Work(w) ==
  \/ RecoverStale(w) \/ Claim(w) \/ ClaimNothing(w) \/ StartJob(w)
  \/ BeginRun(w) \/ ReadRun(w) \/ Beat(w) \/ PersistRoutes(w)
  \/ CompleteJob(w) \/ RecordFailure(w) \/ Restart(w)

Serve(k) ==
  \/ ReadSources(k) \/ SubmitReuse(k) \/ SubmitGeneration(k)
  \/ DecideReview(k) \/ RefuseReview(k)
  \/ OpenBatch(k) \/ CreateBatch(k) \/ RefuseBatch(k)
  \/ \E c \in Companies : OpenReview(k, c)

Next == \/ ChangeEntities
        \/ LeaseTick
        \/ \E k \in Clients : Serve(k)
        \/ \E w \in Workers : Work(w) \/ Raise(w) \/ Crash(w)

\* Time passes and the worker runs; nothing obliges a client to act.
Fairness == WF_vars(LeaseTick) /\ \A w \in Workers : WF_vars(Work(w))

Spec == Init /\ [][Next]_vars
FairSpec == Spec /\ Fairness
------------------------------------------------------------------------------
(***************************************************************************)
(* Properties                                                              *)
(***************************************************************************)
Whole(g) == \A c \in Companies : routes[g][c].review # "none"
ActiveJob == \E j \in DOMAIN jobs : jobs[j].status \in ActiveStatuses

\* A run is completed only with a route for every company in its current
\* generation, computed from the entity state that the run records and that
\* submit compares with: a reused run never shows routes of another state,
\* though entities change and the run is reset while a worker scores
\* (workflow.py, execute: the last transaction).
CompletedIsCurrent ==
  run.status \in Done =>
    \A c \in Companies : /\ routes[run.generation][c].review # "none"
                         /\ routes[run.generation][c].from = run.state

\* A run that is waiting or running has a job, so that it is not waiting
\* in vain: resets, exhausted jobs and jobs that compute the generation of
\* another job notwithstanding.
ActiveRunHasJob == run.status \in {"pending", "running"} => ActiveJob

\* A batch consists of tier-A routes that a reviewer decided, of the
\* generation the batch names, and goes on doing so whatever is recomputed
\* and reviewed later (D5c-pre-score-routing-report.md, sections 3 and 5).
BatchesAreDecided ==
  \A b \in batches : \A c \in b.companies : Admissible(routes[b.generation][c])

\* A saved route is never removed or scored again, and changes once, when
\* it is decided: recalculation only appends generations.
HistoryIsKept ==
  [][\A g \in Generations : \A c \in Companies :
       LET old == routes[g][c]
           new == routes'[g][c]
       IN  old.review # "none" /\ new # old =>
             /\ old.review = "suggested"
             /\ new.review \in {"confirmed", "overridden"}
             /\ new.recommended = old.recommended /\ new.from = old.from]_vars

\* The run's jobs keep the promises of JobLease, though each generation
\* adds one and a worker computes whichever generation is current
\* (import_resolution/execution.py).
Lease == INSTANCE JobLease WITH
           Jobs   <- 1 .. MaxGenerations,
           phase  <- [j \in 1 .. MaxGenerations |-> PhaseOf(RowIn(jobs, j))],
           holder <- [j \in 1 .. MaxGenerations |-> RowIn(jobs, j).owner],
           tries  <- [j \in 1 .. MaxGenerations |-> RowIn(jobs, j).attempts]

ImplementsJobLease == Lease!Spec

\* The document (D5c-pre-score-routing-report.md, section 3): the same
\* condition and the same entity state reuse the existing run; only a
\* changed state adds a generation.  Said here of a generation whose routes
\* were all saved: a client that saw the state they were computed from does
\* not add another.
SameStateIsReused ==
  [][\A k \in Clients :
       /\ request[k].doing = "submitting"
       /\ run.generation > 0 /\ run'.generation > run.generation
       /\ request'[k] # request[k]
       /\ Whole(run.generation)
       => \E c \in Companies :
            routes[run.generation][c].from # request[k].state]_vars

==============================================================================
