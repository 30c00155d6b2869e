----------------------- MODULE ProspectJobQueue_proofs -----------------------
(***************************************************************************)
(* Proofs about ProspectJobQueue for any number of workers, jobs and       *)
(* attempts, and for any lease_ttl and retry_delay.                        *)
(*                                                                         *)
(* The inductive invariant IInv joins what each row says of itself (RowOK) *)
(* with what a worker's position in run_once says of its job (WorkOK).     *)
(* ProspectJob_proofs shows that each method keeps a row in RowOK; one     *)
(* step per action shows that the action calls the method on a row that    *)
(* satisfies its guard.                                                    *)
(***************************************************************************)
EXTENDS ProspectJobQueue, ProspectJob_proofs

\* A worker has a job exactly between its claim and its release, and goes
\* on to complete it only when the batch is settled.
WorkOK ==
  \A w \in Workers :
    /\ pc[w] \in {"recover", "claim", "down"} <=> work[w] = NoJob
    /\ pc[w] = "complete" => work[w] \in settled

IInv == TypeOK /\ LeaseConsistent /\ WorkOK

------------------------------------------------------------------------------
(***************************************************************************)
(* The inductive invariant                                                 *)
(***************************************************************************)

TableOK == job \in [Jobs -> JobRows] /\ LeaseConsistent

\* Replacing one row by a well-formed one keeps the table well formed.
LEMMA UpdateOK ==
  ASSUME TableOK, NEW j \in Jobs, NEW row, RowOK(row),
         job' = [job EXCEPT ![j] = row]
  PROVE  TableOK'
  BY DEF TableOK, LeaseConsistent, RowOK

\* Every row that recovery looks at stays well formed.
LEMMA RecoveredJobOK ==
  ASSUME TableOK, NEW j \in Jobs
  PROVE  RowOK(RecoveredJob(j))
<1>1. RowOK(job[j])
  BY DEF TableOK, LeaseConsistent, RowOK
<1>  QED
  BY <1>1, RecoveredOK DEF RecoveredJob, CanRecover

LEMMA InitOK == Init => IInv
  BY CreatedOK, QueueAssumption
     DEF Init, IInv, TypeOK, LeaseConsistent, WorkOK, RowOK

\* Every step keeps the table, the labels and the ties between them.
LEMMA StepOK == IInv /\ [Next]_vars => IInv'
<1> SUFFICES ASSUME IInv, [Next]_vars PROVE IInv'
  OBVIOUS
<1> USE QueueAssumption DEF TypeOK, WorkOK
<1>t. TableOK
  BY DEF IInv, TableOK
<1>q. IInv' <=> TableOK' /\ (TypeOK /\ WorkOK)'
  BY DEF IInv, TableOK
<1>1. CASE \E j \in Jobs : Enqueue(j)
  <2>1. PICK j \in Jobs : Enqueue(j)
    BY <1>1
  <2>2. TableOK'
    BY <1>t, <2>1, UpdateOK, CreatedOK DEF Enqueue
  <2>  QED
    BY <1>q, <2>1, <2>2 DEF Enqueue, IInv, TableOK
<1>2. CASE Tick
  <2>1. ASSUME NEW j \in Jobs PROVE RowOK(Aged(job[j]))
    BY AgedOK DEF IInv, LeaseConsistent, RowOK
  <2>2. TableOK'
    BY <1>2, <2>1 DEF Tick, TableOK, LeaseConsistent, RowOK
  <2>  QED
    BY <1>2, <1>q, <2>2 DEF Tick, IInv, TableOK
<1>3. ASSUME NEW w \in Workers, RecoverStale(w) PROVE IInv'
  <2>1. TableOK'
    BY <1>t, <1>3, RecoveredJobOK DEF RecoverStale, TableOK, LeaseConsistent, RowOK
  <2>  QED
    BY <1>3, <1>q, <2>1 DEF RecoverStale, GoTo, IInv, TableOK
<1>4. ASSUME NEW w \in Workers, Claim(w) PROVE IInv'
  <2>1. PICK j \in Jobs : /\ CanLease(job[j])
                          /\ job' = [job EXCEPT ![j] = Leased(@, w)]
                          /\ work' = [work EXCEPT ![w] = j]
    BY <1>4 DEF Claim
  <2>2. RowOK(Leased(job[j], w))
    BY <2>1, LeasedOK DEF IInv, LeaseConsistent, RowOK
  <2>3. TableOK'
    BY <1>t, <2>1, <2>2, UpdateOK
  <2>  QED
    BY <1>4, <1>q, <2>1, <2>3 DEF Claim, GoTo, IInv, TableOK
<1>5. ASSUME NEW w \in Workers, StartJob(w) PROVE IInv'
  <2>1. work[w] \in Jobs
    BY <1>5 DEF StartJob, IInv
  <2>2. RowOK(Started(job[work[w]]))
    BY <1>5, <2>1, StartedOK DEF StartJob, CanStart, IInv, LeaseConsistent, RowOK
  <2>3. TableOK'
    BY <1>t, <1>5, <2>1, <2>2, UpdateOK DEF StartJob
  <2>  QED
    BY <1>5, <1>q, <2>3 DEF StartJob, GoTo, IInv, TableOK
<1>6. ASSUME NEW w \in Workers, HeartbeatJob(w) PROVE IInv'
  <2>1. work[w] \in Jobs
    BY <1>6 DEF HeartbeatJob, IInv
  <2>2. RowOK(Renewed(job[work[w]]))
    BY <1>6, <2>1, RenewedOK DEF HeartbeatJob, Owns, IInv, LeaseConsistent, RowOK
  <2>3. TableOK'
    BY <1>t, <1>6, <2>1, <2>2, UpdateOK DEF HeartbeatJob
  <2>  QED
    BY <1>6, <1>q, <2>3 DEF HeartbeatJob, IInv, TableOK
<1>7. ASSUME NEW w \in Workers, CompleteJob(w) PROVE IInv'
  <2>1. work[w] \in Jobs
    BY <1>7 DEF CompleteJob, IInv
  <2>2. CASE job[work[w]].status = "completed"
    BY <1>t, <1>7, <1>q, <2>2
       DEF CompleteJob, Leave, GoTo, IInv, TableOK, LeaseConsistent
  <2>3. CASE job[work[w]].status # "completed"
    <3>1. RowOK(Completed(job[work[w]]))
      BY <1>7, <2>1, <2>3, CompletedOK
         DEF CompleteJob, CanComplete, Owns, IInv, LeaseConsistent, RowOK
    <3>2. TableOK'
      BY <1>t, <1>7, <2>1, <2>3, <3>1, UpdateOK DEF CompleteJob
    <3>  QED
      BY <1>7, <1>q, <3>2 DEF CompleteJob, Leave, GoTo, IInv, TableOK
  <2>  QED
    BY <2>2, <2>3
<1>8. ASSUME NEW w \in Workers, RecordFailure(w) PROVE IInv'
  <2>1. work[w] \in Jobs
    BY <1>8 DEF RecordFailure, IInv
  <2>2. RowOK(Retried(job[work[w]]))
    BY <1>8, <2>1, RetriedOK DEF RecordFailure, Owns, IInv, LeaseConsistent, RowOK
  <2>3. TableOK'
    BY <1>t, <1>8, <2>1, <2>2, UpdateOK DEF RecordFailure
  <2>  QED
    BY <1>8, <1>q, <2>1, <2>3 DEF RecordFailure, Leave, GoTo, IInv, TableOK
<1>9. ASSUME NEW w \in Workers,
             \/ ClaimNothing(w) \/ BatchSettles(w) \/ ExecuteReturns(w)
             \/ ExecuteRaises(w) \/ Die(w) \/ Restart(w)
      PROVE  IInv'
  <2>1. job' = job
    BY <1>9 DEF ClaimNothing, BatchSettles, ExecuteReturns, ExecuteRaises,
                Die, Restart
  <2>2. TableOK'
    BY <1>t, <2>1 DEF TableOK, LeaseConsistent
  <2>3. (TypeOK /\ WorkOK)'
    BY <1>9, <2>1 DEF ClaimNothing, BatchSettles, ExecuteReturns,
       ExecuteRaises, Die, Restart, Leave, GoTo, IInv
  <2>  QED
    BY <1>q, <2>2, <2>3
<1>10. CASE UNCHANGED vars
  BY <1>10 DEF vars, IInv, LeaseConsistent
<1>  QED
  BY <1>1, <1>2, <1>3, <1>4, <1>5, <1>6, <1>7, <1>8, <1>9, <1>10
     DEF Next, Run, DieOnLostLease

\* The rows, labels and local variables have their types in every state.
THEOREM TypeCorrect == Spec => [](TypeOK /\ WorkOK)
<1>1. IInv => TypeOK /\ WorkOK
  BY DEF IInv
<1>  QED
  BY InitOK, StepOK, <1>1, PTL DEF Spec

\* The columns of a row agree in every state: no orphaned lease, no waiting
\* job without an attempt, no failed job that has one left.
THEOREM LeaseConsistency == Spec => []LeaseConsistent
<1>1. IInv => LeaseConsistent
  BY DEF IInv
<1>  QED
  BY InitOK, StepOK, <1>1, PTL DEF Spec

LEMMA Invariance == Spec => []IInv
  BY InitOK, StepOK, PTL DEF Spec

------------------------------------------------------------------------------
(***************************************************************************)
(* Safety                                                                  *)
(***************************************************************************)

\* How a step changes the status of one row.
LEMMA StatusSteps ==
  ASSUME IInv, [Next]_vars, NEW j \in Jobs
  PROVE  /\ job[j].status \in TerminalStatuses => job'[j] = job[j]
         /\ job'[j].status \in ActiveStatuses /\ job[j].status \notin ActiveStatuses
              => Enqueue(j)
         /\ /\ job'[j].status \in TerminalStatuses
            /\ job[j].status \notin TerminalStatuses
            => j \in settled'
         /\ settled \subseteq settled'
<1> USE DEF HeldStatuses, ActiveStatuses, TerminalStatuses
<1>t. /\ job \in [Jobs -> JobRows] /\ RowOK(job[j])
      /\ \A w \in Workers : pc[w] = "complete" => work[w] \in settled
  BY DEF IInv, TypeOK, WorkOK, LeaseConsistent, RowOK
<1>1. CASE \E k \in Jobs : Enqueue(k)
  BY <1>t, <1>1 DEF Enqueue, Created, AbsentRow
<1>2. CASE Tick
  <2>1. /\ Aged(job[j]).status = job[j].status
        /\ job[j].status \in TerminalStatuses => Aged(job[j]) = job[j]
    <3>1. Aged(job[j]).status = job[j].status
      BY <1>t DEF Aged, RowOK, JobRows
    <3>2. ASSUME job[j].availableIn = 0, job[j].expiresIn = -1
          PROVE  Aged(job[j]) = job[j]
      <4> DEFINE r == [job[j] EXCEPT !.availableIn = 0]
      <4>1. Aged(job[j]) = [r EXCEPT !.expiresIn = -1]
        BY <3>2 DEF Aged
      <4>2. r = job[j]
        BY <1>t, <3>2 DEF RowOK, JobRows
      <4> HIDE DEF r
      <4>  QED
        BY <1>t, <3>2, <4>1, <4>2 DEF RowOK, JobRows
    <3>3. job[j].status \in TerminalStatuses
            => job[j].availableIn = 0 /\ job[j].expiresIn = -1
      BY <1>t, JobAssumption DEF RowOK, RowConsistent, Held, Expired, JobRows
    <3>  QED
      BY <3>1, <3>2, <3>3
  <2>  QED
    BY <1>t, <1>2, <2>1 DEF Tick
<1>3. ASSUME NEW w \in Workers, RecoverStale(w)
      PROVE  /\ job[j].status \in TerminalStatuses => job'[j] = job[j]
             /\ job'[j].status \in ActiveStatuses => job[j].status \in ActiveStatuses
             /\ /\ job'[j].status \in TerminalStatuses
                /\ job[j].status \notin TerminalStatuses
                => j \in settled'
             /\ settled \subseteq settled'
  <2>1. CASE ~CanRecover(job[j])
    BY <1>3, <2>1 DEF RecoverStale, RecoveredJob
  <2>2. CASE CanRecover(job[j])
    <3>1. job[j].status \in HeldStatuses
      BY <2>2 DEF CanRecover, Held
    <3>2. CASE j \in settled
      BY <1>3, <3>1, <3>2 DEF RecoverStale
    <3>3. CASE j \notin settled
      <4>1. job'[j] = Recovered(job[j])
        BY <1>3, <2>2, <3>3 DEF RecoverStale, RecoveredJob
      <4>2. Recovered(job[j]).status =
              IF job[j].attempts >= MaxAttempts THEN "failed" ELSE "pending"
        BY <1>t, UnleasedType DEF Recovered, RowOK, JobRows
      <4>  QED
        BY <1>3, <2>2, <3>1, <4>1, <4>2 DEF RecoverStale
    <3>  QED
      BY <3>2, <3>3
  <2>  QED
    BY <2>1, <2>2
<1>4. ASSUME NEW w \in Workers, Claim(w)
      PROVE  /\ job[j].status \in TerminalStatuses => job'[j] = job[j]
             /\ job'[j].status \in ActiveStatuses => job[j].status \in ActiveStatuses
             /\ job'[j].status \in TerminalStatuses => job[j].status \in TerminalStatuses
             /\ settled' = settled
  <2>1. PICK k \in Jobs : /\ CanLease(job[k])
                          /\ job' = [job EXCEPT ![k] = Leased(@, w)]
                          /\ settled' = settled
    BY <1>4 DEF Claim
  <2>2. Leased(job[k], w).status = "leased"
    BY <1>t DEF Leased, JobRows
  <2>  QED
    BY <1>t, <2>1, <2>2 DEF CanLease
<1>5. ASSUME NEW w \in Workers,
             StartJob(w) \/ HeartbeatJob(w) \/ CompleteJob(w) \/ RecordFailure(w)
      PROVE  /\ job[j].status \in TerminalStatuses => job'[j] = job[j]
             /\ job'[j].status \in ActiveStatuses => job[j].status \in ActiveStatuses
             /\ /\ job'[j].status \in TerminalStatuses
                /\ job[j].status \notin TerminalStatuses
                => j \in settled'
             /\ settled \subseteq settled'
  <2>1. CASE work[w] # j
    BY <1>t, <1>5, <2>1 DEF StartJob, HeartbeatJob, CompleteJob, RecordFailure
  <2>2. CASE work[w] = j
    <3>1. /\ Started(job[j]).status = "running"
          /\ Renewed(job[j]).status = job[j].status
          /\ Completed(job[j]).status = "completed"
      BY <1>t, UnleasedType DEF RowOK, Started, Renewed, Completed, JobRows
    <3>2. Retried(job[j]).status =
            IF job[j].attempts >= MaxAttempts THEN "failed" ELSE "pending"
      BY <1>t, UnleasedType DEF RowOK, Retried, JobRows
    <3>3. CASE StartJob(w)
      BY <1>t, <2>2, <3>1, <3>3 DEF StartJob, CanStart
    <3>4. CASE HeartbeatJob(w)
      BY <1>t, <2>2, <3>1, <3>4 DEF HeartbeatJob, Owns, Held
    <3>5. CASE CompleteJob(w)
      BY <1>t, <2>2, <3>1, <3>5 DEF CompleteJob, CanComplete, Owns, Held
    <3>6. CASE RecordFailure(w)
      BY <1>t, <2>2, <3>2, <3>6 DEF RecordFailure, Owns, Held
    <3>  QED
      BY <1>5, <3>3, <3>4, <3>5, <3>6
  <2>  QED
    BY <2>1, <2>2
<1>6. ASSUME NEW w \in Workers,
             \/ ClaimNothing(w) \/ BatchSettles(w) \/ ExecuteReturns(w)
             \/ ExecuteRaises(w) \/ Die(w) \/ Restart(w)
      PROVE  job' = job /\ settled \subseteq settled'
  BY <1>6 DEF ClaimNothing, BatchSettles, ExecuteReturns, ExecuteRaises, Die, Restart
<1>7. CASE UNCHANGED vars
  BY <1>7 DEF vars
<1>  QED
  BY <1>1, <1>2, <1>3, <1>4, <1>5, <1>6, <1>7 DEF Next, Run, DieOnLostLease

\* A finished job is never touched again, by any worker or any recovery.
THEOREM FinishedForGood == Spec => FinishedStaysFinished
<1>1. IInv /\ [Next]_vars =>
        [\A j \in Jobs : job[j].status \in TerminalStatuses => job'[j] = job[j]]_vars
  BY StatusSteps
<1>  QED
  BY Invariance, <1>1, PTL DEF Spec, FinishedStaysFinished

\* No job leaves the queue while its batch has a company to process.
THEOREM NothingIsLeftBehind == Spec => []NothingLeftBehind
<1>1. Init => NothingLeftBehind
  BY DEF Init, NothingLeftBehind, AbsentRow, TerminalStatuses
<1>2. IInv /\ [Next]_vars /\ NothingLeftBehind => NothingLeftBehind'
  BY StatusSteps DEF NothingLeftBehind
<1>  QED
  BY Invariance, <1>1, <1>2, PTL DEF Spec

\* At most one active job per business key.
THEOREM BusinessKeyUnique == Spec => []OneActivePerKey
<1>1. Init => OneActivePerKey
  BY DEF Init, OneActivePerKey, AbsentRow, ActiveStatuses, HeldStatuses
<1>2. IInv /\ [Next]_vars /\ OneActivePerKey => OneActivePerKey'
  <2> SUFFICES ASSUME IInv, [Next]_vars, OneActivePerKey,
                      NEW j \in Jobs, NEW k \in Jobs, j # k, KeyOf[j] = KeyOf[k],
                      job'[j].status \in ActiveStatuses,
                      job'[k].status \in ActiveStatuses
               PROVE  FALSE
    BY DEF OneActivePerKey
  <2>1. CASE job[j].status \in ActiveStatuses /\ job[k].status \in ActiveStatuses
    BY <2>1 DEF OneActivePerKey
  <2>2. CASE job[j].status \notin ActiveStatuses
    <3>1. Enqueue(j)
      BY <2>2, StatusSteps
    <3>  QED
      BY <3>1 DEF Enqueue, IInv, TypeOK
  <2>3. CASE job[k].status \notin ActiveStatuses
    <3>1. Enqueue(k)
      BY <2>3, StatusSteps
    <3>  QED
      BY <3>1 DEF Enqueue, IInv, TypeOK
  <2>  QED
    BY <2>1, <2>2, <2>3
<1>  QED
  BY Invariance, <1>1, <1>2, PTL DEF Spec

\* A worker that lost its job writes nothing to the row any more.
THEOREM StaleWorkersAreHarmless == Spec => StaleWorkerHarmless
<1>1. IInv /\ [Next]_vars =>
        [\A w \in Workers :
           /\ work[w] # NoJob
           /\ ~Owns(job[work[w]], w)
           /\ pc'[w] # pc[w]
           => job'[work[w]] = job[work[w]]]_vars
  <2> SUFFICES ASSUME IInv, Next, NEW w \in Workers, work[w] # NoJob,
                      ~Owns(job[work[w]], w), pc'[w] # pc[w]
               PROVE  job'[work[w]] = job[work[w]]
    OBVIOUS
  <2>t. /\ work[w] \in Jobs /\ pc = [v \in Workers |-> pc[v]]
        /\ pc[w] \notin {"recover", "claim", "down"}
    BY DEF IInv, TypeOK, WorkOK
  <2>1. CASE (\E j \in Jobs : Enqueue(j)) \/ Tick
    BY <2>1, <2>t DEF Enqueue, Tick
  <2>2. ASSUME NEW v \in Workers,
               RecoverStale(v) \/ Claim(v) \/ ClaimNothing(v) \/ Restart(v)
        PROVE  FALSE
    BY <2>2, <2>t DEF RecoverStale, Claim, ClaimNothing, Restart, GoTo
  <2>3. ASSUME NEW v \in Workers, StartJob(v) \/ CompleteJob(v) \/ RecordFailure(v)
        PROVE  job'[work[w]] = job[work[w]]
    <3>1. v = w
      BY <2>3, <2>t DEF StartJob, CompleteJob, RecordFailure, Leave, GoTo
    <3>2. CompleteJob(w) /\ job[work[w]].status = "completed"
      BY <2>3, <3>1 DEF StartJob, CompleteJob, RecordFailure, CanStart,
                        CanComplete, Owns, Held, HeldStatuses
    <3>  QED
      BY <3>2 DEF CompleteJob
  <2>4. ASSUME NEW v \in Workers,
               \/ HeartbeatJob(v) \/ BatchSettles(v) \/ ExecuteReturns(v)
               \/ ExecuteRaises(v) \/ Die(v)
        PROVE  job'[work[w]] = job[work[w]]
    BY <2>4, <2>t DEF HeartbeatJob, BatchSettles, ExecuteReturns, ExecuteRaises, Die
  <2>  QED
    BY <2>1, <2>2, <2>3, <2>4 DEF Next, Run, DieOnLostLease
<1>  QED
  BY Invariance, <1>1, PTL DEF Spec, StaleWorkerHarmless

\* A live lease is lost only by its owner's own completion or failure.
THEOREM LiveLeasesAreProtected == Spec => LiveLeaseProtected
<1>1. IInv /\ [Next]_vars =>
        [\A j \in Jobs :
           /\ Held(job[j]) /\ ~Expired(job[j])
           /\ job'[j].owner # job[j].owner
           => \E w \in Workers : /\ job[j].owner = w /\ work[w] = j
                                 /\ pc[w] \in {"complete", "failing"}
                                 /\ pc'[w] = "recover"]_vars
  <2> SUFFICES ASSUME IInv, Next, NEW j \in Jobs, Held(job[j]), ~Expired(job[j]),
                      job'[j].owner # job[j].owner
               PROVE  \E w \in Workers : /\ job[j].owner = w /\ work[w] = j
                                         /\ pc[w] \in {"complete", "failing"}
                                         /\ pc'[w] = "recover"
    OBVIOUS
  <2>t. /\ job \in [Jobs -> JobRows] /\ pc = [v \in Workers |-> pc[v]]
        /\ job[j].status \in {"leased", "running"}
    BY DEF IInv, TypeOK, Held, HeldStatuses
  <2>1. CASE \E k \in Jobs : Enqueue(k)
    BY <2>1, <2>t DEF Enqueue
  <2>2. CASE Tick
    <3>1. Aged(job[j]).owner = job[j].owner
      BY <2>t DEF Aged, JobRows
    <3>  QED
      BY <2>2, <2>t, <3>1 DEF Tick
  <2>3. ASSUME NEW w \in Workers, RecoverStale(w) \/ Claim(w) PROVE FALSE
    BY <2>3, <2>t DEF RecoverStale, RecoveredJob, CanRecover, Claim, CanLease
  <2>4. ASSUME NEW w \in Workers, StartJob(w) \/ HeartbeatJob(w) PROVE FALSE
    <3>1. Started(job[j]).owner = job[j].owner /\ Renewed(job[j]).owner = job[j].owner
      BY <2>t DEF Started, Renewed, JobRows
    <3>  QED
      BY <2>4, <2>t, <3>1 DEF StartJob, HeartbeatJob
  <2>5. ASSUME NEW w \in Workers, CompleteJob(w) \/ RecordFailure(w)
        PROVE  /\ job[j].owner = w /\ work[w] = j
               /\ pc[w] \in {"complete", "failing"} /\ pc'[w] = "recover"
    BY <2>5, <2>t DEF CompleteJob, RecordFailure, CanComplete, Owns, Leave, GoTo
  <2>6. ASSUME NEW w \in Workers,
               \/ ClaimNothing(w) \/ BatchSettles(w) \/ ExecuteReturns(w)
               \/ ExecuteRaises(w) \/ Die(w) \/ Restart(w)
        PROVE  FALSE
    BY <2>6 DEF ClaimNothing, BatchSettles, ExecuteReturns, ExecuteRaises, Die, Restart
  <2>  QED
    BY <2>1, <2>2, <2>3, <2>4, <2>5, <2>6 DEF Next, Run, DieOnLostLease
<1>  QED
  BY Invariance, <1>1, PTL DEF Spec, LiveLeaseProtected

------------------------------------------------------------------------------
(***************************************************************************)
(* The queue implements JobLease                                           *)
(***************************************************************************)

\* A step that only changes what JobLease does not see is a stutter.
LEMMA Stutters ==
  ASSUME \A j \in Jobs : Alike(job'[j], job[j])
  PROVE  UNCHANGED Abstract!leaseVars
<1>1. /\ [j \in Jobs |-> PhaseOf(job'[j])] = [j \in Jobs |-> PhaseOf(job[j])]
      /\ [j \in Jobs |-> job'[j].owner] = [j \in Jobs |-> job[j].owner]
      /\ [j \in Jobs |-> job'[j].attempts] = [j \in Jobs |-> job[j].attempts]
  BY DEF Alike
<1>  QED
  BY <1>1 DEF Abstract!leaseVars

\* Jobs that are all let go make a Release.
LEMMA Releases ==
  ASSUME NEW S \in SUBSET Jobs,
         \A j \in S : LetGo(job[j], job'[j]),
         \A j \in Jobs \ S : job'[j] = job[j]
  PROVE  Abstract!Next
<1>1. PICK p \in [S -> {"waiting", "completed", "failed"}] :
        \A j \in S : p[j] = PhaseOf(job'[j])
  <2>1. [j \in S |-> PhaseOf(job'[j])] \in [S -> {"waiting", "completed", "failed"}]
    BY DEF LetGo
  <2>  QED
    BY <2>1
<1>2. ASSUME NEW j \in S
      PROVE  /\ PhaseOf(job[j]) = "held"
             /\ p[j] = "waiting" => job[j].attempts < MaxAttempts
             /\ p[j] = "failed" => job[j].attempts = MaxAttempts
  BY <1>1 DEF LetGo
<1>3. /\ [j \in Jobs |-> PhaseOf(job'[j])]
           = [j \in Jobs |-> IF j \in S THEN p[j]
                             ELSE [k \in Jobs |-> PhaseOf(job[k])][j]]
      /\ [j \in Jobs |-> job'[j].owner]
           = [j \in Jobs |-> IF j \in S THEN NoOwner
                             ELSE [k \in Jobs |-> job[k].owner][j]]
      /\ [j \in Jobs |-> job'[j].attempts] = [j \in Jobs |-> job[j].attempts]
  BY <1>1 DEF LetGo
<1>4. Abstract!Release(S, p)
  BY <1>2, <1>3 DEF Abstract!Release
<1>  QED
  BY <1>4 DEF Abstract!Next

\* Every step of the queue is a step of JobLease or a stutter.
LEMMA StepRefines == IInv /\ [Next]_vars => [Abstract!Next]_(Abstract!leaseVars)
<1> SUFFICES ASSUME IInv, [Next]_vars
             PROVE  Abstract!Next \/ UNCHANGED Abstract!leaseVars
  OBVIOUS
<1>t. /\ job \in [Jobs -> JobRows]
      /\ \A j \in Jobs : RowOK(job[j]) /\ RowConsistent(job'[j])
      /\ \A w \in Workers : pc[w] \in {"start", "execute", "complete", "failing"}
                              => work[w] \in Jobs
  BY StepOK DEF IInv, TypeOK, WorkOK, LeaseConsistent, RowOK
<1>1. ASSUME NEW j \in Jobs, Enqueue(j)
      PROVE  Abstract!Next
  <2>1. /\ Created.status = "pending" /\ Created.owner = NoOwner
        /\ Created.attempts = 0
        /\ job' = [job EXCEPT ![j] = Created] /\ job[j].status = "absent"
    BY <1>1 DEF Enqueue, Created, AbsentRow
  <2>2. job[j].owner = NoOwner /\ job[j].attempts = 0
    BY <1>t, <2>1, JobAssumption DEF RowOK, RowConsistent, Held, HeldStatuses, JobRows
  <2>3. /\ [k \in Jobs |-> PhaseOf(job'[k])]
             = [[k \in Jobs |-> PhaseOf(job[k])] EXCEPT ![j] = "waiting"]
        /\ [k \in Jobs |-> job'[k].owner] = [k \in Jobs |-> job[k].owner]
        /\ [k \in Jobs |-> job'[k].attempts] = [k \in Jobs |-> job[k].attempts]
    BY <1>t, <2>1, <2>2, Phases
  <2>4. PhaseOf(job[j]) = "absent"
    BY <2>1, Phases
  <2>  QED
    BY <2>3, <2>4 DEF Abstract!Enqueue, Abstract!Next
<1>2. ASSUME Tick
      PROVE  UNCHANGED Abstract!leaseVars
  BY <1>2, <1>t, UnseenMethods, Stutters DEF Tick
<1>3. ASSUME NEW w \in Workers, RecoverStale(w)
      PROVE  Abstract!Next
  <2> DEFINE S == {j \in Jobs : CanRecover(job[j])}
  <2>1. \A j \in S : Held(job[j]) /\ job'[j] \in {Recovered(job[j]), Reconciled(job[j])}
    BY <1>3 DEF RecoverStale, RecoveredJob, CanRecover
  <2>2. \A j \in Jobs \ S : job'[j] = job[j]
    BY <1>3 DEF RecoverStale, RecoveredJob
  <2>3. S \in SUBSET Jobs
    OBVIOUS
  <2> HIDE DEF S
  <2>4. \A j \in S : LetGo(job[j], job'[j])
    BY <1>t, <2>1, <2>3, LettingGo
  <2>  QED
    BY <2>2, <2>3, <2>4, Releases
<1>4. ASSUME NEW w \in Workers, Claim(w)
      PROVE  Abstract!Next
  <2>1. PICK j \in Jobs : /\ CanLease(job[j])
                          /\ job' = [job EXCEPT ![j] = Leased(@, w)]
    BY <1>4 DEF Claim
  <2>2. Handed(job[j], Leased(job[j], w), w)
    BY <1>t, <2>1, HandingOut
  <2>3. /\ [k \in Jobs |-> PhaseOf(job'[k])]
             = [[k \in Jobs |-> PhaseOf(job[k])] EXCEPT ![j] = "held"]
        /\ [k \in Jobs |-> job'[k].owner]
             = [[k \in Jobs |-> job[k].owner] EXCEPT ![j] = w]
        /\ [k \in Jobs |-> job'[k].attempts]
             = [[k \in Jobs |-> job[k].attempts] EXCEPT ![j] = @ + 1]
    BY <1>t, <2>1, <2>2 DEF Handed
  <2>4. Abstract!Acquire(j, w)
    BY <2>2, <2>3 DEF Abstract!Acquire, Handed
  <2>  QED
    BY <2>4 DEF Abstract!Next
<1>5. ASSUME NEW w \in Workers, StartJob(w) \/ HeartbeatJob(w)
      PROVE  UNCHANGED Abstract!leaseVars
  <2>1. work[w] \in Jobs /\ Alike(job[work[w]], job[work[w]])
    BY <1>5, <1>t DEF StartJob, HeartbeatJob, Alike
  <2>2. \A j \in Jobs : Alike(job'[j], job[j])
    BY <1>5, <1>t, <2>1, UnseenMethods DEF StartJob, HeartbeatJob, CanStart, Owns, Alike
  <2>  QED
    BY <2>2, Stutters
<1>6. ASSUME NEW w \in Workers, CompleteJob(w) \/ RecordFailure(w)
      PROVE  Abstract!Next \/ UNCHANGED Abstract!leaseVars
  <2>1. work[w] \in Jobs
    BY <1>6, <1>t DEF CompleteJob, RecordFailure
  <2>2. CASE job' = job
    BY <2>2, Stutters DEF Alike
  <2>3. CASE job' # job
    <3>1. /\ Held(job[work[w]])
          /\ job' \in {[job EXCEPT ![work[w]] = Completed(@)],
                       [job EXCEPT ![work[w]] = Retried(@)]}
      BY <1>6, <2>3 DEF CompleteJob, CanComplete, RecordFailure, Owns
    <3>2. \A j \in {work[w]} : LetGo(job[j], job'[j])
      BY <1>t, <2>1, <3>1, LettingGo
    <3>3. \A j \in Jobs \ {work[w]} : job'[j] = job[j]
      BY <1>t, <3>1
    <3>4. {work[w]} \in SUBSET Jobs
      BY <2>1
    <3>  QED
      BY <3>2, <3>3, <3>4, Releases
  <2>  QED
    BY <2>2, <2>3
<1>7. ASSUME NEW w \in Workers,
             \/ ClaimNothing(w) \/ BatchSettles(w) \/ ExecuteReturns(w)
             \/ ExecuteRaises(w) \/ Die(w) \/ Restart(w)
      PROVE  UNCHANGED Abstract!leaseVars
  <2>1. job' = job
    BY <1>7 DEF ClaimNothing, BatchSettles, ExecuteReturns, ExecuteRaises, Die, Restart
  <2>  QED
    BY <2>1, Stutters DEF Alike
<1>8. CASE UNCHANGED vars
  BY <1>8, Stutters DEF Alike, vars
<1>  QED
  BY <1>1, <1>2, <1>3, <1>4, <1>5, <1>6, <1>7, <1>8 DEF Next, Run, DieOnLostLease

\* The queue keeps the promises of JobLease, for every number of workers,
\* jobs and attempts: exclusive holders, bounded attempts, failure only
\* after the last of them, and no life after the end.
THEOREM QueueImplementsJobLease == Spec => ImplementsJobLease
<1>1. Init => Abstract!Init
  BY Phases DEF Init, Abstract!Init, AbsentRow
<1>  QED
  BY Invariance, <1>1, StepRefines, PTL DEF Spec, ImplementsJobLease, Abstract!Spec

\* The rows of the table agree with themselves and with each other.
THEOREM RowsStayConsistent == Spec => []RowsConsistent
<1>1. TypeOK /\ LeaseConsistent /\ OneActivePerKey => RowsConsistent
  BY DEF RowsConsistent
<1>  QED
  BY TypeCorrect, LeaseConsistency, BusinessKeyUnique, <1>1, PTL

\* Live leases, lost leases and finished jobs are all respected.
THEOREM LeasesStayRespected == Spec => LeasesAreRespected
  BY FinishedForGood, StaleWorkersAreHarmless, LiveLeasesAreProtected
  DEF LeasesAreRespected
==============================================================================
