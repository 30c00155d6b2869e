----------------------------- MODULE ProspectJob -----------------------------
(***************************************************************************)
(* The ProspectJob aggregate: one row of the PostgreSQL work queue         *)
(* (app/domain/prospect_job/aggregate.py).  Each operator is a method of   *)
(* the aggregate: a guard Can... for the exceptions it raises and a        *)
(* function for the row it returns.  ProspectJobQueue and ProspectPipeline *)
(* extend this module and decide who calls the methods, and when.          *)
(*                                                                         *)
(* Timestamps are kept as distances from the present: availableIn is       *)
(* available_at - now (0 once it is past) and expiresIn is                 *)
(* lease_expires_at - now (-1 once it is past).  Age, applied to every row *)
(* by a tick of the clock, keeps them so; the strict comparison of         *)
(* recover_stale and the weak one of lease are exact.                      *)
(***************************************************************************)
EXTENDS Integers

CONSTANTS Workers,      \* lease owners, one per worker process
          NoOwner,      \* the null lease_owner
          MaxAttempts,  \* max_attempts of every job
          LeaseTTL,     \* lease_ttl, in ticks
          RetryDelay    \* retry_delay, in ticks

ASSUME JobAssumption ==
  /\ NoOwner \notin Workers
  /\ MaxAttempts \in Nat \ {0}
  /\ LeaseTTL \in Nat
  /\ RetryDelay \in Nat

\* ProspectJobStatus; "absent" is a row that has not been inserted.
\* The status CANCELLED is declared by the source and set by no code.
Statuses == {"absent", "pending", "leased", "running", "completed", "failed"}
HeldStatuses == {"leased", "running"}
ActiveStatuses == {"pending"} \union HeldStatuses
TerminalStatuses == {"completed", "failed"}

JobRows == [status : Statuses,
            attempts : 0 .. MaxAttempts,
            owner : Workers \union {NoOwner},
            availableIn : 0 .. RetryDelay,
            expiresIn : -1 .. LeaseTTL,
            recoveries : 0 .. MaxAttempts]

Held(row) == row.status \in HeldStatuses
Expired(row) == row.expiresIn < 0

\* An unheld row has no lease: lease_owner and lease_expires_at are null.
Unleased(row) == [row EXCEPT !.owner = NoOwner, !.expiresIn = -1]

AbsentRow == [status |-> "absent", attempts |-> 0, owner |-> NoOwner,
              availableIn |-> 0, expiresIn |-> -1, recoveries |-> 0]

Created == [AbsentRow EXCEPT !.status = "pending"]

CanLease(row) == row.status = "pending" /\ row.availableIn = 0
Leased(row, w) ==
  [row EXCEPT !.status = "leased", !.attempts = @ + 1,
              !.owner = w, !.expiresIn = LeaseTTL]

CanStart(row, w) == row.status = "leased" /\ row.owner = w
Started(row) == [row EXCEPT !.status = "running"]

\* _require_owner and the status guard shared by heartbeat, complete and
\* retry_after_error.  None of them looks at the lease's expiry.
Owns(row, w) == Held(row) /\ row.owner = w

Renewed(row) == [row EXCEPT !.expiresIn = LeaseTTL]

\* (a mistake: complete does not check the owner)
CanCompleteAnyones(row, w) == row.status = "completed" \/ Held(row)

\* complete returns a COMPLETED row as it is, before it checks the owner.
CanComplete(row, w) == row.status = "completed" \/ Owns(row, w)
Completed(row) == [Unleased(row) EXCEPT !.status = "completed"]

\* (a mistake: a retried row keeps its lease)
RetriedWithLease(row) ==
  [row EXCEPT !.status = IF row.attempts >= MaxAttempts THEN "failed" ELSE "pending"]

\* retry_after_error: back to the queue after retry_delay, or fail when
\* this was the last attempt.
Retried(row) ==
  IF row.attempts >= MaxAttempts
  THEN [Unleased(row) EXCEPT !.status = "failed"]
  ELSE [Unleased(row) EXCEPT !.status = "pending", !.availableIn = RetryDelay]

\* (a mistake: recovery overlooks running jobs)
CanRecoverLeased(row) == row.status = "leased" /\ Expired(row)

CanRecover(row) == Held(row) /\ Expired(row)

\* (a mistake: recovery requeues a job that has no attempt left)
RecoveredForever(row) ==
  [Unleased(row) EXCEPT !.status = "pending", !.recoveries = @ + 1]

Recovered(row) ==
  [Unleased(row) EXCEPT
     !.status = IF row.attempts >= MaxAttempts THEN "failed" ELSE "pending",
     !.recoveries = @ + 1]

Reconciled(row) ==
  [Unleased(row) EXCEPT !.status = "completed", !.recoveries = @ + 1]

\* One tick of the clock.
Aged(row) ==
  [row EXCEPT !.availableIn = IF @ > 0 THEN @ - 1 ELSE 0,
              !.expiresIn = IF @ >= 0 THEN @ - 1 ELSE @]

\* What JobLease calls the statuses,
PhaseOf(row) == CASE row.status = "absent" -> "absent"
                  [] row.status = "pending" -> "waiting"
                  [] row.status \in HeldStatuses -> "held"
                  [] row.status = "completed" -> "completed"
                  [] row.status = "failed" -> "failed"

\* and the row of job j in a queue that jobs are appended to.
RowIn(queue, j) == IF j \in DOMAIN queue THEN queue[j] ELSE AbsentRow

\* The columns of a row agree: exactly the held rows have an owner, only a
\* waiting job has a delay, a waiting job has an attempt left, a failed one
\* none, and every recovery took back an attempt (aggregate.py: lease, fail,
\* recover_stale).
RowConsistent(row) ==
  /\ Held(row) <=> row.owner # NoOwner
  /\ Expired(row) \/ Held(row)
  /\ row.status # "pending" => row.availableIn = 0
  /\ row.status = "pending" => row.attempts < MaxAttempts
  /\ row.status = "failed" => row.attempts = MaxAttempts
  /\ row.status = "absent" => row.attempts = 0
  /\ Held(row) => row.recoveries < row.attempts
  /\ row.recoveries <= row.attempts
==============================================================================
