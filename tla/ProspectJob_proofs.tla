-------------------------- MODULE ProspectJob_proofs --------------------------
(***************************************************************************)
(* The methods of the ProspectJob aggregate keep its row consistent, for   *)
(* any max_attempts, lease_ttl and retry_delay: one lemma per method, used *)
(* by the proofs about every module that drives a queue of such rows, and  *)
(* one for what the abstract queue, JobLease, sees of it.                  *)
(***************************************************************************)
EXTENDS ProspectJob, TLAPS

RowOK(row) == row \in JobRows /\ RowConsistent(row)

\* A new job is well formed.
LEMMA CreatedOK == RowOK(AbsentRow) /\ RowOK(Created)
  BY JobAssumption DEF RowOK, JobRows, RowConsistent, AbsentRow, Created,
     Held, Expired, HeldStatuses, Statuses, ActiveStatuses, TerminalStatuses

\* An unheld row keeps everything but its lease.
LEMMA UnleasedType ==
  ASSUME NEW row \in JobRows
  PROVE  /\ Unleased(row) \in JobRows
         /\ Unleased(row).status = row.status
         /\ Unleased(row).owner = NoOwner
         /\ Unleased(row).expiresIn = -1
         /\ Unleased(row).attempts = row.attempts
         /\ Unleased(row).availableIn = row.availableIn
         /\ Unleased(row).recoveries = row.recoveries
<1> DEFINE r == [row EXCEPT !.owner = NoOwner]
<1>1. /\ r \in JobRows
      /\ r.status = row.status /\ r.attempts = row.attempts
      /\ r.availableIn = row.availableIn /\ r.recoveries = row.recoveries
      /\ r.owner = NoOwner
  BY DEF JobRows
<1>2. Unleased(row) = [r EXCEPT !.expiresIn = -1]
  BY DEF Unleased
<1> HIDE DEF r
<1>  QED
  BY <1>1, <1>2, JobAssumption DEF JobRows

\* A waiting job has an attempt left, which lease uses.
LEMMA LeasedOK ==
  ASSUME NEW row, RowOK(row), CanLease(row), NEW w \in Workers
  PROVE  RowOK(Leased(row, w))
<1> DEFINE a == [row EXCEPT !.status = "leased"]
           b == [a EXCEPT !.attempts = @ + 1]
           c == [b EXCEPT !.owner = w]
<1>1. Leased(row, w) = [c EXCEPT !.expiresIn = LeaseTTL]
  BY DEF Leased
<1>2. /\ a \in JobRows /\ a.status = "leased"
      /\ a.attempts = row.attempts /\ a.availableIn = row.availableIn
      /\ a.recoveries = row.recoveries
  BY DEF JobRows, Statuses, RowOK
<1> HIDE DEF a
<1>3. /\ b \in JobRows /\ b.status = "leased"
      /\ b.attempts = row.attempts + 1 /\ b.availableIn = row.availableIn
      /\ b.recoveries = row.recoveries
  BY <1>2, JobAssumption DEF JobRows, RowOK, RowConsistent, CanLease
<1> HIDE DEF b
<1>4. /\ c \in JobRows /\ c.status = "leased" /\ c.owner = w
      /\ c.attempts = row.attempts + 1 /\ c.availableIn = row.availableIn
      /\ c.recoveries = row.recoveries
  BY <1>3 DEF JobRows
<1> HIDE DEF c
<1>  QED
  BY <1>1, <1>4, JobAssumption
     DEF JobRows, RowOK, RowConsistent, CanLease, Held, Expired, HeldStatuses

\* start keeps the lease.
LEMMA StartedOK ==
  ASSUME NEW row, RowOK(row), row.status = "leased"
  PROVE  RowOK(Started(row))
  BY DEF RowOK, JobRows, RowConsistent, Started, Held, Expired, HeldStatuses, Statuses

\* heartbeat renews the lease of a held row.
LEMMA RenewedOK ==
  ASSUME NEW row, RowOK(row), Held(row)
  PROVE  RowOK(Renewed(row))
  BY JobAssumption
     DEF RowOK, JobRows, RowConsistent, Renewed, Held, Expired, HeldStatuses

\* complete gives up the lease.
LEMMA CompletedOK ==
  ASSUME NEW row, RowOK(row), Held(row)
  PROVE  RowOK(Completed(row))
  BY UnleasedType
     DEF RowOK, JobRows, RowConsistent, Completed, Held, Expired, HeldStatuses, Statuses

\* retry_after_error requeues a job only with an attempt left.
LEMMA RetriedOK ==
  ASSUME NEW row, RowOK(row), Held(row)
  PROVE  RowOK(Retried(row))
<1>1. CASE row.attempts >= MaxAttempts
  BY <1>1, UnleasedType, JobAssumption
     DEF RowOK, JobRows, RowConsistent, Retried, Held, Expired, HeldStatuses, Statuses
<1>2. CASE ~(row.attempts >= MaxAttempts)
  <2> DEFINE r == [Unleased(row) EXCEPT !.status = "pending"]
  <2>1. Retried(row) = [r EXCEPT !.availableIn = RetryDelay]
    BY <1>2 DEF Retried
  <2>2. /\ r \in JobRows /\ r.status = "pending"
        /\ r.owner = NoOwner /\ r.expiresIn = -1
        /\ r.attempts = row.attempts /\ r.recoveries = row.recoveries
    BY UnleasedType DEF RowOK, JobRows, Statuses
  <2> HIDE DEF r
  <2>  QED
    BY <1>2, <2>1, <2>2, JobAssumption
       DEF RowOK, JobRows, RowConsistent, Held, Expired, HeldStatuses
<1>  QED
  BY <1>1, <1>2

\* recover_stale does too, and takes back one attempt each time.
LEMMA RecoveredOK ==
  ASSUME NEW row, RowOK(row), Held(row)
  PROVE  RowOK(Recovered(row)) /\ RowOK(Reconciled(row))
<1> DEFINE back(s) == [[Unleased(row) EXCEPT !.status = s]
                         EXCEPT !.recoveries = @ + 1]
<1>1. ASSUME NEW s \in {"pending", "completed", "failed"}
      PROVE  LET r == back(s)
             IN  /\ r \in JobRows /\ r.status = s
                 /\ r.owner = NoOwner /\ r.expiresIn = -1
                 /\ r.attempts = row.attempts /\ r.availableIn = 0
                 /\ r.recoveries = row.recoveries + 1
  <2> DEFINE r == [Unleased(row) EXCEPT !.status = s]
  <2>1. /\ r \in JobRows /\ r.status = s
        /\ r.owner = NoOwner /\ r.expiresIn = -1
        /\ r.attempts = row.attempts /\ r.availableIn = 0
        /\ r.recoveries = row.recoveries
    BY UnleasedType DEF RowOK, RowConsistent, Held, HeldStatuses, JobRows, Statuses
  <2>2. back(s) = [r EXCEPT !.recoveries = @ + 1]
    OBVIOUS
  <2> HIDE DEF r
  <2>3. row.recoveries + 1 \in 0 .. MaxAttempts
    BY JobAssumption DEF RowOK, RowConsistent, JobRows
  <2>  QED
    BY <2>1, <2>2, <2>3 DEF JobRows
<1>2. Reconciled(row) = back("completed")
  BY DEF Reconciled
<1>3. Recovered(row) = IF row.attempts >= MaxAttempts THEN back("failed") ELSE back("pending")
  BY DEF Recovered
<1> HIDE DEF back
<1>4. RowOK(Reconciled(row))
  BY <1>1, <1>2, JobAssumption
     DEF RowOK, RowConsistent, JobRows, Held, Expired, HeldStatuses
<1>5. RowOK(Recovered(row))
  BY <1>1, <1>3, JobAssumption
     DEF RowOK, RowConsistent, JobRows, Held, Expired, HeldStatuses
<1>  QED
  BY <1>4, <1>5

\* The clock takes a delay to zero and a lease to its expiry, no further.
LEMMA AgedOK ==
  ASSUME NEW row, RowOK(row)
  PROVE  RowOK(Aged(row))
<1> DEFINE d == IF row.availableIn > 0 THEN row.availableIn - 1 ELSE 0
           e == IF row.expiresIn >= 0 THEN row.expiresIn - 1 ELSE row.expiresIn
           r == [row EXCEPT !.availableIn = d]
<1>1. /\ d \in 0 .. RetryDelay /\ d <= row.availableIn
      /\ e \in -1 .. LeaseTTL /\ e <= row.expiresIn
  BY JobAssumption DEF RowOK, JobRows
<1>2. Aged(row) = [r EXCEPT !.expiresIn = e]
  BY DEF Aged
<1> HIDE DEF d, e
<1>3. /\ r \in JobRows /\ r.status = row.status /\ r.owner = row.owner
      /\ r.attempts = row.attempts /\ r.recoveries = row.recoveries
      /\ r.availableIn = d
  BY <1>1 DEF RowOK, JobRows
<1> HIDE DEF r
<1>  QED
  BY <1>1, <1>2, <1>3, JobAssumption
     DEF RowOK, JobRows, RowConsistent, Held, Expired, HeldStatuses
------------------------------------------------------------------------------
(***************************************************************************)
(* What JobLease sees of the methods                                       *)
(***************************************************************************)
\* The phase that each status stands for.
LEMMA Phases ==
  ASSUME NEW row
  PROVE  /\ row.status = "absent" => PhaseOf(row) = "absent"
         /\ row.status = "pending" => PhaseOf(row) = "waiting"
         /\ Held(row) => PhaseOf(row) = "held"
         /\ row.status = "completed" => PhaseOf(row) = "completed"
         /\ row.status = "failed" => PhaseOf(row) = "failed"
  BY DEF PhaseOf, Held, HeldStatuses

\* Two rows that JobLease cannot tell apart,
Alike(r1, r2) ==
  PhaseOf(r1) = PhaseOf(r2) /\ r1.owner = r2.owner /\ r1.attempts = r2.attempts

\* a row that worker w has been given,
Handed(old, new, w) ==
  /\ PhaseOf(old) = "waiting" /\ old.attempts < MaxAttempts
  /\ PhaseOf(new) = "held" /\ new.owner = w /\ new.attempts = old.attempts + 1

\* and one that its holder has lost or given up.
LetGo(old, new) ==
  /\ PhaseOf(old) = "held"
  /\ PhaseOf(new) \in {"waiting", "completed", "failed"}
  /\ new.owner = NoOwner /\ new.attempts = old.attempts
  /\ PhaseOf(new) = "waiting" => old.attempts < MaxAttempts
  /\ PhaseOf(new) = "failed" => old.attempts = MaxAttempts

\* The clock, start and heartbeat are not seen,
LEMMA UnseenMethods ==
  ASSUME NEW row, RowOK(row)
  PROVE  /\ Alike(Aged(row), row)
         /\ row.status = "leased" => Alike(Started(row), row)
         /\ Held(row) => Alike(Renewed(row), row)
<1>1. row \in JobRows
  BY DEF RowOK
<1>2. /\ Aged(row).status = row.status /\ Aged(row).owner = row.owner
      /\ Aged(row).attempts = row.attempts
  BY <1>1 DEF Aged, JobRows
<1>3. /\ Renewed(row).status = row.status /\ Renewed(row).owner = row.owner
      /\ Renewed(row).attempts = row.attempts
  BY <1>1 DEF Renewed, JobRows
<1>4. /\ Started(row).status = "running" /\ Started(row).owner = row.owner
      /\ Started(row).attempts = row.attempts
  BY <1>1 DEF Started, JobRows
<1>  QED
  BY <1>2, <1>3, <1>4 DEF Alike, PhaseOf, HeldStatuses

\* a lease hands a job out,
LEMMA HandingOut ==
  ASSUME NEW row, RowOK(row), NEW w \in Workers, CanLease(row)
  PROVE  Handed(row, Leased(row, w), w)
<1>1. /\ Leased(row, w).status = "leased" /\ Leased(row, w).owner = w
      /\ Leased(row, w).attempts = row.attempts + 1
  BY DEF Leased, JobRows, RowOK
<1>2. row.status = "pending" /\ row.attempts < MaxAttempts
  BY DEF CanLease, RowOK, RowConsistent
<1>  QED
  BY <1>1, <1>2, Phases DEF Handed, Held, HeldStatuses

\* and the four other ways to end one give it back.
LEMMA LettingGo ==
  ASSUME NEW row, RowOK(row), Held(row),
         NEW new \in {Completed(row), Retried(row), Recovered(row), Reconciled(row)}
  PROVE  LetGo(row, new)
<1>1. RowOK(new)
  BY CompletedOK, RetriedOK, RecoveredOK
<1>2. /\ new.status \in {"pending", "completed", "failed"}
      /\ new.owner = NoOwner /\ new.attempts = row.attempts
  <2> DEFINE ended(s) == [Unleased(row) EXCEPT !.status = s]
  <2>1. ASSUME NEW s \in {"pending", "completed", "failed"}
        PROVE  /\ ended(s) \in JobRows /\ ended(s).status = s
               /\ ended(s).owner = NoOwner /\ ended(s).attempts = row.attempts
    BY UnleasedType DEF RowOK, JobRows, Statuses
  <2> HIDE DEF ended
  <2> DEFINE counted(s) == [ended(s) EXCEPT !.recoveries = @ + 1]
             delayed(s) == [ended(s) EXCEPT !.availableIn = RetryDelay]
  <2>2. ASSUME NEW s \in {"pending", "completed", "failed"}
        PROVE  /\ counted(s).status = s /\ counted(s).owner = NoOwner
               /\ counted(s).attempts = row.attempts
               /\ delayed(s).status = s /\ delayed(s).owner = NoOwner
               /\ delayed(s).attempts = row.attempts
    BY <2>1 DEF JobRows
  <2>3. Completed(row) = ended("completed") /\ Reconciled(row) = counted("completed")
    BY DEF Completed, Reconciled, ended
  <2>4. Retried(row) = IF row.attempts >= MaxAttempts THEN ended("failed") ELSE delayed("pending")
    BY DEF Retried, ended
  <2>5. Recovered(row) = IF row.attempts >= MaxAttempts THEN counted("failed") ELSE counted("pending")
    BY DEF Recovered, ended
  <2> HIDE DEF counted, delayed
  <2>  QED
    BY <2>1, <2>2, <2>3, <2>4, <2>5
<1>3. /\ new.status = "pending" => row.attempts < MaxAttempts
      /\ new.status = "failed" => row.attempts = MaxAttempts
  BY <1>1, <1>2 DEF RowOK, RowConsistent
<1>  QED
  BY <1>2, <1>3, Phases DEF LetGo
==============================================================================
