------------------------------- MODULE JobLease -------------------------------
(***************************************************************************)
(* What the work queue promises, whatever its clocks, retries and          *)
(* recoveries do: a job is held by one worker at a time, goes from one     *)
(* holder to the next only through the queue, is attempted at most         *)
(* MaxAttempts times, is given up only after the last attempt, and stays   *)
(* finished.  ProspectJobQueue, ImportResolution and ProspectRouting are   *)
(* shown to implement it.                                                  *)
(***************************************************************************)
EXTENDS Integers

CONSTANTS Jobs, Workers, NoOwner, MaxAttempts

VARIABLES phase,   \* absent, waiting, held, completed or failed
          holder,  \* the worker that holds the job, or NoOwner
          tries    \* how many times it has been handed out

leaseVars == <<phase, holder, tries>>

Init ==
  /\ phase = [j \in Jobs |-> "absent"]
  /\ holder = [j \in Jobs |-> NoOwner]
  /\ tries = [j \in Jobs |-> 0]

Enqueue(j) ==
  /\ phase[j] = "absent"
  /\ phase' = [phase EXCEPT ![j] = "waiting"]
  /\ UNCHANGED <<holder, tries>>

Acquire(j, w) ==
  /\ phase[j] = "waiting"
  /\ tries[j] < MaxAttempts
  /\ phase' = [phase EXCEPT ![j] = "held"]
  /\ holder' = [holder EXCEPT ![j] = w]
  /\ tries' = [tries EXCEPT ![j] = @ + 1]

\* Holders lose or give up a set of jobs at once: each for another attempt,
\* for good once its attempts are used up, or because its work is done.
Release(S, p) ==
  /\ \A j \in S : /\ phase[j] = "held"
                  /\ p[j] = "waiting" => tries[j] < MaxAttempts
                  /\ p[j] = "failed" => tries[j] = MaxAttempts
  /\ phase' = [j \in Jobs |-> IF j \in S THEN p[j] ELSE phase[j]]
  /\ holder' = [j \in Jobs |-> IF j \in S THEN NoOwner ELSE holder[j]]
  /\ UNCHANGED tries

Next ==
  \/ \E j \in Jobs : Enqueue(j)
  \/ \E j \in Jobs, w \in Workers : Acquire(j, w)
  \/ \E S \in SUBSET Jobs :
       \E p \in [S -> {"waiting", "completed", "failed"}] : Release(S, p)

Spec == Init /\ [][Next]_leaseVars
==============================================================================
