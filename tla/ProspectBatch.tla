----------------------------- MODULE ProspectBatch -----------------------------
(***************************************************************************)
(* The ProspectBatch aggregate: a batch and its companies                  *)
(* (app/domain/prospect_batch/aggregate.py).  Each operator is a method:   *)
(* a guard Can... for the exception it raises, and the company, or the     *)
(* function of companies, it returns.                                      *)
(*                                                                         *)
(* Error codes are kept as far as a guard tells them apart: "retryable"    *)
(* stands for RETRYABLE_ERROR_CODES of workflow.py, "final" for the codes  *)
(* outside it (COMPANY_DISQUALIFIED, OPPORTUNITY_NOT_QUALIFIED,            *)
(* WORKER_LEASE_EXPIRED and the like).                                     *)
(***************************************************************************)
EXTENDS Integers

CONSTANT NumCompanies

MaxBatchCompanies == 5

ASSUME BatchAssumption == NumCompanies \in 1 .. MaxBatchCompanies

\* Companies are named by their position in the batch.
Companies == 1 .. NumCompanies

TerminalCompany == {"completed", "needs_review", "failed"}
CompanyStatuses == {"queued", "running"} \union TerminalCompany
RunningStages == {"validating", "researching", "scoring",
                  "discovering_contact", "generating_draft"}
Stages == {"queued", "awaiting_evidence_review", "completed", "needs_review",
           "failed"} \union RunningStages
Codes == {"none", "EVIDENCE_REVIEW_REQUIRED", "retryable", "final"}
Decisions == {"none", "qualified", "disqualified", "unqualified"}

CompanyRows == [status : CompanyStatuses,
                stage : Stages,
                code : Codes,
                research : BOOLEAN,       \* research_id is set
                opportunity : Decisions,  \* "none" while opportunity_id is null
                contact : BOOLEAN,        \* selected_contact_id is set
                draft : BOOLEAN]          \* outreach_id, draft_version are set

BatchStatuses == {"pending", "running", "completed", "partial_failed", "failed"}
FinalStatuses == {"completed", "partial_failed", "failed"}

QueuedCompany ==
  [status |-> "queued", stage |-> "queued", code |-> "none",
   research |-> FALSE, opportunity |-> "none", contact |-> FALSE,
   draft |-> FALSE]

Active(c) == c.status \notin TerminalCompany

CanMove(c) == Active(c)
MovedTo(c, s) == [c EXCEPT !.stage = s, !.status = "running", !.code = "none"]

CompletedCompany(c) ==
  [c EXCEPT !.stage = "completed", !.status = "completed", !.code = "none"]

AwaitingReview(c) ==
  [c EXCEPT !.stage = "awaiting_evidence_review", !.status = "needs_review",
            !.code = "EVIDENCE_REVIEW_REQUIRED"]

\* needs_review and fail: no guard on the present status.
NeedingReview(c, code) ==
  [c EXCEPT !.stage = "needs_review", !.status = "needs_review", !.code = code]
FailedCompany(c, code) ==
  [c EXCEPT !.stage = "failed", !.status = "failed", !.code = code]

CanRetry(c) == c.status \in {"needs_review", "failed"}
RetriedCompany(c) ==
  [c EXCEPT !.stage = "queued", !.status = "queued", !.code = "none"]

RequeuedCompany(c) == IF c.status = "running" THEN RetriedCompany(c) ELSE c

CanResume(c) == /\ c.status = "needs_review"
                /\ c.stage = "awaiting_evidence_review"
                /\ c.code = "EVIDENCE_REVIEW_REQUIRED"
ResumedCompany(c) ==
  [c EXCEPT !.stage = "scoring", !.status = "queued", !.code = "none"]

------------------------------------------------------------------------------
HasActive(cs) == \E c \in Companies : Active(cs[c])

CanStartBatch(status) == status # "completed"

\* finalize, which raises while a company is active.
CanFinalize(cs) == ~HasActive(cs)
FinalStatus(cs) ==
  CASE \A c \in Companies : cs[c].status = "completed" -> "completed"
    [] \A c \in Companies : cs[c].status = "failed" -> "failed"
    [] OTHER -> "partial_failed"

\* recover_stale_execution: the companies, then the batch status.
RecoveredCompanies(cs) == [c \in Companies |-> RequeuedCompany(cs[c])]
RecoveredStatus(cs) == IF HasActive(cs) THEN "pending" ELSE FinalStatus(cs)

\* (a mistake: companies not yet begun are forgotten; parked ones are failed too)
FailedRunning(cs) ==
  [c \in Companies |-> IF cs[c].status = "running" THEN FailedCompany(cs[c], "final")
                       ELSE cs[c]]
FailedUnfinished(cs) ==
  [c \in Companies |-> IF cs[c].status # "completed" THEN FailedCompany(cs[c], "final")
                       ELSE cs[c]]

\* fail_active_execution, which then finalizes the batch.
FailedActive(cs) ==
  [c \in Companies |-> IF Active(cs[c]) THEN FailedCompany(cs[c], "final")
                       ELSE cs[c]]
==============================================================================
