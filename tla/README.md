# us-importer-hunter: a TLA+ model

This directory holds TLA+ specifications of the backend of us-importer-hunter, the TLC
configurations that model-check them and proofs checked by TLAPS. Paths below are relative to
`src/`; `app/` is `src/apps/backend/app/`.

The program turns customs records and discovery tasks into qualified sales prospects. A user
uploads import records, the backend resolves them to companies, routes and selects some of them,
and starts a *prospect batch*: a background worker researches each company with an LLM, waits for a
human to review the extracted claims, scores the company, finds a contact, drafts an email. What is
hard about it is that this takes minutes per company, runs in a worker process that shares a
PostgreSQL database with the HTTP API, is split into many small transactions, and must survive
crashes, expired leases, retries, resubmissions and users who act in between.

## Inventory

| Component | State | Operations | Talks to |
|---|---|---|---|
| Prospect job queue (`domain/prospect_job`, `workflows/prospect_batch/execution.py`, `database/repositories/prospect_job.py`) | table `prospect_batch_jobs`: status, attempts, lease owner and expiry, available_at, recovery count | create, lease, start, heartbeat, complete, retry_after_error, recover_stale, reconcile | worker loop, batch pipeline, API (inserts) |
| Prospect batch aggregate (`domain/prospect_batch`) | batch status, started_at, up to five companies with status, stage, code and the ids of what was made for them | create, start, move_to, with_..., complete, await_evidence_review, needs_review, fail, retry, resume, recover_stale_execution, fail_active_execution, finalize | pipeline, API |
| Batch pipeline (`workflows/prospect_batch/workflow.py`) | local variables of one execution | execute, `_process_company`, `_process_after_research`, retry_company, resume_company, start_routing_batch | job queue (heartbeats), research, scoring, contacts, drafts |
| Batch submission (same file, `submit`) | none of its own: two unique partial indexes | find by request key, find active, insert batch and job | API clients |
| Worker process (`worker.py`, `core/worker_health.py`) | none; a heartbeat key in Redis | poll, run_once, die, be restarted | everything above |
| Import job queue (`domain/import_resolution`, `workflows/import_resolution/execution.py`) | table `import_processing_jobs`, the columns and methods of the prospect jobs, one job type for each of the next two | create, lease, start, heartbeat, complete, retry_after_error, recover_stale, reconcile | worker loop, resolution, routing |
| Import resolution (`workflows/import_resolution`, `services/import_resolution`) | one resolution with counters per import session; per row two decisions; companies, profiles, external identities, contacts, links | submit, execute in batches of rows, match, review (merge, keep separate, reject) | import job queue, routing |
| Prospect routing (`workflows/prospect_routing`, `services/prospect_routing`) | runs with a generation and a recorded entity state; routes per generation and company; prospect batches of routes | submit, recalculate, execute, review a route, form a batch | import job queue, import resolution, batch pipeline |
| UMail export (`workflows/umail_export`) | export batches with their rows, the suppression list | prepare, download; suppress and unsuppress by hand | routing, contacts, feedback |
| UMail feedback (`workflows/umail_feedback`) | result imports with their rows, engagement events | preview, apply | export batches, the suppression list |
| Import evidence (`workflows/import_evidence`) | shipments, judgements of a day, aggregates, a ledger of promotions with their signals, jobs | upload: match, judge, aggregate, promote | opportunity scoring |
| Research run (`workflows/research`, `services/research`) | research runs; documents with versions and roots | robots, fetch, extract, validate, store | the pipeline, chunking |
| Research review (`workflows/research/promotion.py`, `domain/research`) | reviews of claims; sources and signals of a company | accept, edit, reject, replay, promote | the pipeline, companies |
| MVP analysis, opportunity, email (`workflows/mvp_prospect_analysis`, `opportunity`, `email`) | opportunities with assessments; outreaches with versioned drafts | one request through its stages; approve a draft | ingestion, scoring, contacts |
| Contacts and decision makers (`workflows/contact_ingestion`, `decision_maker`) | contacts with channels and sources; stored assessments | ingest, merge, rank, select | the pipeline, MVP analysis |
| Discovery task and company ingestion (`workflows/discovery_task`, `company_ingestion`) | tasks with candidates; companies with aliases and sources | create, start, search, ingest a claim, complete | batch submission |
| Rules (`services/prospect_routing/scorer.py`, `services/scoring`, `services/research/chunking.py`) | none: functions of what is known | score and tier a company; merge evidence, judge it; cut a document | routing, opportunity, research |
| Bulk import (`workflows/bulk_import`) | import sessions and their rows | upload | import resolution |
| Acceptance preflight, API, schemas, mappers, frontend | none that changes by itself | | |

### What is hard, and what makes each part correct

* **Job queue.** Workers race for rows, leases run out under workers that are merely slow, a
  process may die between any two transactions, attempts run out. Correct: one owner at a time;
  a live lease is respected; a worker that lost its job cannot write the row; a finished job stays
  finished; no job leaves the queue while its batch has work left; every job is finished at last.
* **Batch and pipeline.** Every checkpoint of a company is a transaction of its own, the next
  execution starts from whatever the last one saved, and the API, the reviewer and recovery change
  the same rows. Correct: no unreviewed evidence is acted on; a completed company has everything a
  completed company needs; nothing waits for a job that does not exist; the batch summary agrees
  with its companies; saved research is not repeated.
* **Submission.** Two requests look, find nothing, and both insert. Correct: one job per
  selection, one batch per creating key, every answer names a batch of the companies asked for.
* **Import resolution.** A worker matches thousands of rows in batches against a copy of the
  database it loaded once, while reviewers decide beside it. Correct: a row is decided once and
  counted once across retries; an external id names one company; a resolved pair is linked,
  whoever resolved it last; a finished resolution is whole; one that waits has a job.
* **Routing.** A run is recomputed, under a new generation, whenever the entity state differs from
  the one it records; submission, worker, reviewer and batch each read it before they lock
  anything. Correct: a completed run shows the routes of the state it records; an active run has a
  job; saved routes and the batches made of them stay as they were.
* **Export, feedback.** Suppressions arrive between the reading of the list and the storing of a
  batch, and a batch is found again by its hash and given out a second time; two result files tell
  of one event; a file is applied twice; a person suppresses the same address. Correct: what answers
  a request keeps to the list the request read; an address is mailed once per batch; a complaint is
  on the list, once, and counted once.
* **Research.** Several requests read a site that changes while they read it, and store what they
  read under advisory locks taken page by page, which may deadlock. Reviewers save whole runs and
  companies that others have changed. Correct: one root per text and one current document per
  address; claims rest on stored pages; a decision is not lost and is applied once.
* **Import evidence.** Uploads of one company judge the same shipments as of different days, by rows
  that differ in what the fingerprint leaves out, aggregate what is current by then, and promote, each
  in a transaction of its own. Correct: an active signal rests on shipments that are the company's, by
  the rows it was built from, and had arrived.
* **Analysis, outreach.** A request reads an aggregate, waits for a language model and saves the
  whole aggregate, while other requests and approvers do so too. Correct: nothing is approved but by
  a person, nothing is drafted or assessed twice, an answer says what became of the request.
* **Registers and rules.** Discovery and ingestion read, decide and save in separate transactions
  and may die between them. The rules are long and their thresholds close. Correct: a task that
  ended adds up; missing knowledge costs nothing; a verdict is earned; the one who is written to is
  not behind another in the ranking that is shown.

## Modules

| Module | Models | Lines of state |
|---|---|---|
| `ProspectJob` | the job aggregate, as guards and functions on a row | none |
| `ProspectBatch` | the batch aggregate, likewise | none |
| `JobLease` | *abstract*: what a work queue promises | `phase`, `holder`, `tries` |
| `ProspectJobQueue` | the queue under any number of workers; a batch is only "settled" or not | `job`, `settled`, `pc`, `work` |
| `ProspectJob_proofs` | lemmas about the methods of the aggregate, and what `JobLease` sees of them | |
| `ProspectJobQueue_proofs` | theorems about the queue, for all constants | |
| `ProspectPipeline` | one batch with its jobs, workers, reviewer and API; composes the two aggregates and is shown to implement `ProspectJobQueue` | `batch`, `started`, `company`, `claims`, `jobs`, `pc`, `me`, `faults` |
| `ProspectPipeline_proofs` | theorems about it, its refinement among them, and about `OpportunityScore` and `DecisionMaker` | |
| `BatchSubmission` | concurrent submissions against the unique indexes | `batches`, `jobs`, `step`, `request`, `second`, `answers` |
| `ImportResolution` | the resolution of one session, with its jobs, workers, reviewers and submitting clients | `resolution`, `decisions`, `tables`, `jobs`, `pc`, `me`, `request`, `faults` |
| `ImportResolution_proofs` | theorems about it, for all constants but one, and about `ImportEvidence` and `CompanyDiscovery` | |
| `ProspectRouting` | one routing run, with its jobs, workers, clients and the entities that change under it | `entities`, `run`, `routes`, `batches`, `jobs`, `pc`, `me`, `request`, `faults` |
| `ProspectRouting_proofs` | theorems about it and about `RoutingScore`, for all constants | |
| `RoutingScore` | features, points and tier of one company, in both versions of the rules | `rows`, `contacts`, `profile`, `conflict` |
| `ImportEvidence` | uploads of customs files for one company | `upload`, `judged`, `aggregates`, `leading`, `promotions` |
| `ResearchRuns` | research requests, the site, stored documents and runs | `site`, `changes`, `work`, `db`, `stored` |
| `ResearchPromotion` | reviews of the claims of stored runs | `promotions`, `firms`, `review`, `reviews` |
| `DocumentChunking` | how a document becomes chunks, a line at a time | `document` |
| `Intake_proofs` | theorems about `BatchSubmission`, `ResearchRuns`, `DocumentChunking` and `ResearchPromotion`, for all constants | |
| `OpportunityScore` | how evidence becomes a score and a verdict | `signals`, `researched`, `projected`, `sources`, `website` |
| `ProspectAnalysis` | requests that analyse one prospect, and approvals | `facts`, `contacts`, `opportunities`, `outreaches`, `analysis`, `approval`, `asked`, `sent` |
| `DecisionMaker` | ingestion of people, their ranking and the selection | `people`, `filing`, `size`, `recorded`, `selection` |
| `CompanyDiscovery` | discovery tasks and the register of companies | `tasks`, `companies`, `searches` |
| `UmailExport` | export batches and the suppression list | `suppressions`, `route`, `exports`, `request`, `today` |
| `UmailFeedback` | extends it: result files | `imports`, `events`, `review` |
| `Outreach_proofs` | theorems about the two and about `ProspectAnalysis`, for all constants | |
| `Order_proofs` | lemmas about least and greatest elements, recursions and orders of finite sets | |
| `MC*` | model values, symmetry, the small instances; three of them join parts, see below | |

The layers are `JobLease` ⊒ `ProspectJobQueue` ⊒ `ProspectPipeline`: both refinements are model-checked
and proved, the first for all constants, the second for one worker. `ImportResolution` and
`ProspectRouting` extend `ProspectJob` too: an `ImportProcessingJob` has the same columns, guards and
methods (`domain/import_resolution/models.py:540-791`), and each of the two is proved to implement
`JobLease` for all constants. They meet in the entity state: what a
resolution and its reviews change is the `entities` counter of `ProspectRouting`, whose scores are any
that `RoutingScore` might give. `UmailFeedback` extends `UmailExport`: its suppressions are those that
the next export reads.

Three MC modules join parts that have no state in common, so that their questions are asked in one
run: `MCIntake` (`BatchSubmission`, `ResearchRuns`, `ResearchPromotion`), `MCOutreach` (`UmailFeedback`,
`ProspectAnalysis`) and `MCRules` (`RoutingScore`, `DocumentChunking`, `OpportunityScore`,
`DecisionMaker`, `CompanyDiscovery`, `ImportEvidence`). A step of one part needs the others to be in
their initial states: a behaviour is of one part, and the states of the parts add up instead of
multiplying.

### How state and actions correspond to the code

*Rows.* A row of `prospect_batch_jobs` is a record; times are distances from now, so `expiresIn = -1`
is `lease_expires_at < now` and one `Tick` ages every row. `AbsentRow` is a row not yet inserted.
Error codes are kept as far as a guard distinguishes them (`RETRYABLE_ERROR_CODES` or not). Ids of
saved results (`research_id`, `opportunity_id`, ...) are booleans, or the qualification decision.

*Transactions.* One `async with session.begin()` of the code is one action. Rows are read
`FOR UPDATE` by the queue and by the API; the pipeline's `_mutate` reads without a lock, and is still
one action because the only writers it could interleave with refuse to run while a job of the batch
is active. `pc` names the next transaction of a worker; `me` holds what it read earlier
(`LoadBatch` reads the companies to visit once and never again, as `execute` does).

*Exceptions.* `Throw` sends a worker where Python would: from the pipeline of a company to the
handler of `execute`, from the rest of `execute` to `record_failure`, from anything else out of
`run_once` and so out of the process, to be restarted by Docker. `Raise` is a transaction that fails,
`Crash` a killed process; together they are bounded by `MaxFaults`.

*Services.* Research, scoring, contact discovery and drafting answer with any outcome the code
distinguishes, chosen nondeterministically.

*Routing.* The entity-state hash is a counter, since hashes are only compared and decided entities
never return to an earlier state. `submit` is `ReadSources` (hash, unlocked) and then
`SubmitReuse` or `SubmitGeneration` (the run locked); execution is `BeginRun`, `ReadRun`, `Beat`,
`PersistRoutes`; a review and a batch each read the run in one action and decide in the next. A
client that loses the race to insert a run gets the winner's, `SubmitReuse`.

*Import resolution.* What the database holds and what a worker has loaded of it, its index, are two
values of one type; `WithCompany`, `WithPerson` and `Linked` apply to either. `ResolveRow` matches
against the index and writes to the tables: `Collides` are the inserts that a unique constraint or
primary key refuses, `Flushed` the writes, those of whole profiles included. The matcher may decide
anything its code can decide given the index; scores and normalisation are left out. Companies and
contacts made for a row are named after it. A row is its own transaction: a batch of 250 is a
sequence of rows between which nobody steps, so every behaviour with larger batches is covered. A
submission reads the resolution in one action and writes the row it read in the next, because
`merge` compares with the row as it is by then: the repository's object of the first read is gone.
One session is modelled; others would add to the tables as reviewers do.

*Whole saves.* A repository loads an aggregate, the workflow changes the object, and the flush writes
what differs from the loaded copy: `Flushed` in `ProspectAnalysis` and `Written` in `CompanyDiscovery`
say which rows are then inserted, updated and deleted, and `Conflicts` which inserts the unique
constraints refuse. Reading, changing and committing are separate actions, so that what was committed
in between is overwritten exactly where the code does.

*Research.* The pages to fetch are the best of what was found by `Better`, the order of score, length
of the path and text, so that the sort and the cut of the code are a set and an order here. One proposal
of an answer is followed; a fetch is one step; the time that is left may run
out at every read. `Lock`, `Ingest` and `Commit` are the transaction of a run, with its own view
(`View`) over what is committed; `Deadlock` is two requests that wait for each other, one of which the
database chooses to lose. A review is read, read the company, decide, save.

*Import evidence.* Each stage of an upload is a transaction, and the reads of one are one step. What
the fingerprint of a shipment covers are its papers (`Bill`, a constant); what a row says besides may
differ from row to row and from file to file: provider, containers, origin, domain and country are not
covered at all, and the names of importer and supplier but for their punctuation, so that one row of a
shipment may match the company and another not. A judgement is identified by what its fingerprint tells
apart: shipment, day, reliability of the provider, and whether there are containers. Uploads therefore
supersede each other's judgements on one day too. An aggregate is identified by its day and judgements,
and one that is stored keeps the rows it was first built from; a batch by its aggregate and whether that
was current. Months have 30 days. A refused commit is `RaiseUpload`.

*Export and feedback.* The hash of a selection is the selection itself. Lines of a result file are
records of what the matcher looks at. `Apply` and `CommitApply` are the two ends of one transaction on
a locked import, between which others write events and suppressions that its inserts then meet.

*Discovery.* A request may die between any two of its transactions, and nobody takes its task up
again. A company is looked up in one transaction, merged in memory and saved in a later one. A refused
commit and any other exception of the ingestion are `RefuseClaim`: the candidate failed. A commit whose
answer is lost is left out.

*Rules.* A row, a line, a title or a signal is the record of what the taxonomy or the keywords find in
it. Ratios and binary fractions are integers in a common unit; the sum that Python's floats round to
just under its bound is written as what it rounds to. Behaviours feed the rules one fact at a time,
because their properties compare a verdict with the verdict before, or hold of every prefix.

*Chunks.* Tokens are numbered through the document, sections and slices are intervals of them, and the
two loops of the chunker are recursive functions: `LastBegins[i]` is where the section begins that is
the last one when line `i` has been read and merged, `SliceStarts` where the slices start. A line
may have no token: the tokenizer knows ASCII words, Han ideographs and marks, and finds none in a line
of another alphabet or of underscores. Such a line is part of its section; a section of such lines alone
that stays unmerged is a chunk without a token, which raises (`domain/research/chunk.py:69`), and the
document gets no chunk at all (`Refused`). The heading path and type that label a chunk are left out.

*Claiming.* `claim_next` orders by `available_at, created_at` but skips locked rows, so with several
workers any due row may be next: `Claim` takes any. `recover_stale` takes at most 20 rows per call;
the model has fewer.

## Runs

| Run | Instance | States | What it shows |
|---|---|---|---|
| `queue` | 2 workers, 2 jobs of one batch, 2 attempts, lease and retry delay of 1 tick | 41 079 | The queue's invariants and action properties, that it implements `JobLease`, and that once kills stop every pending job finishes |
| `pipeline` | 1 worker, 2 companies, 2 jobs, 2 attempts, 2 faults | 633 586 | The human gate, justified completion, summary agreement, that the pipeline implements the queue, and that every started company reaches a terminal status |
| `pipeline_completed_final` | 1 worker, 1 company | violated | A completed company may be turned into a failed one |
| `routing` | 1 worker, 2 clients, 1 company, 2 generations, 1 entity change, 1 fault | 987 373 | A completed run is current, an active one has a job, batches stay decided and history is kept |
| `routing_reused` | 1 client, 3 generations, no fault | violated | A second job fails the run that the first completed |
| `import_two_workers` | 2 workers, 3 rows, two share an external id, one has a contact | 1 997 876 | Decisions are single and counted once, external ids decisive, results whole |
| `import_resubmitted` | 1 worker, 2 clients, 2 rows of one external id, one with an address, both with a contact, 2 submissions, 1 fault | 96 329 | Resolved pairs are linked, submitted resolutions end |
| `import_profiles` | 1 worker, 2 rows with addresses | violated | A stale profile overwrites a reviewer's merge |
| `intake` | 2 clients, 2 selections, 1 key, 2 batches, 1 retry; 2 research requests, 3 addresses, 3 texts, 1 change; 2 reviewers, 2 runs, 3 reviews | 1 943 740 | Submission is idempotent per creating key and exclusive per selection; one root per text, runs are sound; nothing is listed twice, reviews keep the trace |
| `outreach` | 2 clients, 2 reviewers, 3 contacts, 2 addresses, 2 result files; 2 analyses of one prospect, 4 requests, 1 approval | 236 370 | Answers respect suppressions, complaints reach the list, feedback is whole; nothing is done twice, approvals are human, answers honest |
| `outreach_approval` | 1 analysis, 1 approval | violated | A stale save takes an approval back |
| `rules` | 2 rows and 1 profile; documents of 4 lines, some without a token; 3 signals and 4 sources; 8 candidates, 3 contacts; 2 discovery requests, 2 prompts, 6 claims; 3 uploads of 5 files, 5 shipments and 2 days | 341 605 | Tiers are justified and knowledge never costs; chunks are whole; qualification is earned; the selected is top of the ranking; discoveries add up; active signals are earned |

**Bounds.** Two attempts (the code has three) already give a retry, an exhausted job and the last
attempt; two workers give a stale owner and its successor; two companies give one that is done
beside one that is not, which is what the summary status and `fail_active_execution` tell apart; two
jobs give the first and a requeue; two faults give a failure during the recovery from another; two
batches and a retry give a finished batch beside an active one. A lease of zero ticks expires at the
first tick after a heartbeat, so a lease may run out before every single step of a worker.

For routing, two generations are a run and its recalculation; one company is enough, since routes of
one generation do not look at each other, and the theorems are about any number. For import, the third
row meets a company that the first made and the second touched; `MaxJobs = 1` leaves resubmission out
of `import_two_workers`, because it breaks the counters (see *Seen on the way*), and
`import_resubmitted` has it. Two submissions may also overlap so that the second undoes a resolution
the first one's job completed; it then completes once more.

Of three uploads, the third begins when two are through, since two that overlap leave every mixture of
judgements that it can meet (`InOrder`); of two that overlap, the second has the complete file or the
same shipments told otherwise: by another provider, without origins, one of them in several rows.

For research, two pages give two requests opposite orders of locks, and a third address a redirect and
a page of no host; three texts give one that is shared, one that is flawed and one that is too thin.
For outreach, one disturbance per behaviour (an entry made or taken off by hand, a new generation, a
day, a download) meets every state of two requests and two reviewers; an approval comes early
(`Early`), since what it can overwrite or be overwritten by is there with two requests. For the rules,
the instance is chosen so that the thresholds have inputs on both sides: companies that qualify and
that just fail to, a line longer than the hard limit of a chunk, two candidates of equal standing that
are closer than the margin. `Calm` keeps resizing and selecting to moments at which
nobody ingests. The discovery claims have one website under two ports, one that is none, names that
differ in their legal form, and one that cannot be stored.

**Deadlock** is checked for the queue, the pipeline, routing and import, where a clock always ticks.
The other systems stop at their bounds: at
`MaxBatches`, `MaxReviews`, `MaxSent`, `MaxRows` and the like, and when every request is answered.

**Fairness.** Time passes (`WF(Tick)`), a worker that can step does (Docker restarts it, every
external call has a timeout), and `execute` ends by settling and returning unless it raises. Nothing
obliges a user or reviewer to act, and nothing is strongly fair. Routing and import assume the same:
time passes and workers step. The queue's liveness assumes that
kills stop; the pipeline's that faults are bounded; with neither, a job that is killed before it can
use its attempts up is still failed by recovery, but the next recovery may be killed as well. The
requests of the API (research, analysis, discovery, upload, export) have no fairness and no liveness:
they are coroutines of one process, nobody takes them up after its death, and the properties about
them say what is true whenever they stop.

**Limits.** With two workers, the batch-level properties of the pipeline are false: a worker whose
lease expired keeps writing batch and company rows, because `_mutate` does not look at the lease. The
code documents one worker (`prospect_batch/execution.py:139` "Single-worker, single-job runner";
`worker.py:142`), so these are checked with one; the job row itself is safe with any number, which is
proved. An Idempotency-Key that was answered with another request's active batch is stored nowhere,
so only a key that created its batch keeps its name (part of `RequestsAreIdempotent`).

## Findings

1. **A completed company can be failed** (`pipeline_completed_final`). `workflow.py:1006-1015`
   commits the company as completed; the heartbeat at line 1016 is still in the `try` of `execute`,
   and if its transaction fails the handler writes `failed` over it. `move_to` refuses to move a
   terminal company, `fail` does not.
2. **A completed routing run is failed by its second job** (`routing_reused`). A run that is reset
   while its first job is queued has two active jobs. The first completes the current generation; the
   other cannot persist, uses its attempts up, and `record_failure` fails the run
   (`import_resolution/execution.py:114`), so that the same state is computed once more.
3. **A reviewer's merge is overwritten** (`import_profiles`). The worker writes whole profiles from
   the copy it loaded at its start; a column that a review filled in between is lost, where the audit
   report says that profiles are only added to.
4. **An approval is taken back** (`outreach_approval`). The draft workflow reads the outreach, waits for
   the language model and saves the drafts it read as they were; `domain/outreach/aggregate.py:77` says
   that drafts are never modified.

### Seen on the way

The models show more of this kind, which no run asks about because a property they break would only
repeat one of the above, or because no line of the repository promises otherwise. Each was found with
a property or a search for a state, since dropped:

* An approved draft may be deleted. A request that wrote version 2 from one it had read merges while two
  others are stored, and deletes version 3, which it does not know; if a person approved version 3 before
  the commit, `approved_version` names a version that is gone (with `MaxFacts = 3`; it refuted, beyond
  the run's bounds, a clause that the types of `ProspectAnalysis` had, when their invariance was to be
  proved).
* `submit` of a resolution writes a failed resolution back as it read it, over the counters of a review
  committed in between (`import_resolution/workflow.py:104`).
* A refreshed document supersedes the root that others are duplicates of; they keep pointing at it
  (`services/research/documents.py:111`), where ADR-0029 lines 33-34 expect a current root.
* Of two reviews of one run that overlap, the second saves the run as it read it and drops the decision of
  the first, unless a row they both add has one key (`domain/research/aggregate.py:214`).
  `ReviewsKeepTheTrace` speaks only of reviews that nobody overlapped.
* A section of lines in which the tokenizer finds no token costs the document all its chunks
  (`domain/research/chunk.py:69`).
* A decision taken without a company and sent again with one is "unchanged" and reaches no company
  (`research/promotion.py:224`).
* All assessments of a ranking are committed together: one fingerprint that is stored refuses the new
  ones too, and the answer shows a ranking that is not recorded (`decision_maker/workflow.py:138`).
* Racing requests create one company, contact or opportunity twice; a stale save of a contact removes
  channels, of a company replaces a source or a website that another request stored.
* A discovery request that dies leaves its task active for ever, and with it the key that refuses the
  next request for the prompt. A task may be "partial_failed" although no company results.
* An aggregate that was current when it was read may be promoted after the batch of a newer one
  (`import_evidence/promotion.py:54`).
* Slices may repeat each other's end. Where a sentence ends in the overlap and the next one ends beyond
  the hard limit, the next slices end where the last one did, each a token shorter, until they have
  passed it: with ends after 7, 10 and 200 tokens, a target of 10, a limit of 15 and an overlap of 5
  the slices are 0-10, 7-10, 8-10, 9-10, 10-25 (`services/research/chunking.py:504-535`).

## Proofs

`ProspectJobQueue_proofs` proves, for every set of workers, jobs and business keys and every number
of attempts, lease and delay: type correctness, `LeaseConsistent`, `NothingLeftBehind`,
`OneActivePerKey`, together `RowsConsistent` (`RowsStayConsistent`); the action properties
`FinishedStaysFinished`, `StaleWorkerHarmless` and `LiveLeaseProtected`, together `LeasesAreRespected`
(`LeasesStayRespected`); and `QueueImplementsJobLease`. They assume `JobAssumption` (the null owner is
not a worker, at least one attempt) and `QueueAssumption` (a business key per job, the null job is
not a job), nothing else.

The inductive invariant is `IInv == TypeOK /\ LeaseConsistent /\ WorkOK`. `TypeOK` alone is not
inductive: leasing increments `attempts`, which stays within `MaxAttempts` only because a pending
row has an attempt left, which `LeaseConsistent` says. `WorkOK` ties a worker's label to its having
a job, without which `job[work[w]]` is no row. One lemma per function of the aggregate
(`LeasedOK`, `RetriedOK`, ...) shows that it keeps a row consistent; `UpdateOK` lifts that to the
table; `StepOK` goes through the actions. The other invariants follow from `IInv` and a step:
`NothingLeftBehind` is inductive on top of it (only a settled batch lets a job leave), as is
`OneActivePerKey` (only `Enqueue` makes a row active, and the index guards it). The refinement maps
a worker's step to `Acquire` or `Release`, a recovery to the `Release` of all expired jobs at once. What
`JobLease` sees of each method is a lemma about one row (`UnseenMethods`, `HandingOut`, `LettingGo`),
which the other queue shares: `ResolutionImplementsJobLease` and `RoutingImplementsJobLease` are the
same theorem about the jobs of an import session and of a routing run, of which each submission or
generation appends one. A job that is not there yet is an absent row (`RowIn`). That recovery completes
the jobs of a resolution or run that is done makes no difference to `JobLease`: it is a `Release` as well.
No run of the project checks these two; before the proofs TLC found no violation on the instance of
`import_resubmitted` (all 96 329 states) and, in five minutes, none on that of `routing` with two workers
and one client, and it did find one with `RecoveredForever`.

`ProspectRouting_proofs` proves, for every set of companies, clients and workers and every number of
generations, entity states, attempts and faults: `RoutingTypeCorrect`, `ActiveRunsHaveJobs`,
`HistoryIsNeverLost` and `BatchesStayDecided`; and, for one worker (`OneWorker`, an assumption of
that theorem alone), `CompletedRunsAreCurrent`. The inductive invariant `RInv` adds to `TypeOK` that
rows are consistent, that there is one job per generation (`JobsFit`), that workers and requests
refer to jobs and generations that exist, and `CurrentJobActive`: while the run waits, the job of its
*current* generation is active. That is stronger than `ActiveRunHasJob`, and needed: an older job may
end while the run waits for the next one. `HistoryIsKept` needs that routes are saved only into a
generation that has none; `BatchesAreDecided` that a decided route never changes, which is
`HistoryIsNeverLost` again. `CompletedIsCurrent` needs what no row says: a worker that has read the
run holds the current generation and saves under it, or the run was reset and is no longer running.
With one worker nobody else sets it running again (`ReadOK`, and `CompleteOK` for the worker about to
complete its job); with two the theorem is false.

`TiersAreJustifiedHolds` and `KnowledgeNeverCostsHolds` are about the score of a route, for any rows,
contacts and lists of targets, in both versions of the rules. A step forgets nothing
(`NothingForgotten`), and each part of the score is monotone in what is known: matches and counts grow,
thresholds are passed in one direction, and ratios divide by what is looked for, not by what is known.

`ProspectPipeline_proofs` proves, for every number of companies, jobs, attempts and faults: the types,
for any workers (`PipelineTypeCorrect`); and, for one worker, `EvidenceIsGated`,
`CompletedStayJustified`, `ReviewStaysBinding`, `NobodyWaitsInVain`, `BatchStaysConsistent` and
`PipelineImplementsQueue`. Each of these six assumes `OneWorker`: the compose files start one `worker`
service, and with two TLC refutes the gate, the justification and the summary of the batch (see
*Limits*). The invariant has three parts. `TInv` adds to the types what a worker has at each step: a
job, a company, a decision to save. `GInv` says what was decided before a worker is where it is. The
gate is checked in one transaction and relied on in the next ones, so a worker past it implies that no
claim of the company it visits is undecided; and what is saved in a row implies what it rests on, so
that a later execution, which goes on from what is saved, may skip the earlier checks. `JInv` ties the
last job to the batch: every earlier job is finished, a worker at work holds the last one, every
company that is still active is one that the worker has yet to visit, and a batch whose last job is
finished has no active company. The three are inductive only together: a step saves the row that `GInv`
knows, and which step it is depends on what `JInv` says of the job. The refinement maps the steps of
`execute` to the queue's step "execute" and a save that leaves no company active to a settled job; the
settled jobs are the last one of a batch without an active company and every earlier one. So what is
proved of the queue holds of the pipeline.

`QualificationIsEarnedHolds` is about any signals and sources, `SelectedIsTopOfRankingHolds` about any
people and any number of requests that store them. The invariants (`OInv`, `MInv`) are little more than
types; the arguments are arithmetic. The weights of the dimensions sum to 705 tenths and the least is
50, so that at the threshold of 700 none may be missing; three sources that are not trusted end at
649. The factors of a ranking stay below the cap of 100, a hint of the size shifts a score by at most
five points up or one down, and the margin by which the first must lead is more than five.

`Intake_proofs` proves `RequestsStayIdempotent` and `OneJobPerSelectionHolds` for every set of
clients, selections and keys and every number of batches and retries. What a request has read is stale
when it inserts; the argument is that the two unique indexes refuse what that allows. `SInv` says that
the jobs of a key are one (`OnePerKey`), and that a key whose request created a batch is owed that batch
(`OwedIsKept`, `CreatorKeyIsKept`): a later request of the key finds it in its first query, before
anything it could have read of another selection.

It proves `OneRootPerTextHolds` and `RunsAreSoundHolds` for every site, however it changes, and any
number of concurrent requests. A transaction stores its documents one page at a time over a view that
others commit into. `RInv` says that what each transaction *would* commit now, over what was committed
since, has one root per text: it is the view and not the table that the code keeps so. Why the views of
two transactions never meet is in the locks: a transaction holds the lock of address and of text of
every current row it wrote, and no lock has two holders. `NothingIsListedTwiceHolds` and
`ReviewsKeepTheTraceHolds` are about reviewers who save whole companies over each other, the second only
of the saves of a copy that is still current: `PInv` says of each copy that a review holds that it
repeats no row, so it does not matter which is saved last.

`ChunksAreWholeHolds` is about every document, with lines without tokens or not, and every
configuration that `ChunkingConfig` admits; that a refusal has a cause (`RefusedForCause`) is part of
it. The invariant is only that a document consists of lines; the work is in the two recursions. A kept
line belongs to a run of kept lines back to where its section begins (`SectionBegins`), whatever was
merged; each next slice starts after the last and before its end (`NextIs`), so that as many slices as
there are tokens reach the end (`SlicesEnd`), and the first slice that reaches a token holds it
(`SlicesCover`). Slices are proper unless their section is without a token, so that a refusal leads to
such a section, and its neighbours were too long to merge with (`TooLong`).

`ImportResolution_proofs` proves, for all rows, external ids, contacts, workers, clients, jobs and faults:
`ResolutionTypeCorrect`, `ExternalIdStaysDecisive`, `PairsStayLinked`, `DoneStaysWhole` and
`RowsAreDecidedOnce`. A worker matches against a copy of the tables that others change. `IInv` says how
far a copy may be behind (`LocalsOK`: nothing in it is missing from the tables, and what the worker went
past is decided), and that external ids and links are those of the decisions. `TypeOK` bounds each
counter by the number of rows, which is not inductive: `CInv` bounds it by the rows that it counts,
and also what a client has read, since a resubmission writes that back. For the same reason `ResultIsWhole`,
that the counters are exactly those of the decisions, is a theorem only for `MaxJobs = 1`
(`ResultStaysWhole`, by `EInv`): a resubmission may lose counts, as *Seen on the way* says. Both
invariants were first checked with TLC, on the instances of both import runs and on a third that has
contacts, two workers and resubmissions.

It also proves `SignalsAreEarnedHolds`, for any papers, files, days and uploads, whatever the rows of
one shipment say, and `DiscoveriesAddUpHolds`, for any searchers and answers. Uploads judge, aggregate
and promote in separate transactions; `UInv` says that an entry of the ledger has a signal exactly when
the rules promote its aggregate, that the rows a stored aggregate keeps are the company's, one for each
of its shipments (`RowsFit`), and never change, and that a replaced batch points to the one that became
current, so that replacements never loop. That a request of `CompanyDiscovery` dies at any point is
what makes its sum hard: a company may be created that no task ever tells of. `DInv` says that such a
company is either about to be told by the request that created it, whose task is its own and active, or
lost together with a task that lost its request, and so that the untold are never more than the active
tasks.

`Outreach_proofs` proves, for all companies, contacts, addresses, files and lines, and every number of
requests, batches, entries and imports: `AnswersRespectTheList`, `AddressesGetOneMail`,
`ComplaintsAreListed` and `FeedbackAddsUp` (the types, the counters and `AppliedIsWhole` together). A
batch that is reused was built for another request, at another time. `EInv` therefore says that the rows
of a batch are `BuildRows` of its own hash *on the list as it is now*, and that no two batches have one
hash: what a request reads is what the hash is taken of, and an entry keeps its target for ever, so the
equation survives every change of the list; that the rows of one call avoid what was suppressed and
repeat no address is a lemma about `BuildRows` (`BuiltRows`). For the feedback, `FInv` carries
what two racing requests rely on between their transactions. A request that applies an import holds its
lock, so no other applies it (`ReviewsOK`); the lines it left out had their events stored, and the
addresses it left out were on the list (`ApplyingOK`). The two unique indexes refuse a commit that
would store an event or an active address again, so events and entries grow by exactly what the import
counts, because its matched lines report different events (`RowsFit`). `FInv` was checked with TLC
on the instance of `outreach` first. A sum is a recursive function and a place in an
order counts what comes before it: the lemmas about `Total` and `InOrder` use no induction scheme, but
that every set of natural numbers has a least element (`Least`, from the well-foundedness of `<` on
`Nat`). Every other induction here is one over numbers and is written so too: the least counterexample
has a predecessor that is none. `RecursionExists` shows in this way that a recursive function is one.

It proves of `ProspectAnalysis`, for every number of requests, approvers, contacts and facts: `DoneOnce`,
`HumansApprove` and `HonestAnswers`. A save mixes three versions of an aggregate: the rows as they are,
those that merge loaded, and those in memory. `AInv` says the same of the first and the third (which
numbers, keys and writers their rows have, and that each approval in them was asked for), and nothing of
the second: `FlushedWithin` and `FlushedUnique` show that a save that does not raise leaves such an
aggregate whatever merge had loaded, which is why the interleaving of reads, merges and commits does not
matter. Numbers need an argument of their own. A history is numbered anew from its length when it is
assessed, and the bound of the types holds because each request adds at most one number: `Numbered`, the
requests sent less those that have yet to assess, bounds them all. For the answers `AInv` adds what each
stage may rely on. `AInv` was checked with TLC on three instances first.

Model-checked only:

* liveness, which is everything under fairness: `EveryJobFinishes`, `EveryBatchSettles` and
  `ResolutionSettles`. It is out of reach of the provers, which do not reason about `ENABLED`.

Every invariant and every action property that a passing run checks is a theorem, under the assumptions
named above, and so are all refinements. The violations of the other four runs are what TLC finds.

## Plan

In order of importance:

1. *Done:* all components that keep state and interact, but for the bulk import, and proofs of every
   safety property and of every refinement, for both queues.
2. The bulk import, whose rows `ImportResolution` starts from.

## Not modelled

* *Bulk import* (`workflows/bulk_import`): it parses an uploaded table into the rows of one session, in
  one request. Its rows are the inputs of `ImportResolution`, which starts from any.
* *Acceptance preflight* (`services/acceptance`): read-only probes of configuration and services; the
  Redis heartbeat of the worker feeds only them.
* *HTTP API, schemas, mappers, migrations*: they map rows to aggregates and requests to the workflows
  above. The route that confirms a decision maker (`api/routes/mvp.py:117`) ends in 404 before it
  writes anything.
* *Operations without a caller*: `mark_sent`, `record_reply`, `mark_won`, `mark_lost`, `qualify`,
  `disqualify`, `reopen`; `verify_channel`, `invalidate_channel`, `mark_invalid`, `deactivate`;
  `Task.retry`; the `DiscoveryRun` of `domain/discovery`; `Company.rename`.
* *File parsing, normalisation, prompt and email wording, the frontend, deployment scripts*: they hold
  no state that interacts, or transform one value into another, and are covered by the repository's
  unit tests.
