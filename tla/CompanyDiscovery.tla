-------------------------- MODULE CompanyDiscovery --------------------------
(***************************************************************************)
(* Discovery of companies: a prompt becomes a task, a provider answers it  *)
(* with rows (app/workflows/discovery_task), and every claim that is no    *)
(* repetition is taken into the register of companies                      *)
(* (app/workflows/company_ingestion, app/services/company).                *)
(*                                                                         *)
(* Each action is one transaction.  A request is one process: it may end   *)
(* between any two of them, and nobody takes its task up again.  Only the  *)
(* sources of a claim are followed, not the signals: this provider has     *)
(* none.                                                                   *)
(***************************************************************************)
EXTENDS Integers, Sequences, SequencesExt, FiniteSetsExt

CONSTANTS Searchers,      \* requests at one time
          Wanted,         \* [prompt -> how many companies it asks for]
          CompanyClaims,  \* rows that tell of a company
          Unreadable,     \* a row without a name or a reference
          Answers,        \* what the provider may answer: sequences of rows
          Domain,         \* [url -> the host name by which an answer is cleaned]
          Host,           \* [url -> the host of a usable website, or NoUrl]
          NoUrl,
          MaxDiscoveries  \* bound on tasks

Prompts == DOMAIN Wanted
Urls == DOMAIN Domain

\* A claim is fit when its name can be stored; plain is its name without the
\* legal form.
CompanyClaimType ==
  [name : STRING, plain : STRING, address : STRING, ref : STRING, url : Urls, fit : BOOLEAN]

ASSUME DiscoveryAssumption ==
  /\ \A p \in Prompts : Wanted[p] \in Nat \ {0}
  /\ CompanyClaims \subseteq CompanyClaimType /\ Unreadable \notin CompanyClaims
  /\ \A a \in Answers : a \in Seq(CompanyClaims \union {Unreadable})
  /\ NoUrl \in Urls /\ Domain[NoUrl] = NoUrl /\ Host[NoUrl] = NoUrl
  /\ MaxDiscoveries \in Nat

VARIABLES tasks,      \* DiscoveryTask with its Task, in the order of creation
          companies,  \* the register, in the order of creation
          searches    \* each request: where it is and what it has read

discoveryVars == <<tasks, companies, searches>>

NoCompany == [name |-> "", url |-> NoUrl, aliases |-> {}, sources |-> <<>>]
NoSearch == [at |-> "idle", prompt |-> "", task |-> 0, candidate |-> 0, company |-> 0,
             seen |-> NoCompany, outcome |-> ""]

DiscoveryInit ==
  /\ tasks = <<>> /\ companies = <<>>
  /\ searches = [r \in Searchers |-> NoSearch]

IsActive(task) == task.execution \in {"created", "running"}
ActivePrompts == {tasks[t].prompt : t \in {u \in DOMAIN tasks : IsActive(tasks[u])}}

TaskOf(r) == tasks[searches[r].task]
ClaimOf(r) == TaskOf(r).candidates[searches[r].candidate].claim

------------------------------------------------------------------------------
(* A request and its task *)

\* The keys of active tasks are read first; the index looks again.
ReadKeys(r, p) ==
  /\ searches[r].at = "idle" /\ p \notin ActivePrompts /\ Len(tasks) < MaxDiscoveries
  /\ searches' = [searches EXCEPT ![r] = [@ EXCEPT !.at = "create", !.prompt = p]]
  /\ UNCHANGED <<tasks, companies>>

\* (a mistake: the index is missing)
KeyIsNeverTaken(prompt) == FALSE
\* uq_tasks_active_idempotency_key
KeyIsTaken(prompt) == prompt \in ActivePrompts

CreateTasks(r) ==
  /\ searches[r].at = "create"
  /\ IF KeyIsTaken(searches[r].prompt)
     THEN /\ searches' = [searches EXCEPT ![r] = NoSearch]
          /\ UNCHANGED tasks
     ELSE /\ tasks' = Append(tasks, [prompt |-> searches[r].prompt, status |-> "pending",
                                     execution |-> "created", candidates |-> <<>>, failures |-> 0])
          /\ searches' = [searches EXCEPT ![r] = [@ EXCEPT !.at = "start", !.task = Len(tasks) + 1]]
  /\ UNCHANGED companies

StartTasks(r) ==
  /\ searches[r].at = "start"
  /\ tasks' = [tasks EXCEPT ![searches[r].task] =
                 [@ EXCEPT !.status = "running", !.execution = "running"]]
  /\ searches' = [searches EXCEPT ![r] = [@ EXCEPT !.at = "search"]]
  /\ UNCHANGED companies

FailTasks(r) ==
  /\ searches[r].at = "search"
  /\ tasks' = [tasks EXCEPT ![searches[r].task] =
                 [@ EXCEPT !.status = "failed", !.execution = "failed", !.failures = 1]]
  /\ searches' = [searches EXCEPT ![r] = NoSearch]
  /\ UNCHANGED companies

------------------------------------------------------------------------------
(* The answer of the provider *)

\* The rows of an answer that are claims, and how many of them come before i.
Readable(rows) == {i \in DOMAIN rows : rows[i] # Unreadable}
Before(rows, i) == Cardinality({j \in Readable(rows) : j < i})

\* limit_candidates: no more claims than wanted; the rows after the last of
\* them are not read, and not counted as failures.
Limited(rows, n) ==
  [k \in 1 .. Min({n, Cardinality(Readable(rows))}) |->
     rows[CHOOSE i \in Readable(rows) : Before(rows, i) = k - 1]]
FailuresIn(rows, n) ==
  Cardinality({i \in DOMAIN rows : rows[i] = Unreadable /\ Before(rows, i) < n})

\* What tells two claims of an answer apart: the domain, or name and address.
ClaimKey(claim) ==
  IF Domain[claim.url] # NoUrl THEN <<Domain[claim.url]>> ELSE <<claim.plain, claim.address>>

Prepared(claims) ==
  [i \in DOMAIN claims |->
     LET earlier == {j \in 1..(i - 1) : ClaimKey(claims[j]) = ClaimKey(claims[i])}
     IN  [claim |-> claims[i], company |-> 0,
          status |-> IF earlier = {} THEN "discovered" ELSE "duplicate",
          original |-> IF earlier = {} THEN 0 ELSE Min(earlier)]]

\* The candidate to be taken in after the i-th: the duplicates are done with.
Following(candidates, i) ==
  LET later == {j \in DOMAIN candidates : j > i /\ candidates[j].original = 0}
  IN  IF later = {} THEN 0 ELSE Min(later)

\* r goes to the candidate that follows the i-th, or to the end.
GoOn(r, candidates, i) ==
  searches' = [searches EXCEPT ![r] =
    [@ EXCEPT !.at = IF Following(candidates, i) = 0 THEN "finish" ELSE "match",
              !.candidate = Following(candidates, i), !.company = 0, !.seen = NoCompany,
              !.outcome = ""]]

Search(r, rows) ==
  LET wanted == Wanted[TaskOf(r).prompt]
      candidates == Prepared(Limited(rows, wanted))
  IN  /\ searches[r].at = "search"
      /\ tasks' = [tasks EXCEPT ![searches[r].task] =
                     [@ EXCEPT !.candidates = candidates, !.failures = FailuresIn(rows, wanted)]]
      /\ GoOn(r, candidates, 0)
      /\ UNCHANGED companies

------------------------------------------------------------------------------
(* A claim is taken into the register *)

Usable(claim) == Host[claim.url] # NoUrl

\* find_canonical: any company of that host, else the oldest of that name;
\* 0: none.  Aliases are not looked at.
Canonical(claim) ==
  LET ofHost == {c \in DOMAIN companies :
                   Usable(claim) /\ Host[companies[c].url] = Host[claim.url]}
      named == {c \in DOMAIN companies : companies[c].name = claim.name}
  IN  IF ofHost # {} THEN ofHost ELSE IF named # {} THEN {Min(named)} ELSE {0}

Match(r) ==
  /\ searches[r].at = "match"
  /\ \/ /\ ~ClaimOf(r).fit
        /\ searches' = [searches EXCEPT ![r] = [@ EXCEPT !.at = "decide", !.outcome = "failed"]]
     \/ /\ ClaimOf(r).fit
        /\ \E c \in Canonical(ClaimOf(r)) :
             searches' = [searches EXCEPT ![r] =
               [@ EXCEPT !.at = IF c = 0 THEN "add" ELSE "save", !.company = c,
                         !.seen = IF c = 0 THEN NoCompany ELSE companies[c]]]
  /\ UNCHANGED <<tasks, companies>>

UrlOf(claim) == IF Usable(claim) THEN claim.url ELSE NoUrl

AddCompany(r) ==
  /\ searches[r].at = "add"
  /\ companies' = Append(companies, [name |-> ClaimOf(r).name, url |-> UrlOf(ClaimOf(r)),
                                     aliases |-> {}, sources |-> <<ClaimOf(r).ref>>])
  /\ searches' = [searches EXCEPT ![r] =
       [@ EXCEPT !.at = "decide", !.company = Len(companies) + 1, !.outcome = "ingested"]]
  /\ UNCHANGED tasks

\* _merge_claim: a name the company does not have is an alias, a website is
\* kept once it is known, a source is recorded once.
MergedWithClaim(company, claim) ==
  [company EXCEPT !.aliases = IF claim.name = company.name THEN @ ELSE @ \union {claim.name},
                  !.url = IF @ = NoUrl THEN UrlOf(claim) ELSE @,
                  !.sources = IF claim.ref \in ToSet(@) THEN @ ELSE Append(@, claim.ref)]

\* save: what differs from the copy that was read is written, a source under
\* the number it has there, over one that another request stored meanwhile.
Written(stored, seen, mine) ==
  [stored EXCEPT
     !.aliases = @ \union mine.aliases,
     !.url = IF mine.url = seen.url THEN @ ELSE mine.url,
     !.sources = IF mine.sources = seen.sources THEN @
                 ELSE [i \in 1..Max({Len(@), Len(mine.sources)}) |->
                         IF i = Len(mine.sources) THEN mine.sources[i] ELSE @[i]]]

SaveCompany(r) ==
  LET seen == searches[r].seen
  IN  /\ searches[r].at = "save"
      /\ companies' = [companies EXCEPT ![searches[r].company] =
                         Written(@, seen, MergedWithClaim(seen, ClaimOf(r)))]
      /\ searches' = [searches EXCEPT ![r] = [@ EXCEPT !.at = "decide", !.outcome = "duplicate"]]
      /\ UNCHANGED tasks

\* Whatever is raised while a claim is taken in, a refused commit included:
\* nothing of it is written.
RefuseClaim(r) ==
  /\ searches[r].at \in {"match", "add", "save"}
  /\ searches' = [searches EXCEPT ![r] =
       [@ EXCEPT !.at = "decide", !.outcome = "failed", !.company = 0]]
  /\ UNCHANGED <<tasks, companies>>

\* The task with its i-th candidate as the search found it.
Decided(task, i, search) ==
  LET new == [task.candidates[i] EXCEPT !.status = search.outcome, !.company = search.company]
  IN  [task EXCEPT !.candidates = [task.candidates EXCEPT ![i] = new]]

DecideCandidate(r) ==
  LET i == searches[r].candidate
  IN  /\ searches[r].at = "decide"
      /\ tasks' = [tasks EXCEPT ![searches[r].task] = Decided(@, i, searches[r])]
      /\ GoOn(r, TaskOf(r).candidates, i)
      /\ UNCHANGED companies

------------------------------------------------------------------------------
(* The end of a request *)

Having(task, statuses) == {i \in DOMAIN task.candidates : task.candidates[i].status \in statuses}

\* DiscoveryTask.complete
Verdict(task) ==
  LET failed == task.failures > 0 \/ Having(task, {"failed"}) # {}
      processed == Having(task, {"ingested", "duplicate"}) # {}
  IN  CASE failed /\ processed  -> "partial_failed"
        [] failed /\ ~processed -> "failed"
        [] OTHER                -> "completed"

CompleteTasks(r) ==
  LET verdict == Verdict(TaskOf(r))
  IN  /\ searches[r].at = "finish"
      /\ tasks' = [tasks EXCEPT ![searches[r].task] =
                     [@ EXCEPT !.status = verdict,
                               !.execution = IF verdict = "failed" THEN "failed" ELSE "completed"]]
      /\ searches' = [searches EXCEPT ![r] = NoSearch]
      /\ UNCHANGED companies

\* The request ends between two transactions, with its process or with an
\* exception that nobody catches: its task stays as it is.
RaiseDiscovery(r) ==
  /\ searches[r].at # "idle"
  /\ searches' = [searches EXCEPT ![r] = NoSearch]
  /\ UNCHANGED <<tasks, companies>>

DiscoveryNext ==
  \E r \in Searchers :
    \/ \E p \in Prompts : ReadKeys(r, p)
    \/ CreateTasks(r)
    \/ StartTasks(r)
    \/ FailTasks(r)
    \/ \E rows \in Answers : Search(r, rows)
    \/ Match(r)
    \/ AddCompany(r)
    \/ SaveCompany(r)
    \/ RefuseClaim(r)
    \/ DecideCandidate(r)
    \/ CompleteTasks(r)
    \/ RaiseDiscovery(r)

DiscoverySpec == DiscoveryInit /\ [][DiscoveryNext]_discoveryVars

------------------------------------------------------------------------------
(* Properties *)

CandidateType ==
  [claim : CompanyClaims, status : {"discovered", "ingested", "duplicate", "failed"},
   company : Nat, original : Nat]
TaskType ==
  [prompt : Prompts, status : {"pending", "running", "completed", "partial_failed", "failed"},
   execution : {"created", "running", "completed", "failed"}, candidates : Seq(CandidateType),
   failures : Nat]

DiscoveryTypeOK ==
  /\ \A t \in DOMAIN tasks : tasks[t] \in TaskType
  /\ \A c \in DOMAIN companies : companies[c].url \in Urls /\ companies[c].sources # <<>>

ActiveTasks == {t \in DOMAIN tasks : IsActive(tasks[t])}

\* Candidates, as pairs of a task and a position.
Reported == UNION {{t} \X DOMAIN tasks[t].candidates : t \in DOMAIN tasks}
CandidateAt(at) == tasks[at[1]].candidates[at[2]]

\* A company of the register that no candidate tells of.
Untold == {c \in DOMAIN companies : \A at \in Reported : CandidateAt(at).company # c}

\* What a task that has ended says of its candidates is so: none is left
\* open, a failed one brought no company, and in a completed one every
\* candidate, or the one it repeats, has its company.
EndedIsSettled(task) ==
  /\ (task.execution = "failed") = (task.status = "failed")
  /\ Having(task, {"discovered"}) = {}
  /\ \A i \in DOMAIN task.candidates :
       LET candidate == task.candidates[i]
           taken == IF candidate.original = 0 THEN candidate
                    ELSE task.candidates[candidate.original]
       IN  /\ task.status = "failed" => taken.company = 0
           /\ task.status = "completed" => taken.company \in DOMAIN companies

\* However requests for the same prompt and the same companies overlap, fail
\* or die: one task of a prompt is active, the tasks that ended are settled,
\* two candidates never claim to have created one company, and of the
\* companies there are at most as many are told of by nobody as there are
\* tasks that did not end: a request that dies may leave one behind, the one
\* it just stored (_ingest_candidate commits twice).
DiscoveriesAddUp ==
  /\ DiscoveryTypeOK
  /\ \A t, u \in ActiveTasks : t # u => tasks[t].prompt # tasks[u].prompt
  /\ \A t \in DOMAIN tasks \ ActiveTasks : EndedIsSettled(tasks[t])
  /\ \A at, bt \in Reported :
       CandidateAt(at).status = "ingested" /\ CandidateAt(bt).status = "ingested" /\ at # bt =>
         CandidateAt(at).company # CandidateAt(bt).company
  /\ Cardinality(Untold) <= Cardinality(ActiveTasks)
=============================================================================
