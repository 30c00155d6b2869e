--------------------------- MODULE ProspectAnalysis ---------------------------
(***************************************************************************)
(* One prospect analysed by requests that run beside each other, and the   *)
(* people who approve the drafts (app/workflows/mvp_prospect_analysis,     *)
(* opportunity and email; the Opportunity and Outreach aggregates).        *)
(*                                                                         *)
(* A request goes through stages, each a transaction of its own, and       *)
(* answers with how far it came.  A stage reads an aggregate, works - a    *)
(* language model writes the draft in between - and saves the whole        *)
(* aggregate as it has it in memory.                                       *)
(***************************************************************************)
EXTENDS Integers, Sequences, FiniteSetsExt, Functions

CONSTANTS Analyses,     \* requests that may run at one time
          Approvers,
          Persons,      \* contacts of the company
          Qualifying,   \* the facts about the company that qualify it
          MaxFacts,     \* bound on the changes of the facts
          MaxSent,      \* bound on requests
          MaxApprovals  \* bound on approvals

ASSUME AnalysisAssumption ==
  /\ IsFiniteSet(Analyses) /\ {MaxFacts, MaxSent, MaxApprovals} \subseteq Nat
  /\ Qualifying \subseteq 1 .. MaxFacts

VARIABLES facts,          \* what is known of the company: its last change; 0: no company
          contacts,       \* the contacts that are stored
          opportunities,  \* in the order of their creation
          outreaches,     \* likewise: of an opportunity and a contact
          analysis,       \* each request: its stage and what it has in memory
          approval,       \* each approver, likewise
          asked,          \* the drafts somebody asked to approve (ghost)
          sent            \* requests sent (bounded)

analysisVars ==
  <<facts, contacts, opportunities, outreaches, analysis, approval, asked, sent>>

\* An aggregate is a head and numbered rows: the score and the assessments
\* of an opportunity, the approved version and the drafts of an outreach.
\* The facts stand for an assessment and its fingerprint, and for the
\* context of a draft; the time and the text are those of a request.
Row(key, by) == [key |-> key, by |-> by, approved |-> FALSE]
NoAggregate == [head |-> 0, rows |-> <<>>]

Keys(a) == {a.rows[i].key : i \in DOMAIN a.rows}
Latest(a) == a.rows[Max(DOMAIN a.rows)].key

NoRequest == [stage |-> "idle", number |-> 0, contact |-> FALSE, generate |-> FALSE, sources |-> 0,
              outcomes |-> {}, read |-> 0, opportunity |-> 0, outreach |-> 0, person |-> 0,
              mine |-> NoAggregate, base |-> NoAggregate,
              judged |-> "none", email |-> "skipped", status |-> "none", made |-> {}]
NoApproval == [stage |-> "idle", outreach |-> 0, mine |-> NoAggregate, base |-> NoAggregate]

AnalysisInit ==
  /\ facts = 0 /\ contacts = {} /\ opportunities = <<>> /\ outreaches = <<>>
  /\ analysis = [r \in Analyses |-> NoRequest]
  /\ approval = [v \in Approvers |-> NoApproval]
  /\ asked = {} /\ sent = 0

------------------------------------------------------------------------------
(* Saving an aggregate.  merge loads the rows as they are by then (the     *)
(* object that was read is gone) and copies every column and child over    *)
(* them; the commit writes what differs from the rows merge loaded.        *)

Inserted(base, mine) == DOMAIN mine.rows \ DOMAIN base.rows
Updated(base, mine) ==
  {i \in DOMAIN mine.rows \intersect DOMAIN base.rows : mine.rows[i] # base.rows[i]}
Deleted(base, mine) == DOMAIN base.rows \ DOMAIN mine.rows

\* UPDATE sets the columns that differ.
Column(now, base, mine) == IF mine # base THEN mine ELSE now

UpdatedRow(now, base, mine) ==
  [key |-> Column(now.key, base.key, mine.key),
   by |-> Column(now.by, base.by, mine.by),
   approved |-> Column(now.approved, base.approved, mine.approved)]

BeforeDeletion(now, base, mine) ==
  [i \in DOMAIN now.rows \union Inserted(base, mine) |->
     CASE i \in Inserted(base, mine) -> mine.rows[i]
       [] i \in Updated(base, mine) -> UpdatedRow(now.rows[i], base.rows[i], mine.rows[i])
       [] OTHER -> now.rows[i]]

\* (a mistake: only the primary key keeps rows apart)
ConflictsByNumber(now, base, mine) == Inserted(base, mine) \intersect DOMAIN now.rows # {}

\* IntegrityError: the number of a new row is taken, or what it is about is
\* there already (uq_assessments_fingerprint, uq_drafts_context_prompt).
\* Rows that go are deleted after the others were written.
Conflicts(now, base, mine) ==
  \/ Inserted(base, mine) \intersect DOMAIN now.rows # {}
  \/ LET written == BeforeDeletion(now, base, mine)
     IN  ~IsInjective([i \in DOMAIN written |-> written[i].key])

\* StaleDataError: a row to be updated is gone; the request raises.
Gone(now, base, mine) == ~(Updated(base, mine) \subseteq DOMAIN now.rows)

Flushed(now, base, mine) ==
  [head |-> Column(now.head, base.head, mine.head),
   rows |-> Restrict(BeforeDeletion(now, base, mine),
                     (DOMAIN now.rows \union Inserted(base, mine)) \ Deleted(base, mine))]

------------------------------------------------------------------------------
(* A request *)

\* A request goes on as `a`, or is answered.
Stage(r, stage, a) == analysis' = [analysis EXCEPT ![r] = [a EXCEPT !.stage = stage]]
InStage(r, stage) == analysis[r].stage = stage
Reply(r, status, a) == Stage(r, "answered", [a EXCEPT !.status = status])
Making(a, thing) == [a EXCEPT !.made = @ \union {thing}]

SendRequest(r) ==
  /\ analysis[r].stage \in {"idle", "answered"} /\ sent < MaxSent
  /\ sent' = sent + 1
  /\ \E contact, generate \in BOOLEAN, n \in {1, 2} :
       Stage(r, "company", [NoRequest EXCEPT !.number = sent', !.contact = contact,
                                             !.generate = generate, !.sources = n])
  /\ UNCHANGED <<facts, contacts, opportunities, outreaches, approval, asked>>

\* Each source is ingested by a transaction of its own, which may tell
\* something new of the company.
IngestSource(r) ==
  /\ InStage(r, "company") /\ analysis[r].sources > 0
  /\ LET left == [analysis[r] EXCEPT !.sources = @ - 1]
     IN  \/ /\ facts' \in {facts, facts + 1} \intersect 1 .. MaxFacts
            /\ Stage(r, "company",
                     Making([left EXCEPT !.outcomes = @ \union {"saved"}], "company"))
         \/ /\ Stage(r, "company", [left EXCEPT !.outcomes = @ \union {"rejected"}])
            /\ UNCHANGED facts
  /\ UNCHANGED <<contacts, opportunities, outreaches, approval, asked, sent>>

\* (a mistake: an error answers for the whole request)
StatusOfErrorAnyway(r, error) == error

\* A source that raises ends the stage; what was saved before it remains.
StatusOfError(r, error) == IF analysis[r].outcomes = {} THEN error ELSE "PARTIAL"

IngestRaises(r) ==
  /\ InStage(r, "company") /\ analysis[r].sources > 0
  /\ \E error \in {"REJECTED", "FAILED"} : Reply(r, StatusOfError(r, error), analysis[r])
  /\ UNCHANGED <<facts, contacts, opportunities, outreaches, approval, asked, sent>>

CompanyDone(r) ==
  /\ InStage(r, "company") /\ analysis[r].sources = 0
  /\ LET a == analysis[r]
     IN  IF "saved" \notin a.outcomes THEN Reply(r, "REJECTED", a)
         ELSE IF "rejected" \in a.outcomes THEN Reply(r, "PARTIAL", a)
         ELSE Stage(r, "assess", a)
  /\ UNCHANGED <<facts, contacts, opportunities, outreaches, approval, asked, sent>>

\* The company is read and scored.
Assess(r) ==
  /\ InStage(r, "assess")
  /\ Stage(r, "judge", [analysis[r] EXCEPT !.read = facts])
  /\ UNCHANGED <<facts, contacts, opportunities, outreaches, approval, asked, sent>>

Judgement(key) == IF key \in Qualifying THEN "qualified" ELSE "other"

\* apply_assessment: the history grows, and the score is the last one's.
\* The history is numbered anew when it is saved.
Nth(S, n) == CHOOSE i \in S : Cardinality({j \in S : j < i}) = n - 1
WithAssessment(a, key, by) ==
  LET n == Cardinality(DOMAIN a.rows)
  IN  [head |-> key,
       rows |-> [i \in 1 .. n + 1 |->
                   IF i = n + 1 THEN Row(key, by) ELSE a.rows[Nth(DOMAIN a.rows, i)]]]

\* Found: the most recent opportunity.  The same facts are not assessed
\* again, and answered with the latest assessment.
Judge(r) ==
  /\ InStage(r, "judge")
  /\ LET a == analysis[r]
         last == Len(opportunities)
     IN  IF last = 0
         THEN Stage(r, "commit opportunity",
                [a EXCEPT !.mine = WithAssessment(NoAggregate, a.read, a.number)])
         ELSE IF a.read \in Keys(opportunities[last])
         THEN Stage(r, "contact",
                [a EXCEPT !.opportunity = last,
                          !.judged = Judgement(Latest(opportunities[last]))])
         ELSE Stage(r, "merge opportunity",
                [a EXCEPT !.opportunity = last,
                          !.mine = WithAssessment(opportunities[last], a.read, a.number)])
  /\ UNCHANGED <<facts, contacts, opportunities, outreaches, approval, asked, sent>>

MergeOpportunity(r) ==
  /\ InStage(r, "merge opportunity")
  /\ Stage(r, "commit opportunity",
           [analysis[r] EXCEPT !.base = opportunities[analysis[r].opportunity]])
  /\ UNCHANGED <<facts, contacts, opportunities, outreaches, approval, asked, sent>>

Assessed(r, o) ==
  Stage(r, "contact", Making([analysis[r] EXCEPT !.opportunity = o,
                                                 !.judged = Judgement(analysis[r].read)],
                             "assessment"))

\* A commit that is refused is taken for the same assessment by another.
CommitOpportunity(r) ==
  /\ InStage(r, "commit opportunity")
  /\ LET a == analysis[r]
         o == a.opportunity
     IN  \/ /\ o = 0
            /\ opportunities' = Append(opportunities, a.mine)
            /\ Assessed(r, Len(opportunities) + 1)
         \/ /\ o # 0 /\ ~Gone(opportunities[o], a.base, a.mine)
            /\ Conflicts(opportunities[o], a.base, a.mine)
            /\ Stage(r, "contact", a) /\ UNCHANGED opportunities
         \/ /\ o # 0 /\ ~Gone(opportunities[o], a.base, a.mine)
            /\ ~Conflicts(opportunities[o], a.base, a.mine)
            /\ opportunities' = [opportunities EXCEPT ![o] = Flushed(@, a.base, a.mine)]
            /\ Assessed(r, o)
  /\ UNCHANGED <<facts, contacts, outreaches, approval, asked, sent>>

\* The contact of the request is stored or merged, unless it has none, it is
\* refused, or somebody must look at it first.
IngestContact(r) ==
  /\ InStage(r, "contact")
  /\ \/ Reply(r, "PARTIAL", analysis[r]) /\ UNCHANGED contacts
     \/ /\ analysis[r].contact
        /\ \E p \in Persons : /\ contacts' = contacts \union {p}
                              /\ Stage(r, "decide", Making(analysis[r], "contact"))
  /\ UNCHANGED <<facts, opportunities, outreaches, approval, asked, sent>>

\* One contact is selected, or nobody.
Decide(r) ==
  /\ InStage(r, "decide")
  /\ LET a == analysis[r]
     IN  \/ Reply(r, "PARTIAL", a)
         \/ \E p \in contacts :
              LET b == [a EXCEPT !.person = p]
              IN  IF a.judged # "qualified" THEN Reply(r, "PARTIAL", b)
                  ELSE IF a.generate THEN Stage(r, "email", b)
                  ELSE Reply(r, "COMPLETED", b)
  /\ UNCHANGED <<facts, contacts, opportunities, outreaches, approval, asked, sent>>

Finished(email) == IF email \in {"generated", "skipped"} THEN "COMPLETED" ELSE "PARTIAL"

Finish(r, email, a) == Reply(r, Finished(email), [a EXCEPT !.email = email])

\* The conversation with the contact about the opportunity, if there is one.
Conversation(opportunity, person) ==
  LET theirs == {o \in DOMAIN outreaches : /\ outreaches[o].opportunity = opportunity
                                           /\ outreaches[o].person = person}
  IN  IF theirs = {} THEN 0 ELSE Min(theirs)

\* The draft rests on the latest assessment, which must qualify; a context
\* that has a draft in the conversation gets no other.
ReadForDraft(r) ==
  /\ InStage(r, "email")
  /\ LET a == analysis[r]
         key == Latest(opportunities[a.opportunity])
         o == Conversation(a.opportunity, a.person)
         known == IF o = 0 THEN NoAggregate ELSE outreaches[o].aggregate
     IN  IF key \notin Qualifying THEN Finish(r, "rejected", a)
         ELSE IF key \in Keys(known) THEN Finish(r, "skipped", [a EXCEPT !.outreach = o])
         ELSE Stage(r, "generate",
                    [a EXCEPT !.read = key, !.outreach = o, !.mine = known])
  /\ UNCHANGED <<facts, contacts, opportunities, outreaches, approval, asked, sent>>

\* add_draft: the next version.
WithVersion(a, version, row) ==
  [head |-> a.head,
   rows |-> [i \in DOMAIN a.rows \union {version} |-> IF i = version THEN row ELSE a.rows[i]]]

\* (a mistake: a draft takes over the approval of the one before it)
WithApprovedDraft(a, key, by) ==
  WithVersion(a, Cardinality(DOMAIN a.rows) + 1, [Row(key, by) EXCEPT !.approved = a.head # 0])

WithDraft(a, key, by) == WithVersion(a, Cardinality(DOMAIN a.rows) + 1, Row(key, by))

\* The language model writes the draft, or fails.
Generate(r) ==
  /\ InStage(r, "generate")
  /\ LET a == analysis[r]
     IN  \/ Finish(r, "failed", a)
         \/ Stage(r, IF a.outreach = 0 THEN "commit draft" ELSE "merge draft",
                  [a EXCEPT !.mine = WithDraft(a.mine, a.read, a.number)])
  /\ UNCHANGED <<facts, contacts, opportunities, outreaches, approval, asked, sent>>

MergeDraft(r) ==
  /\ InStage(r, "merge draft")
  /\ Stage(r, "commit draft",
           [analysis[r] EXCEPT !.base = outreaches[analysis[r].outreach].aggregate])
  /\ UNCHANGED <<facts, contacts, opportunities, outreaches, approval, asked, sent>>

CommitDraft(r) ==
  /\ InStage(r, "commit draft")
  /\ LET a == analysis[r]
         o == a.outreach
         now == outreaches[o].aggregate
     IN  \/ /\ o = 0
            /\ outreaches' = Append(outreaches, [opportunity |-> a.opportunity,
                                                 person |-> a.person, aggregate |-> a.mine])
            /\ Finish(r, "generated", Making([a EXCEPT !.outreach = Len(outreaches) + 1], "draft"))
         \/ /\ o # 0 /\ ~Gone(now, a.base, a.mine) /\ Conflicts(now, a.base, a.mine)
            /\ Finish(r, "skipped", a) /\ UNCHANGED outreaches
         \/ /\ o # 0 /\ ~Gone(now, a.base, a.mine) /\ ~Conflicts(now, a.base, a.mine)
            /\ outreaches' = [outreaches EXCEPT ![o].aggregate = Flushed(@, a.base, a.mine)]
            /\ Finish(r, "generated", Making(a, "draft"))
  /\ UNCHANGED <<facts, contacts, opportunities, approval, asked, sent>>

\* Any stage after the first may raise: what came before it is kept.
StageRaises(r) ==
  /\ analysis[r].stage \in {"assess", "judge", "merge opportunity", "commit opportunity",
                            "decide", "email", "merge draft", "commit draft"}
  /\ Reply(r, "PARTIAL", [analysis[r] EXCEPT !.email = "failed"])
  /\ UNCHANGED <<facts, contacts, opportunities, outreaches, approval, asked, sent>>

------------------------------------------------------------------------------
(* An approver *)

\* approve_draft, which leaves an approved draft as it is; the aggregate is
\* saved in either case.
Approve(a, version) ==
  IF a.rows[version].approved THEN a
  ELSE [head |-> version, rows |-> [a.rows EXCEPT ![version].approved = TRUE]]

LoadForApproval(v) ==
  /\ approval[v].stage = "idle" /\ Cardinality(asked) < MaxApprovals
  /\ \E o \in DOMAIN outreaches : \E version \in DOMAIN outreaches[o].aggregate.rows :
       /\ approval' = [approval EXCEPT ![v] =
            [NoApproval EXCEPT !.stage = "merge", !.outreach = o,
                               !.mine = Approve(outreaches[o].aggregate, version)]]
       /\ asked' = asked \union {<<o, version>>}
  /\ UNCHANGED <<facts, contacts, opportunities, outreaches, analysis, sent>>

MergeApproval(v) ==
  /\ approval[v].stage = "merge"
  /\ approval' = [approval EXCEPT ![v].stage = "commit",
                                  ![v].base = outreaches[approval[v].outreach].aggregate]
  /\ UNCHANGED <<facts, contacts, opportunities, outreaches, analysis, asked, sent>>

CommitApproval(v) ==
  /\ approval[v].stage = "commit"
  /\ LET a == approval[v]
         now == outreaches[a.outreach].aggregate
     IN  \/ /\ ~Gone(now, a.base, a.mine) /\ ~Conflicts(now, a.base, a.mine)
            /\ outreaches' = [outreaches EXCEPT ![a.outreach].aggregate =
                                 Flushed(@, a.base, a.mine)]
         \/ UNCHANGED outreaches   \* the commit fails
  /\ approval' = [approval EXCEPT ![v] = NoApproval]
  /\ UNCHANGED <<facts, contacts, opportunities, analysis, asked, sent>>

AnalysisNext ==
  \/ \E r \in Analyses :
       \/ SendRequest(r) \/ IngestSource(r) \/ IngestRaises(r) \/ CompanyDone(r)
       \/ Assess(r) \/ Judge(r) \/ MergeOpportunity(r) \/ CommitOpportunity(r)
       \/ IngestContact(r) \/ Decide(r) \/ ReadForDraft(r) \/ Generate(r)
       \/ MergeDraft(r) \/ CommitDraft(r) \/ StageRaises(r)
  \/ \E v \in Approvers : LoadForApproval(v) \/ MergeApproval(v) \/ CommitApproval(v)

AnalysisSpec == AnalysisInit /\ [][AnalysisNext]_analysisVars
------------------------------------------------------------------------------
(* Properties *)

\* An opportunity is stored with its first assessment and the score of it.
IsOpportunity(a) ==
  /\ 1 \in DOMAIN a.rows /\ DOMAIN a.rows \subseteq 1 .. MaxSent /\ a.head \in 1 .. MaxFacts
  /\ \A i \in DOMAIN a.rows : a.rows[i].key \in 1 .. MaxFacts /\ ~a.rows[i].approved

IsOutreach(o) ==
  /\ o.opportunity \in DOMAIN opportunities /\ o.person \in Persons
  /\ 1 \in DOMAIN o.aggregate.rows
  /\ \A i \in DOMAIN o.aggregate.rows : o.aggregate.rows[i].by \in 1 .. sent

AnalysisTypeOK ==
  /\ facts \in 0 .. MaxFacts /\ contacts \subseteq Persons
  /\ \A o \in DOMAIN opportunities : IsOpportunity(opportunities[o])
  /\ \A o \in DOMAIN outreaches : IsOutreach(outreaches[o])

\* In one conversation the same context is drafted once, and in one history
\* the same facts are assessed once, whichever requests raced and whatever
\* was saved over what (database/models/outreach.py: "same facts + same
\* prompt never drafted twice").
NothingIsDoneTwice ==
  /\ AnalysisTypeOK
  /\ \A o \in DOMAIN outreaches :
       LET rows == outreaches[o].aggregate.rows IN IsInjective([i \in DOMAIN rows |-> rows[i].key])
  /\ \A o \in DOMAIN opportunities :
       LET rows == opportunities[o].rows IN IsInjective([i \in DOMAIN rows |-> rows[i].key])

\* A version is approved only if a person asked to approve it: no save of a
\* request, however stale, approves one (domain/outreach: "nothing is sent
\* without approval").
ApprovalsAreHuman ==
  \A o \in DOMAIN outreaches :
    LET a == outreaches[o].aggregate
    IN  /\ \A i \in DOMAIN a.rows : a.rows[i].approved => <<o, i>> \in asked
        /\ a.head # 0 => <<o, a.head>> \in asked

\* What an answer says is what became of the request, through partial
\* failures and races: "rejected" and "failed" left nothing behind,
\* "completed" has a qualified opportunity, a selected contact and, if it
\* was to be drafted, a conversation with it.
AnswersAreHonest ==
  \A r \in Analyses : LET a == analysis[r] IN
    /\ a.status \in {"REJECTED", "FAILED"} => a.made = {}
    /\ a.status = "COMPLETED" =>
         /\ a.judged = "qualified" /\ a.person \in contacts
         /\ a.generate => /\ a.email # "failed"
                          /\ Conversation(a.opportunity, a.person) # 0

\* An approved draft is never modified (domain/outreach/aggregate.py:77).
ApprovalIsKept ==
  [][\A o \in DOMAIN outreaches :
       LET old == outreaches[o].aggregate.rows
           new == outreaches'[o].aggregate.rows
       IN  \A i \in DOMAIN old :
             old[i].approved => i \in DOMAIN new /\ new[i] = old[i]]_analysisVars
=============================================================================
