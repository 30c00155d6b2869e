-------------------------- MODULE ResearchPromotion -------------------------
(***************************************************************************)
(* Review of the claims of stored research runs: reviewers accept, edit or *)
(* reject them, and accepted ones become sources and signals of a company. *)
(* A review reads the run, reads the company, decides, and saves both      *)
(* whole: nothing is locked between the reads and the save.                *)
(***************************************************************************)
EXTENDS Naturals, FiniteSets, Sequences, SequencesExt, TLC

CONSTANTS
  Reviewers,
  Runs, RunCompany,       \* stored runs, and the company each is bound to
  Claims,                 \* claim positions of each run, in claim order
  ClaimText, ClaimPage,   \* the rendered signal and the page of each claim
  Firms, Firm0,           \* companies; Firm0 stands for none
  EditText, Detail,       \* the rendered signals an editor may write, without the kind
  MaxReviews              \* bound: reviews taken

ASSUME PromotionAssumption ==
  /\ RunCompany \in [Runs -> Firms \union {Firm0}] /\ Firm0 \notin Firms
  /\ \A run \in Runs : Claims[run] \subseteq Nat /\ IsFiniteSet(Claims[run])
  /\ \A run \in Runs : \A c \in Claims[run] :
       <<run, c>> \in DOMAIN ClaimText /\ <<run, c>> \in DOMAIN ClaimPage
  /\ MaxReviews \in Nat

VARIABLES
  promotions,  \* per run, a function from reviewed claims to their promotion
  firms,       \* per company, its sources and its signals
  review,      \* the review each reviewer is in
  reviews

promotionVars == <<promotions, firms, review, reviews>>

-----------------------------------------------------------------------------
(* Decisions *)

Verdicts == [decision : {"accepted", "rejected"}, text : {""}]
            \union [decision : {"edited"}, text : EditText]
Requested(run) == UNION {[C -> Verdicts] : C \in (SUBSET Claims[run]) \ {{}}}

NoReview == [pc |-> "idle"]
NoRows == [sources |-> <<>>, signals |-> <<>>]

Target(run, asked) == IF RunCompany[run] # Firm0 THEN RunCompany[run] ELSE asked
Mismatch(run, asked) == RunCompany[run] # Firm0 /\ asked \notin {Firm0, RunCompany[run]}

Applied(p) == p.signal # 0

\* A decision is a replay when verdict and detail are those of the record;
\* the kind of an edit and the company are not compared.
Same(p, verdict) ==
  p.decision = verdict.decision /\ (p.decision = "edited" => Detail[p.text] = Detail[verdict.text])

Reviewed(old, asked) == DOMAIN old \intersect DOMAIN asked
Replays(old, asked) == {c \in Reviewed(old, asked) : Same(old[c], asked[c])}
Contradicts(old, asked) ==
  \E c \in Reviewed(old, asked) : Applied(old[c]) /\ ~Same(old[c], asked[c])

\* (a mistake: a new verdict replaces the old one, applied or not)
AnswerUnchecked(old, asked) ==
  IF Replays(old, asked) = DOMAIN asked THEN "unchanged" ELSE "save"
Answer(old, asked) ==
  IF Contradicts(old, asked) THEN "conflict"
  ELSE IF Replays(old, asked) = DOMAIN asked THEN "unchanged"
  ELSE IF \E c \in Reviewed(old, asked) : Applied(old[c]) THEN "error"
  ELSE "save"

-----------------------------------------------------------------------------
(* What a review writes *)

Rendered(run, c, verdict) ==
  IF verdict.decision = "edited" THEN verdict.text ELSE ClaimText[<<run, c>>]

Writes(firm, verdict) == firm # Firm0 /\ verdict.decision # "rejected"

\* (a mistake: repeated text is not shared)
NewInAgain(got, row) == DOMAIN row
\* The claims whose row is not there yet: the first claim of each.
NewIn(got, row) ==
  {c \in DOMAIN row : row[c] \notin Range(got) /\ \A d \in DOMAIN row : d < c => row[d] # row[c]}
Before(c, S) == {d \in S : d < c}

\* The rows of the claims, appended in claim order where they are not there yet.
Ensure(got, row) ==
  LET new == NewIn(got, row)
  IN got \o [i \in 1..Cardinality(new) |->
               row[CHOOSE c \in new : Cardinality(Before(c, new)) = i - 1]]
Position(s, x) == CHOOSE i \in DOMAIN s : s[i] = x

\* The company after the decisions.
Extended(run, asked, firm, company) ==
  LET written == {c \in DOMAIN asked : Writes(firm, asked[c])}
  IN [sources |-> Ensure(company.sources, [c \in written |-> ClaimPage[<<run, c>>]]),
      signals |-> Ensure(company.signals, [c \in written |-> Rendered(run, c, asked[c])])]

Promotion(run, c, verdict, firm, company) ==
  IF Writes(firm, verdict)
  THEN [decision |-> verdict.decision, text |-> verdict.text, firm |-> firm,
        source |-> Position(company.sources, ClaimPage[<<run, c>>]),
        signal |-> Position(company.signals, Rendered(run, c, verdict))]
  ELSE [decision |-> verdict.decision, text |-> verdict.text, firm |-> Firm0,
        source |-> 0, signal |-> 0]

\* The new promotions, and the old ones of the other claims.
Recorded(new, old) ==
  [c \in DOMAIN new \union DOMAIN old |-> IF c \in DOMAIN new THEN new[c] ELSE old[c]]

-----------------------------------------------------------------------------
(* The steps of a review *)

Become(v, r) == review' = [review EXCEPT ![v] = r]
Unwritten == UNCHANGED <<promotions, firms>>

\* The run is read; a target that is not the run's company is refused.
ReadRun(v) ==
  /\ review[v].pc \in {"idle", "answered"} /\ reviews < MaxReviews
  /\ \E run \in Runs, asked \in Firms \union {Firm0} : \E verdicts \in Requested(run) :
       Become(v, IF Mismatch(run, asked) THEN [pc |-> "answered", answer |-> "conflict"]
                 ELSE [pc |-> "read", run |-> run, firm |-> Target(run, asked),
                       asked |-> verdicts, seen |-> promotions[run]])
  /\ reviews' = reviews + 1 /\ Unwritten

\* Then the company, and everything is decided on these two copies.
ReadCompany(v) ==
  /\ review[v].pc = "read"
  /\ LET r == review[v]
         answer == Answer(r.seen, r.asked)
     IN Become(v, [pc |-> IF answer = "save" THEN "save" ELSE "answered", answer |-> answer,
                   run |-> r.run, firm |-> r.firm, asked |-> r.asked, seen |-> r.seen,
                   company |-> IF r.firm = Firm0 THEN NoRows ELSE firms[r.firm]])
  /\ UNCHANGED reviews /\ Unwritten

\* Run and company are merged whole, promotions and child rows included.
Save(v) ==
  /\ review[v].pc = "save"
  /\ LET r == review[v]
         after == Extended(r.run, r.asked, r.firm, r.company)
         new == [c \in DOMAIN r.asked |-> Promotion(r.run, c, r.asked[c], r.firm, after)]
     IN /\ promotions' = [promotions EXCEPT ![r.run] = Recorded(new, r.seen)]
        /\ firms' = IF r.firm = Firm0 THEN firms ELSE [firms EXCEPT ![r.firm] = after]
        /\ Become(v, [r EXCEPT !.pc = "answered"])
  /\ UNCHANGED reviews

Fresh(v) ==
  LET r == review[v] IN
    r.seen = promotions[r.run] /\ (r.firm # Firm0 => r.company = firms[r.firm])

\* A row another review added meanwhile has the key of one of this review:
\* the transaction fails.
Refuse(v) ==
  /\ review[v].pc = "save" /\ ~Fresh(v)
  /\ Become(v, [review[v] EXCEPT !.pc = "answered", !.answer = "refused"])
  /\ UNCHANGED reviews /\ Unwritten

PromotionInit ==
  /\ promotions = [run \in Runs |-> <<>>]
  /\ firms = [f \in Firms |-> NoRows]
  /\ review = [v \in Reviewers |-> NoReview] /\ reviews = 0

PromotionNext == \E v \in Reviewers : ReadRun(v) \/ ReadCompany(v) \/ Save(v) \/ Refuse(v)

PromotionSpec == PromotionInit /\ [][PromotionNext]_promotionVars

-----------------------------------------------------------------------------
(* Properties *)

IsPromotion(run, c, p) ==
  /\ c \in Claims[run] /\ p.decision \in {"accepted", "edited", "rejected"}
  /\ p.firm \in Firms \union {Firm0} /\ Applied(p) <=> p.firm # Firm0
  /\ Applied(p) => p.decision # "rejected"

IsFirm(f) == f.sources \in Seq(Range(ClaimPage)) /\ f.signals \in Seq(Range(ClaimText) \union EditText)

PromotionTypeOK ==
  /\ \A run \in Runs : \A c \in DOMAIN promotions[run] : IsPromotion(run, c, promotions[run][c])
  /\ \A f \in Firms : IsFirm(firms[f])

\* A company has one source per page and one signal per text, however many
\* claims and reviews led to them.
NothingIsListedTwice ==
  /\ PromotionTypeOK
  /\ \A f \in Firms : IsInjective(firms[f].signals) /\ IsInjective(firms[f].sources)

Traced(run, c) ==
  LET p == promotions[run][c] IN
    Applied(p) => /\ p.signal \in DOMAIN firms[p.firm].signals
                  /\ firms[p.firm].signals[p.signal] = Rendered(run, c, p)
                  /\ p.source \in DOMAIN firms[p.firm].sources
                  /\ firms[p.firm].sources[p.source] = ClaimPage[<<run, c>>]

\* A review nobody overlapped keeps every applied decision of every run as
\* it is, and each still leads to the signal and the page it was made from.
ReviewsKeepTheTrace ==
  [][\A v \in Reviewers : (review[v].pc = "save" /\ Fresh(v) /\ Save(v)) =>
       \A run \in Runs : \A c \in DOMAIN promotions[run] :
         (Applied(promotions[run][c]) /\ Traced(run, c)) =>
            promotions'[run][c] = promotions[run][c] /\ Traced(run, c)']_promotionVars

=============================================================================
