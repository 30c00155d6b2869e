-------------------------- MODULE OpportunityScore --------------------------
(***************************************************************************)
(* What the evidence about one company makes of it: which signal speaks    *)
(* for each kind when several do (services/scoring/evidence_merge), the    *)
(* score, the coverage and the confidence (services/scoring/deterministic),*)
(* and the verdict (domain/scoring).                                       *)
(*                                                                         *)
(* A signal is what it declares itself to be (its kind) and the dimensions *)
(* whose keywords occur in its text.                                       *)
(***************************************************************************)
EXTENDS Integers, Sequences, SequencesExt, FiniteSetsExt

CONSTANTS CompanySignals, \* signals people and researchers may record
          ImportSignals,  \* signals the import evidence may project, one of a kind
          Sources, Trusted,
          NoKind,         \* the kind of a text without one
          MaxSignals      \* bound on the signals of the company

SignalType == [kind : STRING, says : SUBSET STRING]
Gates == {"non_us_target", "no_international_import_activity", "out_of_scope_industry"}

ASSUME EvidenceAssumption ==
  /\ CompanySignals \union ImportSignals \subseteq SignalType
  /\ NoKind \in STRING \ Gates /\ "import_evidence" \notin Sources
  /\ Trusted \subseteq Sources /\ MaxSignals \in Nat

VARIABLES signals,     \* the signals of the company, in order
          researched,  \* the positions of those research promoted
          projected,   \* the active signals of the import evidence
          sources, website

scoreVars == <<signals, researched, projected, sources, website>>

ScoreInit ==
  /\ signals = <<>> /\ researched = {} /\ projected = {} /\ sources = {} /\ website = FALSE

\* Weight times value of each dimension, in tenths of a point, and weights.
TenthsOf == [import_activity |-> 160, china_dependency |-> 105, shipping_fit |-> 120,
           cargo_value_potential |-> 60, company_scale |-> 60, growth_signal |-> 80,
           contactability |-> 50, logistics_complexity |-> 70]
WeightOf == [import_activity |-> 20, china_dependency |-> 15, shipping_fit |-> 15,
           cargo_value_potential |-> 10, company_scale |-> 10, growth_signal |-> 10,
           contactability |-> 10, logistics_complexity |-> 10]
Dimensions == DOMAIN TenthsOf

------------------------------------------------------------------------------
(* Merging: a signal somebody recorded comes before the import evidence,   *)
(* which comes before what research found on the website; of several, the  *)
(* first.                                                                  *)

OfKind(kind) == {p \in DOMAIN signals : signals[p].kind = kind}
Projected(kind) == {s \in projected : s.kind = kind}

Winner(kind) ==
  LET manual == OfKind(kind) \ researched
  IN  IF manual # {} THEN {signals[Min(manual)]}
      ELSE IF Projected(kind) # {} THEN Projected(kind)
      ELSE {signals[Min(OfKind(kind))]}

Kinds == {signals[p].kind : p \in DOMAIN signals} \union {s.kind : s \in projected}

\* merge: one signal of a kind, and all texts without one.
Selected ==
  (UNION {Winner(kind) : kind \in Kinds \ {NoKind}}) \union {signals[p] : p \in OfKind(NoKind)}

SourcesOf == sources \union IF projected # {} THEN {"import_evidence"} ELSE {}

------------------------------------------------------------------------------
(* The score *)

\* A dimension is assessed by a signal of its kind, else by a keyword in any.
Assessed(d) ==
  /\ SourcesOf # {}
  /\ IF d = "contactability" THEN website
     ELSE \E s \in Selected : s.kind = d \/ d \in s.says

AssessedDimensions == {d \in Dimensions : Assessed(d)}

SumOver(n) ==
  n.import_activity + n.china_dependency + n.shipping_fit + n.cargo_value_potential
    + n.company_scale + n.growth_signal + n.contactability + n.logistics_complexity

TotalTenths == SumOver([d \in Dimensions |-> IF d \in AssessedDimensions THEN TenthsOf[d] ELSE 0])
Completeness == SumOver([d \in Dimensions |-> IF d \in AssessedDimensions THEN WeightOf[d] ELSE 0])

\* Thousandths; 0.2 + 0.15 * 3 is a little less than 0.65 in binary.
Confidence ==
  LET n == Cardinality(SourcesOf)
      base == 200 + 150 * n - IF n = 3 THEN 1 ELSE 0
  IN  Min({900, base + IF SourcesOf \intersect (Trusted \union {"import_evidence"}) # {}
                       THEN 200 ELSE 0})

\* A gate fires on what a signal declares, and only with sources behind it.
GateHit == SourcesOf # {} /\ \E s \in Selected : s.kind \in Gates

\* (a mistake: the gates come after the score)
DecideByScore(score, confidence, completeness, gate) ==
  CASE score >= 700 /\ confidence >= 650 /\ completeness >= 50 -> "qualified"
    [] score < 700 /\ gate -> "disqualified"
    [] OTHER -> IF completeness < 40 THEN "research_more" ELSE "review"

Decide(score, confidence, completeness, gate) ==
  CASE gate -> "disqualified"
    [] ~gate /\ completeness < 40 -> "research_more"
    [] ~gate /\ score >= 700 /\ confidence >= 650 /\ completeness >= 50 -> "qualified"
    [] OTHER -> "review"

\* Without a source nothing is scored.
Decision ==
  IF SourcesOf = {} THEN "skipped" ELSE Decide(TotalTenths, Confidence, Completeness, GateHit)

------------------------------------------------------------------------------
(* The evidence grows *)

RecordSignal ==
  /\ Len(signals) < MaxSignals
  /\ \E s \in CompanySignals \ Range(signals), research \in BOOLEAN :
       /\ signals' = Append(signals, s)
       /\ researched' = IF research THEN researched \union {Len(signals')} ELSE researched
  /\ UNCHANGED <<projected, sources, website>>

\* Promoted evidence replaces the active signal of its kind.
Project ==
  /\ \E s \in ImportSignals :
       projected' = {t \in projected : t.kind # s.kind} \union {s}
  /\ projected' # projected
  /\ UNCHANGED <<signals, researched, sources, website>>

Cite ==
  /\ \E source \in Sources \ sources : sources' = sources \union {source}
  /\ UNCHANGED <<signals, researched, projected, website>>

FindWebsite ==
  /\ ~website /\ website' = TRUE
  /\ UNCHANGED <<signals, researched, projected, sources>>

ScoreNext == RecordSignal \/ Project \/ Cite \/ FindWebsite

ScoreSpec == ScoreInit /\ [][ScoreNext]_scoreVars
------------------------------------------------------------------------------
(* Properties *)

\* A company qualifies only if every dimension is evidenced - with all of
\* them the score lands just above the bar, without the least of them below -
\* by enough sources, and a fact that rules it out is never outweighed,
\* wherever it was found and whatever else was (domain/scoring.py: "data
\* thinness alone never disqualifies", "no evidence, no gate").
QualificationIsEarned ==
  LET evidence == Range(signals) \union projected
      against == {s \in evidence : s.kind \in Gates}
  IN  /\ Decision = "qualified" =>
           /\ website /\ \A d \in Dimensions \ {"contactability"} :
                           \E s \in evidence : s.kind = d \/ d \in s.says
           /\ \/ Cardinality(sources) >= 4
              \/ Cardinality(sources) >= 1 /\ projected # {}
              \/ Cardinality(sources) >= 2 /\ sources \intersect Trusted # {}
      /\ Decision = "disqualified" <=> against # {} /\ SourcesOf # {}
=============================================================================
