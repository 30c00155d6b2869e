---------------------------- MODULE RoutingScore ----------------------------
(***************************************************************************)
(* The pre-score and the tier of one company                               *)
(* (app/services/prospect_routing/scorer.py and taxonomy.py), while rows   *)
(* of imports, contacts and its profile become known.                      *)
(*                                                                         *)
(* A product description is the set of the words in it that are looked     *)
(* for, an HS code the set of the codes and prefixes it matches; either is *)
(* Missing from a row that does not say.  Ratios and points are integers,  *)
(* in units of 1/Unit, which all the divisors divide; a score is in        *)
(* hundredths.                                                             *)
(***************************************************************************)
EXTENDS Integers, Sequences, FiniteSets, SequencesExt

CONSTANTS Missing,
          Keywords, Codes,           \* the criteria of the run
          TargetWords, TargetCodes,  \* the taxonomy
          OtherWords, OtherCodes,    \* its explicit non-targets
          RowKinds,                  \* rows that may be imported
          ContactKinds,              \* contacts that may be found
          MaxRows                    \* bound on rows

Parts(wanted) == IF wanted = {} THEN 1 ELSE Cardinality(wanted)
Unit == 420 * Parts(Keywords) * Parts(Codes)

Words == Keywords \union TargetWords \union OtherWords
HsPrefixes == Codes \union TargetCodes \union OtherCodes
Amounts == {Missing} \union Nat  \* one that cannot be read is 0
Types == {Missing, "importer", "warehousing", "3pl", "freight forwarder"}
Places == {"us", "asia", "europe"}
Regions == {Missing} \union Places
RowType == [product : {Missing} \union SUBSET Words, hs : {Missing} \union SUBSET HsPrefixes,
            importer : Regions, origin : Regions, supplier : BOOLEAN, amount : Amounts,
            lastImport : BOOLEAN, date : {Missing} \union Nat, type : Types]
ContactType == [active : BOOLEAN, channel : BOOLEAN, email : BOOLEAN,
                department : BOOLEAN, preferred : BOOLEAN]

ASSUME ScoreAssumption ==
  /\ Missing \notin Places
  /\ IsFiniteSet(Keywords) /\ IsFiniteSet(Codes)
  /\ RowKinds \subseteq RowType /\ ContactKinds \subseteq ContactType
  /\ MaxRows \in Nat

VARIABLES rows,      \* the rows resolved to the company, by row number
          contacts,  \* its contacts
          profile,   \* what the profile and the company's row say
          conflict   \* an entity decision on it waits for a reviewer

knownVars == <<rows, contacts, profile, conflict>>

------------------------------------------------------------------------------
(***************************************************************************)
(* RoutingFeatureProjector.project                                         *)
(***************************************************************************)
Said(column) == {rows[i][column] : i \in DOMAIN rows} \ {Missing}
Products == Said("product")
HsCodes == Said("hs")
Importers == Said("importer")
Origins == Said("origin")
Dates == Said("date")
HasSupplier == \E i \in DOMAIN rows : rows[i].supplier
HasLastImport == \E i \in DOMAIN rows : rows[i].lastImport

\* The amount of the first row that has one.
Amount ==
  LET given == {i \in DOMAIN rows : rows[i].amount # Missing} IN
  IF given = {} THEN Missing
  ELSE rows[CHOOSE i \in given : \A j \in given : i <= j].amount

CompanyTypes == Said("type") \union ({profile.type} \ {Missing})

\* _intermediary_signals.
Signals == CompanyTypes \intersect {"warehousing", "3pl", "freight forwarder"}

\* _explicit_intermediary_type, or two signals.
StrongExclusion == "freight forwarder" \in CompanyTypes \/ Cardinality(Signals) >= 2

------------------------------------------------------------------------------
(***************************************************************************)
(* Ratios                                                                  *)
(***************************************************************************)
Lesser(m, n) == IF m < n THEN m ELSE n
Ratio(n, d) == IF d = 0 THEN 0 ELSE Lesser(n, d) * (Unit \div d)
Count(flags) == Cardinality({i \in DOMAIN flags : flags[i]})
Points(weight, ratio) == weight * ratio
Hundredths(points) == (100 * points + Unit \div 2) \div Unit

\* (a mistake: the share of what is said, not of what is looked for)
RatioOfSaid == Ratio(Cardinality(Keywords \intersect UNION Products),
                     Cardinality(UNION Products))

\* _keyword_match_ratio and _hs_match_ratio.
ProductRatio == Ratio(Cardinality(Keywords \intersect UNION Products), Cardinality(Keywords))
HsRatio == Ratio(Cardinality(Codes \intersect UNION HsCodes), Cardinality(Codes))

\* The contacts that count.
Eligible == {c \in contacts : c.active /\ c.channel}
Emails == {c \in Eligible : c.email}
Persons == {c \in Emails : ~c.department}
Preferred(group) == {c \in group : c.preferred}
HasSite == profile.website \/ profile.domain

------------------------------------------------------------------------------
(***************************************************************************)
(* real-routing-v1                                                         *)
(***************************************************************************)
\* _relevance_ratio.
RelevanceRatio ==
  IF Keywords # {} /\ Codes # {} THEN (6 * ProductRatio + 4 * HsRatio) \div 10
  ELSE IF Keywords # {} THEN ProductRatio ELSE HsRatio

\* _recency_ratio; a date is the number of days since.
RecencyRatio ==
  LET within(days) == \E d \in Dates : d <= days IN
  IF within(90) THEN Unit ELSE IF within(180) THEN Ratio(3, 4)
  ELSE IF within(365) THEN Ratio(1, 2) ELSE IF within(730) THEN Ratio(1, 4) ELSE 0

Months == {d \div 30 : d \in Dates}

\* The criteria name no ports and no origins: ports bring nothing, and an
\* origin in Asia counts.
PointsV1 ==
  Points(30, RelevanceRatio) + Points(20, RecencyRatio)
    + 9 * Ratio(Len(rows), 12) + 6 * Ratio(Cardinality(Months), 6)
    + (IF "asia" \in Origins THEN 10 * Unit ELSE 0)
    + 4 * Ratio(Cardinality(Eligible), 2)
    + (IF Preferred(Eligible) # {} THEN 6 * Unit ELSE 0)
    + Points(5, Ratio(Count(<<Products \union HsCodes # {}, Dates # {}, Origins # {}, FALSE,
                              HasSite \/ profile.type # Missing, contacts # {}>>), 6))
    - (IF Signals # {} /\ ~StrongExclusion THEN 5 * Unit ELSE 0)

PreScoreV1 == IF PointsV1 < 0 THEN 0 ELSE Lesser(10000, Hundredths(PointsV1))

\* _explicit_mismatch: all that can be compared is something else.
ExplicitMismatch ==
  LET productKnown == Keywords # {} /\ Products # {}
      hsKnown == Codes # {} /\ HsCodes # {}
  IN /\ productKnown \/ hsKnown
     /\ productKnown => ProductRatio = 0
     /\ hsKnown => HsRatio = 0

\* recommend_prospect_tier.
TierV1 ==
  IF conflict THEN "blocked"
  ELSE IF StrongExclusion \/ ExplicitMismatch THEN "D"
  ELSE IF PreScoreV1 >= 7500 /\ Preferred(Eligible) # {} THEN "A"
  ELSE IF PreScoreV1 >= 5000 /\ Emails # {} THEN "B"
  ELSE IF PreScoreV1 >= 3000 THEN "C"
  ELSE "D"

------------------------------------------------------------------------------
(***************************************************************************)
(* real-routing-v1.1                                                       *)
(***************************************************************************)
\* target_product_match, target_hs_match.
TaxonomyTarget ==
  \/ (UNION Products) \intersect TargetWords # {}
  \/ (UNION HsCodes) \intersect TargetCodes # {}

\* explicit_non_target_product, explicit_non_target_hs.
TaxonomyOther ==
  \/ (UNION Products) \intersect OtherWords # {}
  \/ (UNION HsCodes) \intersect OtherCodes # {}

Greater(m, n) == IF m < n THEN n ELSE m

\* _value_points.
ValuePoints ==
  IF Amount = Missing THEN 0
  ELSE IF Amount >= 250000 THEN 15 ELSE IF Amount >= 50000 THEN 10 ELSE IF Amount > 0 THEN 5 ELSE 0

PersonPoints ==
  IF Preferred(Persons) # {} THEN 10 ELSE IF Persons # {} THEN 5 ELSE IF Emails # {} THEN 2 ELSE 0

\* evaluate, the sum.
PointsV11 ==
  Points(20, Ratio(Count(<<Products # {}, HsCodes # {}, HasSupplier, Amount # Missing,
                           HasLastImport, Origins # {}>>), 6))
    + Points(25, Greater(Greater(ProductRatio, HsRatio), IF TaxonomyTarget THEN Unit ELSE 0))
    + ValuePoints * Unit
    + (IF HasSite THEN 8 * Unit ELSE 0) + (IF profile.type # Missing THEN 2 * Unit ELSE 0)
    + Points(15, Ratio(Cardinality(Eligible), 2))
    + PersonPoints * Unit
    + Points(5, Ratio(Count(<<Products \union HsCodes # {}, Origins # {}, Amount # Missing,
                              HasSupplier, HasLastImport, HasSite, Eligible # {}>>), 7))

PreScoreV11 == Lesser(10000, Hundredths(PointsV11))

\* (a mistake: where the goods come from says where the importer is)
HardExclusionByOrigin ==
  \/ StrongExclusion
  \/ Origins # {} /\ "us" \notin Origins
  \/ TaxonomyOther

\* _hard_exclusion.
HardExclusion ==
  \/ StrongExclusion
  \/ Importers # {} /\ "us" \notin Importers
  \/ TaxonomyOther

\* evaluate, recommended_tier.
TierV11 ==
  IF conflict THEN "blocked"
  ELSE IF HardExclusion THEN "D"
  ELSE IF ~TaxonomyTarget THEN "C"
  ELSE IF PreScoreV11 >= 7000 THEN "A"
  ELSE IF PreScoreV11 >= 4500 THEN "B"
  ELSE "C"

------------------------------------------------------------------------------
KnownInit ==
  /\ rows = <<>> /\ contacts = {} /\ conflict = FALSE
  /\ profile = [website |-> FALSE, domain |-> FALSE, type |-> Missing]

\* A row resolves to the company, at once or when its review is decided, which
\* may be after later rows did (list_source_companies, order_by row_number).
ResolveRow ==
  /\ Len(rows) < MaxRows
  /\ \E row \in RowKinds, i \in 1 .. Len(rows) + 1 : rows' = InsertAt(rows, i, row)
  /\ UNCHANGED <<contacts, profile, conflict>>

FindContact ==
  /\ \E c \in ContactKinds : contacts' = contacts \union {c}
  /\ UNCHANGED <<rows, profile, conflict>>

Enrich ==
  /\ \/ profile' = [profile EXCEPT !.website = TRUE]
     \/ profile' = [profile EXCEPT !.domain = TRUE]
     \/ profile.type = Missing /\ profile' = [profile EXCEPT !.type = "importer"]
  /\ UNCHANGED <<rows, contacts, conflict>>

Dispute == conflict' = ~conflict /\ UNCHANGED <<rows, contacts, profile>>

KnownNext == ResolveRow \/ FindContact \/ Enrich \/ Dispute

KnownSpec == KnownInit /\ [][KnownNext]_knownVars

------------------------------------------------------------------------------
\* The scoring of v1.1 is additive and what is missing is unknown: whatever
\* becomes known of a company, its score does not fall.  The one exception is an
\* amount in a row that comes before the one counted so far: the amount of the
\* first row is taken, not the largest (evaluate, project).  (That something
\* changes is said twice: TLC evaluates the body for stuttering steps too.)
KnowledgeNeverCosts ==
  [][knownVars' # knownVars /\ (Amount = Missing \/ Amount' = Amount) =>
       PreScoreV11' >= PreScoreV11]_knownVars

\* D is for explicit evidence only: an intermediary, an importer that rows
\* place abroad and none in the US, a product of another industry, or, for v1,
\* goods that were compared with the criteria and are others.  It is never for
\* what is missing, nor for where the suppliers are (_hard_exclusion,
\* _explicit_mismatch).
ExclusionHasEvidence ==
  LET intermediary == \E t \in CompanyTypes : t \notin {"importer"}
      described(i) == rows[i].product # Missing \/ rows[i].hs # Missing
      wanted(i) == \/ rows[i].product # Missing /\ rows[i].product \intersect Keywords # {}
                   \/ rows[i].hs # Missing /\ rows[i].hs \intersect Codes # {}
  IN /\ TierV11 = "D" =>
          \/ intermediary
          \/ \E i \in DOMAIN rows :
               \/ rows[i].product # Missing /\ rows[i].product \intersect OtherWords # {}
               \/ rows[i].hs # Missing /\ rows[i].hs \intersect OtherCodes # {}
               \/ /\ rows[i].importer \in {"asia", "europe"}
                  /\ \A j \in DOMAIN rows : rows[j].importer # "us"
     /\ TierV1 = "D" /\ PreScoreV1 >= 3000 =>
          \/ intermediary
          \/ (\E i \in DOMAIN rows : described(i)) /\ ~\E i \in DOMAIN rows : wanted(i)

\* Only a company with a product or HS code of the taxonomy gets the costly
\* tiers, however good the rest of it is (evaluate, taxonomy_target).
CostlyTiersAreOnTarget ==
  TierV11 \in {"A", "B"} =>
    \E i \in DOMAIN rows : \/ rows[i].product # Missing /\ rows[i].product \intersect TargetWords # {}
                           \/ rows[i].hs # Missing /\ rows[i].hs \intersect TargetCodes # {}

\* Both: the tiers that exclude and the tiers that cost are justified.
TiersAreJustified == ExclusionHasEvidence /\ CostlyTiersAreOnTarget
==============================================================================
