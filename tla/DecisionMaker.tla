---------------------------- MODULE DecisionMaker ----------------------------
(***************************************************************************)
(* The people of one company: how claims about them become contacts        *)
(* (app/workflows/contact_ingestion), how each is scored and who is chosen *)
(* to be written to (app/workflows/decision_maker, app/services/contact).  *)
(*                                                                         *)
(* A title stands for what the taxonomy finds in it.  No code verifies or  *)
(* invalidates a channel or a contact: all channels count as unverified.   *)
(***************************************************************************)
EXTENDS Integers, Sequences, SequencesExt, FiniteSetsExt, Functions

CONSTANTS Ingesters,       \* requests that may ingest a candidate at one time
          Candidates,      \* claims about people, normalized
          DepartmentMails, \* info@, sales@, ...
          SourceRank,      \* how far a source is trusted
          Untitled,        \* the title of those who have none
          MaxPeople        \* bound on contacts and on candidates being ingested

RoleNames == {"procurement", "sourcing", "supply_chain", "import", "logistics", "vendor",
              "merchandising", "inventory", "operations", "ownership", "compliance", "sales",
              "finance"}
Seniorities == {"c_level", "vp", "director", "head", "manager", "specialist", "unknown"}

TitleType == [names : SUBSET RoleNames, seniority : Seniorities, historical : BOOLEAN,
              assistant : BOOLEAN]
ChannelType == [type : {"email", "linkedin", "phone"}, value : STRING]
ClaimType == [name : STRING, title : TitleType, channels : SUBSET ChannelType, source : STRING]

ASSUME ClaimAssumption ==
  /\ \A c \in Candidates :
       /\ c.title \in TitleType /\ c.channels \subseteq ChannelType /\ IsFiniteSet(c.channels)
       /\ c.source \in DOMAIN SourceRank
  /\ \A source \in DOMAIN SourceRank : SourceRank[source] \in 0 .. 5
  /\ Untitled \in TitleType /\ Untitled.names = {} /\ MaxPeople \in Nat

VARIABLES people,    \* the contacts of the company, in the order of creation
          filing,    \* each ingester: the contact it is about to store
          size,      \* what the signals of the company say of its size
          recorded,  \* the assessments that are stored
          selection  \* the answer of the last selection

selectionVars == <<people, filing, size, recorded, selection>>

SizeHints == {"unknown", "micro", "small", "medium", "large"}

NotFiling == [at |-> "idle", who |-> 0, mine |-> 0]
NoSelection == [action |-> "none", person |-> 0, ranked |-> {}]

SelectionInit ==
  /\ people = <<>> /\ size = "unknown" /\ recorded = {} /\ selection = NoSelection
  /\ filing = [g \in Ingesters |-> NotFiling]

------------------------------------------------------------------------------
(* Ingestion *)

HavingChannel(candidate, type) ==
  {i \in DOMAIN people : \E ch \in candidate.channels : ch.type = type /\ ch \in people[i].channels}

\* The one who was stored first of those with the same name; 0: nobody.
Namesake(candidate) ==
  LET named == {i \in DOMAIN people : people[i].name = candidate.name}
  IN  IF named = {} THEN 0 ELSE Min(named)

\* Whom the candidate may be taken for: anybody with its mail, else with its
\* profile, else its namesake of the same title; 0: nobody.  A namesake with
\* another title is left to a person to tell apart.
Matches(candidate) ==
  LET namesake == Namesake(candidate)
  IN  CASE HavingChannel(candidate, "email") # {} -> HavingChannel(candidate, "email")
        [] HavingChannel(candidate, "email") = {} /\ HavingChannel(candidate, "linkedin") # {} ->
             HavingChannel(candidate, "linkedin")
        [] OTHER -> IF namesake = 0 THEN {0}
                    ELSE {namesake} \intersect
                         {i \in DOMAIN people : /\ people[i].title = candidate.title
                                                /\ candidate.title # Untitled}

\* _merge_candidate: what is known stays, what is missing is filled in.
MergedWithCandidate(contact, candidate) ==
  [contact EXCEPT !.title = IF @ = Untitled THEN candidate.title ELSE @,
                  !.channels = @ \union candidate.channels,
                  !.sources = @ \union {candidate.source}]

NewContact(candidate) ==
  MergedWithCandidate([name |-> candidate.name, title |-> candidate.title,
                       channels |-> {}, sources |-> {}], candidate)

Classify(g) ==
  /\ filing[g].at = "idle"
  /\ Len(people) + Cardinality({h \in Ingesters : filing[h].at # "idle"}) < MaxPeople
  /\ \E candidate \in Candidates : \E i \in Matches(candidate) :
       filing' = [filing EXCEPT ![g] =
         [at |-> "store", who |-> i,
          mine |-> IF i = 0 THEN NewContact(candidate)
                   ELSE MergedWithCandidate(people[i], candidate)]]
  /\ UNCHANGED <<people, size, recorded, selection>>

\* add or save and commit: the contact as it is in memory replaces the rows,
\* channels and sources that others added to them included.
Store(g) ==
  /\ filing[g].at = "store"
  /\ LET i == filing[g].who
     IN  people' = IF i = 0 THEN Append(people, filing[g].mine)
                   ELSE [people EXCEPT ![i] = filing[g].mine]
  /\ filing' = [filing EXCEPT ![g] = NotFiling]
  /\ UNCHANGED <<size, recorded, selection>>

------------------------------------------------------------------------------
(* The six factors *)

Implied == [import |-> {"procurement", "logistics"}, sourcing |-> {"procurement"},
            merchandising |-> {"procurement"}, vendor |-> {"procurement"},
            supply_chain |-> {"logistics"}, inventory |-> {"supply_chain"}]

\* One level of implications is added to the roles the title names.
Roles(title) ==
  title.names \union UNION {Implied[role] : role \in title.names \intersect DOMAIN Implied}

FreightRoles == {"procurement", "sourcing", "supply_chain", "import", "logistics"}
BuyingRoles == FreightRoles \union {"vendor", "merchandising", "inventory", "operations",
                                   "ownership", "compliance"}

RelevanceOf ==
  [procurement |-> 38, sourcing |-> 36, supply_chain |-> 40, import |-> 40, logistics |-> 38,
   vendor |-> 28, merchandising |-> 26, inventory |-> 24, operations |-> 20, ownership |-> 22,
   compliance |-> 18, sales |-> 6, finance |-> 10]

RoleRelevance(roles) ==
  LET freight == Cardinality(roles \intersect FreightRoles)
      bonus == IF freight >= 2 THEN Min({(freight - 1) * 2, 6}) ELSE 0
  IN  IF roles = {} THEN 0
      ELSE Min({40, Max({RelevanceOf[role] : role \in roles}) + bonus})

SeniorityOf == [c_level |-> 15, vp |-> 14, director |-> 12, head |-> 11, manager |-> 9,
                specialist |-> 6, unknown |-> 5]
Senior == {"c_level", "vp", "director"}

SeniorityPoints(title) ==
  IF title.historical THEN 0
  ELSE IF title.assistant THEN Min({SeniorityOf[title.seniority], 3})
  ELSE SeniorityOf[title.seniority]

SizeFit(title, hint) ==
  LET owner == "ownership" \in Roles(title)
      senior == ~title.historical /\ title.seniority \in Senior
  IN  CASE hint = "small" -> IF owner THEN 10 ELSE IF senior THEN 8 ELSE 6
        [] hint = "medium" -> IF owner THEN 7 ELSE IF senior THEN 10 ELSE 6
        [] hint = "large" -> IF owner THEN 4 ELSE IF senior THEN 10 ELSE 5
        [] hint \in {"unknown", "micro"} -> 5

LogisticsOf ==
  [import |-> 15, logistics |-> 15, supply_chain |-> 14, procurement |-> 11, sourcing |-> 10,
   operations |-> 7, vendor |-> 7, merchandising |-> 6, inventory |-> 8, ownership |-> 5,
   compliance |-> 6, sales |-> 0, finance |-> 0]

LogisticsFit(roles) == Max({0} \union {LogisticsOf[role] : role \in roles})

ChannelPoints == [email |-> 11, linkedin |-> 8, phone |-> 6]

Reachability(channels) ==
  LET pointsOf(type) == ChannelPoints[type] * Cardinality({ch \in channels : ch.type = type})
  IN  Min({15, pointsOf("email") + pointsOf("linkedin") + pointsOf("phone")})

SourceConfidence(sources) == Max({1} \union {SourceRank[s] : s \in sources})

Factors(c, hint) ==
  <<RoleRelevance(Roles(c.title)), SeniorityPoints(c.title), SizeFit(c.title, hint),
    LogisticsFit(Roles(c.title)), Reachability(c.channels), SourceConfidence(c.sources)>>

Overall(factors) ==
  Min({100, factors[1] + factors[2] + factors[3] + factors[4] + factors[5] + factors[6]})

\* Classification confidence, in tenths.
Trust(title) ==
  CASE title = Untitled -> 0
    [] title # Untitled /\ title.names = {} -> 2
    [] OTHER -> Min({10, 7 + Min({Cardinality(title.names), 3}) - IF title.historical THEN 2 ELSE 0})

EligibleContact(c, total) ==
  LET roles == Roles(c.title)
  IN  /\ ~c.title.historical /\ c.sources # {} /\ total >= 25
      /\ roles \intersect (BuyingRoles \union {"finance"}) # {}
      /\ ~("sales" \in roles /\ roles \intersect BuyingRoles = {})

\* A candidate as it is scored; what of it the fingerprint tells apart.
Scored(i, hint) ==
  LET factors == Factors(people[i], hint)
  IN  [who |-> i, factors |-> factors, total |-> Overall(factors),
       eligible |-> EligibleContact(people[i], Overall(factors))]

------------------------------------------------------------------------------
(* Selection *)

\* Whoever has a shared mailbox is left out.
Pool == {i \in DOMAIN people : \A ch \in people[i].channels : ch.value \notin DepartmentMails}

SelectBar == 55
ReviewBar == 35

\* (a mistake: the best one is taken however close the next one is)
CloseNever(best, others) == FALSE

\* Two that are within five points of each other are for a person to decide.
Close(best, others) == \E other \in others : best.total - other.total <= 5

\* select: the one to write to, or why there is none.  Ties of the ranking
\* are close, so that its order by the factors and the id decides nothing.
Choice(scored) ==
  LET eligible == {x \in scored : x.eligible}
      top == {x \in eligible : \A y \in eligible : y.total <= x.total}
      best == CHOOSE x \in top : TRUE
      doubtful == \/ best.total < SelectBar
                  \/ Close(best, eligible \ {best})
                  \/ best.factors[5] = 0
                  \/ Trust(people[best.who].title) < 6
  IN  CASE eligible = {} \/ \A x \in eligible : x.total < ReviewBar -> [status |-> "nobody", who |-> 0]
        [] eligible # {} /\ (\E x \in eligible : x.total >= ReviewBar) ->
             IF doubtful THEN [status |-> "review", who |-> 0]
             ELSE [status |-> "selected", who |-> best.who]

\* What is recorded knows the size of the company; the choice does not: the
\* service it is made by has no size provider (api/deps.py:297).  One
\* assessment that is stored already refuses the commit of them all.
SelectDecisionMaker ==
  /\ LET ranked == {Scored(i, size) : i \in Pool}
         choice == Choice({Scored(i, "unknown") : i \in Pool})
         plausible == \E x \in ranked : x.total >= ReviewBar
     IN  /\ selection' =
              [ranked |-> ranked, person |-> choice.who,
               action |-> CASE choice.status \in {"selected", "review"} -> choice.status
                            [] choice.status = "nobody" ->
                                 IF plausible THEN "review" ELSE "research_more"]
         /\ recorded' = IF ranked \intersect recorded = {} THEN recorded \union ranked ELSE recorded
  /\ UNCHANGED <<people, filing, size>>

\* The signals of the company change.
Resize ==
  /\ size' \in SizeHints \ {size}
  /\ UNCHANGED <<people, filing, recorded, selection>>

SelectionNext ==
  \/ \E g \in Ingesters : Classify(g) \/ Store(g)
  \/ SelectDecisionMaker \/ Resize

SelectionSpec == SelectionInit /\ [][SelectionNext]_selectionVars
------------------------------------------------------------------------------
(* Properties *)

IsContact(c) ==
  /\ c.title \in TitleType /\ c.channels \subseteq ChannelType
  /\ c.sources # {} /\ c.sources \subseteq DOMAIN SourceRank

IsAssessment(x) ==
  /\ x.who \in DOMAIN people /\ x.total \in 0 .. 100 /\ x.eligible \in BOOLEAN
  /\ \A k \in 1 .. 6 : x.factors[k] \in 0 .. <<40, 15, 10, 15, 15, 5>>[k]

IsAnswer(a) ==
  /\ a.action \in {"none", "selected", "review", "research_more"}
  /\ a.action = "selected" <=> a.person # 0

SelectionTypeOK ==
  /\ \A i \in DOMAIN people : IsContact(people[i])
  /\ size \in SizeHints /\ \A x \in recorded : IsAssessment(x)
  /\ IsAnswer(selection)

\* Who is chosen without looking at the size of the company is still not
\* behind anybody eligible in the ranking that is stored and shown, which
\* looks at it: the margin that sends close candidates to a person is wider
\* than what the size can shift, but by little (selector.py CLOSE_MARGIN,
\* scorer.py _company_size_fit).
SelectedIsTopOfRanking ==
  /\ SelectionTypeOK
  /\ \A x, y \in selection.ranked :
       x.who = selection.person /\ y.eligible => y.total <= x.total

=============================================================================
