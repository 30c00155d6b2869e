------------------------------- MODULE MCRules -------------------------------
(***************************************************************************)
(* The rules the program judges and cuts by, and the registers of people,  *)
(* of companies and of customs rows, each on inputs of its own: a          *)
(* behaviour is of one of the six parts.                                   *)
(***************************************************************************)
EXTENDS RoutingScore, DocumentChunking, OpportunityScore, DecisionMaker, CompanyDiscovery,
        ImportEvidence

CONSTANTS g1, g2, s1, s2, s3, s4, r1, r2, acme, shop, bare, sa, sb, sc, sd, se

Bare == [product |-> Missing, hs |-> Missing, importer |-> Missing, origin |-> Missing,
         supplier |-> FALSE, amount |-> Missing, lastImport |-> FALSE, date |-> Missing,
         type |-> Missing]

\* What the rows of three files say: a customs list, a list of buyers with
\* amounts, and a hand-made list with types.
MCRowKinds ==
  {[Bare EXCEPT !.product = p, !.origin = "asia", !.date = d] :
      p \in {{"gym"}, {"mat"}, {"mat", "food"}}, d \in {Missing, 30, 200}}
  \union {[Bare EXCEPT !.hs = {"9506"}, !.amount = a, !.supplier = TRUE, !.lastImport = TRUE] :
             a \in {0, 40000, 300000}}
  \union {[Bare EXCEPT !.hs = {"9403"}], [Bare EXCEPT !.product = {}]}
  \union {[Bare EXCEPT !.importer = c] : c \in {"us", "europe"}}
  \union {[Bare EXCEPT !.type = t] : t \in {"warehousing", "3pl", "freight forwarder"}}

Person(active, email, department, preferred) ==
  [active |-> active, channel |-> TRUE, email |-> email, department |-> department,
   preferred |-> preferred]
MCContactKinds ==
  {Person(TRUE, TRUE, FALSE, TRUE), Person(FALSE, TRUE, FALSE, TRUE)}

\* Lines of a document, two of them in another alphabet.
Line(text, tokens, ends, gap) ==
  [text |-> text, tokens |-> tokens, ends |-> ends, marked |-> FALSE, brief |-> FALSE,
   boilerplate |-> FALSE, page |-> 0, gap |-> gap]
MCHeading == [Line("heading", 1, {}, TRUE) EXCEPT !.marked = TRUE]
MCLines == {MCHeading, [Line("sub", 2, {}, FALSE) EXCEPT !.brief = TRUE],
            [Line("page", 1, {}, FALSE) EXCEPT !.page = 2],
            [Line("cookie", 3, {3}, FALSE) EXCEPT !.boilerplate = TRUE],
            Line("short", 1, {1}, FALSE), Line("long", 5, {2, 5}, FALSE),
            Line("list", 4, {}, TRUE), Line("other", 0, {}, TRUE),
            [Line("foreign", 0, {}, FALSE) EXCEPT !.brief = TRUE]}

\* Evidence: signals with keywords of other dimensions, one that rules the
\* company out, and texts without a kind.
Signal(kind, says) == [kind |-> kind, says |-> says]
MCSignals ==
  {Signal("import_activity", {"import_activity", "shipping_fit", "china_dependency"}),
   Signal("company_scale", {"company_scale", "growth_signal"}), Signal("non_us_target", {}),
   Signal(NoKind, {"cargo_value_potential", "logistics_complexity"}),
   Signal("china_dependency", {"shipping_fit"})}
MCImportSignals ==
  {Signal("import_activity", {"import_activity", "shipping_fit"}),
   Signal("china_dependency", {"china_dependency"})}

\* People: an owner and a head of logistics of the same standing, a buyer
\* known by a former title and by a present one, a salesman, a mailbox.
Title(names, seniority) ==
  [names |-> names, seniority |-> seniority, historical |-> FALSE, assistant |-> FALSE]
MCUntitled == Title({}, "unknown")
At(type, value) == [type |-> type, value |-> value]
Claim(name, title, channels, source) ==
  [name |-> name, title |-> title, channels |-> channels, source |-> source]
MCCandidates ==
  {Claim("ann", Title({"ownership", "supply_chain", "import"}, "c_level"), {At("email", "ann@")}, "customs"),
   Claim("ann", Title({"ownership", "supply_chain", "import"}, "c_level"), {At("linkedin", "/ann")}, "manual"),
   Claim("bob", [Title({"procurement"}, "director") EXCEPT !.historical = TRUE], {At("phone", "1")}, "manual"),
   Claim("bob", Title({"procurement"}, "director"), {At("email", "bob@")}, "website"),
   Claim("cy", Title({"logistics"}, "vp"), {At("email", "cy@"), At("phone", "2")}, "website"),
   Claim("eve", [Title({"inventory"}, "specialist") EXCEPT !.assistant = TRUE], {At("email", "bob@")}, "manual"),
   Claim("gus", MCUntitled, {At("linkedin", "/ann")}, "manual"),
   Claim("hal", Title({"sales"}, "head"), {At("email", "sales@")}, "website")}
MCSourceRank == [customs |-> 5, website |-> 4, manual |-> 4]

\* Companies: one website under two ports, a website that is none, two names
\* that differ in the legal form, a name that is too long.
Told(name, plain, url, address, ref, fit) ==
  [name |-> name, plain |-> plain, url |-> url, address |-> address, ref |-> ref, fit |-> fit]
A1 == Told("acme inc", "acme", acme, "", "r1", TRUE)
A2 == Told("acme", "acme", acme, "", "r2", TRUE)
A3 == Told("acme", "acme", NoUrl, "x", "r3", TRUE)
A4 == Told("acme llc", "acme", NoUrl, "x", "r4", TRUE)
A5 == Told("acme", "acme", shop, "", "r5", TRUE)
A6 == Told("long", "long", bare, "", "r6", FALSE)
MCCompanyClaims == {A1, A2, A3, A4, A5, A6}
MCAnswers == {<<A3, A4, A1>>, <<A2, A5>>, <<Unreadable, A6, A1>>}
MCDomain == (acme :> "acme.com") @@ (shop :> "acme.com") @@ (bare :> "localhost") @@ (NoUrl :> NoUrl)
MCHost == (acme :> "acme.com") @@ (shop :> "acme.com:8080") @@ (bare :> NoUrl) @@ (NoUrl :> NoUrl)
MCWanted == [p \in {"p", "q"} |-> IF p = "p" THEN 3 ELSE 1]

\* Three shipments that make every signal, one still at sea on the first of
\* two days, one without papers, and one whose rows spell the company apart.
MCBill ==
  LET Papers(arrival, carrier) ==
        [house |-> arrival # 0, master |-> TRUE, arrival |-> arrival, carrier |-> carrier, port |-> "LA"]
  IN  sa :> Papers(410, "m") @@ sb :> Papers(370, "n") @@ sc :> Papers(90, "m") @@ sd :> Papers(0, Nothing)
      @@ se :> Papers(400, "n")
Says(s, supplier, from) ==
  [shipment |-> s, mentions |-> TRUE, name |-> "same", spelled |-> TRUE, sited |-> TRUE,
   country |-> TRUE, origin |-> from, supplier |-> supplier,
   containers |-> IF s = sc THEN {} ELSE {"c1"}]
MCFile(said, provider) == [rows |-> said, provider |-> provider, skipped |-> FALSE]
Near(record) == [record EXCEPT !.name = "near", !.spelled = FALSE]
MCFull == MCFile(<<Says(sa, "x", "CN"), Says(sb, "x.", "CN"), Says(sc, "x,", "CN")>>, "importyeti")

\* The same shipments from a provider nobody knows, of no origin and of one
\* supplier, who was spelled three ways; the first in three rows, one of them
\* without containers and one that only resembles the company.
MCAgain ==
  MCFile(<<[Says(sa, "x", Nothing) EXCEPT !.containers = {}], Says(sb, "x", Nothing),
           Near(Says(sa, "x", "CN")), Says(sc, "x", Nothing), Says(sa, "x", "CN")>>, "other")
MCFiles ==
  {MCFull, MCAgain, MCFile(<<Near(Says(sd, "x", "CN"))>>, "csv"), MCFile(<<Says(sd, "x", "CN")>>, "csv"),
   [MCFile(<<[Says(se, "x", "CN") EXCEPT !.spelled = FALSE],
             [Says(sb, "x", "CN") EXCEPT !.sited = FALSE]>>, "importyeti") EXCEPT !.skipped = TRUE]}

Symmetry == Permutations(Searchers) \union Permutations(Ingesters)

\* Nothing tells the sources but the trusted one apart: they are found in
\* their order.
InTurn == (s3 \in sources => s2 \in sources) /\ (s2 \in sources => s1 \in sources)

\* The company is resized and selected from while nobody ingests, and from
\* then on it is of interest while it has one contact.
Calm ==
  /\ size # "unknown" \/ selection # NoSelection => \A g \in Ingesters : filing[g].at = "idle"
  /\ selection # NoSelection => Len(people) <= 1

\* Uploads begin in their order, which makes no difference before they judge:
\* the first one with any file, the second with all shipments, the third with
\* the full file when those are through, as of the later day.  One upload fails.
Begun == {u \in Uploads : upload[u].stage # "none"}
Ended == {u \in Uploads : upload[u].stage \in {"done", "raised"}}
InOrder ==
  /\ \A u \in Begun : 1 .. u \subseteq Begun
  /\ \A u \in Begun \ Ended : u = 1 \/ upload[u].file \in (IF u = 2 THEN {MCFull, MCAgain} ELSE {MCFull})
  /\ 3 \in Begun => Cardinality(Ended) >= 2 /\ (upload[3].day = 430 \/ 3 \in Ended)
  /\ Cardinality({u \in Ended : upload[u].stage = "raised"}) <= 1

RulesInit ==
  /\ KnownInit /\ ChunkingInit /\ ScoreInit /\ SelectionInit /\ DiscoveryInit /\ EvidenceInit

RulesNext ==
  \/ /\ ChunkingInit /\ ScoreInit /\ SelectionInit /\ DiscoveryInit /\ EvidenceInit
     /\ KnownNext
     /\ UNCHANGED <<document, scoreVars, selectionVars, discoveryVars, evidenceVars>>
  \/ /\ KnownInit /\ ScoreInit /\ SelectionInit /\ DiscoveryInit /\ EvidenceInit
     /\ Grow
     /\ UNCHANGED <<knownVars, scoreVars, selectionVars, discoveryVars, evidenceVars>>
  \/ /\ KnownInit /\ ChunkingInit /\ SelectionInit /\ DiscoveryInit /\ EvidenceInit
     /\ ScoreNext /\ InTurn'
     /\ UNCHANGED <<knownVars, document, selectionVars, discoveryVars, evidenceVars>>
  \/ /\ KnownInit /\ ChunkingInit /\ ScoreInit /\ DiscoveryInit /\ EvidenceInit
     /\ Calm /\ SelectionNext
     /\ UNCHANGED <<knownVars, document, scoreVars, discoveryVars, evidenceVars>>
  \/ /\ KnownInit /\ ChunkingInit /\ ScoreInit /\ SelectionInit /\ EvidenceInit
     /\ DiscoveryNext
     /\ UNCHANGED <<knownVars, document, scoreVars, selectionVars, evidenceVars>>
  \/ /\ KnownInit /\ ChunkingInit /\ ScoreInit /\ SelectionInit /\ DiscoveryInit
     /\ EvidenceNext /\ InOrder'
     /\ UNCHANGED <<knownVars, document, scoreVars, selectionVars, discoveryVars>>

RulesSpec ==
  RulesInit /\ [][RulesNext]_<<knownVars, document, scoreVars, selectionVars, discoveryVars, evidenceVars>>
=============================================================================
