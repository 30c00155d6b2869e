--------------------------- MODULE ImportEvidence ---------------------------
(***************************************************************************)
(* Customs rows of one company, uploaded as files: each row becomes a      *)
(* shipment that is matched with the company and judged, the shipments of  *)
(* a file an aggregate, and the current aggregate three signals, each with *)
(* a ledger of promotions (app/workflows/import_evidence).  Each of these  *)
(* is a transaction of its own, and uploads run side by side.              *)
(*                                                                         *)
(* What was saved before is found by its fingerprint: a shipment by its    *)
(* papers, a judgement by its shipment, its day and what it was judged by, *)
(* an aggregate by its day and the judgements it rests on, a promotion by  *)
(* its aggregate and whether those were current.  What no fingerprint      *)
(* covers may differ from row to row.                                      *)
(***************************************************************************)
EXTENDS Integers, FiniteSets, Sequences, Functions, FiniteSetsExt

CONSTANTS Uploads,    \* requests, each with one file
          Shipments,  \* by what the fingerprint of a shipment covers
          Bill,       \* and what that is, of each, see ShipmentType
          Files,      \* see FileType
          Days        \* the days as of which a file may be judged

Nothing == ""

\* The papers of a shipment; arrival 0: no date.
ShipmentType == [house : BOOLEAN, master : BOOLEAN, arrival : Nat, carrier : STRING, port : STRING]

\* What a row says of its shipment besides: whether it names the company at
\* all, how the name of the importer compares with the company's, normalized,
\* whether it is spelled alike but for punctuation, whether it has the
\* company's domain, and a country.  The names of importer and supplier are
\* covered by the fingerprint, but for the punctuation that it drops.
RecordType ==
  [shipment : Shipments, mentions : BOOLEAN, name : {"same", "near", "like", "other"},
   spelled : BOOLEAN, sited : BOOLEAN, country : BOOLEAN, origin : STRING, supplier : STRING,
   containers : SUBSET STRING]

Reliability == [csv |-> 15, fake |-> 14, importyeti |-> 17, other |-> 5]

\* The provider is what the request says; rows without an importer are skipped.
FileType == [rows : Seq(RecordType), provider : DOMAIN Reliability, skipped : BOOLEAN]

ASSUME UploadAssumption ==
  /\ Bill \in [Shipments -> ShipmentType] /\ Days \subseteq Nat \ {0} /\ Files \subseteq FileType

VARIABLES upload,     \* each upload: how far it is
          judged,     \* each shipment: its current judgement
          aggregates, \* those stored, with the rows they were built from
          leading,    \* the current aggregate of the company
          promotions  \* the ledger: what is stored of each batch of three

evidenceVars == <<upload, judged, aggregates, leading, promotions>>

PromotedKinds == {"import_activity", "china_dependency", "logistics_complexity"}

NoAggregate == [day |-> 0, on |-> <<>>]
NoBatch == [of |-> NoAggregate, stale |-> FALSE]
NoJudgement == [day |-> 0, provider |-> "other", boxed |-> FALSE]
NoFile == [rows |-> <<>>, provider |-> "csv", skipped |-> FALSE]
NoUpload == [stage |-> "none", file |-> NoFile, day |-> 0, todo |-> {}, mine |-> NoAggregate,
             stale |-> FALSE, job |-> "none"]

EvidenceInit ==
  /\ upload = [u \in Uploads |-> NoUpload]
  /\ judged = [s \in Shipments |-> NoJudgement]
  /\ aggregates = <<>> /\ leading = NoAggregate /\ promotions = <<>>

------------------------------------------------------------------------------
(* Matching and judging a shipment *)

NamePoints == [same |-> 25, near |-> 15, like |-> 8, other |-> 0]

\* Most that the resolver can find in a row, and what it makes of it.
Resemblance(record) ==
  NamePoints[record.name] + (IF record.sited THEN 35 ELSE 0) + (IF record.country THEN 3 ELSE 0)

Resolution(record) ==
  CASE record.name = "same" /\ record.sited -> "auto_match"
    [] ~(record.name = "same" /\ record.sited) ->
         IF Resemblance(record) >= 92 /\ record.sited THEN "auto_match"
         ELSE IF Resemblance(record) >= 80 THEN "needs_review" ELSE "separate"

\* What tells the judgements of a shipment apart: the day, the provider, and
\* whether the row that was judged has containers.
Judgement(file, record, day) ==
  [day |-> day, provider |-> file.provider, boxed |-> record.containers # {}]

\* Every row has an importer.
IdentityCompleteness(bill, boxed) ==
  8 + (IF bill.house THEN 10 ELSE IF bill.master THEN 6 ELSE 0)
    + (IF bill.arrival # 0 THEN 4 ELSE 0) + (IF bill.carrier # Nothing THEN 2 ELSE 0)
    + (IF boxed THEN 1 ELSE 0)

Month(day) == day \div 30

Freshness(bill, day) ==
  LET months == Month(day) - Month(bill.arrival)
  IN  CASE bill.arrival = 0 -> 0
        [] bill.arrival # 0 /\ months <= 12 -> 10
        [] bill.arrival # 0 /\ months \in 13 .. 24 -> 8
        [] bill.arrival # 0 /\ months \in 25 .. 36 -> 5
        [] OTHER -> 2

\* 22 points for an automatic match, 12 for a single source.
EvidencePoints(bill, j) ==
  Reliability[j.provider] + 22 + IdentityCompleteness(bill, j.boxed) + 12 + Freshness(bill, j.day)

\* The one blocker of a matched row is a date to come.
QualityOf(bill, j) ==
  CASE bill.arrival > j.day -> "REJECTED"
    [] bill.arrival <= j.day ->
         IF EvidencePoints(bill, j) >= 85 THEN "VERIFIED"
         ELSE IF EvidencePoints(bill, j) >= 70 THEN "USABLE"
         ELSE IF EvidencePoints(bill, j) >= 45 THEN "REVIEW" ELSE "REJECTED"

------------------------------------------------------------------------------
(* An aggregate: the shipments of a file, each with its judgement *)

\* dedupe_status_for_shipment, of a row with an importer.
Unidentified(bill) == ~bill.house /\ bill.arrival = 0

\* (a mistake: a date to come is left to the judgement of the shipment)
ExcludedByJudgement(a, s) ==
  Unidentified(Bill[s]) \/ Bill[s].arrival > a.on[s].day \/ ~aggregates[a][s].spelled

\* What keeps a shipment out blocks the whole aggregate.  The judgement may
\* be of another day than the aggregate, and of another upload's row.
Excluded(a, s) ==
  \/ Unidentified(Bill[s]) \/ Bill[s].arrival > a.on[s].day \/ ~aggregates[a][s].spelled
  \/ Bill[s].arrival > a.day

Blocked(a) == \E s \in DOMAIN a.on : Excluded(a, s)

Contributing(a) ==
  {s \in DOMAIN a.on : ~Excluded(a, s) /\ QualityOf(Bill[s], a.on[s]) \in {"VERIFIED", "USABLE"}}

Promotable(a) == Contributing(a) # {} /\ ~Blocked(a)

ArrivedWithin(a, days) == {s \in Contributing(a) : Bill[s].arrival \in (a.day - days + 1) .. a.day}

Known(a) == {s \in Contributing(a) : aggregates[a][s].origin # Nothing}
FromChina(a) == {s \in Known(a) : aggregates[a][s].origin = "CN"}

Suppliers(a) == {aggregates[a][s].supplier : s \in Contributing(a)} \ {Nothing}

\* Distinct values of a column of the papers.
Distinct(a, column) == {Bill[s][column] : s \in Contributing(a)} \ {Nothing}

\* The conditions of logistics_complexity that are met.
Met(a) ==
  LET meets == [suppliers |-> Cardinality(Suppliers(a)) >= 3,
                carriers |-> Cardinality(Distinct(a, "carrier")) >= 2,
                ports |-> Cardinality(Distinct(a, "port")) >= 2,
                shipments |-> Cardinality(Contributing(a)) >= 3,
                containers |-> Cardinality(UNION {{s} \X aggregates[a][s].containers :
                                                    s \in Contributing(a)}) >= 3,
                months |-> Cardinality({Month(Bill[s].arrival) :
                             s \in {t \in Contributing(a) : Bill[t].arrival # 0}}) >= 3]
  IN  {c \in DOMAIN meets : meets[c]}

Categories == [suppliers |-> "network", carriers |-> "network", ports |-> "network",
               shipments |-> "cadence", months |-> "cadence", containers |-> "equipment"]

EligibleSignal(a, kind) ==
  CASE kind = "import_activity" ->
         \/ Cardinality(ArrivedWithin(a, 365)) >= 2
         \/ /\ \E s \in Contributing(a) : QualityOf(Bill[s], a.on[s]) = "VERIFIED"
            /\ ArrivedWithin(a, 90) # {}
    [] kind = "china_dependency" ->
         /\ Cardinality(Known(a)) >= 3
         /\ 2 * Cardinality(Known(a)) >= Cardinality(Contributing(a))
         /\ 2 * Cardinality(FromChina(a)) >= Cardinality(Known(a))
    [] kind = "logistics_complexity" ->
         Cardinality(Met(a)) >= 3 /\ Cardinality({Categories[c] : c \in Met(a)}) >= 2

\* What becomes of a kind in a batch: judgements that are not current any
\* more block it, as the aggregate may.
PromotionStatus(b, kind) ==
  CASE Promotable(b.of) /\ ~b.stale ->
         IF EligibleSignal(b.of, kind) THEN "PROMOTED" ELSE "SKIPPED"
    [] ~Promotable(b.of) \/ b.stale ->
         IF ~Blocked(b.of) /\ Contributing(b.of) = {} THEN "SKIPPED" ELSE "BLOCKED"

------------------------------------------------------------------------------
(* An upload *)

Step(u, stage) == upload' = [upload EXCEPT ![u].stage = stage]
End(u, stage, job) ==
  upload' = [upload EXCEPT ![u] = [NoUpload EXCEPT !.stage = stage, !.job = job]]
InStage(u, stage) == upload[u].stage = stage

\* The places of the rows that name the company somewhere, of those that are
\* its own, and of those of a shipment.
Received(file) == {i \in DOMAIN file.rows : file.rows[i].mentions}
Matched(file) == {i \in Received(file) : Resolution(file.rows[i]) = "auto_match"}
Warned(file) == file.skipped \/ Matched(file) # Received(file)
RowsOf(file, s) == {i \in Matched(file) : file.rows[i].shipment = s}

\* _deduplicate_shipments, of rows with one judgement: the first one stays,
\* with the containers of all.
Deduplicated(file) ==
  [s \in {file.rows[i].shipment : i \in Matched(file)} |->
     [file.rows[Min(RowsOf(file, s))] EXCEPT
        !.containers = UNION {file.rows[i].containers : i \in RowsOf(file, s)}]]

\* The job, the raw rows, the shipments and the matches are one commit.  A
\* file that cannot be read, or a commit that is refused, leaves nothing.
Receive(u) ==
  /\ InStage(u, "none")
  /\ \E file \in Files, day \in Days :
       upload' = [upload EXCEPT ![u] =
         [@ EXCEPT !.stage = IF Matched(file) = {} THEN "finish" ELSE "judge",
                   !.file = file, !.day = day, !.todo = Matched(file), !.job = "running"]]
  /\ UNCHANGED <<judged, aggregates, leading, promotions>>

\* persist_quality, row by row: the judgement becomes the current one of the
\* shipment, whether it is new or was stored and superseded before.
Judge(u) ==
  /\ InStage(u, "judge")
  /\ LET i == Min(upload[u].todo)
         record == upload[u].file.rows[i]
         left == upload[u].todo \ {i}
     IN  /\ judged' = [judged EXCEPT ![record.shipment] =
                         Judgement(upload[u].file, record, upload[u].day)]
         /\ upload' = [upload EXCEPT ![u] =
              [@ EXCEPT !.stage = IF left = {} THEN "aggregate" ELSE "judge", !.todo = left]]
  /\ UNCHANGED <<aggregates, leading, promotions>>

\* The judgements that are current by now, of this upload or of another.
Aggregate(u) ==
  /\ InStage(u, "aggregate")
  /\ LET shipments == DOMAIN Deduplicated(upload[u].file)
         mine == [day |-> upload[u].day, on |-> Restrict(judged, shipments)]
     IN  upload' = [upload EXCEPT ![u] = [@ EXCEPT !.stage = "save", !.mine = mine]]
  /\ UNCHANGED <<judged, aggregates, leading, promotions>>

\* A table, with y stored under x.
With(table, x, y) == [z \in DOMAIN table \union {x} |-> IF z = x THEN y ELSE table[z]]

\* An aggregate that is stored already is kept as it is and made current.
SaveAggregate(u) ==
  /\ InStage(u, "save")
  /\ LET a == upload[u].mine
     IN  /\ IF a \in DOMAIN aggregates THEN UNCHANGED aggregates
            ELSE aggregates' = With(aggregates, a, Deduplicated(upload[u].file))
         /\ leading' = a
  /\ Step(u, "preview")
  /\ UNCHANGED <<judged, promotions>>

\* An aggregate that is not the current one any more is not promoted.
Preview(u) ==
  /\ InStage(u, "preview")
  /\ LET a == upload[u].mine
     IN  \/ leading # a /\ Step(u, "finish")
         \/ /\ leading = a
            /\ LET stale == \E s \in Contributing(a) : judged[s] # a.on[s]
               IN  upload' = [upload EXCEPT ![u] = [@ EXCEPT !.stage = "apply", !.stale = stale]]
  /\ UNCHANGED <<judged, aggregates, leading, promotions>>

\* _supersede_current, for a replacement.
Superseded(ledger, by) ==
  [b \in DOMAIN ledger |->
     IF b = by \/ ~ledger[b].current THEN ledger[b]
     ELSE [current |-> FALSE, by |-> by, status |-> [k \in PromotedKinds |-> "SUPERSEDED"],
           signal |-> [k \in PromotedKinds |->
                         IF ledger[b].signal[k] = "active" THEN "inactive" ELSE ledger[b].signal[k]]]]

\* _activate_existing
Reactivated(b, stored) ==
  [current |-> TRUE, by |-> NoBatch,
   status |-> [k \in PromotedKinds |->
                 IF stored.signal[k] # "none" THEN "PROMOTED" ELSE PromotionStatus(b, k)],
   signal |-> [k \in PromotedKinds |-> IF stored.signal[k] # "none" THEN "active" ELSE "none"]]

\* _create_version
CreatedBatch(b) ==
  [current |-> TRUE, by |-> NoBatch, status |-> [k \in PromotedKinds |-> PromotionStatus(b, k)],
   signal |-> [k \in PromotedKinds |->
                 IF PromotionStatus(b, k) = "PROMOTED" THEN "active" ELSE "none"]]

\* The three kinds of a batch are written by one commit, and found together.
Apply(u) ==
  /\ InStage(u, "apply")
  /\ LET b == [of |-> upload[u].mine, stale |-> upload[u].stale]
     IN  \/ /\ b \in DOMAIN promotions /\ promotions[b].current
            /\ UNCHANGED promotions
         \/ /\ b \in DOMAIN promotions /\ ~promotions[b].current
            /\ promotions' = With(Superseded(promotions, b), b, Reactivated(b, promotions[b]))
         \/ /\ b \notin DOMAIN promotions
            /\ promotions' = With(Superseded(promotions, b), b, CreatedBatch(b))
  /\ Step(u, "finish")
  /\ UNCHANGED <<judged, aggregates, leading>>

FinishJob(u) ==
  /\ InStage(u, "finish")
  /\ LET file == upload[u].file
     IN  End(u, "done", IF Matched(file) = {} THEN "needs_review"
                        ELSE IF Warned(file) THEN "partial" ELSE "completed")
  /\ UNCHANGED <<judged, aggregates, leading, promotions>>

\* An error, a refused commit or a crash: nobody takes the job up again.
RaiseUpload(u) ==
  /\ upload[u].stage \in {"judge", "aggregate", "save", "preview", "apply", "finish"}
  /\ End(u, "raised", "running")
  /\ UNCHANGED <<judged, aggregates, leading, promotions>>

EvidenceNext ==
  \E u \in Uploads :
    \/ Receive(u) \/ Judge(u) \/ Aggregate(u) \/ SaveAggregate(u) \/ Preview(u)
    \/ Apply(u) \/ FinishJob(u) \/ RaiseUpload(u)

EvidenceSpec == EvidenceInit /\ [][EvidenceNext]_evidenceVars
------------------------------------------------------------------------------
(* Properties *)

Judgements == [day : Days, provider : DOMAIN Reliability, boxed : BOOLEAN]

IsAggregate(a) ==
  /\ a.day \in Days /\ DOMAIN a.on \subseteq Shipments /\ DOMAIN aggregates[a] = DOMAIN a.on
  /\ \A s \in DOMAIN a.on : a.on[s] \in Judgements /\ aggregates[a][s].shipment = s

IsBatch(b) ==
  /\ b.of \in DOMAIN aggregates /\ b.stale \in BOOLEAN
  /\ promotions[b].by \in DOMAIN promotions \union {NoBatch}
  /\ \A k \in PromotedKinds :
       promotions[b].signal[k] = "active" <=> promotions[b].status[k] = "PROMOTED"

EvidenceTypeOK ==
  /\ \A s \in Shipments : judged[s] \in Judgements \union {NoJudgement}
  /\ \A a \in DOMAIN aggregates : IsAggregate(a)
  /\ leading \in DOMAIN aggregates \union {NoAggregate}
  /\ \A b \in DOMAIN promotions : IsBatch(b)

\* What a signal tells of a company, of the shipments behind it.
Backed(a, kind) ==
  LET shipments == DOMAIN a.on
      row == aggregates[a]
      lately == {s \in shipments : Bill[s].arrival > a.day - 365}
      from == {s \in shipments : row[s].origin # Nothing}
  IN  CASE kind = "import_activity" -> lately # {}
        [] kind = "china_dependency" -> Cardinality({s \in from : row[s].origin = "CN"}) >= 2
        [] kind = "logistics_complexity" ->
             \/ Cardinality({row[s].supplier : s \in shipments}) >= 2
             \/ \E column \in {"carrier", "port", "arrival"} :
                  Cardinality({Bill[s][column] : s \in shipments}) >= 2

\* A signal of the company that is active rests on shipments that were the
\* company's by the rows it was built from, whatever other rows say of them,
\* and had all arrived, both by the day they were judged and by the day the
\* signal speaks of, which need not be the same when uploads race; those rows
\* and papers show what it says.  It is a current promotion, and whatever
\* was promoted before leads, replacement by replacement, to the one batch
\* that is current (database/repositories/import_evidence_promotion.py).
SignalsAreEarned ==
  /\ EvidenceTypeOK
  /\ \A b \in DOMAIN promotions : \A k \in PromotedKinds :
       promotions[b].signal[k] = "active" =>
         /\ promotions[b].current /\ Backed(b.of, k)
         /\ \A s \in DOMAIN b.of.on :
              /\ aggregates[b.of][s].name = "same" /\ aggregates[b.of][s].sited
              /\ Bill[s].arrival <= b.of.day /\ Bill[s].arrival <= b.of.on[s].day
  /\ Cardinality({b \in DOMAIN promotions : promotions[b].current}) <= 1
  /\ \A loop \in (SUBSET DOMAIN promotions) \ {{}} : \E b \in loop : promotions[b].by \notin loop
  /\ \A b \in DOMAIN promotions : promotions[b].by = NoBatch <=> promotions[b].current
=============================================================================
