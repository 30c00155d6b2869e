----------------------------- MODULE UmailExport -----------------------------
(***************************************************************************)
(* Batches of mail addresses that are exported for a campaign, and the     *)
(* suppression list that keeps addresses, domains and companies out of     *)
(* them (app/workflows/umail_export/workflow.py).                          *)
(*                                                                         *)
(* Companies are numbered in the order of their names, addresses in        *)
(* alphabetical order, contacts in the order of their names.  A batch is   *)
(* its number in exports, a row is its position in the batch, an entry of  *)
(* the suppression list is its number in the list.  What the hash of a     *)
(* selection is taken of is kept in its place.                             *)
(***************************************************************************)
EXTENDS Integers, Sequences, FiniteSets

CONSTANTS Clients,       \* concurrent requests of the export API
          NCompanies, NContacts,
          CompanyOf,     \* the company of a contact
          Rank,          \* a contact's place by department, role and seniority
          Book,          \* a contact's addresses, each with its verification
          DomainOf,      \* the domain of an address
          WellFormed,    \* the addresses that match EMAIL_PATTERN
          Campaigns,
          Asked,         \* the sets of companies that are asked for
          ManualTargets, \* what people put on the suppression list
          MaxManual,     \* bound on entries made by people
          MaxExports,    \* bound on export batches
          MaxGeneration, \* bound on executions of the routing run
          MaxDay         \* bound on the clock

Companies == 1 .. NCompanies
Contacts == 1 .. NContacts
Addresses == DOMAIN DomainOf
None == 0

\* VERIFICATION_PRIORITY.
Verifications == 0 .. 3
InvalidVerification == 3

Targets == [kind : {"email"}, of : Addresses]
             \union [kind : {"domain"}, of : {DomainOf[a] : a \in Addresses}]
             \union [kind : {"company"}, of : Companies]
Email(a) == [kind |-> "email", of |-> a]
Domain(a) == [kind |-> "domain", of |-> DomainOf[a]]
Company(c) == [kind |-> "company", of |-> c]

ASSUME ExportAssumption ==
  /\ NCompanies \in Nat /\ NContacts \in Nat
  /\ CompanyOf \in [Contacts -> Companies] /\ Rank \in [Contacts -> Nat]
  /\ \A x \in Contacts : Book[x] \subseteq [address : Addresses, verification : Verifications]
  /\ Addresses \subseteq Nat \ {None}
  /\ WellFormed \subseteq Addresses
  /\ MaxGeneration \in Nat \ {0} /\ {MaxManual, MaxExports, MaxDay} \subseteq Nat
  /\ Asked \subseteq (SUBSET Companies) \ {{}}
  /\ ManualTargets \subseteq Targets

VARIABLES suppressions,  \* the suppression list, oldest entry first
          route,         \* the routing run: its status, generation, exportable companies
          exports,       \* the export batches, oldest first
          request,       \* what each client asked, read and was answered
          today          \* the clock

exportVars == <<suppressions, route, exports, request, today>>

Entries == [target : Targets, active : BOOLEAN, source : {"manual", "umail_feedback"}]
Routes == [status : {"running", "completed"}, generation : 1 .. MaxGeneration,
           exportable : SUBSET Companies]
RowStatuses == {"ready", "suppressed", "invalid", "duplicate"}
Rows == [company : Companies, contact : Contacts \union {None},
         email : Addresses \union {None}, status : RowStatuses]
Selections == [generation : 1 .. MaxGeneration, campaign : Campaigns,
               companies : SUBSET Companies, entries : SUBSET Nat]
\* The counts of rows per status are those of the rows.
Exports == [hash : Selections, rows : Seq(Rows), downloaded : BOOLEAN, created : 0 .. MaxDay]

\* A request that read a selection, or was answered with a batch.
Idle == [step |-> "idle"]
Reading(selection) == [step |-> "read", selection |-> selection]
Answer(selection, b) == [step |-> "answered", selection |-> selection, batch |-> b]
Requests == {Idle} \union [step : {"read"}, selection : Selections]
              \union [step : {"answered"}, selection : Selections, batch : 1 .. MaxExports]

ExportTypeOK ==
  /\ suppressions \in Seq(Entries)
  /\ route \in Routes
  /\ exports \in Seq(Exports) /\ Len(exports) <= MaxExports
  /\ request \in [Clients -> Requests]
  /\ today \in 0 .. MaxDay

ExportInit ==
  /\ suppressions = <<>>
  /\ route = [status |-> "completed", generation |-> 1, exportable |-> Companies]
  /\ exports = <<>>
  /\ request = [k \in Clients |-> Idle]
  /\ today = 0

------------------------------------------------------------------------------
(***************************************************************************)
(* The rows of a batch                                                     *)
(***************************************************************************)
\* list_active_suppressions, as the numbers of the entries.
ActiveEntries == {n \in DOMAIN suppressions : suppressions[n].active}
TargetsOf(entries) == {suppressions[n].target : n \in entries}

\* load_b_candidates: the active contacts of a company.
ContactsOf(c) == {x \in Contacts : CompanyOf[x] = c}

\* _select_contacts: the first two, by rank and then by name.
Before(x, y) == Rank[x] < Rank[y] \/ (Rank[x] = Rank[y] /\ x < y)
Selected(c) ==
  {x \in ContactsOf(c) : Cardinality({y \in ContactsOf(c) : Before(y, x)}) < 2}

\* _select_email: the best verified address, the first of several.
Better(e, f) == \/ e.verification < f.verification
                \/ e.verification = f.verification /\ e.address <= f.address
Chosen(x) == CHOOSE e \in Book[x] : \A f \in Book[x] : Better(e, f)

AddressOf(x) == IF x = None \/ Book[x] = {} THEN None ELSE Chosen(x).address
Mailable(x) == /\ AddressOf(x) \in WellFormed
               /\ Chosen(x).verification # InvalidVerification

\* The elements of a set in an order: the i-th has i - 1 before it.
InOrder(S, Precedes(_, _)) ==
  [i \in 1 .. Cardinality(S) |->
     CHOOSE x \in S : Cardinality({y \in S : Precedes(y, x)}) = i - 1]

\* A company without contacts has one row, without a contact.
PairsOf(c) == {c} \X (IF Selected(c) = {} THEN {None} ELSE Selected(c))
PairBefore(p, q) == p[1] < q[1] \/ (p[1] = q[1] /\ p # q /\ Before(p[2], q[2]))
Pairs(companies) == InOrder(UNION {PairsOf(c) : c \in companies}, PairBefore)

\* The status of a pair before rows with the same address are looked at.
Standing(c, x, targets) ==
  IF Company(c) \in targets THEN "suppressed"
  ELSE IF ~Mailable(x) THEN "invalid"
  ELSE IF {Email(AddressOf(x)), Domain(AddressOf(x))} \intersect targets # {} THEN "suppressed"
  ELSE "ready"

\* _new_row: the address is kept whatever the status says.
NewRow(c, x, status) == [company |-> c, contact |-> x, email |-> AddressOf(x), status |-> status]

\* (a mistake: rows with the same address are all sent)
BuildEveryRow(companies, targets) ==
  LET pairs == Pairs(companies) IN
  [i \in DOMAIN pairs |->
     NewRow(pairs[i][1], pairs[i][2], Standing(pairs[i][1], pairs[i][2], targets))]

\* _build_rows.
BuildRows(companies, targets) ==
  LET pairs == Pairs(companies)
      standing(i) == Standing(pairs[i][1], pairs[i][2], targets)
      seen(i) == {AddressOf(pairs[j][2]) : j \in {j \in 1 .. i - 1 : standing(j) = "ready"}}
  IN [i \in DOMAIN pairs |->
        NewRow(pairs[i][1], pairs[i][2],
               IF standing(i) = "ready" /\ AddressOf(pairs[i][2]) \in seen(i)
               THEN "duplicate" ELSE standing(i))]

------------------------------------------------------------------------------
(***************************************************************************)
(* Batches                                                                 *)
(***************************************************************************)
\* find_batch_by_selection_hash; selection_hash is unique.
HavingHash(selection) == {b \in DOMAIN exports : exports[b].hash = selection}

\* (a mistake: the hash is taken of the routes and the campaign only)
HashOfRoutes(selection) == [selection EXCEPT !.entries = {}]

\* _selection_hash: what a batch depends on.
SelectionHash(selection) == selection

\* UmailExportBatch.prepare.
NewBatch(selection) ==
  [hash |-> SelectionHash(selection),
   rows |-> BuildRows(selection.companies, TargetsOf(selection.entries)),
   downloaded |-> FALSE, created |-> today]

\* prepare reads the run, the candidates and the list, and reuses a batch.
Prepare(k) ==
  \E companies \in Asked, campaign \in Campaigns :
    LET selection == [generation |-> route.generation, campaign |-> campaign,
                      companies |-> companies, entries |-> ActiveEntries]
        existing == HavingHash(SelectionHash(selection))
    IN /\ request[k].step # "read"
       /\ route.status = "completed" /\ companies \subseteq route.exportable
       /\ \/ \E b \in existing : request' = [request EXCEPT ![k] = Answer(selection, b)]
          \/ /\ existing = {} /\ Len(exports) < MaxExports
             /\ request' = [request EXCEPT ![k] = Reading(selection)]
       /\ UNCHANGED <<suppressions, route, exports, today>>

\* The rows are built outside of a transaction and added in a second one; if
\* the hash was added in between, that batch is the answer.
AddBatch(k) ==
  LET selection == request[k].selection
      existing == HavingHash(SelectionHash(selection))
  IN /\ request[k].step = "read"
     /\ \/ /\ existing = {} /\ Len(exports) < MaxExports
           /\ exports' = Append(exports, NewBatch(selection))
           /\ request' = [request EXCEPT ![k] = Answer(selection, Len(exports) + 1)]
        \/ \E b \in existing :
             request' = [request EXCEPT ![k] = Answer(selection, b)] /\ UNCHANGED exports
     /\ UNCHANGED <<suppressions, route, today>>

\* mark_downloaded.
Downloaded(batch) == [batch EXCEPT !.downloaded = TRUE]

\* download: the rows of the database are those that were hashed.
Download(b) ==
  /\ b \in DOMAIN exports
  /\ exports' = [exports EXCEPT ![b] = Downloaded(@)]
  /\ UNCHANGED <<suppressions, route, request, today>>

------------------------------------------------------------------------------
(***************************************************************************)
(* The suppression list, the routing run and the clock                     *)
(***************************************************************************)
Active(list) == {list[n].target : n \in {n \in DOMAIN list : list[n].active}}
EntryFor(target, source) == [target |-> target, active |-> TRUE, source |-> source]
Manual == {n \in DOMAIN suppressions : suppressions[n].source = "manual"}

\* SuppressionWorkflow.create; one active entry per target, by partial unique
\* indexes.
Suppress(target) ==
  /\ Cardinality(Manual) < MaxManual
  /\ target \notin Active(suppressions)
  /\ suppressions' = Append(suppressions, EntryFor(target, "manual"))
  /\ UNCHANGED <<route, exports, request, today>>

\* SuppressionEntry.deactivate; the entry stays, and twice is as once.
Deactivated(entry) == [entry EXCEPT !.active = FALSE]

\* SuppressionWorkflow.deactivate.
Deactivate(n) ==
  /\ n \in DOMAIN suppressions
  /\ suppressions' = [suppressions EXCEPT ![n] = Deactivated(@)]
  /\ UNCHANGED <<route, exports, request, today>>

\* The routing run is executed again, or ends with any routes confirmed.
Reroute ==
  /\ \/ /\ route.status = "completed" /\ route.generation < MaxGeneration
        /\ route' = [route EXCEPT !.status = "running", !.generation = @ + 1]
     \/ /\ route.status = "running"
        /\ \E exportable \in SUBSET Companies :
             route' = [route EXCEPT !.status = "completed", !.exportable = exportable]
  /\ UNCHANGED <<suppressions, exports, request, today>>

Tick ==
  /\ today < MaxDay /\ today' = today + 1
  /\ UNCHANGED <<suppressions, route, exports, request>>

ExportNext ==
  \/ \E k \in Clients : Prepare(k) \/ AddBatch(k)
  \/ \E b \in 1 .. MaxExports : Download(b)
  \/ \E target \in ManualTargets : Suppress(target)
  \/ \E n \in DOMAIN suppressions : Deactivate(n)
  \/ Reroute
  \/ Tick

------------------------------------------------------------------------------
ReadyRows(b) == {p \in DOMAIN exports[b].rows : exports[b].rows[p].status = "ready"}

\* A batch that answers a request, new or found by its hash, sends nothing to
\* what was suppressed when the request read the list: a reused batch is as
\* safe as a new one (prepare, _selection_hash).
AnswersRespectSuppressions ==
  \A k \in Clients : request[k].step = "answered" =>
    \A p \in ReadyRows(request[k].batch) :
      LET row == exports[request[k].batch].rows[p] IN
      {Email(row.email), Domain(row.email), Company(row.company)}
        \intersect TargetsOf(request[k].selection.entries) = {}

\* No address gets two mails of one batch, whichever companies and contacts
\* share it (_build_rows), and no selection has two batches (prepare).
OneMailPerAddress ==
  /\ \A b \in DOMAIN exports : \A p, q \in ReadyRows(b) :
       exports[b].rows[p].email = exports[b].rows[q].email => p = q
  /\ \A b, c \in DOMAIN exports : exports[b].hash = exports[c].hash => b = c
==============================================================================
