---------------------------- MODULE UmailFeedback ----------------------------
(***************************************************************************)
(* Files with the results of a campaign: each line is matched to a row of  *)
(* an export batch, reviewed, and applied as an engagement event that may  *)
(* put the address on the suppression list                                 *)
(* (app/workflows/umail_feedback/workflow.py).  An export row is the pair  *)
(* of its batch and its position.                                          *)
(***************************************************************************)
EXTENDS UmailExport

CONSTANTS Reviewers,  \* concurrent requests of the feedback API
          Files,      \* contents of result files
          LinesOf,    \* the lines of a file
          Window,     \* EMAIL_MATCH_WINDOW, in days
          Skew        \* EMAIL_MATCH_CLOCK_SKEW, in days

NoRow == <<0, 0>>
NoTime == -1
NoText == "none"

\* SUPPRESSION_REASONS.
Suppressing == {"hard_bounced", "unsubscribed", "complained"}
EventTypes == Suppressing \union {"sent", "delivered", "soft_bounced", "bounce_unknown",
                                  "replied", "opened", "clicked"}

Lines == [row : Nat \X Nat, batch : Nat, email : Nat, campaign : Campaigns \union {NoText},
          event : STRING, bounce : STRING, at : Int, message : STRING]

ASSUME FeedbackAssumption == \A file \in Files : LinesOf[file] \in Seq(Lines)

VARIABLES imports,  \* the result imports, oldest first
          events,   \* the engagement events, as their fingerprints
          review    \* what each reviewer's request has read

feedbackVars == <<imports, events, review>>
vars == <<exportVars, feedbackVars>>

Matches == {"matched", "unmatched", "ambiguous", "invalid", "duplicate"}
ExportRows == {NoRow} \union (1 .. MaxExports) \X Nat
Fingerprints == [row : ExportRows, type : EventTypes, at : Int, message : STRING]
Results == [status : Matches, row : ExportRows]
Imports == [file : Files, rows : Seq(Results), projected : Nat,
            status : {"ready_for_review", "applied", "partial_applied"},
            applied : Nat, suppressed : Nat]

FeedbackTypeOK ==
  /\ imports \in Seq(Imports)
  /\ events \subseteq Fingerprints
  /\ DOMAIN review = Reviewers

FeedbackInit ==
  /\ imports = <<>> /\ events = {} /\ review = [v \in Reviewers |-> Idle]

------------------------------------------------------------------------------
(***************************************************************************)
(* Lines and their matches                                                 *)
(***************************************************************************)
\* _canonical_event_type.
Canonical(line) ==
  IF line.event # "bounce" THEN line.event
  ELSE IF line.bounce \in {"hard", "soft"} THEN line.bounce \o "_bounced"
  ELSE "bounce_unknown"

\* _parse_rows: what a line says happened, when, to whom.
Parsed(file) ==
  [i \in DOMAIN LinesOf[file] |->
     LET line == LinesOf[file][i] IN
     [row |-> line.row, batch |-> line.batch, email |-> line.email, campaign |-> line.campaign,
      event |-> Canonical(line), bounce |-> line.bounce, at |-> line.at, message |-> line.message]]

Invalid(line) == \/ line.event \notin EventTypes \/ line.at = NoTime
                 \/ line.row = NoRow /\ line.email \notin WellFormed

\* load_export_snapshots: the rows that were sent.
Snapshots == UNION {{b} \X ReadyRows(b) : b \in DOMAIN exports}
EmailOf(row) == exports[row[1]].rows[row[2]].email
CampaignOf(row) == exports[row[1]].hash.campaign

Result(status, row) == [status |-> status, row |-> row]

\* _unique_match.
UniqueMatch(candidates) ==
  CASE Cardinality(candidates) = 0 -> Result("unmatched", NoRow)
    [] Cardinality(candidates) = 1 -> Result("matched", CHOOSE row \in candidates : TRUE)
    [] Cardinality(candidates) > 1 -> Result("ambiguous", NoRow)

\* _consistency_errors.
Consistent(line, row) ==
  /\ line.batch \in {0, row[1]}
  /\ line.email \in {None, EmailOf(row)}
  /\ line.campaign \in {NoText, CampaignOf(row)}

\* _match_snapshot: by the row, by batch and address, by campaign and address
\* if any such row was sent, and last by address and time.
MatchSnapshot(line, sent) ==
  LET toAddress == {row \in sent : EmailOf(row) = line.email}
      inBatch == {row \in toAddress : row[1] = line.batch}
      inCampaign == {row \in toAddress : CampaignOf(row) = line.campaign}
      inTime == {row \in toAddress : /\ line.at - Window <= exports[row[1]].created
                                     /\ exports[row[1]].created <= line.at + Skew}
  IN IF line.row # NoRow
     THEN IF line.row \notin sent THEN Result("unmatched", NoRow)
          ELSE IF Consistent(line, line.row) THEN Result("matched", line.row)
          ELSE Result("invalid", NoRow)
     ELSE IF line.batch # 0 THEN UniqueMatch(inBatch)
     ELSE IF inCampaign # {} THEN UniqueMatch(inCampaign)
     ELSE UniqueMatch(inTime)

\* _match_rows: a line that was there before is a duplicate, valid or not.
MatchRows(file, sent) ==
  LET lines == Parsed(file) IN
  [i \in DOMAIN lines |->
     IF \E j \in 1 .. i - 1 : lines[j] = lines[i] THEN Result("duplicate", NoRow)
     ELSE IF Invalid(lines[i]) THEN Result("invalid", NoRow)
     ELSE MatchSnapshot(lines[i], sent)]

\* _events_for_rows, by the fingerprint of ContactEngagementEvent.create.
EventOf(file, i, row) ==
  LET line == Parsed(file)[i] IN
  [row |-> row, type |-> line.event, at |-> line.at, message |-> line.message]

\* _mark_event_duplicates: what happened is in the database, or earlier in
\* the file.
MarkDuplicates(file, rows) ==
  [i \in DOMAIN rows |->
     IF /\ rows[i].status = "matched"
        /\ \/ EventOf(file, i, rows[i].row) \in events
           \/ \E j \in 1 .. i - 1 : /\ rows[j].status = "matched"
                                    /\ EventOf(file, j, rows[j].row) = EventOf(file, i, rows[i].row)
     THEN Result("duplicate", NoRow) ELSE rows[i]]

Suppressed(a) == Email(a) \in Active(suppressions)

\* _projected_suppression_count.
ProjectedSuppressions(file, rows) ==
  Cardinality({a \in Addresses : ~Suppressed(a) /\
    \E i \in DOMAIN rows : /\ rows[i].status = "matched" /\ EmailOf(rows[i].row) = a
                           /\ Parsed(file)[i].event \in Suppressing})

------------------------------------------------------------------------------
(***************************************************************************)
(* Upload                                                                  *)
(***************************************************************************)
\* UmailResultImport.ready_for_review.
NewImport(file, rows) ==
  [file |-> file, rows |-> rows, status |-> "ready_for_review",
   projected |-> ProjectedSuppressions(file, rows), applied |-> 0, suppressed |-> 0]

\* UmailResultCsvIntake.parse refuses a file it cannot read, and one of no lines.
Readable(file) == LinesOf[file] # <<>>

\* find_import_by_file_hash.
HavingFile(file) == {n \in DOMAIN imports : imports[n].file = file}

\* The first transaction of upload looks for the file and returns its import.
Upload(v) ==
  \E file \in Files :
    /\ review[v] = Idle /\ Readable(file)
    /\ IF HavingFile(file) = {}
       THEN review' = [review EXCEPT ![v] = [step |-> "looked", file |-> file]]
       ELSE UNCHANGED review
    /\ UNCHANGED <<exportVars, imports, events>>

\* The second one reads batches, events and the list, and matches the lines.
MatchUpload(v) ==
  /\ review[v].step = "looked"
  /\ LET file == review[v].file
         rows == MarkDuplicates(file, MatchRows(file, Snapshots))
     IN review' = [review EXCEPT ![v] =
          [step |-> "matched", file |-> file, import |-> NewImport(file, rows)]]
  /\ UNCHANGED <<exportVars, imports, events>>

\* It commits, or finds that the file was added in between.
AddImport(v) ==
  /\ review[v].step = "matched"
  /\ imports' = IF HavingFile(review[v].file) = {} THEN Append(imports, review[v].import)
                ELSE imports
  /\ review' = [review EXCEPT ![v] = Idle]
  /\ UNCHANGED <<exportVars, events>>

------------------------------------------------------------------------------
(***************************************************************************)
(* Apply                                                                   *)
(***************************************************************************)
\* (a mistake: an import is applied whenever it is asked for)
ApplicableAgain(n) == n \in DOMAIN imports

\* get_import_for_update waits for the lock; what was applied is returned.
Applicable(n) == n \in DOMAIN imports /\ imports[n].status = "ready_for_review"
Locked(n) == \E v \in Reviewers : review[v].step = "applying" /\ review[v].import = n

MatchedLines(n) == {i \in DOMAIN imports[n].rows : imports[n].rows[i].status = "matched"}
LineEvent(n, i) == EventOf(imports[n].file, i, imports[n].rows[i].row)
Addressee(n, i) == EmailOf(imports[n].rows[i].row)

\* (a mistake: the address that the line gives, not that of the export row)
SuppressGivenAddress(n, lines) ==
  {Parsed(imports[n].file)[i].email : i \in {i \in lines : LineEvent(n, i).type \in Suppressing}}
    \ ({None} \union {a \in Addresses : Suppressed(a)})

\* The addresses to suppress for the new events of the lines.
ToSuppress(n, lines) ==
  {Addressee(n, i) : i \in {i \in lines : LineEvent(n, i).type \in Suppressing}}
    \ {a \in Addresses : Suppressed(a)}

\* apply locks the import and reads its rows, the events and the list.
Apply(v) ==
  \E n \in DOMAIN imports :
    LET lines == {i \in MatchedLines(n) : LineEvent(n, i) \notin events} IN
    /\ review[v] = Idle /\ Applicable(n) /\ ~Locked(n)
    /\ review' = [review EXCEPT ![v] =
         [step |-> "applying", import |-> n, lines |-> lines, suppress |-> ToSuppress(n, lines)]]
    /\ UNCHANGED <<exportVars, imports, events>>

\* mark_applied.
AppliedStatus(n) ==
  IF MatchedLines(n) = DOMAIN imports[n].rows THEN "applied" ELSE "partial_applied"
Marked(import, status, applied, suppressed) ==
  [import EXCEPT !.status = status, !.applied = applied, !.suppressed = suppressed]

NewEvents(v) == {LineEvent(review[v].import, i) : i \in review[v].lines}

\* The first line to name an address.
FirstLine(v, a) ==
  CHOOSE i \in review[v].lines :
    /\ Addressee(review[v].import, i) = a
    /\ \A j \in review[v].lines : Addressee(review[v].import, j) = a => i <= j

\* One entry per address, in the order of the lines.
NewEntries(v) ==
  LET earlier(a, b) == FirstLine(v, a) < FirstLine(v, b)
      order == InOrder(review[v].suppress, earlier)
  IN [i \in DOMAIN order |-> EntryFor(Email(order[i]), "umail_feedback")]

\* The unique indexes of fingerprints and of active addresses.
Refused(v) ==
  \/ NewEvents(v) \intersect events # {}
  \/ {Email(a) : a \in review[v].suppress} \intersect Active(suppressions) # {}

\* Events, list and import are written in one transaction; an event or an
\* active entry that was added in between refuses all of it.
CommitApply(v) ==
  LET n == review[v].import IN
  /\ review[v].step = "applying"
  /\ IF ~Refused(v)
     THEN /\ events' = events \union NewEvents(v)
          /\ suppressions' = suppressions \o NewEntries(v)
          /\ imports' = [imports EXCEPT ![n] =
               Marked(@, AppliedStatus(n), Cardinality(review[v].lines),
                      Cardinality(review[v].suppress))]
     ELSE UNCHANGED <<events, suppressions, imports>>
  /\ review' = [review EXCEPT ![v] = Idle]
  /\ UNCHANGED <<route, exports, request, today>>

Init == ExportInit /\ FeedbackInit

Next ==
  \/ ExportNext /\ UNCHANGED feedbackVars
  \/ \E v \in Reviewers : \/ Upload(v) \/ MatchUpload(v) \/ AddImport(v)
                          \/ Apply(v) \/ CommitApply(v)

Spec == Init /\ [][Next]_vars

------------------------------------------------------------------------------
\* With the types, that a target has at most one active entry.
TypeOK ==
  /\ ExportTypeOK /\ FeedbackTypeOK
  /\ Cardinality(Active(suppressions)) = Cardinality(ActiveEntries)

Total(counts) ==
  LET upto[n \in 0 .. Len(counts)] == IF n = 0 THEN 0 ELSE upto[n - 1] + counts[n]
  IN upto[Len(counts)]

\* The counters of the imports account for the tables: every event and every
\* entry the feedback made is counted by one import, whatever was applied
\* twice or at the same time (apply, mark_applied).
FeedbackIsCounted ==
  /\ Total([n \in DOMAIN imports |-> imports[n].applied]) = Cardinality(events)
  /\ Total([n \in DOMAIN imports |-> imports[n].suppressed])
       = Cardinality({n \in DOMAIN suppressions : suppressions[n].source = "umail_feedback"})

\* A hard bounce, an unsubscription or a complaint that was applied put its
\* address on the list, or found it there; people may take it off again.
ComplaintsReachTheList ==
  \A event \in events : event.type \in Suppressing =>
    \E n \in DOMAIN suppressions : suppressions[n].target = Email(EmailOf(event.row))

\* An import that is applied has all its matched lines in the events, also
\* when another file brought them first, and "applied" left no line out.
AppliedIsWhole ==
  \A n \in DOMAIN imports : imports[n].status # "ready_for_review" =>
    /\ \A i \in MatchedLines(n) : LineEvent(n, i) \in events
    /\ imports[n].status = "applied" => MatchedLines(n) = DOMAIN imports[n].rows

\* The imports with the tables they wrote, as a whole.
FeedbackIsWhole == TypeOK /\ FeedbackIsCounted /\ AppliedIsWhole
==============================================================================
