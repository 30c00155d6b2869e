---------------------------- MODULE ResearchRuns ----------------------------
(***************************************************************************)
(* Research of a company's website: a run reads the homepage and the       *)
(* ranked pages it links to, has an extractor propose claims, keeps those  *)
(* whose evidence is on the page they cite, and stores run and documents   *)
(* in one transaction.  Several requests run at once, on one company or    *)
(* more, while the site changes between two reads.                         *)
(***************************************************************************)
EXTENDS Naturals, FiniteSets, Sequences, SequencesExt, TLC

CONSTANTS
  Requests,         \* research requests, each served by a coroutine
  Companies, Known, \* company ids a request may name; those the table has
  Asked,            \* what a request may name: a company and a website
  Prospect,         \* stands for "no company id"
  Urls, Host,       \* canonical addresses and the site scope of each
  NoHost,           \* the host of an address without one
  Guarded,          \* addresses the url guard lets through
  Contents,         \* cleaned page texts
  Says,             \* the sentences of a text
  Links,            \* the addresses its links lead to
  Thin, Flawed,     \* texts too short; texts cut or with suspicious phrases
  Blank,            \* texts without a character
  Score, Category,  \* score of an address by path and anchor, 0 is skipped; its category
  Better,           \* pairs of addresses in the order of score, path length and text
  Down,             \* what a site answers at an address that cannot be read
  None,
  DenyLists,        \* what robots.txt may deny
  FirstSite,        \* what the site answers at first
  LaterAnswers,     \* what an address may answer later
  Key,              \* the advisory lock key of a scope, a hash
  MaxPages, MaxRedirects, MaxAttempts,
  MaxChanges        \* bound: changes of the site

ASSUME ResearchAssumption ==
  /\ Known \subseteq Companies /\ Prospect \notin Companies
  /\ Asked \subseteq (Companies \union {Prospect}) \X Urls
  /\ Host \in [Urls -> UNION {{Host[u], NoHost} : u \in Urls}]
  /\ Thin \subseteq Contents /\ Blank \subseteq Thin /\ Flawed \subseteq Contents
  /\ \A c \in Blank : Says[c] = {}
  /\ \A c \in Contents : Links[c] \subseteq Urls /\ IsFiniteSet(Links[c])
  /\ Score \in [Urls -> Nat]
  /\ {MaxPages, MaxRedirects, MaxAttempts} \subseteq Nat \ {0} /\ MaxChanges \in Nat

\* Addresses are ordered, the better score first.
ASSUME OrderAssumption ==
  /\ \A u, v \in Urls : Score[u] > Score[v] => <<u, v>> \in Better
  /\ \A u \in Urls : <<u, u>> \notin Better
  /\ \A u, v \in Urls : u # v => <<u, v>> \in Better \/ <<v, u>> \in Better
  /\ \A u, v, w \in Urls : <<u, v>> \in Better /\ <<v, w>> \in Better => <<u, w>> \in Better

Codes == {"invalid_url", "robots_denied", "unreachable", "needs_browser", "budget_exceeded",
          "extraction_failed"}

\* A site answers with a text, an address or not at all; null is no key and no code.
ASSUME AnswersAssumption ==
  /\ Contents \intersect Urls = {}
  /\ FirstSite \in [Urls -> Contents \union Urls \union {Down}]
  /\ \A u \in DOMAIN LaterAnswers :
       u \in Urls /\ LaterAnswers[u] \subseteq Contents \union Urls \union {Down}
  /\ None \notin (Requests \X Nat) \union Codes

VARIABLES
  site,      \* what each address answers: a text, another address or Down
  changes,
  work,      \* the coroutine of each request
  db,        \* committed documents
  stored     \* committed runs

vars == <<site, changes, work, db, stored>>

-----------------------------------------------------------------------------
(* One page *)

Permitted(u) == u \in Guarded
SameSite(u, host) == Host[u] = host
Fetched(u, v) == [url |-> u, final |-> v, content |-> site[v]]

\* Redirects are followed by hand, within the limit.
Trails(u) ==
  {t \in UNION {[1..n -> Urls] : n \in 1..MaxRedirects + 1} :
     t[1] = u /\ \A i \in 1..Len(t) - 1 : t[i + 1] = site[t[i]]}

\* Every hop passes the guard and the scope; the last one answers with a text.
Finals(u, host) ==
  {Last(t) : t \in {t \in Trails(u) :
     /\ \A i \in DOMAIN t : Permitted(t[i]) /\ SameSite(t[i], host)
     /\ site[Last(t)] \in Contents}}

Fetch(u, host) ==
  LET finals == Finals(u, host)
  IN IF finals = {} THEN None ELSE Fetched(u, CHOOSE v \in finals : TRUE)

Worthwhile(u) == Score[u] > 0

Leads(u, found) ==
  \A v \in found \ {u} : Category[v] = Category[u] => <<u, v>> \in Better

\* The best address of each category first, then the rest.
Ahead(found) ==
  {p \in found \X found : IF Leads(p[1], found) = Leads(p[2], found) THEN p \in Better
                          ELSE Leads(p[1], found)}

\* Where an address comes in an order of the addresses found.
Place(u, found, order) == Cardinality({v \in found : <<v, u>> \in order}) + 1

Ranked(links, host) ==
  LET found == {u \in links : SameSite(u, host) /\ Worthwhile(u)}
      order == Ahead(found)
      size == IF Cardinality(found) < MaxPages THEN Cardinality(found) ELSE MaxPages - 1
  IN [i \in 1..size |-> CHOOSE u \in found : Place(u, found, order) = i]

-----------------------------------------------------------------------------
(* The coroutine *)

Idle == [pc |-> "idle", company |-> Prospect, home |-> None, denied |-> {}, pages |-> <<>>,
         todo |-> <<>>, failed |-> 0, late |-> FALSE, tries |-> 0, claims |-> <<>>,
         status |-> "running", code |-> None, at |-> 0, held |-> {}, tx |-> <<>>, links |-> <<>>]

Goto(r, w) == work' = [work EXCEPT ![r] = w]
Local(r, w) == Goto(r, w) /\ UNCHANGED <<site, changes, db, stored>>

\* What is left to do is to store the result.
Result(w, status, code) ==
  [Idle EXCEPT !.pc = "store", !.company = w.company, !.pages = w.pages, !.failed = w.failed,
               !.claims = w.claims, !.at = 1, !.status = status, !.code = code]

Failing(w, code) == Result(w, "failed", code)

\* The request is resolved: a missing company or one without a website is
\* rejected; an address without a host ends the run before anything is read.
Start(r) ==
  /\ work[r].pc = "idle"
  /\ \E asked \in Asked :
       LET w == [work[r] EXCEPT !.company = asked[1], !.home = asked[2]] IN
       Local(r, IF w.company \notin Known \union {Prospect} THEN [w EXCEPT !.pc = "rejected"]
                ELSE IF Host[w.home] = NoHost THEN Failing(w, "invalid_url")
                ELSE [w EXCEPT !.pc = "robots"])

Denied(w, u) == u \in w.denied

\* An unreadable robots.txt denies nothing.
LoadRobots(r) ==
  /\ work[r].pc = "robots"
  /\ \E denied \in DenyLists :
       LET w == [work[r] EXCEPT !.denied = denied] IN
       Local(r, IF Denied(w, w.home) THEN Failing(w, "robots_denied")
                ELSE [w EXCEPT !.pc = "home"])

ReadHome(r) ==
  /\ work[r].pc = "home"
  /\ LET w == work[r]
         page == Fetch(w.home, Host[w.home])
     IN Local(r, IF page = None THEN Failing([w EXCEPT !.failed = 1], "unreachable")
                 ELSE [w EXCEPT !.pc = "pages", !.pages = <<page>>,
                                !.todo = Ranked(Links[page.content], Host[w.home])])

\* The page set is frozen: no more reads, the texts go to the extractor.
ReadNext(r) ==
  /\ work[r].pc = "pages"
  /\ LET w == work[r] IN
     IF w.todo = <<>> THEN Local(r, [w EXCEPT !.pc = "extract"])
     ELSE LET u == Head(w.todo)
              rest == [w EXCEPT !.todo = Tail(@)]
              page == Fetch(u, Host[w.home])
          IN Local(r, IF Denied(w, u) THEN rest
                      ELSE IF page = None THEN [rest EXCEPT !.failed = @ + 1]
                      ELSE [rest EXCEPT !.pages = Append(@, page)])

\* The clock is looked at before each page after the first.
OutOfTime(r) ==
  /\ work[r].pc = "pages" /\ work[r].todo # <<>>
  /\ Local(r, [work[r] EXCEPT !.todo = <<>>, !.late = TRUE, !.pc = "extract"])

-----------------------------------------------------------------------------
(* Extraction and validation *)

Sentences == UNION {Says[c] : c \in Contents}

\* `sound` stands for an allowed kind, a detail, a quote long enough and a
\* confidence within 0-1.
Proposals == [url : Urls, quote : Sentences, sound : BOOLEAN]

\* Pages are found by the address asked for and by the one that answered;
\* of two pages with one address the later counts.
PageOf(pages, u) ==
  LET named == {i \in DOMAIN pages : u \in {pages[i].url, pages[i].final}}
  IN IF named = {} THEN 0 ELSE CHOOSE i \in named : \A j \in named : j <= i

Verified(pages, p) ==
  /\ p.sound
  /\ PageOf(pages, p.url) # 0
  /\ p.quote \in Says[pages[PageOf(pages, p.url)].content]

Validated(pages, p) ==
  IF Verified(pages, p) THEN <<[page |-> PageOf(pages, p.url), quote |-> p.quote]>> ELSE <<>>

FailureCode(w) ==
  IF \A i \in DOMAIN w.pages : w.pages[i].content \in Thin THEN "needs_browser"
  ELSE IF w.late THEN "budget_exceeded" ELSE None

Completed(w, code) ==
  Result(w, IF code # None \/ w.failed > 0 THEN "partial" ELSE "completed", code)

\* One provider call: an answer that parses, a failure worth a second call
\* (429 or 5xx), or one that is final.  One proposal of an answer is followed.
Answered(r) ==
  /\ work[r].pc = "extract"
  /\ \E p \in Proposals :
       LET w == [work[r] EXCEPT !.claims = Validated(work[r].pages, p)]
       IN Local(r, Completed(w, FailureCode(w)))

MayRetry(w) == w.tries + 1 < MaxAttempts

Retry(r) ==
  /\ work[r].pc = "extract" /\ MayRetry(work[r])
  /\ Local(r, [work[r] EXCEPT !.tries = @ + 1])

GiveUp(r) ==
  /\ work[r].pc = "extract"
  /\ Local(r, Completed(work[r], "extraction_failed"))

-----------------------------------------------------------------------------
(* The transaction that stores the run and its documents *)

\* The rows the transaction sees: its own over the committed ones.
Over(rows, docs) ==
  [d \in DOMAIN rows \union DOMAIN docs |-> IF d \in DOMAIN rows THEN rows[d] ELSE docs[d]]
View(w) == Over(w.tx, db)

Page(w) == w.pages[w.at]
\* (a mistake: no lock for the text)
ScopesOfUrl(w) == {<<"url", w.company, Page(w).final>>}
\* The locks are taken in key order, and held until the transaction ends.
Scopes(w) == {<<"url", w.company, Page(w).final>>, <<"content", w.company, Page(w).content>>}
Needed(w) == IF w.pc = "store" /\ w.at \in DOMAIN w.pages /\ w.company # Prospect
                  /\ Page(w).content \notin Blank
             THEN {Key[s] : s \in Scopes(w)} \ w.held ELSE {}
NextKey(w) == CHOOSE k \in Needed(w) : \A other \in Needed(w) : k <= other

Lock(r) ==
  /\ Needed(work[r]) # {}
  /\ LET k == NextKey(work[r]) IN
     /\ \A other \in Requests \ {r} : k \notin work[other].held
     /\ Local(r, [work[r] EXCEPT !.held = @ \union {k}])

Status(content) == IF content \in Thin \union Flawed THEN "quarantined" ELSE "ready"

Current(docs, c) == {d \in DOMAIN docs : docs[d].company = c /\ docs[d].current}

\* The current document of the page's address, and the oldest current
\* document of another address with the same text and status.
CurrentAt(w) ==
  LET docs == View(w) IN {d \in Current(docs, w.company) : docs[d].url = Page(w).final}
ContentRoots(w) ==
  LET docs == View(w) IN
    {d \in Current(docs, w.company) :
       /\ docs[d].content = Page(w).content /\ docs[d].status = Status(Page(w).content)
       /\ docs[d].duplicateOf = None /\ docs[d].url # Page(w).final}

Superseded(doc) == [doc EXCEPT !.current = FALSE, !.status = "superseded"]

NewDocument(w, root) ==
  [company |-> w.company, url |-> Page(w).final, content |-> Page(w).content,
   status |-> Status(Page(w).content), current |-> TRUE, duplicateOf |-> root]

\* The rows written so far, with the document n of key, over the one it replaces.
Written(w, key, n) ==
  LET docs == View(w)
      gone == CurrentAt(w)
  IN [d \in {key} \union gone \union DOMAIN w.tx |->
        IF d = key THEN n ELSE IF d \in gone THEN Superseded(docs[d]) ELSE w.tx[d]]

Linked(w, d) == [w EXCEPT !.links = Append(@, d), !.at = @ + 1]

\* (a mistake: the document of an address is reused whatever it says)
SameTextAnyway(w, d) == TRUE
SameText(w, d) == View(w)[d].content = Page(w).content

\* A page without a company or without text leaves no document; the same
\* text at the same address is reused; a new text replaces the old one.
Ingest(r) ==
  /\ work[r].pc = "store" /\ work[r].at \in DOMAIN work[r].pages /\ Needed(work[r]) = {}
  /\ LET w == work[r] IN
     IF w.company = Prospect \/ Page(w).content \in Blank THEN Local(r, Linked(w, None))
     ELSE \/ \E d \in CurrentAt(w) : SameText(w, d) /\ Local(r, Linked(w, d))
          \/ /\ \A d \in CurrentAt(w) : ~SameText(w, d)
             /\ \E root \in IF ContentRoots(w) = {} THEN {None} ELSE ContentRoots(w) :
                  LET key == <<r, w.at>> IN
                    Local(r, Linked([w EXCEPT !.tx = Written(w, key, NewDocument(w, root))], key))

Run(w) == [company |-> w.company, status |-> w.status, code |-> w.code, pages |-> w.pages,
           failed |-> w.failed, claims |-> w.claims, links |-> w.links]

Commit(r) ==
  /\ work[r].pc = "store" /\ work[r].at > Len(work[r].pages)
  /\ LET w == work[r] IN
     /\ stored' = [s \in DOMAIN stored \union {r} |-> IF s = r THEN Run(w) ELSE stored[s]]
     /\ db' = View(w)
     /\ Goto(r, [Idle EXCEPT !.pc = "stored"])
  /\ UNCHANGED <<site, changes>>

Waits(r, s) == Needed(work[r]) # {} /\ NextKey(work[r]) \in work[s].held

Lost(r) == Local(r, [Idle EXCEPT !.pc = "lost"])

\* PostgreSQL ends one transaction of a cycle of waiters.
Deadlock(r) ==
  /\ \E S \in SUBSET Requests :
       r \in S /\ \A s \in S : \E other \in S \ {s} : Waits(s, other)
  /\ Lost(r)

\* The process dies, or the client is gone: nothing was stored yet.
Die(r) == work[r].pc \notin {"idle", "rejected", "stored", "lost"} /\ Lost(r)

-----------------------------------------------------------------------------
Change ==
  /\ changes < MaxChanges
  /\ \E u \in DOMAIN LaterAnswers : \E a \in LaterAnswers[u] \ {site[u]} :
       site' = [site EXCEPT ![u] = a]
  /\ changes' = changes + 1
  /\ UNCHANGED <<work, db, stored>>

Init ==
  /\ site = FirstSite /\ changes = 0
  /\ work = [r \in Requests |-> Idle]
  /\ db = <<>> /\ stored = <<>>

Step(r) ==
  \/ LoadRobots(r) \/ ReadHome(r) \/ ReadNext(r) \/ OutOfTime(r)
  \/ Answered(r) \/ Retry(r) \/ GiveUp(r)
  \/ Lock(r) \/ Ingest(r) \/ Commit(r) \/ Deadlock(r)

Next == Change \/ \E r \in Requests : Start(r) \/ Step(r) \/ Die(r)

Spec == Init /\ [][Next]_vars

-----------------------------------------------------------------------------
(* Properties *)

DocumentOK(d) ==
  /\ d.company \in Known /\ d.url \in Urls /\ d.content \in Contents \ Blank
  /\ d.duplicateOf \in DOMAIN db \union {None}
  /\ d.status \in {"ready", "quarantined", "superseded"} /\ (d.status = "superseded") = ~d.current

RunOK(run) ==
  /\ run.company \in Known \union {Prospect} /\ run.failed \in Nat
  /\ run.status \in {"completed", "partial", "failed"}
  /\ Len(run.links) = Len(run.pages)

TypeOK ==
  /\ site \in [Urls -> Contents \union Urls \union {Down}] /\ changes \in 0..MaxChanges
  /\ DOMAIN stored \subseteq Requests
  /\ \A d \in DOMAIN db : DocumentOK(db[d])
  /\ \A r \in DOMAIN stored : RunOK(stored[r])
  /\ \A r \in Requests : work[r].tries < MaxAttempts /\ Len(work[r].pages) <= MaxPages

\* However the transactions of several runs interleave, a text a company
\* currently shows has at most one document that is not a duplicate of
\* another, and an address has at most one current document.
OneRootPerText ==
  \A d, e \in DOMAIN db :
    (d # e /\ db[d].current /\ db[e].current /\ db[d].company = db[e].company) =>
      /\ db[d].url # db[e].url
      /\ (db[d].duplicateOf = None /\ db[e].duplicateOf = None) => db[d].content # db[e].content

\* What a stored claim quotes is on the page it cites, and when the company
\* is known the document linked to that page still holds it, whatever later
\* runs found at that address.
EvidenceIsKept ==
  \A r \in DOMAIN stored : LET run == stored[r] IN
    \A i \in DOMAIN run.claims : LET claim == run.claims[i] IN
      /\ claim.quote \in Says[run.pages[claim.page].content]
      /\ run.company # Prospect =>
           /\ run.links[claim.page] \in DOMAIN db
           /\ claim.quote \in Says[db[run.links[claim.page]].content]

\* A run that says it is complete read every page it chose in time, found
\* text on one at least, and got an answer of the extractor; a run that
\* failed stored no claim and no document.
CompletedIsWhole ==
  \A r \in DOMAIN stored : LET run == stored[r] IN
    /\ run.status = "completed" => /\ run.failed = 0 /\ run.code = None
                                   /\ \E i \in DOMAIN run.pages : run.pages[i].content \notin Thin
    /\ run.status = "failed" => run.pages = <<>> /\ run.claims = <<>> /\ run.code # None

\* The stored runs as a whole.
RunsAreSound == TypeOK /\ EvidenceIsKept /\ CompletedIsWhole

=============================================================================
