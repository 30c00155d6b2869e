------------------------------ MODULE MCIntake -------------------------------
(***************************************************************************)
(* What comes in: two clients that race to submit selections of companies; *)
(* two research requests on one site of two pages while it changes; two    *)
(* reviews of two runs, one of them bound to the company.  The parts share *)
(* no state: a behaviour is of one of them.                                *)
(***************************************************************************)
EXTENDS BatchSubmission, ResearchRuns, ResearchPromotion

CONSTANTS home, about, off, intro, goods, empty, s1, s2, h1, c1, c2

MCHost == home :> h1 @@ about :> h1 @@ off :> NoHost
MCSays == intro :> {s1} @@ goods :> {s2} @@ empty :> {}
MCLinks == intro :> {about, off} @@ goods :> {home, about} @@ empty :> {}
MCScore == home :> 1 @@ about :> 10 @@ off :> 4
MCBetter == {<<about, off>>, <<off, home>>, <<about, home>>}
MCCategory == home :> "about" @@ about :> "about" @@ off :> "contact"
MCDenyLists == {{}, {about}}

MCFirstSite == home :> intro @@ about :> goods @@ off :> empty
MCLaterAnswers == home :> {goods, Down} @@ about :> {empty, home, off}

\* a missing company, a prospect, an address without a host, and one company
\* under two addresses
MCAsked == {<<c2, home>>, <<Prospect, home>>, <<Prospect, off>>, <<c1, home>>, <<c1, about>>}

\* an order of the lock keys: hashes of company, kind and value
MCKey == [s \in ({"url", "content"} \X Companies \X (Urls \union Contents)) |->
           CASE s[3] = goods -> 1 [] s[3] = home -> 2 [] s[3] = intro -> 3
             [] s[3] = about -> 4 [] s[3] = off -> 5 [] OTHER -> 6]

CONSTANTS runA, runB

MCRunCompany == runA :> "none" @@ runB :> "f1"
\* the claims of the two runs share one text and one page
MCClaimText == <<runA, 1>> :> "t1" @@ <<runA, 2>> :> "t2" @@ <<runB, 1>> :> "t1"
MCClaimPage == <<runA, 1>> :> "p1" @@ <<runA, 2>> :> "p1" @@ <<runB, 1>> :> "p2"
MCDetail == "t2" :> "2" @@ "u2" :> "2"
MCClaims == runA :> {1, 2} @@ runB :> {1}
IntakeInit == SubmissionInit /\ Init /\ PromotionInit

IntakeNext ==
  \/ Init /\ PromotionInit /\ SubmissionNext /\ UNCHANGED <<vars, promotionVars>>
  \/ SubmissionInit /\ PromotionInit /\ Next /\ UNCHANGED <<submissionVars, promotionVars>>
  \/ SubmissionInit /\ Init /\ PromotionNext /\ UNCHANGED <<submissionVars, vars>>

IntakeSpec == IntakeInit /\ [][IntakeNext]_<<submissionVars, vars, promotionVars>>

\* Nothing tells the clients, the requests and the reviewers apart.
IntakeSymmetry ==
  Permutations(Clients) \union Permutations(Requests) \union Permutations(Reviewers)
=============================================================================
