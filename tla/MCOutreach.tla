------------------------------ MODULE MCOutreach ------------------------------
(***************************************************************************)
(* Two companies with three contacts: the first company's two share an     *)
(* address, the second one's has it as its worse choice.  Two files: a     *)
(* complaint by its row; the same complaint by address and time, with      *)
(* lines that are repeated, incomplete, inconsistent and ambiguous.        *)
(* And requests that analyse one prospect, with their drafts.  The two     *)
(* parts share no state: a behaviour is of one of them.                    *)
(***************************************************************************)
EXTENDS UmailFeedback, ProspectAnalysis, TLC

CONSTANTS k1, k2, v1, v2, r1, r2, p1

MCCompanyOf == <<1, 1, 2>>
MCRank == <<1, 0, 0>>
At(a, v) == [address |-> a, verification |-> v]
MCBook == <<{At(1, 0)}, {At(1, 1), At(2, 3)}, {At(2, 1), At(1, 2)}>>
MCDomainOf == <<"d", "e">>
MCTargets == {Email(1), Company(1)}

Line(row, email, event, at) ==
  [row |-> row, batch |-> 0, email |-> email, campaign |-> NoText, event |-> event,
   bounce |-> "hard", at |-> at, message |-> "m"]
MCLinesOf ==
  [complaint |-> <<Line(<<1, 1>>, None, "complained", 1)>>,
   mixed |-> <<Line(NoRow, 1, "complained", 1),
               [Line(NoRow, 2, "bounce", 1) EXCEPT !.batch = 1],
               [Line(NoRow, 2, "bounce", 1) EXCEPT !.batch = 1],
               Line(NoRow, None, "bounce", 1),
               [Line(<<1, 2>>, 1, "complained", 0) EXCEPT !.campaign = "a"],
               [Line(NoRow, 2, "opened", 1) EXCEPT !.campaign = "a"]>>]

Symmetry ==
  Permutations(Clients) \union Permutations(Reviewers) \union Permutations(Analyses)

\* What people, the routing and the clock do in one behaviour.
Disturbances ==
  Cardinality(Manual) + Cardinality((DOMAIN suppressions) \ ActiveEntries) + route.generation - 1
    + today + Cardinality({b \in DOMAIN exports : exports[b].downloaded})
Undisturbed == Disturbances <= 1

\* After the first request of a prospect, all are asked for everything and
\* are completed.
Smooth(a) ==
  /\ a.status \in {"none", "COMPLETED"}
  /\ a.stage # "idle" => a.contact /\ a.generate /\ a.sources + Cardinality(a.outcomes) <= 1
Bounded == sent <= 1 \/ \A r \in Analyses : Smooth(analysis[r])

\* A draft is approved while no more than two requests were sent.
Early == asked # {} => sent <= 2

OutreachInit == Init /\ AnalysisInit

OutreachNext ==
  \/ AnalysisInit /\ Next /\ UNCHANGED analysisVars
  \/ Init /\ AnalysisNext /\ UNCHANGED vars

OutreachSpec == OutreachInit /\ [][OutreachNext]_<<vars, analysisVars>>
=============================================================================
